SPECIFICATION FairSpec
CONSTANTS
    MaxTries = 2
    MaxSends = 1
INVARIANTS
    TypeOK
    ModesExclude
    FlagsTruthful
    Watched
    CrashCauses
PROPERTY DropNoticed
CHECK_DEADLOCK FALSE
