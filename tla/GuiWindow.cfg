SPECIFICATION Spec
CONSTANTS
    Users = {ann}
    Chosen = {own}
    Generated = {made}
    None = None
    Bad = Bad
    Words = {home, deep}
    Texts <- MCTexts
    Cut <- MCCut
    IntMax = 7
    SizeMax = 255
    MB = 2
    Numbers <- MCNumbers
    Megabytes <- MCMegabytes
    DefaultDir = home
    home = home
    deep = deep
    Absent = Absent
INVARIANTS
    FieldsFit
    ShownIsReal
    KnowsUser
    LockOutCauses
    FileKeepsConfig
PROPERTIES
    ApplyKeepsUntouched
