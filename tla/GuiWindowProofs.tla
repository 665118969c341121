-------------------------- MODULE GuiWindowProofs --------------------------
(* Theorems about GuiWindow, for any users, passwords and widths.          *)
EXTENDS GuiWindow, TLAPS

-----------------------------------------------------------------------------
(* The invariant                                                           *)

\* The wizard asks for an account only where there is no file, is left after it
\* made one only by Continue, and shows no password of the mode not in use.
WizardInv ==
    /\ WizardShown /\ ~wiz.done => local_enc = None
    /\ wiz.done /\ ~wiz.password_shown => show_wizard
    /\ ~wiz.use_generated => wiz.generated = None

\* A file that nothing decrypts and a lock without a file have their causes.
CauseInv ==
    /\ local_enc = Bad => mishaps \cap {"short write", "self export"} # {}
    /\ enabled /\ local_enc = None => "no file" \in mishaps

LockInv == LockTypeOK /\ WizardInv /\ CauseInv /\ ShownIsReal /\ KnowsUser

\* A file written completely is the configuration it was written from.
SavedInv ==
    saved # NoFile => /\ saved \in [download_dir : Text, max_file_size : Size]
                      /\ conf = saved

\* What was not touched is the same in the form and in the configuration.
FormInv ==
    /\ "download_dir" \notin touched /\ Shows("download_dir", config.download_dir) =>
          form.download_dir = config.download_dir
    /\ "max_file_size" \notin touched /\ Shows("max_file_size", config.max_file_size) =>
          form.max_file_size = config.max_file_size \div MB

SettingsInv == SettingsTypeOK /\ SavedInv /\ FormInv

IInv == LockInv /\ SettingsInv

-----------------------------------------------------------------------------
(* The lock                                                                *)

\* What is written for a user and a password is neither a missing nor a bad file.
LEMMA CredentialsAre ==
  /\ None \notin Users \cup Passwords \cup Credentials /\ Bad \notin Credentials /\ Bad # None
  /\ \A u \in Users, p \in Passwords : [user |-> u, pass |-> p] \in Credentials
  /\ \A c \in Credentials : /\ c.user \in Users /\ c.pass \in Passwords
                            /\ c = [user |-> c.user, pass |-> c.pass]
  /\ \A u \in Users \cup {None}, p \in Passwords \cup {None} :
        [user |-> u, pass |-> p] # None /\ [user |-> u, pass |-> p] # Bad
<1>1. \A c \in Credentials : /\ c.user \in Users /\ c.pass \in Passwords
                             /\ c = [user |-> c.user, pass |-> c.pass]
  BY DEF Credentials
<1>2. \A u \in Users, p \in Passwords : [user |-> u, pass |-> p] \in Credentials
  BY DEF Credentials
<1>3. \A u \in Users \cup {None}, p \in Passwords \cup {None} :
        [user |-> u, pass |-> p] # None /\ [user |-> u, pass |-> p] # Bad
  BY LockAssumption
<1> QED
  BY <1>1, <1>2, <1>3, LockAssumption

LEMMA LockInitInv == LockInit => LockInv
<1> SUFFICES ASSUME LockInit PROVE LockInv
  OBVIOUS
<1>1. LockTypeOK
  BY DEF LockInit, LockTypeOK, Blank
<1>2. WizardInv /\ ShownIsReal
  BY DEF LockInit, WizardInv, ShownIsReal, WizardShown, Blank
<1>3. CauseInv
  BY CredentialsAre DEF LockInit, CauseInv
<1>4. KnowsUser
  BY CredentialsAre DEF LockInit, KnowsUser, MenusShown, LoginShown, WizardShown, Blank
<1> QED
  BY <1>1, <1>2, <1>3, <1>4 DEF LockInv

\* After sec_write_file the file has the credentials, or was cut short.
LEMMA WriteFileIs ==
  ASSUME NEW u \in Users, NEW p \in Passwords, WriteFile(u, p), LockTypeOK
  PROVE  /\ local_enc' \in Credentials \cup {Bad} /\ local_enc' # None
         /\ mishaps' \subseteq {"short write", "self export", "no file", "undeleted"}
         /\ "undeleted" \in mishaps' <=> "undeleted" \in mishaps
         /\ \/ local_enc' = [user |-> u, pass |-> p]
            \/ local_enc' = Bad /\ "short write" \in mishaps'
         /\ local_enc' = Bad => mishaps' \cap {"short write", "self export"} # {}
<1>1. [user |-> u, pass |-> p] \in Credentials /\ [user |-> u, pass |-> p] # Bad
  BY CredentialsAre
<1>2. CASE /\ local_enc' = [user |-> u, pass |-> p]
           /\ mishaps' = mishaps \ {"short write", "self export"}
  BY <1>1, <1>2, CredentialsAre DEF LockTypeOK
<1>3. CASE /\ local_enc' = Bad
           /\ mishaps' = mishaps \cup {"short write"}
  BY <1>3, CredentialsAre DEF LockTypeOK
<1> QED
  BY <1>2, <1>3 DEF WriteFile

LEMMA CreateAccountInv ==
  ASSUME LockInv, NEW p \in Passwords, CreateAccount(p)
  PROVE  LockInv'
<1> USE DEF LockInv
<1>1. PICK opened \in BOOLEAN :
        /\ wiz' = [wiz EXCEPT !.generated = IF wiz.use_generated THEN p ELSE @, !.done = opened]
        /\ IF opened THEN WriteFile(wiz.user, p) ELSE UNCHANGED <<local_enc, mishaps>>
  BY DEF CreateAccount
<1>2. /\ WizardShown /\ ~wiz.done /\ wiz.user \in Users
      /\ IF wiz.use_generated THEN p \in Generated ELSE p = wiz.password
      /\ UNCHANGED <<enabled, authenticated, show_wizard, stored_username>>
  BY DEF CreateAccount, LockTypeOK
<1>3. /\ wiz'.user = wiz.user /\ wiz'.done = opened /\ wiz'.password = wiz.password
      /\ wiz'.password_shown = wiz.password_shown /\ wiz'.use_generated = wiz.use_generated
      /\ wiz'.generated = IF wiz.use_generated THEN p ELSE wiz.generated
  BY <1>1 DEF LockTypeOK
<1>4. WizardShown'
  BY <1>2, <1>3 DEF WizardShown
<1>5. LockTypeOK'
  <2>1. local_enc' \in Credentials \cup {None, Bad}
        /\ mishaps' \subseteq {"short write", "self export", "no file", "undeleted"}
    BY <1>1, <1>2, WriteFileIs DEF LockTypeOK
  <2>2. wiz' \in [user : Users \cup {None}, password : Chosen \cup {None},
                  generated : Generated \cup {None}, use_generated : BOOLEAN,
                  done : BOOLEAN, password_shown : BOOLEAN]
    BY <1>1, <1>2 DEF LockTypeOK
  <2> QED
    BY <1>2, <2>1, <2>2 DEF LockTypeOK
<1>6. WizardInv'
  BY <1>1, <1>2, <1>3, <1>4 DEF WizardInv, WizardShown
<1>7. CauseInv'
  BY <1>1, <1>2, WriteFileIs DEF CauseInv
<1>8. ShownIsReal'
  <2> SUFFICES ASSUME opened PROVE ShownIsReal'
    BY <1>3 DEF ShownIsReal
  <2>1. Displayed' = p
    BY <1>2, <1>3, CredentialsAre DEF Displayed, WizardInv, Passwords
  <2>2. \/ local_enc' = [user |-> wiz.user, pass |-> p]
        \/ local_enc' = Bad /\ "short write" \in mishaps'
    BY <1>1, <1>2, WriteFileIs
  <2> QED
    BY <1>3, <2>1, <2>2 DEF ShownIsReal, Verifies
<1>9. KnowsUser'
  BY <1>4 DEF KnowsUser, MenusShown
<1> QED
  BY <1>5, <1>6, <1>7, <1>8, <1>9

LEMMA ContinueInv == LockInv /\ Continue => LockInv'
<1> SUFFICES ASSUME LockInv, Continue PROVE LockInv'
  OBVIOUS
<1> USE DEF LockInv
<1>1. /\ WizardShown /\ wiz.done /\ stored_username' = wiz.user /\ ~show_wizard' /\ enabled'
      /\ UNCHANGED <<local_enc, mishaps>>
      /\ wiz' = [wiz EXCEPT !.password_shown = TRUE]
      /\ wiz'.password_shown /\ wiz'.use_generated = wiz.use_generated
      /\ wiz'.generated = wiz.generated
  BY DEF Continue, LockTypeOK
<1>2. LockTypeOK'
  BY DEF Continue, LockTypeOK
<1>3. ~WizardShown'
  BY <1>1 DEF WizardShown
<1>4. WizardInv' /\ ShownIsReal'
  BY <1>1, <1>3 DEF WizardInv, ShownIsReal
<1>5. \/ local_enc = [user |-> wiz.user, pass |-> Displayed]
      \/ local_enc = Bad /\ "short write" \in mishaps
  BY <1>1 DEF ShownIsReal, Verifies
<1>6. local_enc # None
  <2>1. CASE local_enc = Bad
    BY <2>1, CredentialsAre
  <2>2. CASE local_enc = [user |-> wiz.user, pass |-> Displayed]
    <3>1. wiz.user \in Users \cup {None} /\ Displayed \in Passwords \cup {None}
      BY DEF LockTypeOK, Displayed, Passwords
    <3> QED
      BY <2>2, <3>1, CredentialsAre
  <2> QED
    BY <1>5, <2>1, <2>2
<1>7. CauseInv'
  BY <1>1, <1>6 DEF CauseInv
<1>8. local_enc \in Credentials => local_enc.user = wiz.user
  <2> SUFFICES ASSUME local_enc \in Credentials PROVE local_enc.user = wiz.user
    OBVIOUS
  <2>1. local_enc = [user |-> wiz.user, pass |-> Displayed]
    BY <1>5, CredentialsAre
  <2> QED
    BY <2>1
<1>9. KnowsUser'
  BY <1>1, <1>8 DEF KnowsUser
<1> QED
  BY <1>2, <1>4, <1>7, <1>9

LEMMA ChangePasswordInv ==
  ASSUME LockInv, NEW old \in Passwords, NEW new \in Chosen, ChangePassword(old, new)
  PROVE  LockInv'
<1> USE DEF LockInv
<1>1. /\ MenusShown /\ local_enc = [user |-> stored_username, pass |-> old]
      /\ WriteFile(stored_username, new)
      /\ UNCHANGED <<enabled, authenticated, show_wizard, wiz, stored_username>>
  BY DEF ChangePassword, Verifies
<1>2. stored_username \in Users /\ new \in Passwords
  <2>1. local_enc \in Credentials
    BY <1>1, CredentialsAre DEF LockTypeOK
  <2>2. local_enc.user = stored_username
    BY <1>1
  <2> QED
    BY <2>1, <2>2, CredentialsAre DEF Passwords
<1>3. LockTypeOK'
  BY <1>1, <1>2, WriteFileIs DEF LockTypeOK
<1>4. /\ WizardShown' <=> WizardShown
      /\ MenusShown' <=> MenusShown
      /\ ~WizardShown
  BY <1>1 DEF WizardShown, LoginShown, MenusShown
<1>5. WizardInv' /\ ShownIsReal'
  BY <1>1, <1>4 DEF WizardInv, ShownIsReal
<1>6. CauseInv'
  BY <1>1, <1>2, WriteFileIs DEF CauseInv
<1>7. KnowsUser'
  <2> SUFFICES ASSUME local_enc' \in Credentials PROVE local_enc'.user = stored_username'
    BY DEF KnowsUser
  <2>1. local_enc' = [user |-> stored_username, pass |-> new]
    BY <1>1, <1>2, WriteFileIs, CredentialsAre
  <2> QED
    BY <1>1, <2>1
<1> QED
  BY <1>3, <1>5, <1>6, <1>7

LEMMA LockStepInv == LockInv /\ LockStep => LockInv'
<1> SUFFICES ASSUME LockInv, LockStep PROVE LockInv'
  OBVIOUS
<1> USE LockAssumption
    DEF LockInv, LockTypeOK, WizardInv, CauseInv, ShownIsReal, KnowsUser,
        WizardShown, LoginShown, MenusShown, Passwords, Credentials, Displayed, Verifies
<1>1. ASSUME NEW u \in Users, EnterName(u) PROVE LockInv'
  BY <1>1 DEF EnterName
<1>2. ASSUME NEW p \in Chosen, EnterPassword(p) PROVE LockInv'
  BY <1>2 DEF EnterPassword
<1>3. ASSUME NEW generate \in BOOLEAN, ChooseMode(generate) PROVE LockInv'
  BY <1>3 DEF ChooseMode
<1>4. ASSUME NEW p \in Passwords, CreateAccount(p) PROVE LockInv'
  BY <1>4, CreateAccountInv
<1>5. CASE Continue
  BY <1>5, ContinueInv
<1>6. CASE Skip
  BY <1>6 DEF Skip
<1>7. ASSUME NEW u \in Users, NEW p \in Passwords, Unlock(u, p) PROVE LockInv'
  BY <1>7 DEF Unlock
<1>8. CASE DisableLock
  <2>1. /\ MenusShown /\ enabled /\ enabled' = FALSE
        /\ UNCHANGED <<local_enc, authenticated, show_wizard, wiz, stored_username, mishaps>>
    BY <1>8 DEF DisableLock
  <2>2. LockTypeOK' /\ CauseInv' /\ WizardInv'
    BY <2>1
  <2>3. ShownIsReal' /\ KnowsUser'
    BY <2>1
  <2> QED
    BY <2>2, <2>3
<1>9. CASE LockNow
  BY <1>9 DEF LockNow
<1>10. CASE EnableLock
  BY <1>10 DEF EnableLock
<1>11. CASE RunSetup
  BY <1>11 DEF RunSetup
<1>12. CASE ExportOntoItself
  BY <1>12 DEF ExportOntoItself
<1>13. CASE Reset
  BY <1>13 DEF Reset
<1>14. ASSUME NEW old \in Passwords, NEW new \in Chosen, ChangePassword(old, new) PROVE LockInv'
  BY <1>14, ChangePasswordInv
<1> QED
  BY <1>1, <1>2, <1>3, <1>4, <1>5, <1>6, <1>7, <1>8, <1>9, <1>10, <1>11, <1>12, <1>13, <1>14
  DEF LockStep, Wizard

LEMMA RelaunchLockInv == LockInv /\ RelaunchLock => LockInv'
<1> SUFFICES ASSUME LockInv, RelaunchLock PROVE LockInv'
  OBVIOUS
<1>1. LockTypeOK'
  BY DEF LockInv, RelaunchLock, LockTypeOK, Blank
<1>2. WizardInv' /\ ShownIsReal'
  BY DEF RelaunchLock, WizardInv, ShownIsReal, WizardShown, Blank
<1>3. CauseInv'
  BY CredentialsAre DEF LockInv, RelaunchLock, CauseInv
<1>4. KnowsUser'
  BY CredentialsAre DEF RelaunchLock, KnowsUser, MenusShown, LoginShown, WizardShown, Blank
<1> QED
  BY <1>1, <1>2, <1>3, <1>4 DEF LockInv

-----------------------------------------------------------------------------
(* The settings                                                            *)

\* The conversions stay within their types and keep what fits.
LEMMA Conversions ==
  /\ \A n \in Int : ToSize(n) \in Size
  /\ \A n \in Int : ToInt(n) \in Ints
  /\ \A n \in Size : ToSize(n) = n
  /\ \A n \in Int : ParseInt(n, 0) \in Ints
  /\ \A n \in Int : n \in Ints => ParseInt(n, 0) = n
  /\ \A n \in Size : n \div MB \in Int
  /\ \A t \in Text : Cut[t] \in Text /\ Fits(Cut[t])
<1>1. \A n \in Int : ToSize(n) \in Size
  BY SettingsAssumption DEF ToSize, Size
<1>2. \A n \in Int : ToInt(n) \in Ints
  <2> SUFFICES ASSUME NEW n \in Int PROVE ToInt(n) \in Ints
    OBVIOUS
  <2> DEFINE m == 2 * (IntMax + 1)
  <2>1. m \in Nat \ {0} /\ IntMax \in Nat
    BY SettingsAssumption
  <2>2. (n + IntMax + 1) % m \in 0 .. m - 1
    <3> HIDE DEF m
    <3> QED
      BY <2>1
  <2> QED
    BY <2>1, <2>2 DEF ToInt, Ints
<1>3. \A n \in Size : ToSize(n) = n
  BY SettingsAssumption DEF ToSize, Size
<1>4. \A n \in Int : /\ ParseInt(n, 0) \in Ints
                     /\ n \in Ints => ParseInt(n, 0) = n
  BY SettingsAssumption DEF ParseInt, Ints
<1>5. \A n \in Size : n \div MB \in Int
  BY SettingsAssumption DEF Size
<1>6. \A t \in Text : Cut[t] \in Text /\ Fits(Cut[t])
  BY SettingsAssumption DEF Text, Fits
<1> QED
  BY <1>1, <1>2, <1>3, <1>4, <1>5, <1>6

\* load() and the two copies between g_config and the form keep the types.
LEMMA CopiesTyped ==
  ASSUME SettingsTypeOK
  PROVE  /\ \A c \in [download_dir : Text, max_file_size : Size] :
              /\ Loaded(c) \in [download_dir : Text, max_file_size : Size]
              /\ Filled(c) \in [download_dir : Text, max_file_size : Ints]
              /\ Fits(Filled(c).download_dir)
              /\ Applied(c) \in [download_dir : Text, max_file_size : Size]
         /\ Default \in [download_dir : Text, max_file_size : Size]
         /\ NoFile \in [download_dir : Text \cup {Absent}, max_file_size : Int \cup {Absent}]
<1> USE SettingsAssumption
<1>1. ASSUME NEW c \in [download_dir : Text, max_file_size : Size]
      PROVE  Loaded(c) \in [download_dir : Text, max_file_size : Size]
  <2>1. conf.download_dir # Absent => Stripped(conf.download_dir) \in Text
    BY DEF SettingsTypeOK, Stripped, Text
  <2>2. conf.max_file_size # Absent => ToSize(ParseInt(conf.max_file_size, 0)) \in Size
    BY Conversions DEF SettingsTypeOK, Ints
  <2> QED
    BY <2>1, <2>2 DEF Loaded
<1>2. ASSUME NEW c \in [download_dir : Text, max_file_size : Size]
      PROVE  /\ Filled(c) \in [download_dir : Text, max_file_size : Ints]
             /\ Fits(Filled(c).download_dir)
  BY Conversions DEF Filled
<1>3. ASSUME NEW c \in [download_dir : Text, max_file_size : Size]
      PROVE  Applied(c) \in [download_dir : Text, max_file_size : Size]
  <2>1. form.download_dir \in Text /\ form.max_file_size \in Int
    BY DEF SettingsTypeOK, Ints
  <2>2. ToSize(form.max_file_size) * MB \in Int
    BY <2>1, Conversions DEF Size
  <2> QED
    BY <2>1, <2>2, Conversions DEF Applied
<1>4. Default \in [download_dir : Text, max_file_size : Size]
  BY DEF Default, Text, Size
<1>5. NoFile \in [download_dir : Text \cup {Absent}, max_file_size : Int \cup {Absent}]
  BY DEF NoFile, Fields
<1> QED
  BY <1>1, <1>2, <1>3, <1>4, <1>5

\* Megabytes and bytes: what the form can show goes through it unchanged.
LEMMA ThroughForm ==
  ASSUME NEW v \in Size, Shows("max_file_size", v)
  PROVE  /\ ToInt(v \div MB) = v \div MB /\ v \div MB >= 0
         /\ ToSize(ToSize(v \div MB) * MB) = v
<1> DEFINE q == v \div MB
<1>0. MB \in Nat \ {0} /\ IntMax \in Nat /\ SizeMax \in Nat /\ v \in Nat /\ v <= SizeMax
  BY SettingsAssumption DEF Size
<1>1. q \in Nat /\ q <= IntMax /\ v = q * MB
  BY <1>0 DEF Shows
<1> HIDE DEF q
<1>2. q <= SizeMax
  <2>1. q * 1 <= q * MB
    BY <1>0, <1>1
  <2> QED
    BY <1>0, <1>1, <2>1
<1>3. ToInt(q) = q
  <2>1. (q + IntMax + 1) % (2 * (IntMax + 1)) = q + IntMax + 1
    BY <1>0, <1>1
  <2> QED
    BY <1>0, <1>1, <2>1 DEF ToInt
<1>4. ToSize(q) = q
  BY <1>0, <1>1, <1>2 DEF ToSize
<1>5. ToSize(v) = v
  BY <1>0 DEF ToSize
<1> QED
  BY <1>1, <1>3, <1>4, <1>5 DEF q

\* And back: a limit made from the form is shown as what the form has, and one
\* made from a negative number of megabytes is too large to show.
LEMMA BackToForm ==
  ASSUME NEW n \in Ints, Shows("max_file_size", ToSize(ToSize(n) * MB))
  PROVE  n >= 0 /\ n = ToSize(ToSize(n) * MB) \div MB
<1> DEFINE s == SizeMax + 1
           w == ToSize(ToSize(n) * MB)
<1>0. /\ MB \in Nat \ {0} /\ IntMax \in Nat /\ n \in Int /\ n <= IntMax /\ n >= -IntMax - 1
      /\ s \in Nat \ {0} /\ s > 2 * ((IntMax + 1) * MB)
  BY SettingsAssumption DEF Ints
<1>1. /\ ToSize(n) = n % s
      /\ w = (ToSize(n) * MB) % s
      /\ w \div MB <= IntMax
  BY DEF ToSize, Shows
<1> HIDE DEF s, w
<1>2. (IntMax + 1) * MB >= IntMax + 1
  BY <1>0
<1>3. CASE n >= 0
  <2>1. n * MB <= (IntMax + 1) * MB
    BY <1>0, <1>3
  <2>2. n * MB \in Nat /\ n * MB < s
    BY <1>0, <1>3, <2>1
  <2>3. n < s
    BY <1>0, <1>2, <1>3
  <2>4. w = n * MB
    BY <1>0, <1>1, <1>3, <2>2, <2>3
  <2> QED
    BY <1>0, <1>3, <2>4 DEF w
<1>4. CASE n < 0
  <2> DEFINE k == -n
  <2>1. k \in Nat \ {0} /\ k <= IntMax + 1 /\ n = -k
    BY <1>0, <1>4
  <2> HIDE DEF k
  <2>2. k < s
    BY <1>0, <1>2, <2>1
  <2>3. ToSize(n) = s - k
    BY <1>0, <1>1, <2>1, <2>2
  <2>4. k * MB \in Nat \ {0} /\ k * MB <= (IntMax + 1) * MB /\ k * MB < s
    BY <1>0, <2>1
  <2>5. (s - k) * MB = (MB - 1) * s + (s - k * MB)
    BY <1>0, <2>1
  <2>6. w = s - k * MB
    <3> DEFINE d == s - k * MB
    <3>1. d \in Nat /\ d < s
      BY <1>0, <2>4
    <3>2. MB - 1 \in Int
      BY <1>0
    <3> HIDE DEF d
    <3>3. ((MB - 1) * s + d) % s = d
      BY <1>0, <3>1, <3>2
    <3> QED
      BY <1>1, <2>3, <2>5, <3>3 DEF d
  <2>7. w > (IntMax + 1) * MB
    BY <1>0, <2>4, <2>6
  <2>8. w \div MB >= IntMax + 1
    BY <1>0, <2>4, <2>6, <2>7
  <2> QED
    BY <1>0, <1>1, <2>4, <2>6, <2>8
<1> QED
  BY <1>0, <1>3, <1>4

LEMMA FilledAgrees ==
  ASSUME NEW c \in [download_dir : Text, max_file_size : Size]
  PROVE  /\ Shows("download_dir", c.download_dir) => Filled(c).download_dir = c.download_dir
         /\ Shows("max_file_size", c.max_file_size) =>
               Filled(c).max_file_size = c.max_file_size \div MB
<1>1. c.max_file_size \in Size
  OBVIOUS
<1> QED
  BY <1>1, ThroughForm DEF Filled, Shows, Fits

LEMMA AppliedAgrees ==
  ASSUME SettingsTypeOK, NEW c
  PROVE  /\ Applied(c).download_dir = form.download_dir
         /\ Shows("max_file_size", Applied(c).max_file_size) =>
               form.max_file_size = Applied(c).max_file_size \div MB
<1>1. form.max_file_size \in Ints
  BY DEF SettingsTypeOK
<1> QED
  BY <1>1, BackToForm DEF Applied

LEMMA SettingsInitInv == SettingsInit => SettingsInv
<1> SUFFICES ASSUME SettingsInit PROVE SettingsInv
  OBVIOUS
<1> USE SettingsAssumption
<1>1. conf \in [download_dir : Text \cup {Absent}, max_file_size : Int \cup {Absent}]
  BY SettingsAssumption DEF SettingsInit, Text
<1>2. Default \in [download_dir : Text, max_file_size : Size]
  BY DEF Default, Text, Size
<1>3. config \in [download_dir : Text, max_file_size : Size]
  <2>1. conf.download_dir # Absent => Stripped(conf.download_dir) \in Text
    BY <1>1 DEF Stripped, Text
  <2>2. conf.max_file_size # Absent => ToSize(ParseInt(conf.max_file_size, 0)) \in Size
    BY <1>1, Conversions DEF Ints
  <2> QED
    BY <1>2, <2>1, <2>2 DEF SettingsInit, Loaded
<1>4. form \in [download_dir : Text, max_file_size : Ints] /\ Fits(form.download_dir)
  BY <1>3, Conversions DEF SettingsInit, Filled
<1>5. saved = NoFile
      /\ NoFile \in [download_dir : Text \cup {Absent}, max_file_size : Size \cup {Absent}]
  BY DEF SettingsInit, NoFile, Fields
<1>6. FormInv
  BY <1>3, FilledAgrees DEF SettingsInit, FormInv
<1> QED
  BY <1>1, <1>3, <1>4, <1>5, <1>6 DEF SettingsInit, SettingsInv, SettingsTypeOK, SavedInv

\* save() leaves the file and its history in step.
LEMMA SaveFileIs ==
  ASSUME NEW c \in [download_dir : Text, max_file_size : Size], SaveFile(c)
  PROVE  /\ conf' \in [download_dir : Text \cup {Absent}, max_file_size : Int \cup {Absent}]
         /\ saved' \in [download_dir : Text \cup {Absent}, max_file_size : Size \cup {Absent}]
         /\ SavedInv'
<1>1. CASE conf' = c /\ saved' = c
  <2>1. /\ c \in [download_dir : Text \cup {Absent}, max_file_size : Int \cup {Absent}]
        /\ c \in [download_dir : Text \cup {Absent}, max_file_size : Size \cup {Absent}]
    BY DEF Size
  <2> QED
    BY <1>1, <2>1 DEF SavedInv
<1>2. CASE /\ \E keys \in {{}, {"download_dir"}} :
                conf' = [f \in Fields |-> IF f \in keys THEN c[f] ELSE Absent]
           /\ saved' = NoFile
  <2>1. NoFile \in [download_dir : Text \cup {Absent}, max_file_size : Size \cup {Absent}]
    BY DEF NoFile, Fields
  <2>2. PICK keys \in {{}, {"download_dir"}} :
           conf' = [f \in Fields |-> IF f \in keys THEN c[f] ELSE Absent]
    BY <1>2
  <2>3. (IF "download_dir" \in keys THEN c.download_dir ELSE Absent) \in Text \cup {Absent}
    OBVIOUS
  <2>4. conf' = [download_dir  |-> IF "download_dir" \in keys THEN c.download_dir ELSE Absent,
                 max_file_size |-> Absent]
    BY <2>2 DEF Fields
  <2> QED
    BY <1>2, <2>1, <2>3, <2>4 DEF SavedInv
<1> QED
  BY <1>1, <1>2 DEF SaveFile

LEMMA SettingsStepInv ==
  SettingsInv /\ (SettingsStep \/ Reconnect \/ RelaunchSettings) => SettingsInv'
<1> SUFFICES ASSUME SettingsInv, SettingsStep \/ Reconnect \/ RelaunchSettings
             PROVE  SettingsInv'
  OBVIOUS
<1> USE SettingsAssumption DEF SettingsInv
<1>0. /\ config \in [download_dir : Text, max_file_size : Size]
      /\ form \in [download_dir : Text, max_file_size : Ints]
      /\ Fits(form.download_dir) /\ touched \subseteq Fields
  BY DEF SettingsTypeOK
<1>t. Texts \subseteq Text
  BY DEF Text
<1>1. ASSUME NEW t \in Texts, EditDir(t) PROVE SettingsInv'
  BY <1>0, <1>t, <1>1 DEF EditDir, SettingsTypeOK, SavedInv, FormInv, Fields
<1>2. ASSUME NEW t \in Texts, SetDir(t) PROVE SettingsInv'
  BY <1>0, <1>t, <1>2 DEF SetDir, SettingsTypeOK, SavedInv, FormInv, Fields
<1>3. ASSUME NEW n \in Megabytes, EditLimit(n) PROVE SettingsInv'
  <2>1. n \in Ints
    BY DEF Ints
  <2> QED
    BY <1>0, <1>3, <2>1 DEF EditLimit, SettingsTypeOK, SavedInv, FormInv, Fields
<1>4. ASSUME NEW n \in Numbers, SetLimit(n) PROVE SettingsInv'
  <2>1. ToSize(ParseInt(n, 0)) \in Size
    BY Conversions DEF Ints
  <2> QED
    BY <1>0, <1>4, <2>1 DEF SetLimit, SettingsTypeOK, SavedInv, FormInv, Fields
<1>5. CASE DrawSettings
  <2>1. 0 \in Ints
    BY DEF Ints
  <2>2. Shows("max_file_size", config.max_file_size) => config.max_file_size \div MB >= 0
    BY <1>0, ThroughForm
  <2>3. /\ form' = [form EXCEPT !.max_file_size = 0]
        /\ UNCHANGED <<config, conf, retry, saved, touched>>
        /\ form.max_file_size < 0 /\ form.max_file_size \in Int
    BY <1>0, <1>5 DEF DrawSettings, Ints
  <2>4. form' \in [download_dir : Text, max_file_size : Ints] /\ form'.download_dir = form.download_dir
    BY <1>0, <2>1, <2>3
  <2>5. SettingsTypeOK'
    BY <2>3, <2>4 DEF SettingsTypeOK
  <2>6. SavedInv'
    BY <2>3 DEF SavedInv
  <2>7. config.max_file_size \div MB \in Int
    BY <1>0, Conversions
  <2>8. ~("max_file_size" \notin touched /\ Shows("max_file_size", config.max_file_size))
    BY <2>2, <2>3, <2>7 DEF FormInv
  <2>9. Shows("max_file_size", config.max_file_size)' = Shows("max_file_size", config.max_file_size)
    BY <2>3 DEF Shows
  <2>10. FormInv'
    BY <2>3, <2>4, <2>8, <2>9 DEF FormInv
  <2> QED
    BY <2>5, <2>6, <2>10
<1>6. CASE Apply
  BY <1>0, <1>6, CopiesTyped, AppliedAgrees DEF Apply, SettingsTypeOK, SavedInv, FormInv
<1>7. CASE StartSession
  BY <1>0, <1>7, CopiesTyped, AppliedAgrees DEF StartSession, SettingsTypeOK, SavedInv, FormInv
<1>8. CASE SaveConfig
  BY <1>0, <1>8, SaveFileIs DEF SaveConfig, SettingsTypeOK, FormInv
<1>9. CASE SaveSettings
  <2>1. Applied(config) \in [download_dir : Text, max_file_size : Size]
    BY <1>0, CopiesTyped
  <2> QED
    BY <1>0, <1>9, <2>1, SaveFileIs, AppliedAgrees DEF SaveSettings, SettingsTypeOK, FormInv
<1>10. CASE LoadSettings
  <2>1. Loaded(config) \in [download_dir : Text, max_file_size : Size]
    BY <1>0, CopiesTyped
  <2>2. /\ Filled(Loaded(config)) \in [download_dir : Text, max_file_size : Ints]
        /\ Fits(Filled(Loaded(config)).download_dir)
    BY <2>1, CopiesTyped
  <2> QED
    BY <1>10, <2>1, <2>2, FilledAgrees DEF LoadSettings, SettingsTypeOK, SavedInv, FormInv
<1>11. CASE RelaunchSettings
  <2>1. Loaded(Default) \in [download_dir : Text, max_file_size : Size]
    BY CopiesTyped
  <2>2. /\ Filled(Loaded(Default)) \in [download_dir : Text, max_file_size : Ints]
        /\ Fits(Filled(Loaded(Default)).download_dir)
    BY <2>1, CopiesTyped
  <2> QED
    BY <1>11, <2>1, <2>2, FilledAgrees DEF RelaunchSettings, SettingsTypeOK, SavedInv, FormInv
<1> QED
  BY <1>1, <1>2, <1>3, <1>4, <1>5, <1>6, <1>7, <1>8, <1>9, <1>10, <1>11
  DEF SettingsStep, Edit, Reconnect

-----------------------------------------------------------------------------
(* Theorems                                                                *)

LEMMA Inductive == Spec => []IInv
<1>1. Init => IInv
  BY LockInitInv, SettingsInitInv DEF Init, IInv
<1>2. IInv /\ [Next]_vars => IInv'
  <2> SUFFICES ASSUME IInv, [Next]_vars PROVE IInv'
    OBVIOUS
  <2>1. ASSUME UNCHANGED lockVars PROVE LockInv'
    <3>1. LockTypeOK'
      BY <2>1 DEF IInv, lockVars, LockInv, LockTypeOK
    <3>2. WizardInv'
      BY <2>1 DEF IInv, lockVars, LockInv, WizardInv, WizardShown
    <3>3. CauseInv'
      BY <2>1 DEF IInv, lockVars, LockInv, CauseInv
    <3>4. ShownIsReal'
      BY <2>1 DEF IInv, lockVars, LockInv, ShownIsReal, WizardShown, Displayed, Verifies
    <3>5. KnowsUser'
      BY <2>1 DEF IInv, lockVars, LockInv, KnowsUser, WizardShown, LoginShown, MenusShown
    <3> QED
      BY <3>1, <3>2, <3>3, <3>4, <3>5 DEF LockInv
  <2>2. ASSUME UNCHANGED settingsVars PROVE SettingsInv'
    BY <2>2 DEF IInv, settingsVars, SettingsInv, SettingsTypeOK, SavedInv, FormInv
  <2>3. CASE LockStep /\ UNCHANGED settingsVars
    BY <2>2, <2>3, LockStepInv DEF IInv
  <2>4. CASE (SettingsStep \/ Reconnect) /\ UNCHANGED lockVars
    BY <2>1, <2>4, SettingsStepInv DEF IInv
  <2>5. CASE Relaunch
    BY <2>5, RelaunchLockInv, SettingsStepInv DEF IInv, Relaunch
  <2>6. CASE UNCHANGED vars
    BY <2>1, <2>2, <2>6 DEF vars, IInv
  <2> QED
    BY <2>3, <2>4, <2>5, <2>6 DEF Next
<1> QED
  BY <1>1, <1>2, PTL DEF Spec

\* Lock and settings keep their types: no conversion between int and size_t
\* leaves its type and no text overruns its buffer, for any widths with room for
\* the form's megabytes and any lengths of buffers and texts.  (app.cpp:178-199)
THEOREM TypeCorrect == Spec => []FieldsFit
<1>1. IInv => FieldsFit
  BY DEF IInv, LockInv, SettingsInv, FieldsFit
<1> QED
  BY <1>1, Inductive, PTL

\* The password the wizard shows for the only time opens the lock.
THEOREM PasswordShownWorks == Spec => []ShownIsReal
<1>1. IInv => ShownIsReal
  BY DEF IInv, LockInv
<1> QED
  BY <1>1, Inductive, PTL

\* Who can reach the menus can change the password.
THEOREM MenusKnowUser == Spec => []KnowsUser
<1>1. IInv => KnowsUser
  BY DEF IInv, LockInv
<1> QED
  BY <1>1, Inductive, PTL

\* Only the three named causes lock the user out.
THEOREM LockOuts == Spec => []LockOutCauses
<1>1. IInv => LockOutCauses
  BY DEF IInv, LockInv, LockTypeOK, CauseInv, LockOutCauses, LoginShown
<1> QED
  BY <1>1, Inductive, PTL

\* A completely written file gives back what it was written from.
THEOREM FileKeeps == Spec => []FileKeepsConfig
<1>1. IInv => FileKeepsConfig
  <2> SUFFICES ASSUME IInv, saved # NoFile
               PROVE  \A f \in Fields : Plain(f, saved[f]) => Loaded(Default)[f] = saved[f]
    BY DEF FileKeepsConfig
  <2>1. conf = saved /\ saved \in [download_dir : Text, max_file_size : Size]
    BY DEF IInv, SettingsInv, SavedInv
  <2>2. saved.download_dir \in Text /\ saved.max_file_size \in Size
    BY <2>1
  <2>3. Absent \notin Text /\ Absent \notin Size
    BY SettingsAssumption DEF Text, Size
  <2>4. Plain("download_dir", saved.download_dir) =>
           Loaded(Default).download_dir = saved.download_dir
    <3> SUFFICES ASSUME ~saved.download_dir.extra
                 PROVE  Stripped(saved.download_dir) = saved.download_dir
      BY <2>1, <2>2, <2>3 DEF Plain, Loaded
    <3> QED
      BY <2>2 DEF Stripped, Text
  <2>5. Plain("max_file_size", saved.max_file_size) =>
           Loaded(Default).max_file_size = saved.max_file_size
    <3> SUFFICES ASSUME saved.max_file_size <= IntMax
                 PROVE  ToSize(ParseInt(saved.max_file_size, 0)) = saved.max_file_size
      BY <2>1, <2>2, <2>3 DEF Plain, Loaded
    <3>1. saved.max_file_size \in Int /\ saved.max_file_size \in Ints
      BY <2>2, SettingsAssumption DEF Size, Ints
    <3> QED
      BY <2>2, <3>1, Conversions
  <2> QED
    BY <2>4, <2>5 DEF Fields
<1> QED
  BY <1>1, Inductive, PTL

\* Applying the settings, by hand or by a session that starts or reconnects,
\* changes none the user did not touch, if the form can show it: a text that fits
\* its buffer, whole megabytes that an int counts.  (app.cpp:153-199)
THEOREM ApplyKeeps == Spec => ApplyKeepsUntouched
<1>1. IInv /\ [Next]_vars =>
        [Apply \/ StartSession \/ SaveSettings =>
           \A f \in Fields \ touched : Shows(f, config[f]) => config'[f] = config[f]]_settingsVars
  <2> SUFFICES ASSUME IInv, Apply \/ StartSession \/ SaveSettings,
                      NEW f \in Fields \ touched, Shows(f, config[f])
               PROVE  config'[f] = config[f]
    OBVIOUS
  <2>1. config' = Applied(config)
    BY DEF Apply, StartSession, SaveSettings
  <2>2. FormInv /\ config.max_file_size \in Size
    BY DEF IInv, SettingsInv, SettingsTypeOK
  <2>3. CASE f = "download_dir"
    BY <2>1, <2>2, <2>3 DEF FormInv, Applied
  <2>4. CASE f = "max_file_size"
    <3>1. form.max_file_size = config.max_file_size \div MB
      BY <2>2, <2>4 DEF FormInv
    <3>2. ToSize(ToSize(config.max_file_size \div MB) * MB) = config.max_file_size
      BY <2>2, <2>4, ThroughForm
    <3> QED
      BY <2>1, <2>4, <3>1, <3>2 DEF Applied
  <2> QED
    BY <2>3, <2>4 DEF Fields
<1> QED
  BY <1>1, Inductive, PTL DEF Spec, ApplyKeepsUntouched
=============================================================================
