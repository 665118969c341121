------------------------------ MODULE AppLock ------------------------------
(***************************************************************************)
(* The lock of the graphical client: SecurityState and the windows of      *)
(* gui/src/security.cpp, the gate in draw_host_window and the App Lock     *)
(* menu of gui/src/main_gui.cpp.  Credentials are kept in local.enc, which *)
(* is encrypted with the password it stands for.                           *)
(***************************************************************************)
EXTENDS Naturals

CONSTANTS
    Users,      \* user names
    Chosen,     \* passwords a user makes up
    Generated,  \* passwords sec_generate_password may return
    None,       \* no file, or an empty field
    Bad         \* a local.enc that no password decrypts

Passwords == Chosen \cup Generated
Credentials == [user : Users, pass : Passwords]

ASSUME LockAssumption ==
    /\ None \notin Users \cup Passwords /\ Bad # None
    /\ \A u \in Users \cup {None}, p \in Passwords \cup {None} :
          [user |-> u, pass |-> p] \notin {None, Bad}

VARIABLES
    local_enc,        \* the file: None, Bad or its credentials
    enabled,          \* SecurityState::enabled
    authenticated,    \* SecurityState::authenticated
    show_wizard,      \* SecurityState::show_wizard
    wiz,              \* the fields of the wizard and its two flags
    stored_username,  \* SecurityState::stored_username
    mishaps           \* history: what went wrong and still matters

lockVars == <<local_enc, enabled, authenticated, show_wizard, wiz, stored_username, mishaps>>

Blank == [user |-> None, password |-> None, generated |-> None,
          use_generated |-> TRUE, done |-> FALSE, password_shown |-> FALSE]

\* SecurityState::SecurityState().
LockInit ==
    /\ local_enc \in Credentials \cup {None}
    /\ enabled = (local_enc # None)
    /\ authenticated = (local_enc = None)
    /\ show_wizard = (local_enc = None)
    /\ wiz = Blank
    /\ stored_username = None
    /\ mishaps = {}

\* The gate: what the next frame shows.
WizardShown == show_wizard /\ ~wiz.password_shown
LoginShown  == ~WizardShown /\ enabled /\ ~authenticated
MenusShown  == ~WizardShown /\ ~LoginShown

\* sec_verify_login: the file decrypts and names the user.
Verifies(u, p) == local_enc = [user |-> u, pass |-> p]

\* sec_write_file, once the file is open: nobody looks at what fwrite returns.
WriteFile(u, p) ==
    \/ /\ local_enc' = [user |-> u, pass |-> p]
       /\ mishaps' = mishaps \ {"short write", "self export"}
    \/ /\ local_enc' = Bad
       /\ mishaps' = mishaps \cup {"short write"}

-----------------------------------------------------------------------------
(* The setup wizard                                                        *)

EnterName(u) ==
    /\ WizardShown /\ ~wiz.done
    /\ wiz' = [wiz EXCEPT !.user = u]
    /\ UNCHANGED <<local_enc, enabled, authenticated, show_wizard, stored_username, mishaps>>

EnterPassword(p) ==
    /\ WizardShown /\ ~wiz.done /\ ~wiz.use_generated
    /\ wiz' = [wiz EXCEPT !.password = p]
    /\ UNCHANGED <<local_enc, enabled, authenticated, show_wizard, stored_username, mishaps>>

\* The radio buttons: each clears the password of the other mode.
ChooseMode_KeepsGenerated(generate) ==
    /\ WizardShown /\ ~wiz.done
    /\ wiz' = [wiz EXCEPT !.use_generated = generate,
                          !.password = IF generate THEN None ELSE @]
    /\ UNCHANGED <<local_enc, enabled, authenticated, show_wizard, stored_username, mishaps>>
ChooseMode(generate) ==
    /\ WizardShown /\ ~wiz.done
    /\ wiz' = [wiz EXCEPT !.use_generated = generate,
                          !.password  = IF generate THEN None ELSE @,
                          !.generated = IF generate THEN @ ELSE None]
    /\ UNCHANGED <<local_enc, enabled, authenticated, show_wizard, stored_username, mishaps>>

\* Create Account: local.enc is written, or cannot be opened and the wizard
\* stays.  The generated password is in its field either way.
CreateAccount(p) ==
    /\ WizardShown /\ ~wiz.done
    /\ wiz.user # None
    /\ IF wiz.use_generated THEN p \in Generated ELSE p = wiz.password /\ p # None
    /\ \E opened \in BOOLEAN :
        /\ wiz' = [wiz EXCEPT !.generated = IF wiz.use_generated THEN p ELSE @,
                              !.done = opened]
        /\ IF opened THEN WriteFile(wiz.user, p) ELSE UNCHANGED <<local_enc, mishaps>>
    /\ UNCHANGED <<enabled, authenticated, show_wizard, stored_username>>

\* I have saved my password -- Continue.
Continue_KeepsName ==
    /\ WizardShown /\ wiz.done
    /\ wiz' = [wiz EXCEPT !.password_shown = TRUE]
    /\ authenticated' = TRUE /\ enabled' = TRUE /\ show_wizard' = FALSE
    /\ UNCHANGED <<local_enc, stored_username, mishaps>>
Continue ==
    /\ WizardShown /\ wiz.done
    /\ wiz' = [wiz EXCEPT !.password_shown = TRUE]
    /\ authenticated' = TRUE /\ enabled' = TRUE /\ show_wizard' = FALSE
    /\ stored_username' = wiz.user
    /\ UNCHANGED <<local_enc, mishaps>>

\* Skip (disable security).
Skip ==
    /\ WizardShown /\ ~wiz.done
    /\ show_wizard' = FALSE /\ enabled' = FALSE /\ authenticated' = TRUE
    /\ UNCHANGED <<local_enc, wiz, stored_username, mishaps>>

-----------------------------------------------------------------------------
(* Login screen, App Lock menu and Security Settings window                *)

Unlock(u, p) ==
    /\ LoginShown
    /\ Verifies(u, p)
    /\ authenticated' = TRUE
    /\ stored_username' = u
    /\ UNCHANGED <<local_enc, enabled, show_wizard, wiz, mishaps>>

DisableLock ==
    /\ MenusShown /\ enabled
    /\ enabled' = FALSE
    /\ UNCHANGED <<local_enc, authenticated, show_wizard, wiz, stored_username, mishaps>>

LockNow ==
    /\ MenusShown /\ enabled
    /\ authenticated' = FALSE
    /\ UNCHANGED <<local_enc, enabled, show_wizard, wiz, stored_username, mishaps>>

\* The menu item asks for no file; the button of the window is there only with one.
EnableLock ==
    /\ MenusShown /\ ~enabled
    /\ enabled' = TRUE /\ authenticated' = FALSE
    /\ mishaps' = IF local_enc = None THEN mishaps \cup {"no file"} ELSE mishaps
    /\ UNCHANGED <<local_enc, show_wizard, wiz, stored_username>>

RunSetup ==
    /\ MenusShown /\ local_enc = None
    /\ show_wizard' = TRUE
    /\ UNCHANGED <<local_enc, enabled, authenticated, wiz, stored_username, mishaps>>

\* Update Password, when local.enc can be opened.
ChangePassword(old, new) ==
    /\ MenusShown
    /\ Verifies(stored_username, old)
    /\ WriteFile(stored_username, new)
    /\ UNCHANGED <<enabled, authenticated, show_wizard, wiz, stored_username>>

\* Export local.enc to local.enc: sec_copy_file empties it before it reads.
ExportOntoItself ==
    /\ MenusShown /\ local_enc # None
    /\ local_enc' = Bad
    /\ mishaps' = mishaps \cup {"self export"}
    /\ UNCHANGED <<enabled, authenticated, show_wizard, wiz, stored_username>>

\* Yes, Delete: whether remove() succeeded is not looked at.
Reset_KeepsLock ==
    /\ MenusShown /\ local_enc # None
    /\ \/ local_enc' = None /\ mishaps' = mishaps \ {"short write", "self export"}
       \/ local_enc' = local_enc /\ mishaps' = mishaps \cup {"undeleted"}
    /\ authenticated' = TRUE
    /\ stored_username' = None
    /\ UNCHANGED <<enabled, show_wizard, wiz>>
Reset ==
    /\ MenusShown /\ local_enc # None
    /\ \/ local_enc' = None /\ mishaps' = mishaps \ {"short write", "self export"}
       \/ local_enc' = local_enc /\ mishaps' = mishaps \cup {"undeleted"}
    /\ enabled' = FALSE /\ authenticated' = TRUE
    /\ stored_username' = None
    /\ UNCHANGED <<show_wizard, wiz>>

-----------------------------------------------------------------------------
\* The program ends, by its menu, its login screen or a crash, and starts again.
RelaunchLock ==
    /\ enabled' = (local_enc # None)
    /\ authenticated' = (local_enc = None)
    /\ show_wizard' = (local_enc = None)
    /\ wiz' = Blank
    /\ stored_username' = None
    /\ mishaps' = mishaps \ {"no file", "undeleted"}
    /\ UNCHANGED local_enc

Wizard ==
    \/ \E u \in Users : EnterName(u)
    \/ \E p \in Chosen : EnterPassword(p)
    \/ \E generate \in BOOLEAN : ChooseMode(generate)
    \/ \E p \in Passwords : CreateAccount(p)
    \/ Continue \/ Skip

LockStep ==
    \/ Wizard
    \/ \E u \in Users, p \in Passwords : Unlock(u, p)
    \/ DisableLock \/ LockNow \/ EnableLock \/ RunSetup \/ ExportOntoItself \/ Reset
    \/ \E old \in Passwords, new \in Chosen : ChangePassword(old, new)

-----------------------------------------------------------------------------
(* Properties                                                              *)

\* The lock's fields keep their types.
LockTypeOK ==
    /\ local_enc \in Credentials \cup {None, Bad}
    /\ enabled \in BOOLEAN /\ authenticated \in BOOLEAN /\ show_wizard \in BOOLEAN
    /\ wiz \in [user : Users \cup {None}, password : Chosen \cup {None},
                generated : Generated \cup {None}, use_generated : BOOLEAN,
                done : BOOLEAN, password_shown : BOOLEAN]
    /\ stored_username \in Users \cup {None}
    /\ mishaps \subseteq {"short write", "self export", "no file", "undeleted"}

\* The password on the page that shows it for the only time opens the lock, in
\* whatever order the modes were tried and the file could not be opened, unless
\* the file was cut short.
Displayed == IF wiz.generated # None THEN wiz.generated ELSE wiz.password
ShownIsReal ==
    WizardShown /\ wiz.done =>
        \/ Verifies(wiz.user, Displayed)
        \/ local_enc = Bad /\ "short write" \in mishaps

\* Who can reach the menus can change the password: the window knows the user
\* the file is for, unless the file outlived its deletion.
KnowsUser ==
    MenusShown /\ local_enc \in Credentials /\ "undeleted" \notin mishaps =>
        stored_username = local_enc.user

\* The login screen can be passed unless the lock was enabled without a file,
\* or the file was cut short or exported onto itself; of these the last two
\* survive the program.
LockOutCauses ==
    LoginShown =>
        \/ local_enc \in Credentials
        \/ local_enc = None /\ "no file" \in mishaps
        \/ local_enc = Bad /\ mishaps \cap {"short write", "self export"} # {}
=============================================================================
