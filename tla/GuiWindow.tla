----------------------------- MODULE GuiWindow -----------------------------
(***************************************************************************)
(* The window of the graphical client: the lock and the settings, drawn    *)
(* by one thread.  draw_host_window returns before it draws the menus and  *)
(* windows while the wizard or the login screen is up; a reconnect loop    *)
(* runs on regardless.  A start of the program starts both.                *)
(***************************************************************************)
EXTENDS AppLock, Settings

vars == <<lockVars, settingsVars>>

Init == LockInit /\ SettingsInit

Relaunch == RelaunchLock /\ RelaunchSettings

Next ==
    \/ LockStep /\ UNCHANGED settingsVars
    \/ MenusShown /\ SettingsStep /\ UNCHANGED lockVars
    \/ Reconnect /\ UNCHANGED lockVars
    \/ Relaunch

Spec == Init /\ [][Next]_vars

\* Lock and settings keep their types: no limit leaves the width of its C++ type on
\* its way between int and size_t, and no text overruns the buffer of the form.
\* (app.cpp:178-199)
FieldsFit == LockTypeOK /\ SettingsTypeOK
=============================================================================
