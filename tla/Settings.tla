------------------------------ MODULE Settings ------------------------------
(***************************************************************************)
(* The configuration (config.cpp) and the settings window of the graphical *)
(* client that edits it: g_config, the fields of AppState that the widgets *)
(* write, and safesocket.conf.  Two of the settings are modelled: a text,  *)
(* download_dir, and a number, max_file_size.  The others of the settings  *)
(* window are copied where these two are.  Left out are the settings that  *)
(* do_connect and do_start_server alone copy, among them some that do not  *)
(* keep to the pattern: port and host, for each of which two fields share  *)
(* one setting, and the access key, which is emptied when none is required.*)
(***************************************************************************)
EXTENDS Integers

CONSTANTS
    Words,      \* what texts say
    Texts,      \* texts typed, given to /set download_dir or found in a file
    Cut,        \* what strncpy leaves of a text in set_download_dir
    IntMax,     \* the largest int
    SizeMax,    \* the largest size_t
    MB,         \* bytes in a megabyte
    Numbers,    \* numbers given to /set max_file_size or found in a file
    Megabytes,  \* numbers typed into the settings window
    DefaultDir, \* the compiled-in download_dir
    Absent      \* a key that is not in the file

ASSUME SettingsAssumption ==
    /\ IntMax \in Nat /\ MB \in Nat \ {0}
    /\ SizeMax \in Nat /\ SizeMax >= 2 * (IntMax + 1) * MB
    /\ Numbers \subseteq Int /\ Megabytes \subseteq 0 .. IntMax
    /\ DefaultDir \in Words
    /\ Texts \subseteq [body : Words, extra : BOOLEAN]
    /\ Cut \in [[body : Words, extra : BOOLEAN] -> [body : Words, extra : BOOLEAN]]
    /\ \A t \in [body : Words, extra : BOOLEAN] : Cut[Cut[t]] = Cut[t]
    /\ Absent \notin Int /\ Absent \notin [body : Words, extra : BOOLEAN]

\* A text, and whether it has what load() takes off: spaces around it, or a
\* tail behind a space and a hash.
Text == [body : Words, extra : BOOLEAN]

\* The buffer of the form holds the text.
Fits(t) == Cut[t] = t

VARIABLES
    config,  \* g_config: download_dir and max_file_size
    form,    \* set_download_dir and set_max_file_mb
    conf,    \* safesocket.conf: each key's value, or Absent
    retry,   \* a reconnect loop may call do_connect
    saved,   \* history: the configuration the file was completely written from
    touched  \* history: fields edited or /set since form and config were equal

settingsVars == <<config, form, conf, retry, saved, touched>>
Fields == {"download_dir", "max_file_size"}

Default == [download_dir |-> [body |-> DefaultDir, extra |-> FALSE], max_file_size |-> 0]
NoFile == [f \in Fields |-> Absent]

\* Conversions of C++ between int and size_t.
ToSize(n) == n % (SizeMax + 1)
ToInt(n) == ((n + IntMax + 1) % (2 * (IntMax + 1))) - IntMax - 1

\* parse_int: stoi throws when the number is out of range.
ParseInt(n, def) == IF n >= -IntMax - 1 /\ n <= IntMax THEN n ELSE def

\* trim() and the stripping of an inline comment in Config::load.
Stripped(t) == [t EXCEPT !.extra = FALSE]

\* g_config after Config::load of the file.
Loaded(c) ==
    [download_dir  |-> IF conf.download_dir = Absent THEN c.download_dir
                       ELSE Stripped(conf.download_dir),
     max_file_size |-> IF conf.max_file_size = Absent THEN c.max_file_size
                       ELSE ToSize(ParseInt(conf.max_file_size, 0))]

\* load_settings_from_config, behind the load: form from g_config.
Filled(c) ==
    [download_dir |-> Cut[c.download_dir], max_file_size |-> ToInt(c.max_file_size \div MB)]

\* apply_settings: g_config from form.
Applied(c) == [download_dir |-> form.download_dir,
               max_file_size |-> ToSize(ToSize(form.max_file_size) * MB)]

SettingsInit ==
    /\ conf \in [download_dir : Texts \cup {Absent}, max_file_size : Numbers \cup {Absent}]
    /\ config = Loaded(Default)
    /\ form = Filled(config)
    /\ retry = FALSE
    /\ saved = NoFile
    /\ touched = {}

-----------------------------------------------------------------------------
\* A widget of the settings window or of the menus, which takes no more text than
\* its buffer holds.
EditDir(t) ==
    /\ Fits(t)
    /\ form' = [form EXCEPT !.download_dir = t]
    /\ touched' = touched \cup {"download_dir"}
    /\ UNCHANGED <<config, conf, retry, saved>>
EditLimit(n) ==
    /\ form' = [form EXCEPT !.max_file_size = n]
    /\ touched' = touched \cup {"max_file_size"}
    /\ UNCHANGED <<config, conf, retry, saved>>

\* The settings window is drawn: a negative number of megabytes becomes 0.
DrawSettings ==
    /\ form.max_file_size < 0
    /\ form' = [form EXCEPT !.max_file_size = 0]
    /\ UNCHANGED <<config, conf, retry, saved, touched>>

\* /set, in the chat or a configuration window: the form is not told.
SetDir(t) ==
    /\ config' = [config EXCEPT !.download_dir = t]
    /\ touched' = touched \cup {"download_dir"}
    /\ UNCHANGED <<form, conf, retry, saved>>
SetLimit_KeepsSign(n) ==
    /\ config' = [config EXCEPT !.max_file_size = ParseInt(n, 0)]
    /\ touched' = touched \cup {"max_file_size"}
    /\ UNCHANGED <<form, conf, retry, saved>>
SetLimit(n) ==
    /\ config' = [config EXCEPT !.max_file_size = ToSize(ParseInt(n, 0))]
    /\ touched' = touched \cup {"max_file_size"}
    /\ UNCHANGED <<form, conf, retry, saved>>

\* apply_settings, behind the Apply button.
Apply ==
    /\ config' = Applied(config)
    /\ touched' = {}
    /\ UNCHANGED <<form, conf, retry, saved>>

\* do_connect and do_start_server apply the settings too; a client may then
\* reconnect by itself, and its thread calls do_connect again.
StartSession ==
    /\ config' = Applied(config)
    /\ touched' = {}
    /\ retry' = TRUE
    /\ UNCHANGED <<form, conf, saved>>
Reconnect == retry /\ StartSession

\* Config::save of c.  A failing write is not noticed: the keys behind it are
\* not in the file, and save returns true.
SaveFile_ForgetsLimit(c) ==
    \/ conf' = [c EXCEPT !.max_file_size = Absent] /\ saved' = c
    \/ conf' = NoFile /\ saved' = NoFile
SaveFile(c) ==
    \/ conf' = c /\ saved' = c
    \/ /\ \E keys \in {{}, {"download_dir"}} :
            conf' = [f \in Fields |-> IF f \in keys THEN c[f] ELSE Absent]
       /\ saved' = NoFile

\* /saveconfig and its buttons.
SaveConfig == SaveFile(config) /\ UNCHANGED <<config, form, retry, touched>>

\* Save to safesocket.conf: apply_settings, then save.
SaveSettings ==
    /\ SaveFile(Applied(config))
    /\ config' = Applied(config)
    /\ touched' = {}
    /\ UNCHANGED <<form, retry>>

\* Load from safesocket.conf, /loadconfig and its buttons.
LoadSettings_KeepsForm ==
    /\ config' = Loaded(config)
    /\ touched' = {}
    /\ UNCHANGED <<form, conf, retry, saved>>
LoadSettings ==
    /\ config' = Loaded(config)
    /\ form' = Filled(config')
    /\ touched' = {}
    /\ UNCHANGED <<conf, retry, saved>>

\* The program ends and starts again with its defaults and the file.
RelaunchSettings ==
    /\ config' = Loaded(Default)
    /\ form' = Filled(config')
    /\ retry' = FALSE
    /\ touched' = {}
    /\ UNCHANGED <<conf, saved>>

Edit ==
    \/ \E t \in Texts : EditDir(t) \/ SetDir(t)
    \/ \E n \in Megabytes : EditLimit(n)
    \/ \E n \in Numbers : SetLimit(n)

SettingsStep ==
    \/ Edit \/ DrawSettings
    \/ Apply \/ StartSession \/ SaveConfig \/ SaveSettings \/ LoadSettings

-----------------------------------------------------------------------------
(* Properties                                                              *)

Size == 0 .. SizeMax
Ints == -IntMax - 1 .. IntMax

\* Fields keep their types: no value leaves the width of its C++ type, and the
\* text of the form fits its buffer.
SettingsTypeOK ==
    /\ config \in [download_dir : Text, max_file_size : Size]
    /\ form \in [download_dir : Text, max_file_size : Ints]
    /\ Fits(form.download_dir)
    /\ conf \in [download_dir : Text \cup {Absent}, max_file_size : Int \cup {Absent}]
    /\ retry \in BOOLEAN
    /\ saved \in [download_dir : Text \cup {Absent}, max_file_size : Size \cup {Absent}]
    /\ touched \subseteq Fields

\* What load() gives back as it was saved: text without spaces around it or a
\* comment in it, numbers that are ints.
Plain(f, v) == IF f = "download_dir" THEN ~v.extra ELSE v <= IntMax

\* A file that was written completely gives the next start the configuration
\* it was written from, as far as that is plain, whatever happened since.
FileKeepsConfig ==
    saved # NoFile =>
        \A f \in Fields : Plain(f, saved[f]) => Loaded(Default)[f] = saved[f]

\* The form can show the value: a text that fits its buffer, a limit of whole
\* megabytes that an int counts.
Shows(f, v) == IF f = "download_dir" THEN Fits(v) ELSE v % MB = 0 /\ v \div MB <= IntMax

\* Apply Settings, a session that starts and one that reconnects change no
\* setting the user did not touch since the form was filled.
ApplyKeepsUntouched ==
    [][Apply \/ StartSession \/ SaveSettings =>
        \A f \in Fields \ touched : Shows(f, config[f]) => config'[f] = config[f]]_settingsVars
=============================================================================
