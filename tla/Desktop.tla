------------------------------- MODULE Desktop -------------------------------
(***************************************************************************)
(* The process around the engine: main, which loads or migrates the        *)
(* configuration, starts an engine and waits for the end; the engine       *)
(* without a valid configuration (`run_unconfigured`); the tray menu and   *)
(* the windows, all of which command the engine through one channel with   *)
(* `try_send`. The engine itself is module Lifecycle, which module Engine  *)
(* implements.                                                             *)
(*                                                                         *)
(* A configuration is a value of Configs when it has an active pair, and   *)
(* "empty" when it has no pair: what an emptied config.toml parses to, and *)
(* AppConfig::default(). `std::fs::write` empties the file, then fills it. *)
(*                                                                         *)
(* The engine keeps more than one copy of its configuration. Modelled is   *)
(* `self.cfg`, which every task is given when a worker takes it            *)
(* (mod.rs:557) and every scan reads its ignore patterns from. The other   *)
(* copies are made when an engine starts and no command changes them: the  *)
(* folders of the scans (mod.rs:238), the permits (338), the timers        *)
(* (347-358), the provider (main.rs:111). Nothing is claimed of those.     *)
(***************************************************************************)
EXTENDS Lifecycle, FiniteSets

CONSTANTS
    Windows,     \* windows that may be open at once
    V1Config,    \* what a configuration file of version 1 migrates to
    MaxSlips     \* bound of the model: kinds of mishaps in one behaviour

ASSUME DesktopAssumption ==
    /\ CmdCap \in Nat \ {0} /\ MaxSlips \in Nat
    /\ V1Config \in Configs
    /\ Configs \cap (Orders \cup {"absent", "v1", "empty", "inactive", "none"}) = {}
    /\ Orders = {"Pause", "Resume", "ForceScan", "OpenSettings", "OpenHelp", "Shutdown"}

VARIABLES
    main,        \* where main() is; "off" when there is no process
    file,        \* config.toml
    bak,         \* config.v1.bak
    gtk,         \* the thread of the windows is alive
    win,         \* what each window is
    entered,     \* the configuration each window is saving
    held,        \* self.cfg of the engine, which the next task is run with
    had,         \* history: there has been a configuration with a pair
    hushed,      \* history: the user asked for a pause and nobody for its end
    slips        \* history: what went wrong, by kind

diskVars   == <<file, bak>>
windowVars == <<gtk, win, entered>>
histVars   == <<had, hushed, slips>>
desktopVars == <<lifeVars, main, diskVars, windowVars, held, histVars>>

Kinds == {"full", "overlap", "save", "panic"}
Running == mode \notin {"none", "setup", "stopped"}
Editing == {w \in Windows : win[w] \in {"settings", "saving"}}
AllClosed == [w \in Windows |-> "closed"]

TypeOK ==
    /\ mode \in {"none", "setup", "first", "scan", "loop", "deaf", "busy", "stopped"}
    /\ paused \in BOOLEAN /\ again \in BOOLEAN /\ ending \in BOOLEAN
    /\ cmdq \in Seq(Alphabet) /\ Len(cmdq) <= CmdCap
    /\ main \in {"off", "login", "load", "backup", "empty", "fill", "boot",
                 "select", "send", "wait"}
    /\ file \in {"absent", "v1", "empty", "inactive"} \cup Configs
    /\ bak \in {"none", "torn", "v1"}
    /\ gtk \in BOOLEAN
    /\ win \in [Windows -> {"closed", "settings", "saving", "saved", "help"}]
    /\ entered \in [Windows -> Configs \cup {"none"}]
    /\ held \in Configs \cup {"none"}
    /\ had \in BOOLEAN /\ hushed \in BOOLEAN
    /\ slips \subseteq Kinds

Idle ==
    /\ mode = "none" /\ paused = FALSE /\ again = FALSE /\ ending = FALSE /\ cmdq = <<>>
    /\ main = "off" /\ held = "none" /\ hushed = FALSE
    /\ gtk = FALSE /\ win = AllClosed /\ entered = [w \in Windows |-> "none"]

\* Before the first start: the file as an earlier version, this one, or the user left it.
Init ==
    /\ Idle
    /\ file \in {"absent", "v1", "empty", "inactive"} \cup Configs
    /\ bak = "none" /\ slips = {}
    /\ had \in BOOLEAN /\ (had <=> file \in Configs \cup {"v1"})

\* Everything but the disk and the history of it goes with the process.
Gone ==
    /\ mode' = "none" /\ paused' = FALSE /\ again' = FALSE /\ ending' = FALSE
    /\ cmdq' = <<>>
    /\ main' = "off" /\ held' = "none" /\ hushed' = FALSE
    /\ gtk' = FALSE /\ win' = AllClosed /\ entered' = [w \in Windows |-> "none"]

-----------------------------------------------------------------------------
(* main() before its select *)

Starting(from, to) == main = from /\ main' = to

\* The lock of the instance is taken: a second process would exit.
Launch ==
    /\ Starting("off", "login")
    /\ UNCHANGED <<lifeVars, diskVars, windowVars, held, histVars>>

\* get_valid_token, awaited with no limit: it may open the browser.
LoggedIn ==
    /\ Starting("login", "load")
    /\ UNCHANGED <<lifeVars, diskVars, windowVars, held, histVars>>

\* load_from_path: no file, a file of version 1, or one to take as it is.
Load ==
    /\ main = "load"
    /\ file' = IF file = "absent" THEN "empty" ELSE file
    /\ IF file = "v1" THEN main' = "backup" /\ bak' = "torn"
                      ELSE main' = "boot" /\ UNCHANGED bak
    /\ UNCHANGED <<lifeVars, windowVars, held, histVars>>


\* Mutation: the new file is written before the backup is complete.
BackupLate ==
    /\ Starting("backup", "fill")
    /\ file' = "empty" /\ UNCHANGED bak
    /\ UNCHANGED <<lifeVars, windowVars, held, histVars>>

\* The copy of the raw file is complete before the file itself is touched.
Backup ==
    /\ Starting("backup", "empty")
    /\ bak' = "v1" /\ UNCHANGED file
    /\ UNCHANGED <<lifeVars, windowVars, held, histVars>>

\* save_to_path of the migrated configuration, in its two halves.
Migrate ==
    /\ \/ Starting("empty", "fill") /\ file' = "empty"
       \/ Starting("fill", "boot") /\ file' = V1Config
    /\ UNCHANGED <<lifeVars, bak, windowVars, held, histVars>>

\* A valid configuration starts the engine, another one run_unconfigured; the
\* folder of a pair may be missing. No active pair: main returns an error.
Boot ==
    /\ main = "boot"
    /\ \/ /\ file = "inactive"
          /\ Gone
       \/ /\ file # "inactive"
          /\ main' = "select" /\ gtk' = TRUE
          /\ \/ file \in Configs /\ mode' = "first" /\ held' = file
             \/ mode' = "setup" /\ UNCHANGED held
          /\ UNCHANGED <<paused, again, ending, cmdq, win, entered, hushed>>
    /\ UNCHANGED <<diskVars, had, slips>>

-----------------------------------------------------------------------------
(* The engine, configured or not *)

EngineOnly == UNCHANGED <<main, diskVars, windowVars, histVars>>

EngineHears == Hear /\ UNCHANGED held /\ EngineOnly
EngineTurns == (Return \/ Leave) /\ UNCHANGED held /\ EngineOnly
EngineStops == Stop /\ UNCHANGED held /\ EngineOnly


\* Mutation: the paused branch keeps the former configuration.
EngineAppliesLater ==
    /\ \E c \in Configs : Apply(c) /\ held' = IF paused THEN held ELSE c
    /\ EngineOnly

\* ApplyConfig, in the loop or in a pause, replaces self.cfg and no other copy.
EngineApplies ==
    /\ \E c \in Configs : Apply(c) /\ held' = c
    /\ EngineOnly

\* run_unconfigured: the first valid configuration starts the engine, which keeps
\* the channel; every other command is ignored.
SetupHears ==
    /\ mode = "setup"
    /\ \E c \in Alphabet :
          /\ Receive(c)
          /\ \/ c \in Configs /\ mode' = "first" /\ held' = c /\ UNCHANGED ending
             \/ c # "Shutdown" /\ UNCHANGED <<mode, held, ending>>
             \/ c = "Shutdown" /\ mode' = "stopped" /\ ending' = TRUE /\ UNCHANGED held
    /\ UNCHANGED <<paused, again>>
    /\ EngineOnly

SetupStops ==
    /\ mode = "setup" /\ ending
    /\ mode' = "stopped"
    /\ UNCHANGED <<paused, again, ending, cmdq, held>>
    /\ EngineOnly

\* The tray reads Stopped and cancels the token.
TrayHearsStopped ==
    /\ mode = "stopped"
    /\ ending' = TRUE
    /\ UNCHANGED <<mode, paused, again, cmdq, held>>
    /\ EngineOnly

-----------------------------------------------------------------------------
(* Windows and menu *)

Full == mode # "stopped" /\ Len(cmdq) = CmdCap


\* Mutation: an unbounded channel.
TrySendUnbounded(c) ==
    /\ cmdq' = IF mode = "stopped" THEN cmdq ELSE Append(cmdq, c)
    /\ UNCHANGED <<mode, paused, again, ending>>

\* try_send, whose error is thrown away: channel full, or receiver gone.
TrySend(c) ==
    /\ cmdq' = IF mode = "stopped" \/ Full THEN cmdq ELSE Append(cmdq, c)
    /\ UNCHANGED <<mode, paused, again, ending>>

Slip(kinds) ==
    /\ slips' = slips \cup kinds
    /\ Cardinality(slips') <= MaxSlips

Dropped == IF Full THEN {"full"} ELSE {}

\* A save or the end of a pause while another window still edits the settings.
Overlap(others) == IF others # {} THEN {"overlap"} ELSE {}

\* The thread of the windows lives as long as the process.
Alive == main \in {"select", "send", "wait"} /\ gtk

\* One thread: a save is one callback, from the click to the closing of the window.
Saving == {w \in Windows : win[w] \in {"saving", "saved"}}
Mine(w) == Alive /\ Saving \subseteq {w}

Turn(w, from, to) == Mine(w) /\ win[w] = from /\ win' = [win EXCEPT ![w] = to]

\* show_settings_in_app: the engine is told first, then the file is read again. A
\* configuration without an active pair ends the thread in an expect, with all
\* its windows.
OpenSettings(w) ==
    /\ Mine(w) /\ win[w] = "closed"
    /\ TrySend("OpenSettings")
    /\ \/ /\ file \in Configs
          /\ win' = [win EXCEPT ![w] = "settings"]
          /\ Slip(Dropped)
          /\ UNCHANGED <<gtk, entered>>
       \/ /\ file \notin Configs
          /\ gtk' = FALSE /\ win' = AllClosed
          /\ entered' = [v \in Windows |-> "none"]
          /\ Slip(Dropped \cup {"panic"})
    /\ UNCHANGED <<main, diskVars, held, had, hushed>>

\* The Save button, the values being valid: the file is emptied ...
SaveBegins(w, c) ==
    /\ Turn(w, "settings", "saving")
    /\ entered' = [entered EXCEPT ![w] = c]
    /\ file' = "empty"
    /\ UNCHANGED <<lifeVars, main, bak, gtk, held, histVars>>

\* ... and filled, and ApplyConfig is sent,
SaveFills(w) ==
    /\ Turn(w, "saving", "saved")
    /\ file' = entered[w] /\ had' = TRUE
    /\ TrySend(entered[w])
    /\ Slip(Dropped \cup Overlap(Editing \ {w}))
    /\ UNCHANGED <<main, bak, gtk, entered, held, hushed>>

\* or it could not be filled: a toast, and the window stays.
SaveFails(w) ==
    /\ Turn(w, "saving", "settings")
    /\ entered' = [entered EXCEPT ![w] = "none"]
    /\ Slip({"save"})
    /\ UNCHANGED <<lifeVars, main, diskVars, gtk, held, had, hushed>>


\* Mutation: the Resume that follows ApplyConfig is forgotten.
CloseWindowSilent(w) ==
    /\ Mine(w) /\ win[w] \in {"settings", "saved", "help"}
    /\ win' = [win EXCEPT ![w] = "closed"]
    /\ entered' = [entered EXCEPT ![w] = "none"]
    /\ IF win[w] = "saved" THEN UNCHANGED lifeVars /\ Slip(Overlap(Editing \ {w}))
       ELSE TrySend("Resume") /\ Slip(Dropped \cup Overlap(Editing \ {w}))
    /\ hushed' = FALSE
    /\ UNCHANGED <<main, diskVars, gtk, held, had>>

\* Closing a window, after a save or not, ends the pause of everybody.
CloseWindow(w) ==
    /\ Mine(w) /\ win[w] \in {"settings", "saved", "help"}
    /\ win' = [win EXCEPT ![w] = "closed"]
    /\ entered' = [entered EXCEPT ![w] = "none"]
    /\ TrySend("Resume")
    /\ Slip(Dropped \cup Overlap(Editing \ {w}))
    /\ hushed' = FALSE
    /\ UNCHANGED <<main, diskVars, gtk, held, had>>

OpenHelp(w) ==
    /\ Turn(w, "closed", "help")
    /\ TrySend("OpenHelp")
    /\ Slip(Dropped)
    /\ UNCHANGED <<main, diskVars, gtk, entered, held, had, hushed>>

\* The menu shows one of three items by the last status, and may show it for a
\* while after that status: any of the three may be clicked.
Menu(c) ==
    /\ main = "select" /\ ~ending
    /\ c \in {"Pause", "Resume", "ForceScan"}
    /\ TrySend(c)
    /\ CASE c = "Resume"    -> Slip(Dropped \cup Overlap(Editing)) /\ hushed' = FALSE
         [] c = "Pause"     -> hushed' = (hushed \/ ~Full) /\ UNCHANGED slips
         [] c = "ForceScan" -> UNCHANGED <<hushed, slips>>
    /\ UNCHANGED <<main, diskVars, windowVars, held, had>>

\* The Quit item cancels the token, then sends.
Quit ==
    /\ main = "select" /\ ~ending
    /\ ending' = TRUE
    /\ cmdq' = IF mode = "stopped" \/ Full THEN cmdq ELSE Append(cmdq, "Shutdown")
    /\ UNCHANGED <<mode, paused, again, main, diskVars, windowVars, held, histVars>>

-----------------------------------------------------------------------------
(* main() from its select to its end *)

\* A signal, or the token.
MainHears ==
    /\ Starting("select", "send")
    /\ ending' = TRUE
    /\ UNCHANGED <<mode, paused, again, cmdq, diskVars, windowVars, held, histVars>>


\* Mutation: a receiver that is gone is waited for like a full channel.
MainSendsAlive ==
    /\ Starting("send", "wait")
    /\ Len(cmdq) < CmdCap
    /\ cmdq' = Append(cmdq, "Shutdown")
    /\ UNCHANGED <<mode, paused, again, ending, diskVars, windowVars, held, histVars>>

\* `cmd_tx.send(Shutdown).await` waits while the channel is full; the limit of
\* the shutdown only begins after it.
MainSends ==
    /\ Starting("send", "wait")
    /\ ~Full
    /\ TrySend("Shutdown")
    /\ UNCHANGED <<diskVars, windowVars, held, histVars>>

Interrupted == IF \E w \in Windows : win[w] = "saving" THEN {"save"} ELSE {}

\* The engine has returned, or shutdown_timeout_secs are over: exit(0), whatever
\* the other threads are doing.
MainExits ==
    /\ main = "wait"
    /\ Gone
    /\ slips' = slips \cup Interrupted
    /\ UNCHANGED <<diskVars, had>>

\* A crash, a signal before the handlers are set, or an error of the disk while
\* main prepares the start.
Crash ==
    /\ main # "off"
    /\ Gone
    /\ slips' = slips \cup Interrupted
    /\ UNCHANGED <<diskVars, had>>

-----------------------------------------------------------------------------

MainStarts == Launch \/ LoggedIn \/ Load \/ Backup \/ Migrate \/ Boot
MainEnds   == MainSends \/ MainExits
Stops      == EngineStops \/ SetupStops

WindowStep(w) ==
    \/ OpenSettings(w)
    \/ \E c \in Configs : SaveBegins(w, c)
    \/ SaveFills(w)
    \/ SaveFails(w)
    \/ CloseWindow(w)
    \/ OpenHelp(w)

Next ==
    \/ MainStarts
    \/ EngineHears
    \/ EngineApplies
    \/ EngineTurns
    \/ Stops
    \/ SetupHears
    \/ TrayHearsStopped
    \/ \E w \in Windows : WindowStep(w)
    \/ \E c \in Orders : Menu(c)
    \/ Quit
    \/ MainHears
    \/ MainEnds
    \/ Crash

Spec == Init /\ [][Next]_desktopVars

\* main runs when it can, and its limit is a timer; a loop that listens to the
\* token hears it. Nothing makes a health check or a login return.
Fairness ==
    /\ WF_desktopVars(ending /\ MainHears)
    /\ WF_desktopVars(MainEnds)
    /\ WF_desktopVars(Stops)

FairSpec == Spec /\ Fairness

-----------------------------------------------------------------------------
(* Properties *)

\* The tasks are run with what the user saved: once the channel is empty, the
\* configuration that the next task is given, its folders, ignore patterns and
\* notifications, is that of the file. An ApplyConfig is lost in a scan (mod.rs:174), so
\* this rests on the window having paused the loop, cut the scan and kept anybody from
\* resuming until then (settings.rs:27-43); it fails only when a command found the channel
\* full, somebody else resumed while the window was open, or the save failed. It says
\* nothing of the scans, the permits and the timers, which keep the configuration that the
\* engine was started with (mod.rs:238-246, 338, 347-358).
Settled == cmdq = <<>> /\ \A w \in Windows : win[w] # "saving"
TasksRunSaved == Running /\ Settled /\ slips = {} => held = file

\* While somebody edits the settings the engine transfers nothing: the pause holds
\* until the last window is closed (settings.rs:27, 49-53; mod.rs:157-166), but
\* for the same mishaps.
EditingIsQuiet == Running /\ Settled /\ Editing # {} /\ slips = {} => paused

\* No pause without an owner: a paused engine, its channel empty, has a window
\* open or was paused from the menu, and nobody has asked to go on since
\* (settings.rs:44, 52; help_window.rs:95; mod.rs:368-386).
PauseHasOwner ==
    Running /\ Settled /\ paused /\ slips = {}
    => hushed \/ \E w \in Windows : win[w] # "closed"

\* A configuration survives crashes, full disks and the migration, in the file or in
\* the backup of version 1 (config.rs:276-287), except in a save of the window, which
\* keeps no copy.
ConfigKept ==
    had => \/ file \in Configs \cup {"v1"}
           \/ bak = "v1"
           \/ "save" \in slips
           \/ \E w \in Windows : win[w] = "saving"

\* The program ends when told to, also when the engine hangs in a health check, a
\* login or a flush: main has a limit (main.rs:182-191). The one exception is a
\* full channel in front of an engine that hangs, for main waits there before
\* its limit begins (main.rs:180).
QuitExits == (ending /\ main # "off") ~> (main = "off" \/ (Full /\ mode = "busy"))
=============================================================================
