------------------------------ MODULE Lifecycle ------------------------------
(***************************************************************************)
(* What the desktop may rely on: how the engine hears its commands. Module *)
(* Engine implements this specification, module Desktop builds on it.      *)
(*                                                                         *)
(* The loop of `run_with_provider` (engine/mod.rs) is in one of six modes: *)
(*   "first", "scan"  a scan that some commands cut and others are lost in *)
(*   "loop"           the select, which serves every command               *)
(*   "deaf"           hears the token only (periodic scan, task in hand)   *)
(*   "busy"           hears nothing (health check, login, flush)           *)
(*   "stopped"        has returned                                         *)
(***************************************************************************)
EXTENDS Naturals, Sequences

CONSTANTS
    Configs,     \* the configurations an ApplyConfig carries
    Orders,      \* the other commands of this instance
    CmdCap       \* advanced.engine_channel_capacity

VARIABLES
    mode,
    paused,
    again,       \* rescan_on_resume
    ending,      \* the shutdown token is cancelled
    cmdq         \* the command channel

lifeVars == <<mode, paused, again, ending, cmdq>>

Alphabet == Orders \cup Configs

LifeInit ==
    /\ mode = "first" /\ paused = FALSE /\ again = FALSE
    /\ ending = FALSE /\ cmdq = <<>>

Receive(c) == cmdq # <<>> /\ Head(cmdq) = c /\ cmdq' = Tail(cmdq)

\* The select of the loop takes a command.
Take(c) == mode = "loop" /\ ~ending /\ Receive(c)

\* A scan that listens to commands; the initial one is biased to the token.
Listening == mode = "scan" \/ (mode = "first" /\ ~ending)

-----------------------------------------------------------------------------

\* The cancelled token ends every mode but "busy".
Stop ==
    /\ ending /\ mode \in {"first", "scan", "loop", "deaf"}
    /\ mode' = "stopped"
    /\ UNCHANGED <<paused, again, ending, cmdq>>

\* EngineCommand::Shutdown cancels the token and returns.
HearShutdown ==
    /\ Listening \/ (mode = "loop" /\ ~ending)
    /\ Receive("Shutdown")
    /\ ending' = TRUE /\ mode' = "stopped"
    /\ UNCHANGED <<paused, again>>

\* Pause, OpenSettings and OpenHelp suspend the loop, or find it suspended.
Suspend(c) ==
    /\ c \in {"Pause", "OpenSettings", "OpenHelp"}
    /\ Take(c)
    /\ paused' = TRUE
    /\ UNCHANGED <<mode, again, ending>>

\* Resume ends the pause; a rescan that is owed is done now, or stays owed
\* because the engine is offline.
Resume ==
    /\ Take("Resume")
    /\ paused' = FALSE
    /\ \/ paused /\ again /\ mode' = "scan" /\ again' = FALSE
       \/ UNCHANGED <<mode, again>>
    /\ UNCHANGED ending

\* ForceScan is ignored by a paused loop, and by an offline one.
ForceScan ==
    /\ Take("ForceScan")
    /\ mode' = "loop" \/ (~paused /\ mode' = "scan")
    /\ UNCHANGED <<paused, again, ending>>

\* ApplyConfig takes effect: a paused loop rescans at its Resume, a running one
\* at once if the root is another one.
Apply(c) ==
    /\ c \in Configs
    /\ Take(c)
    /\ IF paused THEN again' = TRUE /\ UNCHANGED mode
                 ELSE mode' \in {"loop", "scan"} /\ UNCHANGED again
    /\ UNCHANGED <<paused, ending>>

\* Pause and OpenSettings cut a scan (OpenHelp the initial one): it is owed.
Cut(c) ==
    /\ c \in {"Pause", "OpenSettings"} \/ (c = "OpenHelp" /\ mode = "first")
    /\ Listening
    /\ Receive(c)
    /\ mode' = "loop" /\ paused' = TRUE /\ again' = TRUE
    /\ UNCHANGED ending


\* Mutation: a window opened during a scan is lost, as OpenHelp is.
LoseWindows(c) ==
    /\ c \in Configs \cup {"ForceScan", "Resume"} \/ (c \in {"OpenHelp", "OpenSettings"} /\ mode = "scan")
    /\ Listening
    /\ Receive(c)
    /\ UNCHANGED <<mode, paused, again, ending>>

\* Every other command received during a scan is lost.
Lose(c) ==
    /\ c \in Configs \cup {"ForceScan", "Resume"} \/ (c = "OpenHelp" /\ mode = "scan")
    /\ Listening
    /\ Receive(c)
    /\ UNCHANGED <<mode, paused, again, ending>>

\* A scan ends; a task gets its permit; a health check and its flush are over.
Return ==
    /\ Listening \/ mode \in {"deaf", "busy"}
    /\ mode' = "loop"
    /\ UNCHANGED <<paused, again, ending, cmdq>>

\* With no command waiting and no pause, the loop turns to its other branches.
Leave ==
    /\ mode = "loop" /\ ~ending /\ ~paused /\ cmdq = <<>>
    /\ mode' \in {"deaf", "busy"}
    /\ UNCHANGED <<paused, again, ending, cmdq>>

Hear ==
    \/ HearShutdown
    \/ Resume
    \/ ForceScan
    \/ \E c \in Alphabet : Suspend(c) \/ Cut(c) \/ Lose(c)

-----------------------------------------------------------------------------

\* try_send on the command channel.
Send(c) ==
    /\ mode # "stopped" /\ Len(cmdq) < CmdCap
    /\ cmdq' = Append(cmdq, c)
    /\ UNCHANGED <<mode, paused, again, ending>>

\* SIGINT, SIGTERM, or the Quit item.
Cancel ==
    /\ ending' = TRUE
    /\ UNCHANGED <<mode, paused, again, cmdq>>

LifeNext ==
    \/ Stop
    \/ Hear
    \/ \E c \in Configs : Apply(c)
    \/ Return
    \/ Leave
    \/ \E c \in Alphabet : Send(c)
    \/ Cancel

LifeSpec == LifeInit /\ [][LifeNext]_lifeVars
=============================================================================
