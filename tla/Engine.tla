------------------------------- MODULE Engine -------------------------------
(***************************************************************************)
(* The control loop of the synchronisation engine, `run_with_provider` in  *)
(* engine/mod.rs: one task that takes turns between the commands of the    *)
(* desktop, the health check, the periodic rescan and the task channel,    *)
(* and that awaits the scan and the flush of the offline queue in place.   *)
(* Around it run the dispatcher of the watcher, which sends into the same  *)
(* bounded task channel, the workers, bounded by a semaphore, and the      *)
(* progress publisher.                                                     *)
(*                                                                         *)
(* Tasks are counted here, not named: module Dispatch follows the paths.   *)
(* The statuses Syncing and ScanProgress are one value, "Scanning", and    *)
(* `status` is the last one sent on the (unbounded) status channel.        *)
(***************************************************************************)
EXTENDS Naturals, Sequences

CONSTANTS
    Commands,    \* the EngineCommand values the desktop sends in this instance
    CmdCap,      \* advanced.engine_channel_capacity
    ChanCap,     \* capacity of the task channel (1024 in the code)
    MaxWorkers,  \* cfg.max_workers, at least 1 by `.max(1)`
    RescanOn,    \* rescan_interval_min > 0
    Relogin,     \* Google may reject the refresh token: a browser login is needed
    MaxTasks     \* bound of the model: tasks ever created

ASSUME EngineAssumption ==
    /\ Commands \subseteq {"ForceScan", "Shutdown", "Apply", "ApplyRoot", "Pause",
                           "Resume", "OpenSettings", "OpenHelp"}
    /\ CmdCap \in Nat \ {0}
    /\ ChanCap \in Nat \ {0}
    /\ MaxWorkers \in Nat \ {0}
    /\ RescanOn \in BOOLEAN /\ Relogin \in BOOLEAN
    /\ MaxTasks \in Nat

VARIABLES
    pc,              \* where the loop is suspended
    scanFor,         \* who awaits the running scan
    listing,         \* the scan has not compared yet (phases 0 to 3)
    todo,            \* uploads the scan still has to enqueue (phase 4)
    orphans,         \* deletions the scan still has to enqueue (phases 5 and 6)
    paused, rescanOnResume, offline, shutdown,
    status,          \* the last EngineStatus sent
    cmdq,            \* the command channel
    chan,            \* tasks in the task channel
    sending,         \* the dispatcher is suspended in task_tx.send (0 or 1)
    retired,         \* dispatchers of former roots suspended in their send
    rows,            \* rows of the offline_queue table
    flushing,        \* rows that flush_queue has read and not sent yet
    working,         \* spawned workers that have not finished their task
    idling,          \* the worker that found itself last and is to send Idle
    active,          \* the AtomicUsize `active`
    total, done,     \* tracker.total_files and tracker.done_files
    scheduled,       \* history: tasks that ever entered the task channel
    owed,            \* history: a scan was cut short and none was started since
    told,            \* history: the last EngineStatus that the loop itself sent
    covered           \* history: that pause cut a scan which Resume or ApplyConfig awaits

scanVars   == <<scanFor, listing, todo, orphans>>
flagVars   == <<paused, rescanOnResume, offline, shutdown>>
queueVars  == <<chan, sending, retired, rows, flushing, scheduled>>
workerVars == <<working, idling, active, done>>
sayVars    == <<status, told, covered>>
vars == <<pc, scanVars, flagVars, queueVars, workerVars, sayVars, cmdq, total, owed>>

Statuses == {"Scanning", "Progress", "Idle", "Paused", "Settings", "Help",
             "Error", "Stopped"}

\* The loop is still in the initial scan: neither watcher nor publisher runs.
Started == ~(pc = "scan" /\ scanFor = "initial")
Created == scheduled + sending + retired + rows + todo + orphans

ControlOK ==
    /\ pc \in {"scan", "select", "permit", "health", "grace", "flush", "stopped",
              "healthLogin", "graceLogin", "healthAuth", "graceAuth"}
    /\ scanFor \in {"none", "initial", "force", "resume", "apply", "tick"}
    /\ paused \in BOOLEAN /\ rescanOnResume \in BOOLEAN
    /\ offline \in BOOLEAN /\ shutdown \in BOOLEAN
    /\ listing \in BOOLEAN /\ owed \in BOOLEAN

StatusOK == status \in Statuses /\ told \in Statuses /\ covered \in BOOLEAN

QueuesOK ==
    /\ cmdq \in Seq(Commands) /\ Len(cmdq) <= CmdCap
    /\ chan \in 0..ChanCap /\ sending \in 0..1 /\ retired \in Nat
    /\ rows \in Nat /\ flushing \in Nat /\ scheduled \in Nat

CountersOK ==
    /\ todo \in Nat /\ orphans \in Nat
    /\ working \in Nat /\ idling \in Nat /\ active \in Nat
    /\ total \in Nat /\ done \in Nat

TypeOK == ControlOK /\ StatusOK /\ QueuesOK /\ CountersOK

Init ==
    /\ pc = "scan" /\ scanFor = "initial" /\ listing = TRUE
    /\ todo = 0 /\ orphans = 0
    /\ paused = FALSE /\ rescanOnResume = FALSE /\ offline = FALSE /\ shutdown = FALSE
    /\ status = "Scanning" /\ cmdq = <<>>
    /\ chan = 0 /\ sending = 0 /\ retired = 0 /\ flushing = 0 /\ scheduled = 0
    /\ rows \in 0..(IF MaxTasks > 0 THEN 1 ELSE 0)  \* rows survive a restart
    /\ working = 0 /\ idling = 0 /\ active = 0 /\ total = 0 /\ done = 0
    /\ owed = FALSE /\ told = "Scanning" /\ covered = FALSE

\* The loop, or the scan it awaits, sends a status; workers and publisher have theirs.
Tell(s) == status' = s /\ told' = s /\ covered' = FALSE

-----------------------------------------------------------------------------
(* Stopping *)

\* Only the select around the initial scan is biased towards the token.
Scanning == pc = "scan" /\ ~(shutdown /\ scanFor = "initial")


\* A scan that also listens to commands.
Interruptible == Scanning /\ scanFor # "tick"

\* Mutation: the select of the paused loop without its `cancelled` branch.
StopNowUnpaused ==
    /\ shutdown /\ ~paused
    /\ pc \in {"scan", "select", "permit"}
    /\ pc' = "stopped" /\ Tell("Stopped")
    /\ UNCHANGED <<scanVars, flagVars, queueVars, workerVars, cmdq, total, owed>>

\* `shutdown.cancelled()` is the first branch of the biased selects of the loop
\* and of the initial scan, and one branch among others of the select around a
\* later scan and around the semaphore; a scan that sees the token bails out. A
\* task waiting for its permit is dropped. The health check, the login, the
\* grace delay and the flush await without this branch.
StopNow ==
    /\ shutdown
    /\ pc \in {"scan", "select", "permit"}
    /\ pc' = "stopped" /\ Tell("Stopped")
    /\ UNCHANGED <<scanVars, flagVars, queueVars, workerVars, cmdq, total, owed>>

-----------------------------------------------------------------------------
(* Commands *)

Receive(c) == cmdq # <<>> /\ Head(cmdq) = c /\ cmdq' = Tail(cmdq)

\* The select of the loop takes command c, in the paused branch or not.
Take(c, inPause) ==
    /\ pc = "select" /\ ~shutdown /\ paused = inPause
    /\ Receive(c)

\* Shutdown cancels the token; the loop leaves at once, or at its next turn.
CmdShutdown ==
    /\ (pc = "select" /\ ~shutdown) \/ Interruptible
    /\ Receive("Shutdown")
    /\ shutdown' = TRUE
    /\ pc' = "stopped" /\ Tell("Stopped")
    /\ UNCHANGED <<scanVars, paused, rescanOnResume, offline, queueVars, workerVars,
                   total, owed>>

\* total_files.store(0), status Syncing, then the scan is awaited in place.
StartScan(why) ==
    /\ pc' = "scan" /\ scanFor' = why /\ listing' = TRUE
    /\ todo' = 0 /\ orphans' = 0
    /\ total' = 0 /\ Tell("Scanning")
    /\ owed' = FALSE

Say(s) ==
    /\ Tell(s)
    /\ UNCHANGED <<pc, scanVars, total, owed>>

Quiet == UNCHANGED <<pc, scanVars, total, owed, sayVars>>

StatusOf(c) == CASE c = "Pause" -> "Paused"
                 [] c = "OpenSettings" -> "Settings"
                 [] c = "OpenHelp" -> "Help"

\* Pause, OpenSettings and OpenHelp suspend a running loop. None of them asks
\* for a rescan: the tasks already in the channel wait there.
CmdSuspend(c) ==
    /\ c \in {"Pause", "OpenSettings", "OpenHelp"}
    /\ Take(c, FALSE)
    /\ paused' = TRUE
    /\ Say(StatusOf(c))
    /\ UNCHANGED <<rescanOnResume, offline, shutdown, queueVars, workerVars>>

\* While paused the two windows only change the status; Pause and ForceScan
\* fall into the `_ => {}` arm.
CmdWhilePaused(c) ==
    /\ c \in {"OpenSettings", "OpenHelp", "Pause", "ForceScan"}
    /\ Take(c, TRUE)
    /\ IF c \in {"OpenSettings", "OpenHelp"} THEN Say(StatusOf(c)) ELSE Quiet
    /\ UNCHANGED <<flagVars, queueVars, workerVars>>

\* Resume: a rescan that is owed is done first, unless the engine is offline,
\* in which case the request stays.
CmdResume ==
    /\ Take("Resume", TRUE)
    /\ paused' = FALSE
    /\ \/ /\ rescanOnResume /\ ~offline
          /\ rescanOnResume' = FALSE
          /\ StartScan("resume")
       \/ /\ ~(rescanOnResume /\ ~offline)
          /\ Say("Idle")
          /\ UNCHANGED rescanOnResume
    /\ UNCHANGED <<offline, shutdown, queueVars, workerVars>>

\* `Some(EngineCommand::Resume) => {}` of the running branch.
CmdResumeRunning ==
    /\ Take("Resume", FALSE)
    /\ Quiet
    /\ UNCHANGED <<flagVars, queueVars, workerVars>>

CmdForceScan ==
    /\ Take("ForceScan", FALSE)
    /\ IF offline THEN Quiet ELSE StartScan("force")
    /\ UNCHANGED <<flagVars, queueVars, workerVars>>

\* Another root: its watcher and a new dispatcher are started. The former
\* dispatcher is not stopped: a send in which it waits goes on.
Rewatch(c) ==
    /\ IF c = "ApplyRoot"
         THEN retired' = retired + sending /\ sending' = 0
         ELSE UNCHANGED <<retired, sending>>
    /\ UNCHANGED <<chan, rows, flushing, scheduled>>

\* ApplyConfig while paused: the new configuration waits for the Resume.
CmdApplyPaused(c) ==
    /\ c \in {"Apply", "ApplyRoot"}
    /\ Take(c, TRUE)
    /\ rescanOnResume' = TRUE
    /\ Quiet /\ Rewatch(c)
    /\ UNCHANGED <<paused, offline, shutdown, workerVars>>

\* ApplyConfig while running: only another root starts a scan; Idle follows
\* in every case.
CmdApply(c) ==
    /\ c \in {"Apply", "ApplyRoot"}
    /\ Take(c, FALSE)
    /\ IF c = "ApplyRoot" /\ ~offline THEN StartScan("apply") ELSE Say("Idle")
    /\ Rewatch(c)
    /\ UNCHANGED <<flagVars, workerVars>>

-----------------------------------------------------------------------------
(* The scan, awaited by the loop *)

\* Mutation: ForceScan, too, sends Idle after its scan.
IdleFollowsForce == scanFor \in {"resume", "apply", "force"}

\* Resume and ApplyConfig send Idle after the scan, however it ended.
IdleFollows == scanFor \in {"resume", "apply"}

LeaveScan ==
    /\ pc' = "select" /\ scanFor' = "none" /\ listing' = FALSE
    /\ todo' = 0 /\ orphans' = 0

EndScan(s) == LeaveScan /\ Tell(IF IdleFollows THEN "Idle" ELSE s)

\* The status of a pause is sent inside the scan, before what follows the scan.
EndScanPaused(c) ==
    /\ LeaveScan
    /\ status' = IF IdleFollows THEN "Idle" ELSE StatusOf(c)
    /\ told' = status'
    /\ covered' = (scanFor \in {"resume", "apply"})

\* Mutation: the flag of OpenHelp and Pause in the main select, reused here.
CutScanUnflagged(c) ==
    /\ c \in {"Pause", "OpenSettings"} \/ (c = "OpenHelp" /\ scanFor = "initial")
    /\ Interruptible
    /\ Receive(c)
    /\ paused' = TRUE /\ owed' = TRUE
    /\ EndScanPaused(c)
    /\ UNCHANGED <<rescanOnResume, offline, shutdown, queueVars, workerVars, total>>

\* Pause or OpenSettings cuts an interruptible scan short (OpenHelp the initial
\* one only): its future is dropped, the rest of its tasks with it. A deletion
\* that was waiting for room in the channel is already in total_files.
CutScan(c) ==
    /\ c \in {"Pause", "OpenSettings"} \/ (c = "OpenHelp" /\ scanFor = "initial")
    /\ Interruptible
    /\ Receive(c)
    /\ paused' = TRUE /\ rescanOnResume' = TRUE /\ owed' = TRUE
    /\ EndScanPaused(c)
    /\ \/ UNCHANGED total
       \/ ~listing /\ todo = 0 /\ orphans > 0 /\ total' = total + 1
    /\ UNCHANGED <<offline, shutdown, queueVars, workerVars>>


\* Mutation: an initial scan that only Pause cuts.
DropCommandWindows(c) ==
    /\ c \in Commands \ {"Shutdown", "Pause"}
    /\ Interruptible
    /\ Receive(c)
    /\ Quiet
    /\ UNCHANGED <<flagVars, queueVars, workerVars>>


\* Every other command received during such a scan is dropped.
DropCommand(c) ==
    /\ c \in {"ForceScan", "Apply", "ApplyRoot", "Resume"}
         \/ (c = "OpenHelp" /\ scanFor # "initial")
    /\ Interruptible
    /\ Receive(c)
    /\ Quiet
    /\ UNCHANGED <<flagVars, queueVars, workerVars>>

\* Phases 0 to 3 end: k files to upload, d orphans to delete.
ScanCompare ==
    /\ Scanning /\ listing
    /\ \E k, d \in 0..MaxTasks :
          /\ k + d + Created <= MaxTasks
          /\ todo' = k /\ orphans' = d /\ total' = k
    /\ listing' = FALSE /\ Tell("Scanning")
    /\ UNCHANGED <<pc, scanFor, flagVars, queueVars, workerVars, cmdq, owed>>

\* An mkdir that keeps failing or a database error ends the scan with Err.
ScanFail ==
    /\ Scanning /\ listing
    /\ offline' = IF scanFor = "initial" THEN TRUE ELSE offline
    /\ EndScan("Error")
    /\ UNCHANGED <<paused, rescanOnResume, shutdown, queueVars, workerVars, cmdq,
                   total, owed>>

\* Mutation: an unbounded task channel.
ScanSendUnbounded ==
    /\ Scanning /\ ~listing /\ todo > 0
    /\ chan' = chan + 1 /\ scheduled' = scheduled + 1 /\ todo' = todo - 1
    /\ Tell("Scanning")
    /\ UNCHANGED <<pc, scanFor, listing, orphans, total, flagVars, sending, retired,
                   rows, flushing, workerVars, cmdq, owed>>

\* Phases 4 to 6: one send into the task channel, which waits while it is full.
\* A deletion adds itself to total_files just before its send.
ScanSend ==
    /\ Scanning /\ ~listing
    /\ chan < ChanCap
    /\ chan' = chan + 1 /\ scheduled' = scheduled + 1
    /\ \/ /\ todo > 0
          /\ todo' = todo - 1 /\ Tell("Scanning")
          /\ UNCHANGED <<orphans, total>>
       \/ /\ todo = 0 /\ orphans > 0
          /\ orphans' = orphans - 1 /\ total' = total + 1
          /\ UNCHANGED <<todo, sayVars>>
    /\ UNCHANGED <<pc, scanFor, listing, flagVars, sending, retired, rows, flushing,
                   workerVars, cmdq, owed>>

ScanDone ==
    /\ Scanning /\ ~listing /\ todo = 0 /\ orphans = 0
    /\ LeaveScan
    /\ IF total = 0 \/ scanFor = "initial" \/ IdleFollows
         THEN Tell("Idle") ELSE UNCHANGED sayVars
    /\ UNCHANGED <<flagVars, queueVars, workerVars, cmdq, total, owed>>

\* The periodic rescan: no command can interrupt it.
RescanTick ==
    /\ RescanOn
    /\ pc = "select" /\ ~shutdown /\ ~paused /\ cmdq = <<>> /\ ~offline
    /\ StartScan("tick")
    /\ UNCHANGED <<flagVars, queueVars, workerVars, cmdq>>

-----------------------------------------------------------------------------
(* Health check and flush of the offline queue *)

HealthTick ==
    /\ pc = "select" /\ ~shutdown /\ ~paused /\ cmdq = <<>>
    /\ pc' = "health"
    /\ UNCHANGED <<scanVars, flagVars, queueVars, workerVars, cmdq, total, sayVars, owed>>

\* check_health answers Ok or AuthExpired: the flag is swapped to FALSE.
HealthOk ==
    /\ pc \in {"health", "healthAuth"}
    /\ offline' = FALSE
    /\ pc' = IF offline THEN "grace" ELSE "select"
    /\ UNCHANGED <<scanVars, paused, rescanOnResume, shutdown, queueVars, workerVars,
                   cmdq, total, sayVars, owed>>

HealthKo ==
    /\ pc \in {"health", "healthAuth"}
    /\ offline' = TRUE
    /\ IF offline THEN UNCHANGED sayVars ELSE Tell("Error")
    /\ pc' = "select"
    /\ UNCHANGED <<scanVars, paused, rescanOnResume, shutdown, queueVars, workerVars,
                   cmdq, total, owed>>

\* Both check_health and refresh_auth begin with get_valid_token: a refresh token
\* that Google rejects opens the browser and waits for the answer of the user,
\* for as long as it takes. With its answer the call goes on, the login a success
\* or a failure; it does not ask twice.
LoginOpens ==
    /\ Relogin
    /\ pc \in {"health", "grace"}
    /\ pc' = IF pc = "health" THEN "healthLogin" ELSE "graceLogin"
    /\ UNCHANGED <<scanVars, flagVars, queueVars, workerVars, cmdq, total, sayVars, owed>>

LoginDone ==
    /\ pc \in {"healthLogin", "graceLogin"}
    /\ pc' = IF pc = "healthLogin" THEN "healthAuth" ELSE "graceAuth"
    /\ UNCHANGED <<scanVars, flagVars, queueVars, workerVars, cmdq, total, sayVars, owed>>

\* After 3 seconds and refresh_auth: Idle, and the queue is read (nothing, when
\* the database answers with an error).
GraceEnd ==
    /\ pc \in {"grace", "graceAuth"}
    /\ pc' = "flush" /\ flushing' \in {0, rows} /\ Tell("Idle")
    /\ UNCHANGED <<scanVars, flagVars, chan, sending, retired, rows, scheduled,
                   workerVars, cmdq, total, owed>>

\* One row: sent to the channel, then removed from the table; a removal that
\* fails ends the flush. The tracker hears of neither.
FlushSend ==
    /\ pc = "flush" /\ flushing > 0
    /\ chan < ChanCap
    /\ chan' = chan + 1 /\ scheduled' = scheduled + 1
    /\ \/ flushing' = flushing - 1 /\ rows' = rows - 1
       \/ flushing' = 0 /\ UNCHANGED rows /\ Created < MaxTasks
    /\ UNCHANGED <<pc, scanVars, flagVars, sending, retired, workerVars, cmdq, total,
                   sayVars, owed>>

FlushDone ==
    /\ pc = "flush" /\ flushing = 0
    /\ pc' = "select"
    /\ UNCHANGED <<scanVars, flagVars, queueVars, workerVars, cmdq, total, sayVars, owed>>

-----------------------------------------------------------------------------
(* Tasks and workers *)

\* Mutation: the task branch also in the paused select.
TakeTaskPaused ==
    /\ pc = "select" /\ ~shutdown /\ cmdq = <<>>
    /\ chan > 0
    /\ chan' = chan - 1
    /\ pc' = "permit"
    /\ UNCHANGED <<scanVars, flagVars, sending, retired, rows, flushing, scheduled,
                   workerVars, cmdq, total, sayVars, owed>>

TakeTask ==
    /\ pc = "select" /\ ~shutdown /\ ~paused /\ cmdq = <<>>
    /\ chan > 0
    /\ chan' = chan - 1
    /\ pc' = "permit"
    /\ UNCHANGED <<scanVars, flagVars, sending, retired, rows, flushing, scheduled,
                   workerVars, cmdq, total, sayVars, owed>>

\* acquire_owned: a permit is free; active.fetch_add, then the worker is spawned.
Spawn ==
    /\ pc = "permit"
    /\ working + idling < MaxWorkers
    /\ working' = working + 1 /\ active' = active + 1
    /\ pc' = "select"
    /\ UNCHANGED <<scanVars, flagVars, queueVars, idling, done, cmdq, total, sayVars, owed>>

\* Mutation: the early return of a cancelled worker forgets `active`.
WorkerDoneKeepsActive ==
    /\ working > 0
    /\ working' = working - 1 /\ done' = done + 1
    /\ \/ shutdown /\ UNCHANGED <<active, idling>>
       \/ /\ ~shutdown /\ active' = active - 1
          /\ idling' = IF active = 1 THEN idling + 1 ELSE idling
    /\ UNCHANGED <<pc, scanVars, flagVars, queueVars, sayVars, cmdq, total, owed>>

\* Mutation: a failed task is not counted in done_files.
WorkerDoneUncounted ==
    /\ working > 0
    /\ working' = working - 1
    /\ active' = active - 1
    /\ idling' = IF active = 1 THEN idling + 1 ELSE idling
    /\ \/ done' = done + 1 /\ UNCHANGED status
       \/ ~shutdown /\ status' = "Error" /\ UNCHANGED done
    /\ UNCHANGED <<pc, scanVars, flagVars, queueVars, cmdq, total, owed, told, covered>>

\* A worker ends, with or without error, or gives up at once under shutdown:
\* done_files + 1, and the fetch_sub that finds 1 is the last one.
WorkerDone ==
    /\ working > 0
    /\ working' = working - 1
    /\ done' = done + 1
    /\ active' = active - 1
    /\ idling' = IF active = 1 THEN idling + 1 ELSE idling
    /\ \/ UNCHANGED status
       \/ ~shutdown /\ status' = "Error"
    /\ UNCHANGED <<pc, scanVars, flagVars, queueVars, cmdq, total, owed, told, covered>>


\* The last worker announces Idle and releases its permit.
WorkerIdle ==
    /\ idling > 0
    /\ idling' = idling - 1
    /\ status' = "Idle"
    /\ UNCHANGED <<pc, scanVars, flagVars, queueVars, working, active, done, cmdq,
                   total, owed, told, covered>>

-----------------------------------------------------------------------------
(* Dispatcher, publisher, environment *)

\* The dispatcher has an event or a debounced path: it reads is_offline, and
\* writes a row or adds to total_files and calls task_tx.send. (The paths of one
\* tick are dispatched to the last one, a shutdown in between or not.)
DispatchEvent ==
    /\ Started /\ pc # "stopped" /\ sending = 0
    /\ Created < MaxTasks
    /\ \/ /\ offline
          /\ rows' = rows + 1
          /\ UNCHANGED <<sending, total>>
       \/ /\ ~offline
          /\ sending' = 1 /\ total' = total + 1
          /\ UNCHANGED rows
    /\ UNCHANGED <<pc, scanVars, flagVars, chan, retired, flushing, scheduled,
                   workerVars, cmdq, sayVars, owed>>

\* A send completes; after the engine has returned it fails, and the dispatcher
\* returns too.
DispatchSend ==
    /\ \/ sending = 1 /\ sending' = 0 /\ UNCHANGED retired
       \/ retired > 0 /\ retired' = retired - 1 /\ UNCHANGED sending
    /\ \/ /\ pc # "stopped" /\ chan < ChanCap
          /\ chan' = chan + 1 /\ scheduled' = scheduled + 1
       \/ /\ pc = "stopped"
          /\ UNCHANGED <<chan, scheduled>>
    /\ UNCHANGED <<pc, scanVars, flagVars, rows, flushing, workerVars, cmdq, total,
                   sayVars, owed>>

\* progress_publisher: every 200 ms, as long as files remain.
Publish ==
    /\ Started /\ ~shutdown
    /\ total > 0 /\ done < total
    /\ status' = "Progress"
    /\ UNCHANGED <<pc, scanVars, flagVars, queueVars, workerVars, cmdq, total, owed, told, covered>>

\* The desktop sends a command (try_send: nothing when the channel is full).
SendCommand(c) ==
    /\ pc # "stopped" /\ Len(cmdq) < CmdCap
    /\ cmdq' = Append(cmdq, c)
    /\ UNCHANGED <<pc, scanVars, flagVars, queueVars, workerVars, total, sayVars, owed>>

\* SIGINT, SIGTERM or the Quit item cancels the token.
Signal ==
    /\ ~shutdown
    /\ shutdown' = TRUE
    /\ UNCHANGED <<pc, scanVars, paused, rescanOnResume, offline, queueVars, workerVars,
                   cmdq, total, sayVars, owed>>

\* The loop has returned and its workers are gone: the process may exit.
Terminated ==
    /\ pc = "stopped" /\ working = 0 /\ idling = 0 /\ sending + retired = 0
    /\ UNCHANGED vars

-----------------------------------------------------------------------------

HandleCommand ==
    \/ CmdShutdown
    \/ CmdResume
    \/ CmdResumeRunning
    \/ CmdForceScan
    \/ \E c \in Commands : \/ CmdSuspend(c)
                           \/ CmdWhilePaused(c)
                           \/ CmdApplyPaused(c)
                           \/ CmdApply(c)
                           \/ CutScan(c)
                           \/ DropCommand(c)

ScanStep   == ScanCompare \/ ScanFail \/ ScanSend \/ ScanDone
HealthStep == HealthOk \/ HealthKo \/ GraceEnd \/ FlushSend \/ FlushDone
WorkerStep == WorkerDone \/ WorkerIdle

\* Everything but the outside world.
EngineStep ==
    \/ StopNow
    \/ HandleCommand
    \/ ScanStep
    \/ RescanTick
    \/ HealthTick
    \/ HealthStep
    \/ LoginOpens
    \/ LoginDone
    \/ TakeTask
    \/ Spawn
    \/ WorkerStep
    \/ DispatchEvent
    \/ DispatchSend
    \/ Publish
    \/ Terminated

Next ==
    \/ EngineStep
    \/ Signal
    \/ \E c \in Commands : SendCommand(c)

Spec == Init /\ [][Next]_vars

(***************************************************************************)
(* Fairness. The loop, the workers and the dispatcher are tokio tasks that *)
(* run whenever they are ready; a health check and an upload return (the   *)
(* HTTP client has timeouts). TakeTask is strongly fair because the        *)
(* branches above it in the select are timers, ready once per period,      *)
(* while the select is polled in between. Nothing forces the desktop, the  *)
(* file system or the timers to act.                                       *)
(***************************************************************************)
Fairness ==
    /\ WF_vars(StopNow) /\ WF_vars(HandleCommand)
    /\ WF_vars(ScanStep) /\ WF_vars(HealthStep)
    /\ SF_vars(TakeTask) /\ WF_vars(Spawn) /\ WF_vars(WorkerStep)
    /\ WF_vars(DispatchSend)

FairSpec == Spec /\ Fairness

-----------------------------------------------------------------------------
(* Safety *)

\* No task is lost or done twice between the channel and the workers: until the
\* loop returns, every task that entered the channel is in it, waits for its
\* permit, is with a worker or is counted in done_files (mod.rs:548-604; all
\* the exits of the spawned worker).
TasksCounted ==
    pc # "stopped" =>
        scheduled = chan + (IF pc = "permit" THEN 1 ELSE 0) + working + done

\* The counter `active`, by which the last worker recognises itself and
\* announces Idle, is the number of workers at work, and these and the one that
\* is about to announce hold at most max_workers permits (mod.rs:551-602).
ActiveIsWorking == active = working /\ working + idling <= MaxWorkers

\* A scan that Pause or a window cut short is redone: until a new scan starts,
\* the loop is paused, remembers to rescan, and is online, so that the Resume
\* that ends the pause cannot skip the rescan (mod.rs:157-166, 258-279, 368-386).
CutScanIsRedone ==
    owed /\ pc # "stopped" => paused /\ rescanOnResume /\ ~offline

\* While the engine is paused no new transfer begins: the workers at work when
\* the pause came end, and none is added, whatever the channel holds and
\* whichever scan, flush or health check the pause came after (mod.rs:361-424).
QuietWhilePaused == [][paused /\ paused' => working' <= working]_vars

\* The user is told of a pause: of all that the loop itself sends, the last word while
\* it is paused is Paused, Settings or Help, by which the menu offers to go on; workers
\* and publisher may talk over it, the loop does not, whichever commands come while
\* it is paused and wherever the pause found it. With one exception, which is
\* certain: a pause that cuts the scan awaited by Resume or ApplyConfig is covered
\* at once by the Idle that follows that scan (mod.rs:385, 484).
PauseStatuses == {"Paused", "Settings", "Help"}
PauseIsTold ==
    paused /\ pc # "stopped" => told \in (IF covered THEN {"Idle"} ELSE PauseStatuses)

-----------------------------------------------------------------------------
(* Refinement *)

\* What the desktop sees of the loop, for module Lifecycle.
Mode ==
    CASE pc = "scan" /\ scanFor = "initial"                 -> "first"
      [] pc = "scan" /\ scanFor \notin {"initial", "tick"}   -> "scan"
      [] pc = "scan" /\ scanFor = "tick"                    -> "deaf"
      [] pc = "permit"                                      -> "deaf"
      [] pc = "select"                                      -> "loop"
      [] pc = "stopped"                                     -> "stopped"
      [] OTHER                                              -> "busy"

L == INSTANCE Lifecycle WITH
        Configs <- Commands \cap {"Apply", "ApplyRoot"},
        Orders  <- Commands \ {"Apply", "ApplyRoot"},
        mode    <- Mode,
        again   <- rescanOnResume,
        ending  <- shutdown

\* With all its tasks, scans and workers the engine hears the desktop as module
\* Lifecycle says, on which module Desktop rests (mod.rs:141-180, 360-606).
ImplementsLifecycle == L!LifeSpec

-----------------------------------------------------------------------------
(* Liveness *)

\* The three places where the loop may wait for ever: a browser login nobody answers,
\* and a send into the task channel while the only receiver of the channel, the
\* loop itself, awaits that send (offline.rs:60, scan.rs:355).
LoggingIn    == pc \in {"healthLogin", "graceLogin"}
FlushBlocked == pc = "flush" /\ flushing > 0 /\ chan = ChanCap
ScanBlocked  == pc = "scan" /\ ~listing /\ todo + orphans > 0 /\ chan = ChanCap

\* A cancelled token ends the loop ("arrêt gracieux et immédiat de toutes les
\* coroutines", mod.rs:126).
ShutdownStops == shutdown ~> pc = "stopped"

\* The token ends the loop wherever it finds it, also in a scan that waits before a
\* full channel, unless the loop hangs for ever in a flush or in a login.
ShutdownHeard == shutdown ~> (pc = "stopped" \/ []LoggingIn \/ []FlushBlocked)



\* Once the desktop is silent, every task sent reaches a worker: neither the channel nor
\* the loop, holding the task it has taken, waits for ever, unless the engine is
\* paused, told to stop, or hangs.
TaskWaits == chan > 0 \/ pc = "permit"

=============================================================================
