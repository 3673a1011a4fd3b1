------------------------------ MODULE Dispatch ------------------------------
(***************************************************************************)
(* The way of a local change to the workers: inotify callback, watch       *)
(* channel, debounce and dispatcher, then either the task channel or, when *)
(* the engine is offline, the offline_queue table, which is flushed into   *)
(* the task channel when the network is back. The scan, the pauses and the *)
(* crashes of the engine act on the same queues.                           *)
(*                                                                         *)
(* Here tasks carry their paths; permits, statuses and shutdown are in     *)
(* module Engine, what a worker does to the remote in module Worker.       *)
(* A debounced path may become ready at any moment: time is abstracted.    *)
(***************************************************************************)
EXTENDS Naturals, Sequences, FiniteSets

CONSTANTS
    Paths,       \* local files
    WatchCap,    \* capacity of the watch channel (256 in the code)
    ChanCap,     \* capacity of the task channel (1024 in the code)
    MaxWorkers,  \* permits of the semaphore
    MaxChanges   \* bound of the model: changes of the file system

ASSUME DispatchAssumption ==
    /\ WatchCap \in Nat \ {0} /\ ChanCap \in Nat \ {0}
    /\ MaxWorkers \in Nat \ {0} /\ MaxChanges \in Nat

VARIABLES
    exists,     \* the files there are
    changes,    \* how often the file system has changed
    watch,      \* the watch channel
    pending,    \* HashMap of the debounce
    batch,      \* the ready paths of a tick, not dispatched yet
    at, out,    \* where the dispatcher is, and the task it holds there
    rows,       \* the offline_queue table, by id
    offline,    \* is_offline
    mode,       \* what the loop of the engine does
    startup,    \* the initial scan: no watcher yet
    todo,       \* tasks the running scan still has to enqueue
    rescanDue,  \* rescan_on_resume
    flushing,   \* rows flush_queue has read and not sent
    chan,       \* the task channel
    work,       \* tasks with a worker
    dirty,      \* history: changed paths no worker has been given since
    missed      \* history: paths with a change that was dropped on the way

localVars == <<exists, changes>>
dispVars  == <<watch, pending, batch, at, out>>
loopVars  == <<offline, mode, startup, todo, rescanDue, flushing>>
vars == <<localVars, dispVars, rows, loopVars, chan, work, dirty, missed>>

Sync(p, src)      == [kind |-> "sync", path |-> p, from |-> p, src |-> src]
Delete(p, src)    == [kind |-> "delete", path |-> p, from |-> p, src |-> src]
Rename(f, t, src) == [kind |-> "rename", path |-> t, from |-> f, src |-> src]
Nothing           == [kind |-> "none"]

Events == [kind : {"Modified", "Deleted", "Renamed"}, path : Paths, from : Paths]
Tasks  == [kind : {"sync", "delete", "rename"}, path : Paths, from : Paths,
           src : {"live", "row", "scan"}]

PathsOf(t) == {t.path, t.from}
Among(p, q) == \E i \in DOMAIN q : p \in PathsOf(q[i])

TypeOK ==
    /\ exists \subseteq Paths /\ changes \in 0..MaxChanges
    /\ watch \in Seq(Events) /\ Len(watch) <= WatchCap
    /\ pending \subseteq Paths /\ batch \subseteq Paths
    /\ at \in {"ready", "push", "send"} /\ out \in Tasks \cup {Nothing}
    /\ rows \in Seq(Tasks)
    /\ offline \in BOOLEAN /\ startup \in BOOLEAN /\ rescanDue \in BOOLEAN
    /\ mode \in {"down", "scan", "enqueue", "select", "paused", "grace", "flush",
                 "remove"}
    /\ todo \subseteq Tasks /\ work \subseteq Tasks
    /\ flushing \in 0..Len(rows)
    /\ chan \in Seq(Tasks) /\ Len(chan) <= ChanCap
    /\ dirty \subseteq Paths /\ missed \subseteq Paths

Init ==
    /\ exists \in SUBSET Paths /\ changes = 0
    /\ watch = <<>> /\ pending = {} /\ batch = {} /\ at = "ready" /\ out = Nothing
    /\ rows = <<>> /\ offline = FALSE
    /\ mode = "down" /\ startup = FALSE
    /\ todo = {} /\ rescanDue = FALSE /\ flushing = 0
    /\ chan = <<>> /\ work = {} /\ dirty = {} /\ missed = {}

\* Where a change of p waits for its worker.
Covered(p) ==
    \/ Among(p, watch)
    \/ p \in pending \cup batch
    \/ at # "ready" /\ p \in PathsOf(out)
    \/ Among(p, rows)
    \/ Among(p, chan)
    \/ \E t \in todo : p \in PathsOf(t)

-----------------------------------------------------------------------------
(* File system and inotify callback *)

Watching == mode # "down" /\ ~startup

\* Mutation: a channel without capacity.
EmitUnbounded(evs, touched) ==
    /\ watch' = watch \o evs
    /\ missed' = missed

\* The callback of notify: one try_send per event; what finds the channel full is
\* dropped (the overflow flag that is raised then is read nowhere). Before the
\* watcher has started nobody listens.
Emit(evs, touched) ==
    LET room == WatchCap - Len(watch)
        n    == IF Len(evs) <= room THEN Len(evs) ELSE room
    IN  IF Watching
          THEN /\ watch' = watch \o SubSeq(evs, 1, n)
               /\ missed' = IF n < Len(evs) THEN missed \cup touched ELSE missed
          ELSE /\ UNCHANGED watch
               /\ missed' = IF mode = "enqueue" THEN missed \cup touched ELSE missed

Touch(evs, touched) ==
    /\ changes < MaxChanges /\ changes' = changes + 1
    /\ dirty' = dirty \cup touched
    /\ Emit(evs, touched)
    /\ UNCHANGED <<pending, batch, at, out, rows, loopVars, chan, work>>

Ev(kind, p, f) == [kind |-> kind, path |-> p, from |-> f]

\* A file is written, new or not (Create, Modify, Close(Write) are Modified).
Write(p) ==
    /\ exists' = exists \cup {p}
    /\ Touch(<<Ev("Modified", p, p)>>, {p})

Remove(p) ==
    /\ p \in exists
    /\ exists' = exists \ {p}
    /\ Touch(<<Ev("Deleted", p, p)>>, {p})

\* notify announces a move inside the tree three times: From, To and Both.
Move(f, t) ==
    /\ f \in exists /\ f # t
    /\ exists' = (exists \ {f}) \cup {t}
    /\ Touch(<<Ev("Deleted", f, f), Ev("Modified", t, t), Ev("Renamed", t, f)>>, {f, t})

-----------------------------------------------------------------------------
(* Dispatcher *)

Running == mode # "down"

\* A task is ready: is_offline is read, and decides between table and channel.
Route(t) ==
    /\ out' = t
    /\ at' = IF offline THEN "push" ELSE "send"

\* Mutation: the tick forgets the paths that are still debounced.
TickClears ==
    /\ Watching /\ at = "ready" /\ batch = {}
    /\ \E ready \in (SUBSET pending) \ {{}} : batch' = ready
    /\ pending' = {}
    /\ UNCHANGED <<localVars, watch, at, out, rows, loopVars, chan, work, dirty, missed>>

\* The tick of the debounce: some pending paths have been quiet long enough.
Tick ==
    /\ Running /\ at = "ready" /\ batch = {}
    /\ \E ready \in (SUBSET pending) \ {{}} :
          /\ batch' = ready
          /\ pending' = pending \ ready
    /\ UNCHANGED <<localVars, watch, at, out, rows, loopVars, chan, work, dirty, missed>>

DispatchReady ==
    /\ Running /\ at = "ready"
    /\ \E p \in batch :
          /\ batch' = batch \ {p}
          /\ Route(Sync(p, "live"))
    /\ UNCHANGED <<localVars, watch, pending, rows, loopVars, chan, work, dirty, missed>>

\* The dispatcher receives the next event of the watcher.
Receive(kind) ==
    /\ Running /\ at = "ready" /\ batch = {}
    /\ watch # <<>> /\ Head(watch).kind = kind
    /\ watch' = Tail(watch)
    /\ UNCHANGED <<localVars, batch, rows, loopVars, chan, work, dirty, missed>>

RecvModified ==
    /\ Receive("Modified")
    /\ pending' = pending \cup {Head(watch).path}
    /\ UNCHANGED <<at, out>>

\* Mutation: a deletion leaves the debounce of its path running.
RecvDeletedOnly ==
    /\ Receive("Deleted")
    /\ Route(Delete(Head(watch).path, "live"))
    /\ UNCHANGED pending

RecvDeleted ==
    /\ Receive("Deleted")
    /\ pending' = pending \ {Head(watch).path}
    /\ Route(Delete(Head(watch).path, "live"))

RecvRenamed ==
    /\ Receive("Renamed")
    /\ pending' = pending \ PathsOf(Head(watch))
    /\ Route(Rename(Head(watch).from, Head(watch).path, "live"))

\* db.push_offline_task: its error is ignored, and the task with it.
Push ==
    /\ Running /\ at = "push"
    /\ at' = "ready" /\ out' = Nothing
    /\ \/ rows' = Append(rows, [out EXCEPT !.src = "row"]) /\ UNCHANGED missed
       \/ UNCHANGED rows /\ missed' = missed \cup PathsOf(out)
    /\ UNCHANGED <<localVars, watch, pending, batch, loopVars, chan, work, dirty>>

\* task_tx.send waits while the channel is full.
Send ==
    /\ Running /\ at = "send" /\ Len(chan) < ChanCap
    /\ chan' = Append(chan, out)
    /\ at' = "ready" /\ out' = Nothing
    /\ UNCHANGED <<localVars, watch, pending, batch, rows, loopVars, work, dirty, missed>>

-----------------------------------------------------------------------------
(* The loop: start, scan, pause *)

Start ==
    /\ mode = "down"
    /\ mode' = "scan" /\ startup' = TRUE
    /\ UNCHANGED <<localVars, dispVars, rows, offline, todo, rescanDue, flushing, chan,
                   work, dirty, missed>>

\* ForceScan or the periodic rescan.
Rescan ==
    /\ mode = "select" /\ ~offline
    /\ mode' = "scan"
    /\ UNCHANGED <<localVars, dispVars, rows, offline, startup, todo, rescanDue,
                   flushing, chan, work, dirty, missed>>

\* The walk compares every file with the index and the remote: it finds the paths
\* that differ, and enqueues an upload or a deletion for each. A changed path may
\* be found equal (moved away and back). The comparison does not know of the
\* older tasks still on their way, and these may follow its own: a drop is made
\* good only for a path that nothing else concerns.
Walk ==
    /\ mode = "scan"
    /\ \E found \in SUBSET dirty :
          /\ dirty' = found
          /\ todo' = {Sync(p, "scan") : p \in found \cap exists}
                       \cup {Delete(p, "scan") : p \in found \ exists}
    /\ missed' = {p \in missed : Covered(p) \/ \E t \in work : p \in PathsOf(t)}
    /\ mode' = "enqueue"
    /\ UNCHANGED <<localVars, dispVars, rows, offline, startup, rescanDue, flushing,
                   chan, work>>

\* A scan that fails is not tried again; the initial one leaves the engine offline.
ScanFail ==
    /\ mode = "scan"
    /\ mode' = "select" /\ startup' = FALSE
    /\ offline' = (offline \/ startup)
    /\ missed' = missed \cup {p \in dirty : ~Covered(p)}
    /\ UNCHANGED <<localVars, dispVars, rows, todo, rescanDue, flushing, chan, work, dirty>>

\* Phase 4 sends the uploads, phases 5 and 6 the deletions.
Enqueue ==
    /\ mode = "enqueue" /\ Len(chan) < ChanCap
    /\ \E t \in todo :
          /\ t.kind = "delete" => \A u \in todo : u.kind = "delete"
          /\ todo' = todo \ {t}
          /\ chan' = Append(chan, t)
    /\ UNCHANGED <<localVars, dispVars, rows, offline, mode, startup, rescanDue,
                   flushing, work, dirty, missed>>

ScanEnd ==
    /\ mode = "enqueue" /\ todo = {}
    /\ mode' = "select" /\ startup' = FALSE
    /\ UNCHANGED <<localVars, dispVars, rows, offline, todo, rescanDue, flushing, chan,
                   work, dirty, missed>>

\* Pause and the windows; in a scan they drop what it has not sent.
Pause ==
    /\ mode \in {"scan", "enqueue", "select"}
    /\ mode' = "paused" /\ startup' = FALSE
    /\ todo' = {} /\ rescanDue' = (rescanDue \/ mode # "select")
    /\ UNCHANGED <<localVars, dispVars, rows, offline, flushing, chan, work, dirty, missed>>

Resume ==
    /\ mode = "paused"
    /\ \/ /\ rescanDue /\ ~offline
          /\ rescanDue' = FALSE /\ mode' = "scan"
       \/ /\ ~(rescanDue /\ ~offline)
          /\ mode' = "select" /\ UNCHANGED rescanDue
    /\ UNCHANGED <<localVars, dispVars, rows, offline, startup, todo, flushing, chan,
                   work, dirty, missed>>

-----------------------------------------------------------------------------
(* The loop: network and offline queue *)

HealthKo ==
    /\ mode = "select"
    /\ offline' = TRUE
    /\ UNCHANGED <<localVars, dispVars, rows, mode, startup, todo, rescanDue, flushing,
                   chan, work, dirty, missed>>

\* The flag falls first; three seconds and a token later the queue is flushed.
HealthOk ==
    /\ mode = "select" /\ offline
    /\ offline' = FALSE /\ mode' = "grace"
    /\ UNCHANGED <<localVars, dispVars, rows, startup, todo, rescanDue, flushing, chan,
                   work, dirty, missed>>

\* get_offline_tasks: all the rows, or none when the database answers with an error.
FlushRead ==
    /\ mode = "grace"
    /\ mode' = "flush" /\ flushing' \in {0, Len(rows)}
    /\ UNCHANGED <<localVars, dispVars, rows, offline, startup, todo, rescanDue, chan,
                   work, dirty, missed>>

\* Mutation: a row is removed before its task is sent.
FlushSendRemoved ==
    /\ mode = "flush" /\ flushing > 0
    /\ rows' = Tail(rows) /\ flushing' = flushing - 1
    /\ IF Len(chan) < ChanCap THEN chan' = Append(chan, Head(rows)) ELSE UNCHANGED chan
    /\ UNCHANGED <<localVars, dispVars, offline, mode, startup, todo, rescanDue, work,
                   dirty, missed>>

FlushSend ==
    /\ mode = "flush" /\ flushing > 0 /\ Len(chan) < ChanCap
    /\ chan' = Append(chan, Head(rows))
    /\ mode' = "remove"
    /\ UNCHANGED <<localVars, dispVars, rows, offline, startup, todo, rescanDue,
                   flushing, work, dirty, missed>>

\* The row leaves the table; an error of the database ends the flush.
FlushRemove ==
    /\ mode = "remove"
    /\ \/ /\ rows' = Tail(rows) /\ flushing' = flushing - 1
          /\ mode' = "flush"
       \/ /\ UNCHANGED rows /\ flushing' = 0
          /\ mode' = "select"
    /\ UNCHANGED <<localVars, dispVars, offline, startup, todo, rescanDue, chan, work,
                   dirty, missed>>

FlushEnd ==
    /\ mode = "flush" /\ flushing = 0
    /\ mode' = "select"
    /\ UNCHANGED <<localVars, dispVars, rows, offline, startup, todo, rescanDue,
                   flushing, chan, work, dirty, missed>>

-----------------------------------------------------------------------------
(* Workers, crash *)

\* The loop takes a task and gives it to a worker, which looks at the file.
TakeTask ==
    /\ mode = "select" /\ chan # <<>>
    /\ Cardinality(work) < MaxWorkers
    /\ chan' = Tail(chan) /\ work' = work \cup {Head(chan)}
    /\ dirty' = dirty \ PathsOf(Head(chan))
    /\ UNCHANGED <<localVars, dispVars, rows, loopVars, missed>>

WorkerOk ==
    /\ \E t \in work : work' = work \ {t}
    /\ UNCHANGED <<localVars, dispVars, rows, loopVars, chan, dirty, missed>>

\* A worker whose retries are used up reports an error: nobody keeps the task.
WorkerErr ==
    /\ \E t \in work :
          /\ work' = work \ {t}
          /\ dirty' = dirty \cup PathsOf(t) /\ missed' = missed \cup PathsOf(t)
    /\ UNCHANGED <<localVars, dispVars, rows, loopVars, chan>>

\* The process ends, by a signal or a crash: the database survives, the index
\* knows nothing of the tasks that were with a worker.
Crash ==
    /\ mode # "down"
    /\ mode' = "down" /\ startup' = FALSE /\ offline' = FALSE
    /\ watch' = <<>> /\ pending' = {} /\ batch' = {} /\ at' = "ready" /\ out' = Nothing
    /\ todo' = {} /\ rescanDue' = FALSE /\ flushing' = 0
    /\ chan' = <<>> /\ work' = {}
    /\ dirty' = dirty \cup UNION {PathsOf(t) : t \in work}
    /\ UNCHANGED <<localVars, rows, missed>>

-----------------------------------------------------------------------------

FileSystem == \E p, q \in Paths : Write(p) \/ Remove(p) \/ Move(p, q)

Dispatcher ==
    \/ Tick
    \/ DispatchReady
    \/ RecvModified
    \/ RecvDeleted
    \/ RecvRenamed
    \/ Push
    \/ Send

Loop ==
    \/ Start
    \/ Rescan
    \/ Walk
    \/ ScanFail
    \/ Enqueue
    \/ ScanEnd
    \/ Pause
    \/ Resume
    \/ HealthKo
    \/ HealthOk
    \/ FlushRead
    \/ FlushSend
    \/ FlushRemove
    \/ FlushEnd
    \/ TakeTask

Next == FileSystem \/ Dispatcher \/ Loop \/ WorkerOk \/ WorkerErr \/ Crash

Spec == Init /\ [][Next]_vars

-----------------------------------------------------------------------------
(* Properties *)

\* The next scan will find every change there is.
ScanDue == mode \in {"down", "scan"} \/ rescanDue

\* No change of a local file is forgotten: until a worker has been given a task
\* for its path, an event, a debounced path, a row or a task stands for it, or a
\* scan is due. The exceptions are the changes recorded in `missed`: an event
\* that overflowed the watch channel or came between the walk of the initial scan
\* and the start of the watcher, a row that could not be written, a scan or a
\* worker that failed. A row of the offline queue is removed as soon as its task is
\* in the channel, which a crash empties before a worker has seen it: what keeps
\* such a change is the scan of the next start, not the queue (offline.rs:60-67).
NoChangeForgotten == \A p \in dirty : Covered(p) \/ p \in missed \/ ScanDue

\* The channel position of the last task for p, 0 when there is none.
LastFor(p) ==
    LET at_p == {i \in DOMAIN chan : p \in PathsOf(chan[i])}
    IN  IF at_p = {} THEN 0 ELSE CHOOSE i \in at_p : \A j \in at_p : j <= i

\* Nothing about p is on its way before the channel.
Settled(p) ==
    /\ ~Among(p, watch) /\ p \notin pending \cup batch \cup missed
    /\ at # "ready" => p \notin PathsOf(out)
    /\ ~Among(p, rows)
    /\ \A t \in todo : p \notin PathsOf(t)
    /\ ~ScanDue

MeansPresent(t, p) == t.kind # "delete" /\ t.path = p

\* Debounced and immediate events of one path do not overtake each other: when a
\* task of the dispatcher is the last one for p in the channel, and nothing else
\* about p is on its way, it speaks of the file as it is (mod.rs:668-708).
LiveOrder ==
    \A p \in Paths : LET i == LastFor(p) IN
        i > 0 /\ Settled(p) /\ chan[i].src = "live" =>
            (MeansPresent(chan[i], p) <=> p \in exists)

\* docs/V2/06_RESILIENCE.md:120-121: the queue is flushed in order, and of the
\* changes of a file made offline only the last state is synchronised. So when a
\* deletion from the queue is the last task for p, p is gone.
LastStateWins ==
    \A p \in Paths : LET i == LastFor(p) IN
        i > 0 /\ Settled(p) /\ chan[i].src = "row" /\ chan[i].kind = "delete"
            => p \notin exists
=============================================================================
