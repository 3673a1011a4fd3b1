-------------------------------- MODULE Worker --------------------------------
(***************************************************************************)
(* The workers: several of them take tasks from one channel, and each      *)
(* brings the Drive, the path cache and the file index in line with a      *)
(* local file that goes on changing. Every await and every read or write   *)
(* of shared state is a step.                                              *)
(*                                                                         *)
(* Tasks come in the order in which the dispatcher makes them (module      *)
(* Dispatch, online); permits, pauses and shutdown are in module Engine.   *)
(* All paths are files, not empty and not ignored, in the root folder.     *)
(***************************************************************************)
EXTENDS Naturals, Sequences, FiniteSets, Functions

CONSTANTS
    Paths,        \* local files, by relative path
    Contents,     \* contents of a file
    Workers,      \* permits of the semaphore
    MaxAttempts,  \* cfg.retry.max_attempts
    Permanent,    \* delete_mode = "permanent", else "trash"
    MaxChanges,   \* bound of the model: changes of the file system
    MaxFaults     \* bound of the model: lost requests, lost answers, corruption

Corrupt == 0
ASSUME WorkerAssumption ==
    /\ IsFiniteSet(Paths) /\ Paths # {} /\ Contents # {} /\ Contents \subseteq Nat \ {Corrupt}
    /\ MaxAttempts \in Nat \ {0} /\ Permanent \in BOOLEAN
    /\ MaxChanges \in Nat /\ MaxFaults \in Nat

VARIABLES
    file,             \* local files: content and time in whole seconds
    now, changes,     \* the clock at the last change, and how many there were
    pending, chan,    \* debounced paths, task channel
    worker,           \* what each worker does, and its local variables
    index,            \* the table file_index: hash and time by path
    cache,            \* PathCache: Drive id by path
    drive, faults,    \* files on the Drive, by id; faults so far
    slips             \* history: paths on which the code is known to slip, and how

localVars == <<file, now, changes, pending>>
vars == <<localVars, chan, worker, index, cache, drive, faults, slips>>

None == [c |-> 0, m |-> 0]   \* no file, no row
NoId == 0                    \* no entry in the cache
Stamped == {None} \cup [c : Contents, m : 0..MaxChanges]

Sync(p)      == [kind |-> "sync", path |-> p, from |-> p]
Delete(p)    == [kind |-> "delete", path |-> p, from |-> p]
Rename(f, t) == [kind |-> "rename", path |-> t, from |-> f]
Tasks == [kind : {"sync", "delete", "rename"}, path : Paths, from : Paths]
PathsOf(t) == {t.path, t.from}

\* How a path can slip: two contents in one second; a former content that comes
\* back; tasks of one path that overlap; a creation whose answer is lost; a failure.
Slips == {"second", "restored", "overlap", "answer", "failure"}
Slip(ps, how) == slips' = slips \cup (ps \X {how})
Slipped(p)    == \E how \in Slips : <<p, how>> \in slips

Idle == [pc |-> "idle", task |-> Sync(CHOOSE p \in Paths : TRUE),
         m |-> 0, hash |-> 0, id |-> NoId, bytes |-> 0, tries |-> 0]

Steps == {"idle", "stat", "quick", "hash", "deep", "send", "land", "verify",
          "record", "row", "find", "trash", "forget", "unrow",
          "origin", "patch", "unlink", "link", "moverow"}

TypeOK ==
    /\ file \in [Paths -> Stamped] /\ index \in [Paths -> Stamped]
    /\ now \in 0..MaxChanges /\ changes \in 0..MaxChanges /\ faults \in 0..MaxFaults
    /\ pending \subseteq Paths /\ slips \subseteq Paths \X Slips /\ chan \in Seq(Tasks)
    /\ drive \in Seq([name : Paths, c : Contents \cup {Corrupt},
                      state : {"live", "trashed", "gone"}])
    /\ cache \in [Paths -> 0..Len(drive)]
    /\ worker \in [Workers -> [pc : Steps, task : Tasks, m : 0..MaxChanges,
           hash : Contents \cup {0}, id : 0..Len(drive),
           bytes : Contents \cup {Corrupt}, tries : 0..MaxAttempts]]

\* Every path has been synchronised; some files have been deleted since.
Synchronised(there, id) ==
    LET c == CHOOSE c \in Contents : TRUE
        name(i) == CHOOSE p \in Paths : id[p] = i
    IN
    /\ file = [p \in Paths |-> IF p \in there THEN [c |-> c, m |-> 0] ELSE None]
    /\ index = file
    /\ cache = [p \in Paths |-> IF p \in there THEN id[p] ELSE NoId]
    /\ drive = [i \in 1..Cardinality(Paths) |->
                   [name |-> name(i), c |-> c,
                    state |-> IF name(i) \in there THEN "live" ELSE "trashed"]]

Init ==
    /\ \E there \in SUBSET Paths, id \in Bijection(Paths, 1..Cardinality(Paths)) :
          Synchronised(there, id)
    /\ now = 0 /\ changes = 0 /\ pending = {} /\ chan = <<>>
    /\ worker = [w \in Workers |-> Idle]
    /\ faults = 0 /\ slips = {}

-----------------------------------------------------------------------------
(* Local changes, and the tasks the dispatcher makes of them *)

Busy(w) == worker[w].pc # "idle"
Concerns(w, p) == Busy(w) /\ p \in PathsOf(worker[w].task)

\* Times are whole seconds: another content of p may bear the time s already.
SameSecond(p, s) ==
    \/ file[p] # None /\ file[p].m = s
    \/ index[p] # None /\ index[p].m = s
    \/ \E w \in Workers : Concerns(w, p) /\ worker[w].m = s /\ worker[w].pc # "stat"

\* A former content comes back: the index, now or when a worker on p has ended, has
\* its hash, and the Drive has another content, or is about to get one.
Restored(p, c) ==
    /\ file[p].c # c
    /\ \/ \E w \in Workers : Concerns(w, p) /\ c \in {worker[w].hash, index[p].c}
       \/ index[p].c = c /\ cache[p] # NoId /\ drive[cache[p]].c # c

Change(p, version) ==
    /\ changes < MaxChanges /\ changes' = changes + 1
    /\ slips' = slips
         \cup (IF SameSecond(p, version.m) THEN {<<p, "second">>} ELSE {})
         \cup (IF Restored(p, version.c) THEN {<<p, "restored">>} ELSE {})
    /\ UNCHANGED <<worker, index, cache, drive, faults>>

Write(p) ==
    \E c \in Contents, s \in {now, now + 1} :
        /\ file' = [file EXCEPT ![p] = [c |-> c, m |-> s]]
        /\ now' = s
        /\ pending' = pending \cup {p}
        /\ Change(p, [c |-> c, m |-> s])
        /\ UNCHANGED chan

Remove(p) ==
    /\ file[p] # None
    /\ file' = [file EXCEPT ![p] = None]
    /\ pending' = pending \ {p}
    /\ chan' = Append(chan, Delete(p))
    /\ changes < MaxChanges /\ changes' = changes + 1
    /\ UNCHANGED <<now, worker, index, cache, drive, faults, slips>>

\* A move keeps the time of the file. notify reports the departure before the
\* move, so a deletion goes ahead of the renaming.
Move(f, t) ==
    /\ f # t /\ file[f] # None
    /\ file' = [file EXCEPT ![t] = file[f], ![f] = None]
    /\ pending' = pending \ {f, t}
    /\ chan' = chan \o <<Delete(f), Rename(f, t)>>
    /\ Change(t, file[f])
    /\ UNCHANGED now

\* The debounce of a path ends.
Fire(p) ==
    /\ p \in pending
    /\ pending' = pending \ {p}
    /\ chan' = Append(chan, Sync(p))
    /\ UNCHANGED <<file, now, changes, worker, index, cache, drive, faults, slips>>

-----------------------------------------------------------------------------
(* A worker begins, goes on, ends *)

At(w, pc) == worker[w].pc = pc
Goto(w, pc) == worker' = [worker EXCEPT ![w].pc = pc]
Done(w) == worker' = [worker EXCEPT ![w] = Idle]

\* Nothing keeps two workers off one path. Two uploads of a file whose id is known
\* go well together, any other pair may not; and a renaming hands the state of one
\* path to another.
Harm(t) ==
    LET others == {worker[w].task : w \in {v \in Workers :
                      Busy(v) /\ PathsOf(worker[v].task) \cap PathsOf(t) # {}}}
        clash(u) == ~(t.kind = "sync" /\ u.kind = "sync" /\ cache[t.path] # NoId)
        clashing == {u \in others : clash(u)}
    IN  ((UNION {PathsOf(t) \cup PathsOf(u) : u \in clashing}) \X {"overlap"})
        \cup (PathsOf(t) \X {how \in Slips : \E p \in PathsOf(t) : <<p, how>> \in slips})

FirstStep(t) ==
    CASE t.kind = "sync" -> "stat" [] t.kind = "delete" -> "find"
      [] t.kind = "rename" -> "origin"

TakeTask(w) ==
    /\ ~Busy(w) /\ chan # <<>>
    /\ worker' = [worker EXCEPT ![w] = [Idle EXCEPT
           !.pc = FirstStep(Head(chan)), !.task = Head(chan), !.tries = 1]]
    /\ chan' = Tail(chan)
    /\ slips' = slips \cup Harm(Head(chan))
    /\ UNCHANGED <<localVars, index, cache, drive, faults>>

\* A task that fails is reported and dropped.
Fail(w) ==
    /\ Done(w)
    /\ Slip(PathsOf(worker[w].task), "failure")

\* Mutation: the attempts are counted from zero.
AgainOnce(w, pc, id) ==
    IF worker[w].tries > MaxAttempts
      THEN Fail(w)
      ELSE /\ worker' = [worker EXCEPT ![w].pc = pc, ![w].id = id,
                                       ![w].tries = worker[w].tries + 1]
           /\ UNCHANGED slips

\* One attempt has failed: wait and retry, or give up.
Again(w, pc, id) ==
    IF worker[w].tries = MaxAttempts
      THEN Fail(w)
      ELSE /\ worker' = [worker EXCEPT ![w].pc = pc, ![w].id = id,
                                       ![w].tries = worker[w].tries + 1]
           /\ UNCHANGED slips

\* A request that never gets there.
Lost(w, pc) ==
    /\ faults < MaxFaults /\ faults' = faults + 1
    /\ Again(w, pc, worker[w].id)
    /\ UNCHANGED drive

-----------------------------------------------------------------------------
(* sync_file *)

\* Metadata: a file that is gone is an error of the task, its deletion follows.
Stat(w) ==
    LET p == worker[w].task.path IN
    /\ At(w, "stat")
    /\ IF file[p] = None
         THEN Done(w)
         ELSE worker' = [worker EXCEPT ![w].pc = "quick", ![w].m = file[p].m]
    /\ UNCHANGED <<localVars, chan, index, cache, drive, faults, slips>>

\* The time alone decides that there is nothing to do.
Quick(w) ==
    LET p == worker[w].task.path IN
    /\ At(w, "quick")
    /\ IF index[p] # None /\ index[p].m = worker[w].m /\ cache[p] # NoId
         THEN Done(w)
         ELSE Goto(w, "hash")
    /\ UNCHANGED <<localVars, chan, index, cache, drive, faults, slips>>

Hash(w) ==
    LET p == worker[w].task.path IN
    /\ At(w, "hash")
    /\ IF file[p] = None
         THEN Done(w)
         ELSE worker' = [worker EXCEPT ![w].pc = "deep", ![w].hash = file[p].c]
    /\ UNCHANGED <<localVars, chan, index, cache, drive, faults, slips>>

\* Only the time has changed: note it. Else the upload begins, as an update of the
\* file the cache names.
Deep(w) ==
    LET me == worker[w]
        p  == me.task.path
    IN
    /\ At(w, "deep")
    /\ IF index[p] # None /\ index[p].c = me.hash /\ cache[p] # NoId
         THEN /\ index' = [index EXCEPT ![p] = [c |-> me.hash, m |-> me.m]]
              /\ Done(w)
         ELSE /\ worker' = [worker EXCEPT ![w].pc = "send", ![w].id = cache[p]]
              /\ UNCHANGED index
    /\ UNCHANGED <<localVars, chan, cache, drive, faults, slips>>

\* upload reads the file.
Send(w) ==
    LET p == worker[w].task.path IN
    /\ At(w, "send")
    /\ IF file[p] = None
         THEN Again(w, "send", worker[w].id)
         ELSE /\ worker' = [worker EXCEPT ![w].pc = "land", ![w].bytes = file[p].c]
              /\ UNCHANGED slips
    /\ UNCHANGED <<localVars, chan, index, cache, drive, faults>>

Exists(id) == id # NoId /\ drive[id].state # "gone"

\* What the Drive makes of an upload: a new file, also when one of that name is
\* there, or a new content for the file of that id, also when it is in the trash.
Stored(id, p, c) ==
    IF id = NoId
      THEN Append(drive, [name |-> p, c |-> c, state |-> "live"])
      ELSE [drive EXCEPT ![id] = [@ EXCEPT !.name = p, !.c = c]]

Answered(w, c) ==
    LET me == worker[w] IN
    /\ me.id = NoId \/ Exists(me.id)
    /\ drive' = Stored(me.id, me.task.path, c)
    /\ worker' = [worker EXCEPT ![w].pc = "verify", ![w].bytes = c,
                      ![w].id = IF me.id = NoId THEN Len(drive) + 1 ELSE me.id]
    /\ UNCHANGED slips

\* The Drive has the file and the worker does not know: the retry of a creation
\* creates another one.
AnswerLost(w) ==
    LET me == worker[w] IN
    /\ faults < MaxFaults /\ faults' = faults + 1
    /\ me.id = NoId \/ Exists(me.id)
    /\ drive' = Stored(me.id, me.task.path, me.bytes)
    /\ IF me.tries = MaxAttempts
         THEN Fail(w)
         ELSE /\ worker' = [worker EXCEPT ![w].pc = "send", ![w].tries = me.tries + 1]
              /\ IF me.id = NoId THEN Slip(PathsOf(me.task), "answer")
                                  ELSE UNCHANGED slips

Land(w) ==
    LET me == worker[w] IN
    /\ At(w, "land")
    /\ \/ Answered(w, me.bytes) /\ UNCHANGED faults
       \/ faults < MaxFaults /\ faults' = faults + 1 /\ Answered(w, Corrupt)
       \/ AnswerLost(w)
       \/ Lost(w, "send")
       \/ /\ me.id # NoId /\ ~Exists(me.id)     \* 404
          /\ Again(w, "send", me.id)
          /\ UNCHANGED <<drive, faults>>
    /\ UNCHANGED <<localVars, chan, index, cache>>

\* Mutation: the answer is compared with the hash taken before the upload.
VerifyFirstHash(w) ==
    LET me == worker[w] IN
    /\ At(w, "verify")
    /\ IF me.hash = me.bytes
         THEN Goto(w, "record") /\ UNCHANGED slips
         ELSE Again(w, "send", me.id)
    /\ UNCHANGED <<localVars, chan, index, cache, drive, faults>>

\* Mutation: a mismatch does not keep the id of the file just created.
VerifyForgets(w) ==
    LET me == worker[w]
        p  == me.task.path
    IN
    /\ At(w, "verify")
    /\ IF file[p] # None /\ file[p].c = me.bytes
         THEN Goto(w, "record") /\ UNCHANGED slips
         ELSE Again(w, "send", cache[p])
    /\ UNCHANGED <<localVars, chan, index, cache, drive, faults>>

\* verify_upload reads the file again; a mismatch, or a file that is gone, makes
\* another attempt on the id just received.
Verify(w) ==
    LET me == worker[w]
        p  == me.task.path
    IN
    /\ At(w, "verify")
    /\ IF file[p] # None /\ file[p].c = me.bytes
         THEN Goto(w, "record") /\ UNCHANGED slips
         ELSE Again(w, "send", me.id)
    /\ UNCHANGED <<localVars, chan, index, cache, drive, faults>>

Record(w) ==
    /\ At(w, "record")
    /\ cache' = [cache EXCEPT ![worker[w].task.path] = worker[w].id]
    /\ Goto(w, "row")
    /\ UNCHANGED <<localVars, chan, index, drive, faults, slips>>

\* Mutation: the time is read when the row is written.
RowLateTime(w) ==
    LET me == worker[w] IN
    /\ At(w, "row")
    /\ index' = [index EXCEPT ![me.task.path] =
                     [c |-> me.hash, m |-> file[me.task.path].m]]
    /\ Done(w)
    /\ UNCHANGED <<localVars, chan, cache, drive, faults, slips>>

\* The hash and the time of the beginning, whatever was sent since.
Row(w) ==
    LET me == worker[w] IN
    /\ At(w, "row")
    /\ index' = [index EXCEPT ![me.task.path] = [c |-> me.hash, m |-> me.m]]
    /\ Done(w)
    /\ UNCHANGED <<localVars, chan, cache, drive, faults, slips>>

-----------------------------------------------------------------------------
(* delete *)

Find(w) ==
    LET id == cache[worker[w].task.path] IN
    /\ At(w, "find")
    /\ worker' = [worker EXCEPT ![w].id = id,
                      ![w].pc = IF id = NoId THEN "unrow" ELSE "trash"]
    /\ UNCHANGED <<localVars, chan, index, cache, drive, faults, slips>>

Trashed(id) ==
    [drive EXCEPT ![id].state = IF Permanent THEN "gone" ELSE "trashed"]

Trash(w) ==
    LET id == worker[w].id IN
    /\ At(w, "trash")
    /\ \/ /\ Exists(id) /\ drive' = Trashed(id)
          /\ Goto(w, "forget")
          /\ UNCHANGED <<faults, slips>>
       \/ /\ Exists(id) /\ drive' = Trashed(id)      \* the answer is lost
          /\ faults < MaxFaults /\ faults' = faults + 1
          /\ Again(w, "trash", id)
       \/ Lost(w, "trash")
       \/ /\ ~Exists(id)                             \* 404
          /\ Again(w, "trash", id)
          /\ UNCHANGED <<drive, faults>>
    /\ UNCHANGED <<localVars, chan, index, cache>>

\* Mutation: the cache keeps the id of a deleted file.
ForgetNot(w) ==
    /\ At(w, "forget")
    /\ Goto(w, "unrow")
    /\ UNCHANGED <<localVars, chan, index, cache, drive, faults, slips>>

Forget(w) ==
    /\ At(w, "forget")
    /\ cache' = [cache EXCEPT ![worker[w].task.path] = NoId]
    /\ Goto(w, "unrow")
    /\ UNCHANGED <<localVars, chan, index, drive, faults, slips>>

Unrow(w) ==
    /\ At(w, "unrow")
    /\ index' = [index EXCEPT ![worker[w].task.path] = None]
    /\ Done(w)
    /\ UNCHANGED <<localVars, chan, cache, drive, faults, slips>>

-----------------------------------------------------------------------------
(* rename *)

\* An unknown origin makes it an upload of the target.
Origin(w) ==
    LET t  == worker[w].task
        id == cache[t.from]
    IN
    /\ At(w, "origin")
    /\ IF id # NoId /\ index[t.from] # None
         THEN worker' = [worker EXCEPT ![w].pc = "patch", ![w].id = id]
         ELSE IF file[t.path] # None THEN Goto(w, "stat") ELSE Done(w)
    /\ UNCHANGED <<localVars, chan, index, cache, drive, faults, slips>>

Patch(w) ==
    LET id == worker[w].id
        renamed == [drive EXCEPT ![id].name = worker[w].task.path]
    IN
    /\ At(w, "patch")
    /\ \/ /\ Exists(id) /\ drive' = renamed
          /\ Goto(w, "unlink")
          /\ UNCHANGED <<faults, slips>>
       \/ /\ Exists(id) /\ drive' = renamed          \* the answer is lost
          /\ faults < MaxFaults /\ faults' = faults + 1
          /\ Again(w, "patch", id)
       \/ Lost(w, "patch")
       \/ /\ ~Exists(id)                             \* 404
          /\ Again(w, "patch", id)
          /\ UNCHANGED <<drive, faults>>
    /\ UNCHANGED <<localVars, chan, index, cache>>

Unlink(w) ==
    /\ At(w, "unlink")
    /\ cache' = [cache EXCEPT ![worker[w].task.from] = NoId]
    /\ Goto(w, "link")
    /\ UNCHANGED <<localVars, chan, index, drive, faults, slips>>

Link(w) ==
    /\ At(w, "link")
    /\ cache' = [cache EXCEPT ![worker[w].task.path] = worker[w].id]
    /\ Goto(w, "moverow")
    /\ UNCHANGED <<localVars, chan, index, drive, faults, slips>>

\* UPDATE of the primary key: no row is fine, a row of that name is an error.
MoveRow(w) ==
    LET f == worker[w].task.from
        t == worker[w].task.path
    IN
    /\ At(w, "moverow")
    /\ IF index[f] # None /\ index[t] # None
         THEN Fail(w) /\ UNCHANGED index
         ELSE /\ index' = IF index[f] = None THEN index
                            ELSE [index EXCEPT ![t] = index[f], ![f] = None]
              /\ Done(w)
              /\ UNCHANGED slips
    /\ UNCHANGED <<localVars, chan, cache, drive, faults>>

-----------------------------------------------------------------------------
Desktop ==
    \/ \E p \in Paths : Write(p) \/ Remove(p) \/ Fire(p)
    \/ \E f, t \in Paths : Move(f, t)

Work(w) ==
    \/ TakeTask(w)
    \/ Stat(w) \/ Quick(w) \/ Hash(w) \/ Deep(w)
    \/ Send(w) \/ Land(w) \/ Verify(w) \/ Record(w) \/ Row(w)
    \/ Find(w) \/ Trash(w) \/ Forget(w) \/ Unrow(w)
    \/ Origin(w) \/ Patch(w) \/ Unlink(w) \/ Link(w) \/ MoveRow(w)

Next == Desktop \/ \E w \in Workers : Work(w)

Spec == Init /\ [][Next]_vars

-----------------------------------------------------------------------------
(* Properties *)

Touched(p) == \E w \in Workers : Concerns(w, p)
Slipless == {p \in Paths : ~Slipped(p)}
Settled(p) ==
    /\ p \notin pending /\ ~Touched(p)
    /\ \A i \in DOMAIN chan : p \notin PathsOf(chan[i])

LiveIds(p) == {i \in DOMAIN drive : drive[i].name = p /\ drive[i].state = "live"}

\* The Drive has what the disk has, once, and cache and index know it.
Mirrored(p) ==
    IF file[p] = None
      THEN LiveIds(p) = {} /\ cache[p] = NoId /\ index[p] = None
      ELSE /\ LiveIds(p) = {cache[p]}
           /\ drive[cache[p]].c = file[p].c
           /\ index[p] # None

\* When nothing is on its way for a path, the Drive mirrors it, whatever happened
\* to the file while it was hashed, sent, verified, deleted or moved (worker.rs:23),
\* also with two uploads of it at once. The exceptions are the slips: a
\* write within the second of another, a former content that comes back while the
\* index has its hash, tasks of one path that overlap in another way, a creation whose
\* answer is lost, a task that fails.
MirrorKept == \A p \in Slipless : Settled(p) => Mirrored(p)

\* There are never two files of one name on the Drive, not even between the
\* attempts of an upload (worker.rs:176).
OneDriveFile == \A p \in Slipless : Cardinality(LiveIds(p)) <= 1

\* Between tasks, an id in the cache is the one of a living file of that name: the
\* next update reaches the file it means (worker.rs:123), the next deletion too.
CacheSound ==
    \A p \in Slipless :
        cache[p] # NoId /\ ~Touched(p) => cache[p] \in LiveIds(p)

\* The quick check of times (worker.rs:75) never skips a file whose content the
\* Drive does not have.
SkipIsSound ==
    \A p \in Slipless :
        (/\ ~Touched(p) /\ file[p] # None /\ index[p] # None /\ cache[p] # NoId
         /\ index[p].m = file[p].m)
        => drive[cache[p]].c = file[p].c

-----------------------------------------------------------------------------
(* What the documents say *)

\* docs/AIDE.md:182-184: a file created or changed is sent, one deleted or renamed
\* is so on the Drive. Here of the paths where at most the given slips happened.
MirroredBut(hows) ==
    \A p \in Paths :
        Settled(p) /\ (\A how \in Slips \ hows : <<p, how>> \notin slips)
        => Mirrored(p)

\* A move is a deletion and a renaming, and nothing keeps two workers from running
\* them at once.
MovedIsMirrored == MirroredBut({"overlap"})
=============================================================================
