------------------------------ MODULE WorkerProofs ------------------------------
(* Proofs about module Worker, for all paths, contents, workers, attempts, changes and
   faults: types; that the Drive never has two files of one name and the cache names a
   living one; that the Drive has what the disk has when nothing is on its way, and that
   the check of times is right. All of them of the paths that have not slipped. *)
EXTENDS Worker, FiniteSetTheorems, TLAPS

USE WorkerAssumption DEF Corrupt, NoId

Entries == [name : Paths, c : Contents \cup {Corrupt}, state : {"live", "trashed", "gone"}]

\* What workers may hold when the Drive has k files: a hash once they have read the file.
Jobs(k) == [pc : Steps, task : Tasks, m : 0..MaxChanges, hash : Contents \cup {0},
            id : 0..k, bytes : Contents \cup {Corrupt}, tries : 0..MaxAttempts]
Hashed == {"deep", "send", "land", "verify", "record", "row"}
Staff(ws, k) ==
    /\ ws \in [Workers -> Jobs(k)]
    /\ \A v \in Workers : ws[v].pc \in Hashed => ws[v].hash # 0

\* Types, in the form that the proofs use: the clock is never ahead of the changes.
TypeInv ==
    /\ file \in [Paths -> Stamped] /\ index \in [Paths -> Stamped]
    /\ now \in 0..MaxChanges /\ changes \in 0..MaxChanges /\ faults \in 0..MaxFaults
    /\ pending \subseteq Paths /\ slips \subseteq Paths \X Slips /\ chan \in Seq(Tasks)
    /\ drive \in Seq(Entries) /\ Len(drive) \in Nat
    /\ cache \in [Paths -> 0..Len(drive)]
    /\ Staff(worker, Len(drive))
    /\ now <= changes

LEMMA StampedType ==
  ASSUME NEW x \in Stamped, x # None
  PROVE  x.c \in Contents /\ x.m \in 0..MaxChanges
BY DEF Stamped, None

LEMMA TaskTypes ==
  /\ \A p \in Paths : Sync(p) \in Tasks /\ Delete(p) \in Tasks
  /\ \A f, t \in Paths : Rename(f, t) \in Tasks
BY DEF Sync, Delete, Rename, Tasks

LEMMA IdleType == \A k \in Nat : Idle \in Jobs(k)
<1>1. Sync(CHOOSE p \in Paths : TRUE) \in Tasks
  BY TaskTypes
<1> HIDE DEF Sync
<1> QED  BY <1>1 DEF Idle, Jobs, Steps

LEMMA InitType == Init => TypeInv
<1> SUFFICES ASSUME Init PROVE TypeInv
  OBVIOUS
<1> DEFINE n == Cardinality(Paths)
           c0 == CHOOSE c \in Contents : TRUE
<1>1. n \in Nat
  BY FS_CardinalityType
<1>2. PICK there \in SUBSET Paths, id \in Bijection(Paths, 1..n) : Synchronised(there, id)
  BY DEF Init
<1> DEFINE name(i) == CHOOSE q \in Paths : id[q] = i
<1>3. /\ now = 0 /\ changes = 0 /\ pending = {} /\ chan = <<>>
      /\ worker = [w \in Workers |-> Idle]
      /\ faults = 0 /\ slips = {}
  BY DEF Init
<1>4. c0 \in Contents
  OBVIOUS
<1>5. id \in [Paths -> 1..n] /\ \A i \in 1..n : \E q \in Paths : id[q] = i
  BY DEF Bijection, Injection, Surjection
<1>6. \A i \in 1..n : name(i) \in Paths
  BY <1>5
<1>a. drive = [i \in 1..n |-> [name |-> name(i), c |-> c0,
                             state |-> IF name(i) \in there THEN "live" ELSE "trashed"]]
  BY <1>2 DEF Synchronised
<1>b. /\ file = [p \in Paths |-> IF p \in there THEN [c |-> c0, m |-> 0] ELSE None]
      /\ index = file
      /\ cache = [p \in Paths |-> IF p \in there THEN id[p] ELSE NoId]
  BY <1>2 DEF Synchronised
<1> HIDE DEF n, c0, name
<1>7. drive \in [1..n -> Entries]
  BY <1>a, <1>4, <1>6 DEF Entries
<1>8. drive \in Seq(Entries) /\ Len(drive) = n
  BY <1>1, <1>7
<1>9. file \in [Paths -> Stamped] /\ index \in [Paths -> Stamped]
  BY <1>b, <1>4 DEF Stamped, None
<1>10. cache \in [Paths -> 0..n]
  BY <1>1, <1>5, <1>b
<1>11. Staff(worker, n)
  BY <1>1, <1>3, IdleType DEF Staff, Idle, Hashed
<1> QED
  BY <1>1, <1>3, <1>8, <1>9, <1>10, <1>11 DEF TypeInv

LEMMA TaskPaths == \A t \in Tasks : t.path \in Paths /\ t.from \in Paths /\ PathsOf(t) \subseteq Paths
BY DEF Tasks, PathsOf

LEMMA SlipType ==
  ASSUME slips \subseteq Paths \X Slips, NEW ps \in SUBSET Paths, NEW how \in Slips,
         Slip(ps, how)
  PROVE  slips' \subseteq Paths \X Slips
BY DEF Slip

\* The edits of a worker that the actions make.
LEMMA JobEdits ==
  ASSUME NEW k \in Nat, NEW j \in Jobs(k), NEW pc \in Steps
  PROVE  /\ [j EXCEPT !.pc = pc] \in Jobs(k)
         /\ \A id \in 0..k : [j EXCEPT !.pc = pc, !.id = id] \in Jobs(k)
         /\ \A id \in 0..k, n \in 0..MaxAttempts :
               [j EXCEPT !.pc = pc, !.id = id, !.tries = n] \in Jobs(k)
         /\ \A n \in 0..MaxAttempts : [j EXCEPT !.pc = pc, !.tries = n] \in Jobs(k)
         /\ \A m \in 0..MaxChanges : [j EXCEPT !.pc = pc, !.m = m] \in Jobs(k)
         /\ \A h \in Contents : [j EXCEPT !.pc = pc, !.hash = h] \in Jobs(k)
         /\ \A c \in Contents \cup {Corrupt} : [j EXCEPT !.pc = pc, !.bytes = c] \in Jobs(k)
         /\ \A c \in Contents \cup {Corrupt}, id \in 0..k :
               [j EXCEPT !.pc = pc, !.bytes = c, !.id = id] \in Jobs(k)
         /\ \A t \in Tasks : [j EXCEPT !.pc = pc, !.task = t, !.tries = 1] \in Jobs(k)
<1>1. [j EXCEPT !.pc = pc] \in Jobs(k)
  BY DEF Jobs
<1>2. \A id \in 0..k : [j EXCEPT !.pc = pc, !.id = id] \in Jobs(k)
  BY DEF Jobs
<1>3. \A id \in 0..k, n \in 0..MaxAttempts :
         [j EXCEPT !.pc = pc, !.id = id, !.tries = n] \in Jobs(k)
  BY DEF Jobs
<1>4. \A n \in 0..MaxAttempts : [j EXCEPT !.pc = pc, !.tries = n] \in Jobs(k)
  BY DEF Jobs
<1>5. \A m \in 0..MaxChanges : [j EXCEPT !.pc = pc, !.m = m] \in Jobs(k)
  BY DEF Jobs
<1>6. \A h \in Contents : [j EXCEPT !.pc = pc, !.hash = h] \in Jobs(k)
  BY DEF Jobs
<1>7. \A c \in Contents \cup {Corrupt} : [j EXCEPT !.pc = pc, !.bytes = c] \in Jobs(k)
  BY DEF Jobs
<1>8. \A c \in Contents \cup {Corrupt}, id \in 0..k :
         [j EXCEPT !.pc = pc, !.bytes = c, !.id = id] \in Jobs(k)
  BY DEF Jobs
<1>9. \A t \in Tasks : [j EXCEPT !.pc = pc, !.task = t, !.tries = 1] \in Jobs(k)
  <2>1. 1 \in 0..MaxAttempts
    OBVIOUS
  <2> QED  BY <2>1 DEF Jobs
<1> QED  BY <1>1, <1>2, <1>3, <1>4, <1>5, <1>6, <1>7, <1>8, <1>9

LEMMA WorkerEdits ==
  ASSUME NEW k, worker \in [Workers -> Jobs(k)], NEW w \in Workers, NEW pc, NEW x, NEW y
  PROVE  LET me == worker[w] IN
         /\ [worker EXCEPT ![w].pc = pc] = [worker EXCEPT ![w] = [me EXCEPT !.pc = pc]]
         /\ [worker EXCEPT ![w].pc = pc, ![w].id = x]
               = [worker EXCEPT ![w] = [me EXCEPT !.pc = pc, !.id = x]]
         /\ [worker EXCEPT ![w].pc = pc, ![w].m = x]
               = [worker EXCEPT ![w] = [me EXCEPT !.pc = pc, !.m = x]]
         /\ [worker EXCEPT ![w].pc = pc, ![w].hash = x]
               = [worker EXCEPT ![w] = [me EXCEPT !.pc = pc, !.hash = x]]
         /\ [worker EXCEPT ![w].pc = pc, ![w].bytes = x]
               = [worker EXCEPT ![w] = [me EXCEPT !.pc = pc, !.bytes = x]]
         /\ [worker EXCEPT ![w].pc = pc, ![w].tries = x]
               = [worker EXCEPT ![w] = [me EXCEPT !.pc = pc, !.tries = x]]
         /\ [worker EXCEPT ![w].pc = pc, ![w].id = x, ![w].tries = y]
               = [worker EXCEPT ![w] = [me EXCEPT !.pc = pc, !.id = x, !.tries = y]]
         /\ [worker EXCEPT ![w].pc = pc, ![w].bytes = x, ![w].id = y]
               = [worker EXCEPT ![w] = [me EXCEPT !.pc = pc, !.bytes = x, !.id = y]]
OBVIOUS

\* A worker that fails, retries or ends keeps its type.
LEMMA EndType ==
  ASSUME TypeInv, NEW w \in Workers
  PROVE  /\ Done(w) => Staff(worker', Len(drive))
         /\ Fail(w) => /\ Staff(worker', Len(drive))
                       /\ slips' \subseteq Paths \X Slips
         /\ \A pc \in Steps, id \in 0..Len(drive) :
               /\ Again(w, pc, id)
               /\ pc \in Hashed => worker[w].hash # 0
               => /\ Staff(worker', Len(drive))
                  /\ slips' \subseteq Paths \X Slips
         /\ \A pc \in Steps :
               /\ Goto(w, pc)
               /\ pc \in Hashed => worker[w].hash # 0
               => Staff(worker', Len(drive))
<1> DEFINE k == Len(drive)
<1>1. /\ worker \in [Workers -> Jobs(k)] /\ worker[w] \in Jobs(k) /\ k \in Nat
      /\ Idle \in Jobs(k) /\ Idle.pc = "idle" /\ Staff(worker, k)
  BY IdleType DEF TypeInv, Idle, Staff
<1>2. worker[w].task \in Tasks /\ PathsOf(worker[w].task) \subseteq Paths
  BY <1>1, TaskPaths DEF Jobs
<1> HIDE DEF Idle, k
<1>e. \A j \in Jobs(k) :
         (j.pc \in Hashed => j.hash # 0) => Staff([worker EXCEPT ![w] = j], k)
  BY <1>1 DEF Staff
<1>3. Done(w) => Staff(worker', k)
  BY <1>1, <1>e DEF Done, Hashed
<1>4. Fail(w) => slips' \subseteq Paths \X Slips
  BY <1>2, SlipType DEF TypeInv, Fail, Slips
<1>5. ASSUME NEW pc \in Steps, NEW id \in 0..k, worker[w].tries # MaxAttempts,
             pc \in Hashed => worker[w].hash # 0
      PROVE  Staff([worker EXCEPT ![w].pc = pc, ![w].id = id,
                                  ![w].tries = worker[w].tries + 1], k)
  <2> DEFINE j == [worker[w] EXCEPT !.pc = pc, !.id = id, !.tries = worker[w].tries + 1]
  <2>1. worker[w].tries + 1 \in 0..MaxAttempts
    BY <1>1, <1>5 DEF Jobs
  <2>2. j \in Jobs(k)
    BY <1>1, <1>5, <2>1, JobEdits
  <2>3. j.pc = pc /\ j.hash = worker[w].hash
    BY <1>1 DEF Jobs
  <2> HIDE DEF j
  <2>4. Staff([worker EXCEPT ![w] = j], k)
    BY <1>e, <1>5, <2>2, <2>3
  <2> QED  BY <1>1, <2>4, WorkerEdits DEF j
<1>6. ASSUME NEW pc \in Steps, Goto(w, pc), pc \in Hashed => worker[w].hash # 0
      PROVE  Staff(worker', k)
  <2> DEFINE j == [worker[w] EXCEPT !.pc = pc]
  <2>1. j \in Jobs(k) /\ j.pc = pc /\ j.hash = worker[w].hash
    BY <1>1, <1>6, JobEdits DEF Jobs
  <2> HIDE DEF j
  <2>2. Staff([worker EXCEPT ![w] = j], k)
    BY <1>e, <1>6, <2>1
  <2> QED  BY <1>1, <1>6, <2>2, WorkerEdits DEF j, Goto
<1>7. Fail(w) => /\ Staff(worker', k)
                 /\ slips' \subseteq Paths \X Slips
  BY <1>3, <1>4 DEF Fail
<1>8. ASSUME NEW pc \in Steps, NEW id \in 0..k, Again(w, pc, id),
             pc \in Hashed => worker[w].hash # 0
      PROVE  /\ Staff(worker', k)
             /\ slips' \subseteq Paths \X Slips
  <2>1. CASE worker[w].tries = MaxAttempts
    BY <2>1, <1>7, <1>8 DEF Again
  <2>2. CASE worker[w].tries # MaxAttempts
    BY <2>2, <1>5, <1>8 DEF Again, TypeInv
  <2> QED  BY <2>1, <2>2
<1> QED  BY <1>3, <1>6, <1>7, <1>8 DEF k

LEMMA LocalType ==
  ASSUME TypeInv, Desktop
  PROVE  TypeInv'
<1> USE DEF TypeInv, localVars
<1>1. ASSUME NEW p \in Paths, NEW v, Change(p, v)
      PROVE  /\ slips' \subseteq Paths \X Slips /\ changes' \in 0..MaxChanges
             /\ changes' = changes + 1
  BY <1>1 DEF Change, Slips
<1>2. ASSUME NEW p \in Paths, Write(p) PROVE TypeInv'
  <2>1. PICK c \in Contents, s \in {now, now + 1} :
           /\ file' = [file EXCEPT ![p] = [c |-> c, m |-> s]]
           /\ now' = s /\ pending' = pending \cup {p}
           /\ Change(p, [c |-> c, m |-> s]) /\ UNCHANGED chan
    BY <1>2 DEF Write
  <2>2. s \in 0..MaxChanges /\ s <= changes'
    BY <2>1, <1>1
  <2>3. [c |-> c, m |-> s] \in Stamped
    BY <2>2 DEF Stamped
  <2>4. UNCHANGED <<worker, index, cache, drive, faults>>
    BY <2>1 DEF Change
  <2> QED  BY <2>1, <2>2, <2>3, <2>4, <1>1
<1>3. ASSUME NEW p \in Paths, Remove(p) PROVE TypeInv'
  <2>1. None \in Stamped
    BY DEF Stamped
  <2> QED  BY <1>3, <2>1, TaskTypes DEF Remove
<1>4. ASSUME NEW p \in Paths, Fire(p) PROVE TypeInv'
  BY <1>4, TaskTypes DEF Fire
<1>5. ASSUME NEW f \in Paths, NEW t \in Paths, Move(f, t) PROVE TypeInv'
  <2>1. None \in Stamped /\ file[f] \in Stamped
    BY DEF Stamped
  <2>2. chan' \in Seq(Tasks)
    BY <1>5, TaskTypes DEF Move
  <2>3. UNCHANGED <<worker, index, cache, drive, faults>>
    BY <1>5 DEF Move, Change
  <2>4. changes' \in 0..MaxChanges /\ changes' = changes + 1 /\ slips' \subseteq Paths \X Slips
    BY <1>1, <1>5 DEF Move
  <2>5. file' \in [Paths -> Stamped] /\ pending' \subseteq Paths /\ now' = now
    BY <2>1, <1>5 DEF Move
  <2> QED  BY <2>2, <2>3, <2>4, <2>5
<1> QED  BY <1>2, <1>3, <1>4, <1>5 DEF Desktop

LEMMA WorkType ==
  ASSUME TypeInv, NEW w \in Workers, Work(w), ~Land(w)
  PROVE  TypeInv'
<1> USE DEF TypeInv, localVars, At, Hashed
<1> DEFINE me == worker[w]
           p  == me.task.path
           f  == me.task.from
<1>1. /\ me \in Jobs(Len(drive)) /\ me.task \in Tasks
      /\ p \in Paths /\ f \in Paths /\ PathsOf(me.task) \subseteq Paths
      /\ me.id \in 0..Len(drive) /\ me.tries \in 0..MaxAttempts
      /\ me.hash \in Contents \cup {0} /\ me.m \in 0..MaxChanges
      /\ me.bytes \in Contents \cup {0}
      /\ me.pc \in Hashed => me.hash \in Contents
      /\ worker \in [Workers -> Jobs(Len(drive))] /\ 0 \in 0..Len(drive)
  BY TaskPaths DEF Jobs, Staff
<1>2. file[p] # None => file[p].c \in Contents /\ file[p].m \in 0..MaxChanges
  BY <1>1, StampedType
<1>3. {"idle", "stat", "quick", "hash", "deep", "send", "land", "verify", "record", "row",
       "find", "trash", "forget", "unrow", "origin", "patch", "unlink", "link", "moverow"}
          = Steps
  BY DEF Steps
<1>4. /\ \A c \in Contents, m \in 0..MaxChanges : [c |-> c, m |-> m] \in Stamped
      /\ None \in Stamped
  BY DEF Stamped
<1> HIDE DEF p, f
<1>e. \A j \in Jobs(Len(drive)) :
         (j.pc \in Hashed => j.hash # 0) => Staff([worker EXCEPT ![w] = j], Len(drive))
  BY <1>1 DEF Staff
<1>5. CASE TakeTask(w)
  <2>1. chan # <<>> /\ Head(chan) \in Tasks /\ Tail(chan) \in Seq(Tasks)
    BY <1>5 DEF TakeTask
  <2>2. FirstStep(Head(chan)) \in Steps \ Hashed
    BY <2>1, <1>3 DEF FirstStep, Tasks
  <2>3. Idle \in Jobs(Len(drive)) /\ Idle.hash = 0
    BY IdleType DEF Idle
  <2> HIDE DEF Idle
  <2>4. [Idle EXCEPT !.pc = FirstStep(Head(chan)), !.task = Head(chan), !.tries = 1]
            \in Jobs(Len(drive))
    BY <2>1, <2>2, <2>3, JobEdits
  <2>5. Harm(Head(chan)) \subseteq Paths \X Slips
    <3> DEFINE others == {worker[v].task : v \in {u \in Workers :
                   Busy(u) /\ PathsOf(worker[u].task) \cap PathsOf(Head(chan)) # {}}}
    <3>1. \A u \in others : PathsOf(u) \subseteq Paths
      <4>1. \A v \in Workers : worker[v].task \in Tasks
        BY <1>1 DEF Jobs
      <4> QED  BY <4>1, TaskPaths
    <3> HIDE DEF others
    <3>2. "overlap" \in Slips
      BY DEF Slips
    <3> QED  BY <2>1, <3>1, <3>2, TaskPaths DEF Harm, others
  <2> DEFINE j == [Idle EXCEPT !.pc = FirstStep(Head(chan)), !.task = Head(chan), !.tries = 1]
  <2>6. j.pc \notin Hashed
    BY <2>2, <2>3 DEF Jobs
  <2> HIDE DEF j
  <2>7. Staff([worker EXCEPT ![w] = j], Len(drive))
    BY <1>e, <2>4, <2>6 DEF j
  <2>8. worker' = [worker EXCEPT ![w] = j]
    BY <1>5 DEF TakeTask, j
  <2> QED  BY <1>5, <2>1, <2>5, <2>7, <2>8 DEF TakeTask
<1>6. CASE Stat(w)
  <2> DEFINE j == [me EXCEPT !.pc = "quick", !.m = file[p].m]
  <2>1. ASSUME file[p] # None PROVE Staff([worker EXCEPT ![w] = j], Len(drive))
    <3>1. j \in Jobs(Len(drive))
      BY <2>1, <1>1, <1>2, <1>3, JobEdits
    <3>2. j.pc \in Hashed => j.hash # 0
      BY <2>1, <1>1, <1>2, <1>6 DEF Stat, Jobs
    <3> QED  BY <3>1, <3>2, <1>e
  <2>2. j = [me EXCEPT !.pc = "quick", !.m = file[p].m]
    OBVIOUS
  <2> HIDE DEF j
  <2>3. ASSUME worker' = [worker EXCEPT ![w].pc = "quick", ![w].m = file[p].m]
        PROVE  worker' = [worker EXCEPT ![w] = j]
    BY <2>2, <2>3, <1>1, WorkerEdits
  <2> QED  BY <1>6, <1>1, <1>3, <2>1, <2>3, EndType DEF Stat, p
<1>7. CASE Quick(w)
  BY <1>7, <1>3, EndType DEF Quick
<1>8. CASE Hash(w)
  <2> DEFINE j == [me EXCEPT !.pc = "deep", !.hash = file[p].c]
  <2>1. ASSUME file[p] # None PROVE Staff([worker EXCEPT ![w] = j], Len(drive))
    <3>1. j \in Jobs(Len(drive))
      BY <2>1, <1>1, <1>2, <1>3, JobEdits
    <3>2. j.pc \in Hashed => j.hash # 0
      BY <2>1, <1>1, <1>2, <1>8 DEF Hash, Jobs
    <3> QED  BY <3>1, <3>2, <1>e
  <2>2. j = [me EXCEPT !.pc = "deep", !.hash = file[p].c]
    OBVIOUS
  <2> HIDE DEF j
  <2>3. ASSUME worker' = [worker EXCEPT ![w].pc = "deep", ![w].hash = file[p].c]
        PROVE  worker' = [worker EXCEPT ![w] = j]
    BY <2>2, <2>3, <1>1, WorkerEdits
  <2> QED  BY <1>8, <1>1, <1>3, <2>1, <2>3, EndType DEF Hash, p
<1>9. CASE Deep(w)
  <2>1. [c |-> me.hash, m |-> me.m] \in Stamped
    BY <1>1, <1>4, <1>9 DEF Deep
  <2> DEFINE j == [me EXCEPT !.pc = "send", !.id = cache[p]]
  <2>2. Staff([worker EXCEPT ![w] = j], Len(drive))
    <3>1. j \in Jobs(Len(drive))
      BY <1>1, <1>3, JobEdits
    <3>2. j.pc \in Hashed => j.hash # 0
      BY <1>1, <1>9 DEF Deep, Jobs
    <3> QED  BY <3>1, <3>2, <1>e
  <2>3. j = [me EXCEPT !.pc = "send", !.id = cache[p]]
    OBVIOUS
  <2> HIDE DEF j
  <2>4. ASSUME worker' = [worker EXCEPT ![w].pc = "send", ![w].id = cache[p]]
        PROVE  worker' = [worker EXCEPT ![w] = j]
    BY <2>3, <2>4, <1>1, WorkerEdits
  <2>5. /\ Staff(worker', Len(drive))
        /\ index' \in [Paths -> Stamped]
        /\ UNCHANGED <<localVars, chan, cache, drive, faults, slips>>
    BY <1>1, <2>1, <2>2, <2>4, <1>9, EndType DEF Deep, p
  <2> QED  BY <2>5
<1>10. CASE Send(w)
  <2> DEFINE j == [me EXCEPT !.pc = "land", !.bytes = file[p].c]
  <2>1. ASSUME file[p] # None PROVE Staff([worker EXCEPT ![w] = j], Len(drive))
    <3>1. j \in Jobs(Len(drive))
      BY <2>1, <1>1, <1>2, <1>3, JobEdits
    <3>2. j.pc \in Hashed => j.hash # 0
      BY <2>1, <1>1, <1>2, <1>10 DEF Send, Jobs
    <3> QED  BY <3>1, <3>2, <1>e
  <2>2. j = [me EXCEPT !.pc = "land", !.bytes = file[p].c]
    OBVIOUS
  <2> HIDE DEF j
  <2>3. ASSUME worker' = [worker EXCEPT ![w].pc = "land", ![w].bytes = file[p].c]
        PROVE  worker' = [worker EXCEPT ![w] = j]
    BY <2>2, <2>3, <1>1, WorkerEdits
  <2> QED  BY <1>10, <1>1, <1>3, <2>1, <2>3, EndType DEF Send, p
<1>11. CASE Verify(w)
  BY <1>11, <1>1, <1>3, EndType DEF Verify
<1>12. CASE Record(w) \/ Row(w)
  <2>1. CASE Record(w)
    BY <2>1, <1>1, <1>3, EndType DEF Record, p
  <2>2. CASE Row(w)
    BY <2>2, <1>1, <1>4, EndType DEF Row, p
  <2> QED  BY <1>12, <2>1, <2>2
<1>13. CASE Find(w) \/ Forget(w) \/ Unrow(w)
  <2>1. CASE Find(w)
    <3> DEFINE pc == IF cache[p] = NoId THEN "unrow" ELSE "trash"
               j  == [me EXCEPT !.pc = pc, !.id = cache[p]]
    <3>1. j \in Jobs(Len(drive))
      BY <1>1, <1>3, JobEdits
    <3>2. j.pc \in Hashed => j.hash # 0
      BY <1>1 DEF Jobs
    <3>3. Staff([worker EXCEPT ![w] = j], Len(drive))
      BY <3>1, <3>2, <1>e
    <3>4. worker' = [worker EXCEPT ![w].id = cache[p], ![w].pc = pc]
      BY <2>1 DEF Find, p
    <3>5. worker' = [worker EXCEPT ![w] = j]
      BY <3>4, <1>1
    <3> HIDE DEF j
    <3> QED  BY <2>1, <3>3, <3>5 DEF Find
  <2>2. CASE Forget(w)
    BY <2>2, <1>1, <1>3, EndType DEF Forget, p
  <2>3. CASE Unrow(w)
    BY <2>3, <1>1, <1>4, EndType DEF Unrow, p
  <2> QED  BY <1>13, <2>1, <2>2, <2>3
<1>14. CASE Trash(w) \/ Patch(w)
  <2>1. drive' \in Seq(Entries) /\ Len(drive') = Len(drive)
    <3>1. \A x \in Entries : /\ [x EXCEPT !.state = "gone"] \in Entries
                             /\ [x EXCEPT !.state = "trashed"] \in Entries
                             /\ [x EXCEPT !.name = p] \in Entries
      BY <1>1 DEF Entries
    <3>2. \A i \in 1..Len(drive), x \in Entries :
             /\ [drive EXCEPT ![i] = x] \in Seq(Entries)
             /\ Len([drive EXCEPT ![i] = x]) = Len(drive)
             /\ drive[i] \in Entries
      OBVIOUS
    <3>3. CASE Trash(w)
      <4>1. ASSUME Exists(me.id), drive' = Trashed(me.id)
            PROVE  drive' \in Seq(Entries) /\ Len(drive') = Len(drive)
        <5>1. me.id \in 1..Len(drive)
          BY <4>1, <1>1 DEF Exists
        <5> DEFINE x == [drive[me.id] EXCEPT !.state = IF Permanent THEN "gone" ELSE "trashed"]
        <5>a. drive[me.id] \in Entries
          BY <5>1
        <5>2. x \in Entries
          BY <5>a DEF Entries
        <5>3. drive' = [drive EXCEPT ![me.id] = x]
          BY <4>1, <5>1 DEF Trashed
        <5> HIDE DEF x
        <5> QED  BY <5>1, <5>2, <5>3, <3>2
      <4> QED  BY <3>3, <4>1 DEF Trash, Lost
    <3>4. CASE Patch(w)
      <4>1. ASSUME Exists(me.id), drive' = [drive EXCEPT ![me.id].name = p]
            PROVE  drive' \in Seq(Entries) /\ Len(drive') = Len(drive)
        <5>1. me.id \in 1..Len(drive)
          BY <4>1, <1>1 DEF Exists
        <5> DEFINE x == [drive[me.id] EXCEPT !.name = p]
        <5>a. drive[me.id] \in Entries
          BY <5>1
        <5>2. x \in Entries
          BY <5>a, <3>1
        <5>3. drive' = [drive EXCEPT ![me.id] = x]
          BY <4>1, <5>1
        <5> HIDE DEF x
        <5> QED  BY <5>1, <5>2, <5>3, <3>2
      <4> QED  BY <3>4, <4>1 DEF Patch, Lost, p
    <3> QED  BY <1>14, <3>3, <3>4
  <2>2. UNCHANGED <<localVars, chan, index, cache>> /\ faults' \in 0..MaxFaults
    BY <1>14 DEF Trash, Patch, Lost
  <2>3. Staff(worker', Len(drive)) /\ slips' \subseteq Paths \X Slips
    BY <1>14, <1>1, <1>3, EndType DEF Trash, Patch, Lost
  <2> QED  BY <2>1, <2>2, <2>3
<1>15. CASE Origin(w)
  <2> DEFINE j == [me EXCEPT !.pc = "patch", !.id = cache[f]]
  <2>1. Staff([worker EXCEPT ![w] = j], Len(drive))
    <3>1. j \in Jobs(Len(drive))
      BY <1>1, <1>3, JobEdits
    <3>2. j.pc \in Hashed => j.hash # 0
      BY <1>1 DEF Jobs
    <3> QED  BY <3>1, <3>2, <1>e
  <2>2. j = [me EXCEPT !.pc = "patch", !.id = cache[f]]
    OBVIOUS
  <2> HIDE DEF j
  <2>3. ASSUME worker' = [worker EXCEPT ![w].pc = "patch", ![w].id = cache[f]]
        PROVE  worker' = [worker EXCEPT ![w] = j]
    BY <2>2, <2>3, <1>1, WorkerEdits
  <2> QED  BY <2>1, <2>3, <1>15, <1>3, EndType DEF Origin, f
<1>16. CASE Unlink(w) \/ Link(w)
  BY <1>16, <1>1, <1>3, EndType DEF Unlink, Link, p, f
<1>17. CASE MoveRow(w)
  BY <1>17, <1>1, <1>4, EndType DEF MoveRow, p, f
<1> QED
  BY <1>5, <1>6, <1>7, <1>8, <1>9, <1>10, <1>11, <1>12, <1>13, <1>14, <1>15, <1>16, <1>17
     DEF Work

\* An upload that lands: the Drive may have one file more.
LEMMA LandType ==
  ASSUME TypeInv, NEW w \in Workers, Land(w)
  PROVE  TypeInv'
<1> USE DEF TypeInv, localVars, At, Hashed
<1> DEFINE me == worker[w]
           p  == me.task.path
           k  == Len(drive)
<1>1. /\ me \in Jobs(k) /\ me.task \in Tasks /\ p \in Paths /\ PathsOf(me.task) \subseteq Paths
      /\ me.id \in 0..k /\ me.tries \in 0..MaxAttempts
      /\ me.hash # 0 /\ me.bytes \in Contents \cup {0} /\ me.pc = "land"
      /\ worker \in [Workers -> Jobs(k)] /\ k \in Nat
  BY TaskPaths DEF Jobs, Staff, Land
<1>2. {"send", "verify"} \subseteq Steps
  BY DEF Steps
<1> HIDE DEF p, k
\* The Drive may have one file more.
<1>3. ASSUME NEW c \in Contents \cup {0}, me.id = NoId \/ Exists(me.id),
             drive' = Stored(me.id, p, c)
      PROVE  /\ drive' \in Seq(Entries) /\ Len(drive') \in {k, k + 1}
             /\ me.id = NoId => Len(drive') = k + 1
  <2>1. CASE me.id = NoId
    <3>1. [name |-> p, c |-> c, state |-> "live"] \in Entries
      BY <1>1, <1>3 DEF Entries
    <3> DEFINE x == [name |-> p, c |-> c, state |-> "live"]
    <3>2. drive' = Append(drive, x)
      BY <1>3, <2>1 DEF Stored
    <3> HIDE DEF x
    <3> QED  BY <2>1, <3>1, <3>2 DEF x, k
  <2>2. CASE me.id # NoId
    <3>1. me.id \in 1..Len(drive)
      BY <2>2, <1>1 DEF k
    <3> DEFINE x == [drive[me.id] EXCEPT !.name = p, !.c = c]
    <3>2. drive[me.id] \in Entries
      BY <3>1
    <3>3. x \in Entries
      BY <3>2, <1>1 DEF Entries
    <3>4. drive' = [drive EXCEPT ![me.id] = x]
      BY <1>3, <2>2, <3>1 DEF Stored
    <3> HIDE DEF x
    <3> QED  BY <2>2, <3>1, <3>3, <3>4 DEF k
  <2> QED  BY <2>1, <2>2
<1>4. ASSUME NEW k1 \in {k, k + 1}
      PROVE  /\ \A j \in Jobs(k) : j \in Jobs(k1)
             /\ \A ws : Staff(ws, k) => Staff(ws, k1)
             /\ cache \in [Paths -> 0..k1] /\ k1 \in Nat /\ 0..k \subseteq 0..k1
  <2>1. k1 \in Nat /\ 0..k \subseteq 0..k1
    BY <1>1, <1>4
  <2>2. \A j \in Jobs(k) : j \in Jobs(k1)
    BY <2>1 DEF Jobs
  <2>3. \A ws : Staff(ws, k) => Staff(ws, k1)
    BY <2>2 DEF Staff
  <2> QED  BY <2>1, <2>2, <2>3 DEF k
<1>e. \A k1 \in {k, k + 1} : \A j \in Jobs(k1) :
         (j.pc \in Hashed => j.hash # 0) => Staff([worker EXCEPT ![w] = j], k1)
  BY <1>1, <1>4 DEF Staff, k
<1>5. ASSUME NEW c \in Contents \cup {0}, Answered(w, c)
      PROVE  /\ drive' \in Seq(Entries) /\ Len(drive') \in {k, k + 1}
             /\ Staff(worker', Len(drive')) /\ slips' = slips
  <2>1. drive' \in Seq(Entries) /\ Len(drive') \in {k, k + 1} /\ (me.id = NoId => Len(drive') = k + 1)
    BY <1>3, <1>5 DEF Answered, p
  <2> DEFINE k1 == Len(drive')
             id == IF me.id = NoId THEN k + 1 ELSE me.id
             j  == [me EXCEPT !.pc = "verify", !.bytes = c, !.id = id]
  <2> HIDE DEF k1
  <2>2. k1 \in Nat /\ me \in Jobs(k1)
    BY <2>1, <1>1, <1>4 DEF k1
  <2>3. id \in 0..k1
    BY <2>1, <1>1 DEF k1
  <2> HIDE DEF id
  <2>4. j \in Jobs(k1)
    BY <2>2, <2>3, <1>2, <1>5, JobEdits
  <2>5. j.hash = me.hash
    BY <1>1 DEF Jobs
  <2>6. worker' = [worker EXCEPT ![w].pc = "verify", ![w].bytes = c, ![w].id = id]
    BY <1>5 DEF Answered, id, k
  <2>7. worker' = [worker EXCEPT ![w] = j]
    BY <2>6, <1>1
  <2> HIDE DEF j
  <2>8. Staff(worker', k1)
    BY <2>1, <2>4, <2>5, <2>7, <1>1, <1>e DEF k1
  <2> QED  BY <2>1, <2>8, <1>5 DEF k1, Answered
<1>6. ASSUME AnswerLost(w)
      PROVE  /\ drive' \in Seq(Entries) /\ Len(drive') \in {k, k + 1}
             /\ Staff(worker', k) /\ slips' \subseteq Paths \X Slips
             /\ faults' \in 0..MaxFaults
  <2>1. drive' \in Seq(Entries) /\ Len(drive') \in {k, k + 1}
    BY <1>1, <1>3, <1>6 DEF AnswerLost, p
  <2>2. faults' \in 0..MaxFaults
    BY <1>6 DEF AnswerLost
  <2>3. CASE me.tries = MaxAttempts
    BY <2>1, <2>2, <2>3, <1>6, EndType DEF AnswerLost, k
  <2>4. CASE me.tries # MaxAttempts
    <3> DEFINE j == [me EXCEPT !.pc = "send", !.tries = me.tries + 1]
    <3>1. me.tries + 1 \in 0..MaxAttempts
      BY <2>4, <1>1
    <3>2. j \in Jobs(k)
      BY <3>1, <1>1, <1>2, JobEdits
    <3>3. j.hash = me.hash
      BY <1>1 DEF Jobs
    <3>4. worker' = [worker EXCEPT ![w] = j]
      BY <2>4, <1>1, <1>6, WorkerEdits DEF AnswerLost
    <3> HIDE DEF j
    <3>5. Staff(worker', k)
      BY <3>2, <3>3, <3>4, <1>1, <1>e
    <3>6. slips' \subseteq Paths \X Slips
      BY <2>4, <1>1, <1>6, SlipType DEF AnswerLost, Slips
    <3> QED  BY <2>1, <2>2, <3>5, <3>6
  <2> QED  BY <2>3, <2>4
<1>7. ASSUME NEW id \in 0..k, Again(w, "send", id)
      PROVE  Staff(worker', k) /\ slips' \subseteq Paths \X Slips
  BY <1>1, <1>2, <1>7, EndType DEF k
<1>8. /\ drive' \in Seq(Entries) /\ Len(drive') \in {k, k + 1}
      /\ Staff(worker', Len(drive')) /\ slips' \subseteq Paths \X Slips
      /\ faults' \in 0..MaxFaults
  <2>1. CASE Answered(w, me.bytes) /\ UNCHANGED faults
    BY <2>1, <1>1, <1>5
  <2>2. CASE faults < MaxFaults /\ faults' = faults + 1 /\ Answered(w, Corrupt)
    <3>1. faults' \in 0..MaxFaults
      BY <2>2
    <3> QED  BY <2>2, <3>1, <1>5
  <2>3. CASE AnswerLost(w)
    BY <2>3, <1>4, <1>6
  <2>4. CASE Lost(w, "send")
    BY <2>4, <1>1, <1>4, <1>7 DEF Lost, k
  <2>5. CASE Again(w, "send", me.id) /\ UNCHANGED <<drive, faults>>
    BY <2>5, <1>1, <1>4, <1>7 DEF k
  <2> QED  BY <2>1, <2>2, <2>3, <2>4, <2>5 DEF Land
<1>9. UNCHANGED <<localVars, chan, index, cache>>
  BY DEF Land
<1> QED  BY <1>4, <1>8, <1>9

LEMMA TypeInvariant == Spec => []TypeInv
<1>1. TypeInv /\ [Next]_vars => TypeInv'
  <2> SUFFICES ASSUME TypeInv, [Next]_vars PROVE TypeInv'
    OBVIOUS
  <2>1. CASE Desktop
    BY <2>1, LocalType
  <2>2. ASSUME NEW w \in Workers, Work(w) PROVE TypeInv'
    <3>1. CASE Land(w)
      BY <3>1, LandType
    <3>2. CASE ~Land(w)
      BY <2>2, <3>2, WorkType
    <3> QED  BY <3>1, <3>2
  <2>3. CASE UNCHANGED vars
    BY <2>3 DEF vars, localVars, TypeInv
  <2> QED  BY <2>1, <2>2, <2>3 DEF Next
<1> QED  BY <1>1, InitType, PTL DEF Spec

\* Whatever the desktop, the workers and the network do, the queue, the table, the cache
\* and the Drive keep their types, and no id names a file the Drive never had (worker.rs:23).
THEOREM TypeCorrect == Spec => []TypeOK
<1>1. TypeInv => TypeOK
  BY DEF TypeInv, TypeOK, Staff, Jobs, Entries
<1> QED  BY <1>1, TypeInvariant, PTL

-----------------------------------------------------------------------------
(* One file for each name *)

UpSteps     == {"send", "land", "verify", "record"}
SyncSteps   == {"stat", "quick", "hash", "deep", "row"} \cup UpSteps
DeleteSteps == {"find", "trash", "forget", "unrow"}
MoveSteps   == {"patch", "unlink", "link", "moverow"}

Live(i, p)     == i \in 1..Len(drive) /\ drive[i].name = p /\ drive[i].state = "live"
AllSlipped(t)  == Slipped(t.path) /\ Slipped(t.from)
Fit(t)         == t.kind # "rename" => t.from = t.path
Uploading(w, p) == worker[w].task.path = p /\ worker[w].pc \in UpSteps
Deleting(w, p)  == worker[w].task.path = p /\ worker[w].pc \in {"trash", "forget"}

\* An id held for p is the one of a file of that name, or both names have slipped.
Mine(p, i) == drive[i].name = p \/ (Slipped(p) /\ Slipped(drive[i].name))

\* A renaming that finds its origin in the cache has met the deletion of the origin.
JobInv(w) ==
    LET j == worker[w]
        t == j.task
    IN
    /\ Fit(t)
    /\ j.pc \in SyncSteps => t.kind # "delete"
    /\ j.pc \in DeleteSteps => t.kind = "delete"
    /\ j.pc \in MoveSteps => t.kind = "rename" /\ AllSlipped(t)
    /\ j.pc = "origin" => t.kind = "rename" /\ (cache[t.from] = NoId \/ AllSlipped(t))
    /\ j.pc \in {"verify", "record"} => j.id # NoId
    /\ j.id # NoId => Mine(t.path, j.id)

\* Two workers on one path have slipped, or both update a file whose id is known.
PairInv ==
    \A v, w \in Workers, p \in Paths :
        v # w /\ Concerns(v, p) /\ Concerns(w, p) =>
           \/ AllSlipped(worker[v].task) /\ AllSlipped(worker[w].task)
           \/ worker[v].task.kind = "sync" /\ worker[w].task.kind = "sync" /\ cache[p] # NoId

\* The deletion that goes ahead of a renaming is in the channel, at work, or done.
Ready(f) ==
    \/ Slipped(f)
    \/ \E w \in Workers : Busy(w) /\ worker[w].task = Delete(f)
    \/ cache[f] = NoId /\ \A w \in Workers : ~Concerns(w, f)
Queued(k) ==
    /\ Fit(chan[k])
    /\ chan[k].kind = "rename" =>
          \/ k > 1 /\ chan[k - 1] = Delete(chan[k].from)
          \/ k = 1 /\ Ready(chan[k].from)
ChanInv == \A k \in 1..Len(chan) : Queued(k)

\* What a worker on p knows of the file of that name.
JobOk(w, p) ==
    LET j == worker[w] IN
    j.task.path = p =>
        /\ j.pc \in UpSteps /\ j.id = NoId => cache[p] = NoId /\ \A i : ~Live(i, p)
        /\ j.pc \in UpSteps /\ j.id # NoId =>
              Live(j.id, p) /\ (\A i : Live(i, p) => i = j.id) /\ cache[p] \in {NoId, j.id}
        /\ j.pc \in {"trash", "forget"} => cache[p] = j.id /\ j.id # NoId
        /\ j.pc = "forget" => \A i : ~Live(i, p)
        /\ j.pc = "unrow" => cache[p] = NoId
        /\ j.pc = "row" => cache[p] # NoId

\* The cache knows the only file of that name, but while a worker creates or deletes it.
CacheOk(p) ==
    /\ cache[p] # NoId => \A i : Live(i, p) => i = cache[p]
    /\ cache[p] # NoId => Live(cache[p], p) \/ \E w \in Workers : Deleting(w, p)
    /\ cache[p] = NoId => (\A i : ~Live(i, p)) \/ \E w \in Workers : Uploading(w, p)

SafeInv ==
    /\ \A w \in Workers : JobInv(w)
    /\ \A p \in Paths : cache[p] # NoId => Mine(p, cache[p])
    /\ PairInv /\ ChanInv
    /\ \A p \in Slipless : CacheOk(p) /\ \A w \in Workers : JobOk(w, p)

\* What a step of a worker may do to the others, to the cache, to the Drive, to itself.
Others(w) == \A v \in Workers \ {w} : worker'[v] = worker[v]
Recached(w) ==
    LET j == worker[w] IN
    \A q \in Paths :
        \/ cache'[q] = cache[q]
        \/ q = j.task.path /\ j.pc \in {"record", "link"} /\ cache'[q] = j.id
        \/ q = j.task.path /\ j.pc = "forget" /\ cache'[q] = NoId
        \/ q = j.task.from /\ j.pc = "unlink" /\ cache'[q] = NoId
Rewritten(w) ==
    LET j == worker[w] IN
    /\ \A i \in 1..Len(drive) :
          \/ drive'[i] = drive[i]
          \/ /\ i = j.id /\ drive'[i].name \in {drive[i].name, j.task.path}
             /\ drive'[i].state = drive[i].state \/ j.pc = "trash"
             /\ j.pc = "trash" => drive'[i].state # "live"
    /\ \/ Len(drive') = Len(drive)
       \/ /\ Len(drive') = Len(drive) + 1 /\ j.id = NoId /\ j.pc = "land"
          /\ drive'[Len(drive) + 1].name = j.task.path
          /\ drive'[Len(drive) + 1].state = "live"
Restaffed(w) ==
    LET j == worker[w] IN
    \/ /\ worker'[w].pc = "idle" /\ Fit(worker'[w].task) /\ worker'[w].id = NoId
       /\ j.pc \in DeleteSteps => j.pc = "unrow" \/ \A q \in PathsOf(j.task) : Slipped(q)'
    \/ /\ worker'[w].pc # "idle" /\ worker'[w].task = j.task
       /\ j.pc \in SyncSteps => worker'[w].pc \in SyncSteps
       /\ j.pc \in DeleteSteps => worker'[w].pc \in DeleteSteps
       /\ j.pc \in MoveSteps => worker'[w].pc \in MoveSteps
       /\ j.pc = "origin" => \/ worker'[w].pc = "stat"
                             \/ worker'[w].pc = "patch" /\ cache[j.task.from] # NoId
       /\ worker'[w].pc \in {"verify", "record"} => worker'[w].id # NoId
       /\ worker'[w].id \in {j.id, cache[j.task.path], cache[j.task.from], Len(drive) + 1}
       /\ worker'[w].id # j.id =>
             \/ j.pc \in {"deep", "find"} /\ worker'[w].id = cache[j.task.path]
             \/ /\ j.pc = "origin" /\ worker'[w].pc = "patch"
                /\ worker'[w].id = cache[j.task.from]
             \/ /\ j.pc = "land" /\ worker'[w].id = Len(drive) + 1
                /\ Len(drive') = Len(drive) + 1
Shape(w) ==
    /\ chan' = chan /\ slips \subseteq slips' /\ Busy(w)
    /\ Others(w) /\ Recached(w) /\ Rewritten(w) /\ Restaffed(w)

\* How a step leaves its worker: idle, idle after a failure, or at another place.
Ends(w) == Others(w) /\ worker'[w] = Idle
Fails(w) == Ends(w) /\ slips \subseteq slips' /\ \A p \in PathsOf(worker[w].task) : Slipped(p)'
Goes(w, pc, id) ==
    /\ Others(w) /\ worker'[w].task = worker[w].task
    /\ worker'[w].pc = pc /\ worker'[w].id = id

LEMMA EndShape ==
  ASSUME TypeInv, NEW w \in Workers
  PROVE  /\ Done(w) => Ends(w)
         /\ \A pc : Goto(w, pc) => Goes(w, pc, worker[w].id)
         /\ Fail(w) => Fails(w)
         /\ \A pc, id : Again(w, pc, id) =>
               /\ slips \subseteq slips'
               /\ Fails(w) \/ (Goes(w, pc, id) /\ slips' = slips)
<1>1. worker \in [Workers -> Jobs(Len(drive))] /\ worker[w] \in Jobs(Len(drive))
  BY DEF TypeInv, Staff
<1>2. Done(w) => Ends(w)
  BY <1>1 DEF Done, Ends, Others
<1>3. ASSUME NEW pc, Goto(w, pc) PROVE Goes(w, pc, worker[w].id)
  BY <1>1, <1>3 DEF Goto, Goes, Others, Jobs
<1>4. ASSUME Fail(w) PROVE Fails(w)
  <2>1. slips' = slips \cup (PathsOf(worker[w].task) \X {"failure"})
    BY <1>4 DEF Fail, Slip
  <2>2. "failure" \in Slips
    BY DEF Slips
  <2> QED  BY <2>1, <2>2, <1>2, <1>4 DEF Fail, Fails, Slipped
<1>5. ASSUME NEW pc, NEW id, Again(w, pc, id)
      PROVE  /\ slips \subseteq slips'
             /\ Fails(w) \/ (Goes(w, pc, id) /\ slips' = slips)
  <2>1. CASE worker[w].tries = MaxAttempts
    BY <2>1, <1>4, <1>5 DEF Again, Fails
  <2>2. CASE worker[w].tries # MaxAttempts
    <3>1. worker' = [worker EXCEPT ![w].pc = pc, ![w].id = id,
                                   ![w].tries = worker[w].tries + 1]
      BY <2>2, <1>5 DEF Again
    <3>2. Goes(w, pc, id)
      BY <1>1, <3>1 DEF Goes, Others, Jobs
    <3> QED  BY <2>2, <3>2, <1>5 DEF Again
  <2> QED  BY <2>1, <2>2
<1> QED  BY <1>2, <1>3, <1>4, <1>5

\* Where each action leads.
LEMMA Acts ==
  ASSUME TypeInv, NEW w \in Workers
  PROVE  LET t == worker[w].task
             id == worker[w].id
         IN
         /\ Stat(w)    => Ends(w) \/ Goes(w, "quick", id)
         /\ Quick(w)   => Ends(w) \/ Goes(w, "hash", id)
         /\ Hash(w)    => Ends(w) \/ Goes(w, "deep", id)
         /\ Deep(w)    => Ends(w) \/ Goes(w, "send", cache[t.path])
         /\ Send(w)    => Fails(w) \/ Goes(w, "send", id) \/ Goes(w, "land", id)
         /\ Verify(w)  => Fails(w) \/ Goes(w, "send", id) \/ Goes(w, "record", id)
         /\ Record(w)  => Goes(w, "row", id)
         /\ Row(w)     => Ends(w)
         /\ Find(w)    => Goes(w, IF cache[t.path] = NoId THEN "unrow" ELSE "trash",
                               cache[t.path])
         /\ Trash(w)   => Fails(w) \/ Goes(w, "trash", id) \/ Goes(w, "forget", id)
         /\ Forget(w)  => Goes(w, "unrow", id)
         /\ Unrow(w)   => Ends(w)
         /\ Origin(w)  => \/ Ends(w) \/ Goes(w, "stat", id)
                          \/ Goes(w, "patch", cache[t.from]) /\ cache[t.from] # NoId
         /\ Patch(w)   => Fails(w) \/ Goes(w, "patch", id) \/ Goes(w, "unlink", id)
         /\ Unlink(w)  => Goes(w, "link", id)
         /\ Link(w)    => Goes(w, "moverow", id)
         /\ MoveRow(w) => Ends(w)
<1> DEFINE t  == worker[w].task
           id == worker[w].id
<1>1. worker \in [Workers -> Jobs(Len(drive))] /\ worker[w] \in Jobs(Len(drive))
  BY DEF TypeInv, Staff
<1>2. Stat(w) => Ends(w) \/ Goes(w, "quick", id)
  BY <1>1, EndShape DEF Stat, Goes, Others, Jobs
<1>3. Quick(w) => Ends(w) \/ Goes(w, "hash", id)
  BY EndShape DEF Quick
<1>4. Hash(w) => Ends(w) \/ Goes(w, "deep", id)
  BY <1>1, EndShape DEF Hash, Goes, Others, Jobs
<1>5. Deep(w) => Ends(w) \/ Goes(w, "send", cache[t.path])
  BY <1>1, EndShape DEF Deep, Goes, Others, Jobs
<1>6. Send(w) => Fails(w) \/ Goes(w, "send", id) \/ Goes(w, "land", id)
  BY <1>1, EndShape DEF Send, Goes, Others, Jobs
<1>7. Verify(w) => Fails(w) \/ Goes(w, "send", id) \/ Goes(w, "record", id)
  BY EndShape DEF Verify
<1>8. Record(w) => Goes(w, "row", id)
  BY EndShape DEF Record
<1>9. Row(w) => Ends(w)
  BY EndShape DEF Row
<1>10. Find(w) => Goes(w, IF cache[t.path] = NoId THEN "unrow" ELSE "trash", cache[t.path])
  BY <1>1 DEF Find, Goes, Others, Jobs
<1>11. Trash(w) => Fails(w) \/ Goes(w, "trash", id) \/ Goes(w, "forget", id)
  BY EndShape DEF Trash, Lost
<1>12. Forget(w) => Goes(w, "unrow", id)
  BY EndShape DEF Forget
<1>13. Unrow(w) => Ends(w)
  BY EndShape DEF Unrow
<1>14. Origin(w) => \/ Ends(w) \/ Goes(w, "stat", id)
                    \/ Goes(w, "patch", cache[t.from]) /\ cache[t.from] # NoId
  <2>1. ASSUME Origin(w), cache[t.from] # NoId, index[t.from] # None
        PROVE  Goes(w, "patch", cache[t.from])
    BY <1>1, <2>1 DEF Origin, Goes, Others, Jobs
  <2>3. ASSUME Origin(w), ~(cache[t.from] # NoId /\ index[t.from] # None)
        PROVE  Goto(w, "stat") \/ Done(w)
    BY <2>3 DEF Origin
  <2>2. /\ Goto(w, "stat") => Goes(w, "stat", id)
        /\ Done(w) => Ends(w)
    BY EndShape
  <2> QED  BY <2>1, <2>2, <2>3
<1>15. Patch(w) => Fails(w) \/ Goes(w, "patch", id) \/ Goes(w, "unlink", id)
  BY EndShape DEF Patch, Lost
<1>16. Unlink(w) => Goes(w, "link", id)
  BY EndShape DEF Unlink
<1>17. Link(w) => Goes(w, "moverow", id)
  BY EndShape DEF Link
<1>18. MoveRow(w) => Ends(w)
  BY EndShape DEF MoveRow, Fails
<1> QED
  BY <1>2, <1>3, <1>4, <1>5, <1>6, <1>7, <1>8, <1>9, <1>10, <1>11, <1>12, <1>13, <1>14,
     <1>15, <1>16, <1>17, <1>18

\* A file of the Drive keeps its state, and may take the name of the task.
Renames(w) ==
    LET j == worker[w] IN
    /\ Len(drive') = Len(drive)
    /\ \A i \in 1..Len(drive) :
          \/ drive'[i] = drive[i]
          \/ /\ i = j.id /\ drive'[i].name \in {drive[i].name, j.task.path}
             /\ drive'[i].state = drive[i].state
Creates(w) ==
    /\ worker[w].id = NoId /\ Len(drive') = Len(drive) + 1
    /\ \A i \in 1..Len(drive) : drive'[i] = drive[i]
    /\ drive'[Len(drive) + 1].name = worker[w].task.path
    /\ drive'[Len(drive) + 1].state = "live"
Trashes(w) ==
    LET id == worker[w].id IN
    /\ Len(drive') = Len(drive) /\ id \in 1..Len(drive)
    /\ \A i \in 1..Len(drive) : i # id => drive'[i] = drive[i]
    /\ drive'[id].name = drive[id].name /\ drive'[id].state # "live"

LEMMA LandShape ==
  ASSUME TypeInv, NEW w \in Workers, Land(w)
  PROVE  /\ slips \subseteq slips'
         /\ \/ Fails(w) /\ (Renames(w) \/ Creates(w))
            \/ Goes(w, "send", worker[w].id) /\ Renames(w)
            \/ Goes(w, "send", NoId) /\ Creates(w) /\ Slipped(worker[w].task.path)'
            \/ worker[w].id # NoId /\ Goes(w, "verify", worker[w].id) /\ Renames(w)
            \/ Goes(w, "verify", Len(drive) + 1) /\ Creates(w)
<1> DEFINE me == worker[w]
<1>1. /\ worker \in [Workers -> Jobs(Len(drive))] /\ me \in Jobs(Len(drive))
      /\ me.id \in 0..Len(drive) /\ drive \in Seq(Entries) /\ Len(drive) \in Nat
  BY DEF TypeInv, Staff, Jobs
<1>2. UNCHANGED drive => Renames(w)
  BY DEF Renames
<1>3. ASSUME NEW c, drive' = Stored(me.id, me.task.path, c)
      PROVE  /\ me.id = NoId => Creates(w)
             /\ me.id # NoId => Renames(w)
  <2>1. CASE me.id = NoId
    BY <1>1, <1>3, <2>1 DEF Stored, Creates
  <2>2. CASE me.id # NoId
    <3>1. me.id \in 1..Len(drive) /\ drive[me.id] \in Entries
      BY <1>1, <2>2
    <3>2. drive' = [drive EXCEPT ![me.id] = [drive[me.id] EXCEPT !.name = me.task.path, !.c = c]]
      BY <1>3, <2>2 DEF Stored
    <3> QED  BY <2>2, <1>1, <3>1, <3>2 DEF Renames, Entries
  <2> QED  BY <2>1, <2>2
<1>4. ASSUME NEW c, Answered(w, c)
      PROVE  /\ slips' = slips
             /\ \/ me.id # NoId /\ Goes(w, "verify", me.id) /\ Renames(w)
                \/ Goes(w, "verify", Len(drive) + 1) /\ Creates(w)
  <2>1. Goes(w, "verify", IF me.id = NoId THEN Len(drive) + 1 ELSE me.id)
    BY <1>1, <1>4 DEF Answered, Goes, Others, Jobs
  <2> QED  BY <1>3, <1>4, <2>1 DEF Answered
<1>5. ASSUME AnswerLost(w)
      PROVE  /\ slips \subseteq slips'
             /\ \/ Fails(w) /\ (Renames(w) \/ Creates(w))
                \/ Goes(w, "send", me.id) /\ Renames(w)
                \/ Goes(w, "send", NoId) /\ Creates(w) /\ Slipped(me.task.path)'
  <2>1. /\ me.id = NoId => Creates(w)
        /\ me.id # NoId => Renames(w)
    BY <1>3, <1>5 DEF AnswerLost
  <2>2. CASE me.tries = MaxAttempts
    BY <2>1, <2>2, <1>5, EndShape DEF AnswerLost, Fails
  <2>3. CASE me.tries # MaxAttempts
    <3>1. Goes(w, "send", me.id)
      BY <1>1, <1>5, <2>3 DEF AnswerLost, Goes, Others, Jobs
    <3>2. me.id = NoId => Slipped(me.task.path)' /\ slips \subseteq slips'
      <4>1. "answer" \in Slips
        BY DEF Slips
      <4>2. me.id = NoId => slips' = slips \cup (PathsOf(me.task) \X {"answer"})
        BY <1>5, <2>3 DEF AnswerLost, Slip
      <4>3. me.task' = me.task
        BY <3>1 DEF Goes
      <4> QED  BY <4>1, <4>2, <4>3 DEF Slipped, PathsOf
    <3>3. me.id # NoId => slips' = slips
      BY <1>5, <2>3 DEF AnswerLost
    <3> QED  BY <2>1, <3>1, <3>2, <3>3
  <2> QED  BY <2>2, <2>3
<1>6. ASSUME Again(w, "send", me.id)
      PROVE  slips \subseteq slips' /\ (Fails(w) \/ Goes(w, "send", me.id))
  BY <1>6, EndShape
<1>7. CASE Answered(w, me.bytes) \/ Answered(w, Corrupt)
  BY <1>4, <1>7
<1>8. CASE AnswerLost(w)
  BY <1>5, <1>8
<1>9. CASE Again(w, "send", me.id) /\ UNCHANGED drive
  BY <1>2, <1>6, <1>9
<1> QED  BY <1>7, <1>8, <1>9 DEF Land, Lost

LEMMA TrashShape ==
  ASSUME TypeInv, NEW w \in Workers, Trash(w)
  PROVE  /\ slips \subseteq slips'
         /\ \/ Fails(w) /\ (Trashes(w) \/ UNCHANGED drive)
            \/ Goes(w, "trash", worker[w].id) /\ (Trashes(w) \/ UNCHANGED drive)
            \/ Goes(w, "forget", worker[w].id) /\ Trashes(w)
<1> DEFINE id == worker[w].id
<1>1. /\ id \in 0..Len(drive) /\ drive \in Seq(Entries) /\ Len(drive) \in Nat
  BY DEF TypeInv, Staff, Jobs
<1>2. Exists(id) /\ drive' = Trashed(id) => Trashes(w)
  BY <1>1 DEF Exists, Trashed, Trashes, Entries
<1>3. CASE Goto(w, "forget") /\ UNCHANGED slips /\ Exists(id) /\ drive' = Trashed(id)
  BY <1>2, <1>3, EndShape
<1>4. CASE Again(w, "trash", id) /\ (UNCHANGED drive \/ (Exists(id) /\ drive' = Trashed(id)))
  BY <1>2, <1>4, EndShape
<1> QED  BY <1>3, <1>4 DEF Trash, Lost

LEMMA PatchShape ==
  ASSUME TypeInv, NEW w \in Workers, Patch(w)
  PROVE  slips \subseteq slips' /\ Renames(w)
<1> DEFINE id == worker[w].id
<1>1. /\ id \in 0..Len(drive) /\ drive \in Seq(Entries) /\ Len(drive) \in Nat
  BY DEF TypeInv, Staff, Jobs
<1>2. Exists(id) /\ drive' = [drive EXCEPT ![id].name = worker[w].task.path] => Renames(w)
  BY <1>1 DEF Exists, Renames, Entries
<1>3. UNCHANGED drive => Renames(w)
  BY DEF Renames
<1> QED  BY <1>2, <1>3, EndShape DEF Patch, Lost

LEMMA StepShape ==
  ASSUME TypeInv, \A v \in Workers : JobInv(v), NEW w \in Workers, Work(w), ~TakeTask(w)
  PROVE  Shape(w)
<1> DEFINE j == worker[w]
           t == j.task
<1>1. /\ worker \in [Workers -> Jobs(Len(drive))] /\ j \in Jobs(Len(drive))
      /\ j.id \in 0..Len(drive) /\ drive \in Seq(Entries) /\ Len(drive) \in Nat
      /\ t \in Tasks /\ t.path \in Paths /\ t.from \in Paths
      /\ cache \in [Paths -> 0..Len(drive)]
  BY TaskPaths DEF TypeInv, Staff, Jobs
<1>2. Idle.pc = "idle" /\ Fit(Idle.task) /\ Idle.id = NoId
  <2>1. \A p \in Paths : Fit(Sync(p))
    BY DEF Fit, Sync
  <2> HIDE DEF Fit, Sync
  <2> QED  BY <2>1 DEF Idle
<1>3. (Ends(w) /\ j.pc \notin {"find", "trash", "forget"}) \/ Fails(w)
         => Others(w) /\ Restaffed(w)
  BY <1>2 DEF Ends, Fails, Restaffed, DeleteSteps
<1>4. ASSUME NEW pc, pc # "idle", Goes(w, pc, j.id),
             \/ j.pc \in SyncSteps /\ pc \in SyncSteps
             \/ j.pc \in DeleteSteps /\ pc \in DeleteSteps
             \/ j.pc \in MoveSteps /\ pc \in MoveSteps
             \/ j.pc = "origin" /\ pc = "stat",
             pc \in {"verify", "record"} => j.id # NoId
      PROVE  Others(w) /\ Restaffed(w)
  BY <1>4 DEF Goes, Restaffed, SyncSteps, UpSteps, DeleteSteps, MoveSteps
<1>5. UNCHANGED drive => Rewritten(w)
  BY DEF Rewritten
<1>6. UNCHANGED cache => Recached(w)
  BY DEF Recached
<1>7. j.pc # "trash" /\ Renames(w) => Rewritten(w)
  BY <1>1 DEF Renames, Rewritten
<1>8. j.pc = "land" /\ Creates(w) => Rewritten(w)
  BY <1>1 DEF Creates, Rewritten
<1>9. j.pc = "trash" /\ Trashes(w) => Rewritten(w)
  BY <1>1 DEF Trashes, Rewritten
<1> HIDE DEF Idle
<1> USE DEF At, SyncSteps, UpSteps, DeleteSteps, MoveSteps
<1>10. CASE Stat(w) \/ Quick(w) \/ Hash(w)
  <2>1. Others(w) /\ Restaffed(w)
    BY <1>3, <1>4, <1>10, Acts DEF Stat, Quick, Hash
  <2> QED  BY <2>1, <1>5, <1>6, <1>10 DEF Shape, Stat, Quick, Hash, Busy
<1>11. CASE Deep(w)
  <2>1. Others(w) /\ Restaffed(w)
    <3>1. CASE Goes(w, "send", cache[t.path])
      BY <3>1, <1>11 DEF Deep, Goes, Restaffed
    <3> QED  BY <3>1, <1>3, <1>11, Acts DEF Deep
  <2> QED  BY <2>1, <1>5, <1>6, <1>11 DEF Shape, Deep, Busy
<1>12. CASE Send(w) \/ Verify(w)
  <2>1. Others(w) /\ Restaffed(w)
    BY <1>3, <1>4, <1>12, Acts DEF Send, Verify, JobInv
  <2>2. slips \subseteq slips'
    BY <1>12, EndShape DEF Send, Verify
  <2> QED  BY <2>1, <2>2, <1>5, <1>6, <1>12 DEF Shape, Send, Verify, Busy
<1>13. CASE Land(w)
  <2>1. j.pc = "land" /\ UNCHANGED cache /\ chan' = chan
    BY <1>13 DEF Land
  <2>2. slips \subseteq slips' /\ Rewritten(w)
    BY <2>1, <1>7, <1>8, <1>13, LandShape
  <2>3. Others(w) /\ Restaffed(w)
    <3>1. CASE Fails(w)
      BY <3>1, <1>3
    <3>2. CASE Goes(w, "send", j.id) \/ (j.id # NoId /\ Goes(w, "verify", j.id))
      BY <3>2, <2>1, <1>4
    <3>3. CASE Goes(w, "send", NoId) /\ Creates(w)
      BY <3>3, <2>1, <1>4 DEF Creates
    <3>4. CASE Goes(w, "verify", Len(drive) + 1) /\ Creates(w)
      BY <3>4, <2>1 DEF Goes, Creates, Restaffed
    <3> QED  BY <3>1, <3>2, <3>3, <3>4, <1>13, LandShape
  <2> QED  BY <2>1, <2>2, <2>3, <1>6 DEF Shape, Busy
<1>14. CASE Record(w) \/ Link(w)
  <2>1. Others(w) /\ Restaffed(w)
    BY <1>4, <1>14, Acts DEF Record, Link
  <2>2. Recached(w)
    BY <1>1, <1>14 DEF Record, Link, Recached
  <2> QED  BY <2>1, <2>2, <1>5, <1>14 DEF Shape, Record, Link, Busy
<1>15. CASE Row(w) \/ Unrow(w)
  BY <1>3, <1>5, <1>6, <1>15, Acts DEF Shape, Row, Unrow, Busy
<1>16. CASE Find(w)
  <2>1. Others(w) /\ Restaffed(w)
    <3>1. CASE Goes(w, "unrow", cache[t.path]) \/ Goes(w, "trash", cache[t.path])
      BY <3>1, <1>16 DEF Find, Goes, Restaffed
    <3> QED  BY <3>1, <1>16, Acts
  <2> QED  BY <2>1, <1>5, <1>6, <1>16 DEF Shape, Find, Busy
<1>17. CASE Trash(w)
  <2>1. Others(w) /\ Restaffed(w)
    BY <1>3, <1>4, <1>17, Acts DEF Trash
  <2>2. slips \subseteq slips' /\ Rewritten(w)
    BY <1>5, <1>9, <1>17, TrashShape DEF Trash
  <2> QED  BY <2>1, <2>2, <1>6, <1>17 DEF Shape, Trash, Busy
<1>18. CASE Forget(w) \/ Unlink(w)
  <2>1. Others(w) /\ Restaffed(w)
    BY <1>4, <1>18, Acts DEF Forget, Unlink
  <2>2. Recached(w)
    BY <1>1, <1>18 DEF Forget, Unlink, Recached
  <2> QED  BY <2>1, <2>2, <1>5, <1>18 DEF Shape, Forget, Unlink, Busy
<1>19. CASE Origin(w)
  <2>1. Others(w) /\ Restaffed(w)
    <3>1. CASE Goes(w, "patch", cache[t.from]) /\ cache[t.from] # NoId
      BY <3>1, <1>19 DEF Origin, Goes, Restaffed
    <3> QED  BY <3>1, <1>3, <1>4, <1>19, Acts DEF Origin
  <2> QED  BY <2>1, <1>5, <1>6, <1>19 DEF Shape, Origin, Busy
<1>20. CASE Patch(w)
  <2>1. Others(w) /\ Restaffed(w)
    BY <1>3, <1>4, <1>20, Acts DEF Patch
  <2> QED  BY <2>1, <1>6, <1>7, <1>20, PatchShape DEF Shape, Patch, Busy
<1>21. CASE MoveRow(w)
  <2>1. Ends(w) /\ slips \subseteq slips'
    BY <1>21, Acts, EndShape DEF MoveRow, Fails
  <2> QED  BY <2>1, <1>3, <1>5, <1>6, <1>21 DEF Shape, MoveRow, Busy
<1> QED
  BY <1>10, <1>11, <1>12, <1>13, <1>14, <1>15, <1>16, <1>17, <1>18, <1>19, <1>20, <1>21
     DEF Work

-----------------------------------------------------------------------------
\* What has slipped has slipped for good.
LEMMA SlippedKept ==
  ASSUME slips \subseteq slips'
  PROVE  /\ \A p : Slipped(p) => Slipped(p)'
         /\ Slipless' \subseteq Slipless
BY DEF Slipped, Slipless

\* A step that leaves alone what a path is about.
Critical(w, p) ==
    worker[w].task.path = p /\ worker[w].pc \in UpSteps \cup {"row", "trash", "forget", "unrow"}

LEMMA Frame ==
  ASSUME NEW p \in Paths, CacheOk(p), \A w \in Workers : JobOk(w, p),
         cache'[p] = cache[p], \A i : Live(i, p)' <=> Live(i, p),
         \A w \in Workers :
            \/ worker'[w] = worker[w]
            \/ ~Uploading(w, p) /\ ~Deleting(w, p) /\ ~Critical(w, p)'
            \/ Uploading(w, p) /\ Uploading(w, p)' /\ worker'[w].id = worker[w].id
            \/ /\ worker'[w].pc = worker[w].pc /\ worker'[w].task = worker[w].task
               /\ worker'[w].id = worker[w].id
  PROVE  CacheOk(p)' /\ \A w \in Workers : JobOk(w, p)'
<1>1. ASSUME NEW w \in Workers
      PROVE  (Deleting(w, p)' <=> Deleting(w, p)) /\ (Uploading(w, p)' <=> Uploading(w, p))
  BY DEF Deleting, Uploading, Critical, UpSteps
<1>2. CacheOk(p)'
  BY <1>1 DEF CacheOk
<1>3. ASSUME NEW w \in Workers PROVE JobOk(w, p)'
  <2>1. CASE worker'[w] = worker[w]
    BY <2>1 DEF JobOk
  <2>2. CASE ~Critical(w, p)'
    BY <2>2 DEF JobOk, Critical, UpSteps
  <2>3. CASE Uploading(w, p) /\ Uploading(w, p)' /\ worker'[w].id = worker[w].id
    BY <2>3 DEF JobOk, Uploading, UpSteps
  <2>4. CASE /\ worker'[w].pc = worker[w].pc /\ worker'[w].task = worker[w].task
             /\ worker'[w].id = worker[w].id
    BY <2>4 DEF JobOk
  <2> QED  BY <2>1, <2>2, <2>3, <2>4
<1> QED  BY <1>2, <1>3

\* An id held for a name stays so, whatever a worker does to the Drive.
LEMMA MineKept ==
  ASSUME NEW w \in Workers, JobInv(w), Rewritten(w), slips \subseteq slips',
         NEW q, NEW i \in 1..Len(drive), i # NoId, Mine(q, i)
  PROVE  Mine(q, i)'
<1>1. CASE drive'[i] = drive[i]
  BY <1>1, SlippedKept DEF Mine
<1>2. CASE i = worker[w].id /\ drive'[i].name \in {drive[i].name, worker[w].task.path}
  <2>1. Mine(worker[w].task.path, i)
    BY <1>2 DEF JobInv
  <2> QED  BY <1>2, <2>1, SlippedKept DEF Mine
<1> QED  BY <1>1, <1>2 DEF Rewritten

LEMMA DesktopSafe ==
  ASSUME TypeInv, SafeInv, Desktop
  PROVE  SafeInv'
<1> USE DEF localVars
<1>1. UNCHANGED <<worker, cache, drive>> /\ slips \subseteq slips'
  BY DEF Desktop, Write, Remove, Fire, Move, Change
<1>2. /\ \A q : Slipped(q) => Slipped(q)'
      /\ Slipless' \subseteq Slipless
  BY <1>1, SlippedKept
<1>3. \A w \in Workers : JobInv(w)'
  BY <1>1, <1>2 DEF SafeInv, JobInv, AllSlipped, Mine
<1>4. \A q \in Paths : cache'[q] # NoId => Mine(q, cache[q])'
  BY <1>1, <1>2 DEF SafeInv, Mine
<1>5. PairInv'
  BY <1>1, <1>2 DEF SafeInv, PairInv, AllSlipped, Concerns, Busy
<1>6. ChanInv'
  <2>1. \A q \in Paths : Ready(q) => Ready(q)'
    BY <1>1, <1>2 DEF Ready, Concerns, Busy
  <2>2. chan \in Seq(Tasks)
    BY DEF TypeInv
  <2>3. \A k \in 1..Len(chan) : chan[k].from \in Paths
    BY <2>2, TaskPaths
  <2>4. ASSUME NEW t \in Tasks, t.kind # "rename", Fit(t), chan' = Append(chan, t)
        PROVE  ChanInv'
    BY <2>1, <2>2, <2>3, <2>4 DEF SafeInv, ChanInv, Queued, Fit
  <2>5. ASSUME NEW f \in Paths, NEW t \in Paths, chan' = chan \o <<Delete(f), Rename(f, t)>>
        PROVE  ChanInv'
    <3>1. /\ Delete(f) \in Tasks /\ Delete(f).kind = "delete" /\ Fit(Delete(f))
          /\ Rename(f, t) \in Tasks /\ Fit(Rename(f, t)) /\ Rename(f, t).from = f
      BY TaskTypes DEF Delete, Rename, Fit
    <3> DEFINE n == Len(chan)
    <3>2. /\ n \in Nat /\ Len(chan') = n + 2
          /\ \A k \in 1..n : chan'[k] = chan[k]
          /\ chan'[n + 1] = Delete(f) /\ chan'[n + 2] = Rename(f, t)
      BY <2>2, <2>5, <3>1
    <3> HIDE DEF n
    <3>3. ASSUME NEW k \in 1..Len(chan')
          PROVE  Queued(k)'
      <4>1. CASE k \in 1..n
        <5>1. chan'[k] = chan[k] /\ (k > 1 => chan'[k - 1] = chan[k - 1])
          BY <3>2, <4>1
        <5>2. Queued(k) /\ chan[k].from \in Paths
          BY <2>3, <4>1 DEF n, SafeInv, ChanInv
        <5> QED  BY <2>1, <5>1, <5>2 DEF Queued, Fit
      <4>2. CASE k = n + 1
        BY <3>1, <3>2, <4>2 DEF Queued, Fit
      <4>3. CASE k = n + 2
        BY <3>1, <3>2, <4>3 DEF Queued, Fit
      <4> QED  BY <3>2, <3>3, <4>1, <4>2, <4>3
    <3> QED  BY <3>3 DEF ChanInv
  <2>6. chan' = chan => ChanInv'
    BY <2>1, <2>3 DEF SafeInv, ChanInv, Queued, Fit
  <2>7. \A q \in Paths : /\ Sync(q) \in Tasks /\ Sync(q).kind # "rename" /\ Fit(Sync(q))
                         /\ Delete(q) \in Tasks /\ Delete(q).kind # "rename" /\ Fit(Delete(q))
    BY TaskTypes DEF Sync, Delete, Fit
  <2>8. \/ chan' = chan
        \/ \E q \in Paths : chan' = Append(chan, Sync(q)) \/ chan' = Append(chan, Delete(q))
        \/ \E f, t \in Paths : chan' = chan \o <<Delete(f), Rename(f, t)>>
    BY DEF Desktop, Write, Remove, Fire, Move
  <2> QED  BY <2>4, <2>5, <2>6, <2>7, <2>8
<1>7. \A q \in Slipless' : CacheOk(q)' /\ \A w \in Workers : JobOk(w, q)'
  <2>1. \A q, i : Live(i, q)' <=> Live(i, q)
    BY <1>1 DEF Live
  <2>2. Slipless' \subseteq Paths
    BY <1>2 DEF Slipless
  <2> QED  BY <1>1, <1>2, <2>1, <2>2, Frame DEF SafeInv
<1> QED  BY <1>3, <1>4, <1>5, <1>6, <1>7 DEF SafeInv

LEMMA TakeSafe ==
  ASSUME TypeInv, SafeInv, NEW w \in Workers, TakeTask(w), NEW t, t = Head(chan)
  PROVE  SafeInv'
<1>1. /\ chan \in Seq(Tasks) /\ chan # <<>> /\ t = chan[1] /\ t \in Tasks
      /\ chan' = Tail(chan) /\ Len(chan) \in Nat /\ Len(chan) > 0
      /\ UNCHANGED <<cache, drive>> /\ ~Busy(w)
      /\ slips' = slips \cup Harm(t)
  BY DEF TypeInv, TakeTask
<1>2. t.path \in Paths /\ t.from \in Paths /\ PathsOf(t) = {t.path, t.from}
  BY <1>1, TaskPaths DEF PathsOf
<1>3. Others(w) /\ worker'[w].task = t /\ worker'[w].pc = FirstStep(t) /\ worker'[w].id = NoId
  <2>1. worker \in [Workers -> Jobs(Len(drive))] /\ Idle \in Jobs(Len(drive)) /\ Idle.id = NoId
    BY <1>1, IdleType DEF TypeInv, Staff, Idle
  <2> HIDE DEF Idle
  <2> QED  BY <2>1 DEF TakeTask, Others, Jobs
<1>4. /\ t.kind \in {"sync", "delete", "rename"}
      /\ t.kind = "sync" => FirstStep(t) = "stat"
      /\ t.kind = "delete" => FirstStep(t) = "find"
      /\ t.kind = "rename" => FirstStep(t) = "origin"
      /\ FirstStep(t) \in {"stat", "find", "origin"} /\ Busy(w)'
  BY <1>1, <1>3 DEF FirstStep, Tasks, Busy
<1>5. /\ \A q : Slipped(q) => Slipped(q)'
      /\ Slipless' \subseteq Slipless
  BY <1>1, SlippedKept
<1>6. Fit(t) /\ (t.kind = "rename" => Ready(t.from))
  BY <1>1 DEF SafeInv, ChanInv, Queued
\* A task slips with a path that has slipped, and with the task it clashes with.
<1>7. (Slipped(t.path) \/ Slipped(t.from)) => AllSlipped(t)'
  <2>1. PathsOf(t) \X {how \in Slips : \E p \in PathsOf(t) : <<p, how>> \in slips} \subseteq slips'
    BY <1>1 DEF Harm
  <2> QED  BY <1>2, <2>1 DEF AllSlipped, Slipped
<1>8. ASSUME NEW v \in Workers, Busy(v), PathsOf(worker[v].task) \cap PathsOf(t) # {}
      PROVE  \/ AllSlipped(t)' /\ AllSlipped(worker[v].task)'
             \/ t.kind = "sync" /\ worker[v].task.kind = "sync" /\ cache[t.path] # NoId
  <2> DEFINE u == worker[v].task
             others == {worker[x].task : x \in {y \in Workers :
                          Busy(y) /\ PathsOf(worker[y].task) \cap PathsOf(t) # {}}}
  <2>1. u \in others
    BY <1>8
  <2>2. CASE ~(t.kind = "sync" /\ u.kind = "sync" /\ cache[t.path] # NoId)
    <3>1. (PathsOf(t) \cup PathsOf(u)) \X {"overlap"} \subseteq slips'
      BY <1>1, <2>1, <2>2 DEF Harm
    <3>2. worker'[v] = worker[v]
      BY <1>1, <1>3, <1>8 DEF Others
    <3>3. "overlap" \in Slips
      BY DEF Slips
    <3> QED  BY <3>1, <3>2, <3>3 DEF AllSlipped, Slipped, PathsOf
  <2> QED  BY <2>2
<1>9. \A v \in Workers : JobInv(v)'
  <2>1. ASSUME NEW v \in Workers \ {w} PROVE JobInv(v)'
    <3>1. worker'[v] = worker[v] /\ JobInv(v)
      BY <1>3, <2>1 DEF Others, SafeInv
    <3> QED  BY <1>1, <1>5, <3>1 DEF JobInv, AllSlipped, Mine
  <2>2. t.kind = "rename" => cache[t.from] = NoId \/ AllSlipped(t)'
    <3>1. CASE Slipped(t.from)
      BY <1>7, <3>1
    <3>2. ASSUME NEW v \in Workers, Busy(v), worker[v].task = Delete(t.from)
          PROVE  t.kind = "rename" => AllSlipped(t)'
      <4>1. t.from \in PathsOf(worker[v].task) /\ worker[v].task.kind # "sync"
        BY <3>2 DEF Delete, PathsOf
      <4>2. t.from \in PathsOf(t)
        BY <1>2
      <4>3. PathsOf(worker[v].task) \cap PathsOf(t) # {}
        BY <4>1, <4>2
      <4> QED  BY <1>8, <3>2, <4>1, <4>3
    <3> QED  BY <1>6, <3>1, <3>2 DEF Ready
  <2>3. JobInv(w)'
    BY <1>1, <1>3, <1>4, <1>6, <2>2
       DEF JobInv, Fit, AllSlipped, SyncSteps, UpSteps, DeleteSteps, MoveSteps
  <2> QED  BY <2>1, <2>3
<1>10. \A q \in Paths : cache'[q] # NoId => Mine(q, cache[q])'
  BY <1>1, <1>5 DEF SafeInv, Mine
<1>11. PairInv'
  <2> DEFINE Clean(v, u, q) ==
                \/ AllSlipped(worker[v].task) /\ AllSlipped(worker[u].task)
                \/ worker[v].task.kind = "sync" /\ worker[u].task.kind = "sync" /\ cache[q] # NoId
  <2>1. ASSUME NEW u \in Workers \ {w}, NEW q \in Paths, Concerns(w, q)', Concerns(u, q)'
        PROVE  Clean(w, u, q)'
    <3>1. worker'[u] = worker[u] /\ q \in PathsOf(t) /\ q \in PathsOf(worker[u].task) /\ Busy(u)
      BY <1>3, <2>1 DEF Others, Concerns, Busy
    <3>2. t.kind = "sync" => q = t.path
      BY <1>2, <1>6, <3>1 DEF Fit
    <3>3. \/ AllSlipped(t)' /\ AllSlipped(worker[u].task)'
          \/ t.kind = "sync" /\ worker[u].task.kind = "sync" /\ cache[t.path] # NoId
      BY <1>8, <3>1
    <3> QED  BY <1>1, <1>3, <3>1, <3>2, <3>3 DEF AllSlipped
  <2>2. ASSUME NEW v \in Workers \ {w}, NEW u \in Workers \ {w}, v # u, NEW q \in Paths,
               Concerns(v, q)', Concerns(u, q)'
        PROVE  Clean(v, u, q)'
    <3>1. worker'[u] = worker[u] /\ worker'[v] = worker[v]
      BY <1>3 DEF Others
    <3>2. Clean(v, u, q)
      BY <2>2, <3>1 DEF SafeInv, PairInv, Concerns, Busy
    <3> QED  BY <1>1, <1>5, <3>1, <3>2 DEF AllSlipped
  <2>3. \A v, u, q : Clean(v, u, q)' => Clean(u, v, q)'
    OBVIOUS
  <2>4. ASSUME NEW v \in Workers, NEW u \in Workers, v # u, NEW q \in Paths,
               Concerns(v, q)', Concerns(u, q)'
        PROVE  Clean(v, u, q)'
    <3> HIDE DEF Clean
    <3>1. CASE v = w
      BY <2>1, <2>4, <3>1
    <3>2. CASE u = w
      BY <2>1, <2>3, <2>4, <3>2
    <3>3. CASE v # w /\ u # w
      BY <2>2, <2>4, <3>3
    <3> QED  BY <3>1, <3>2, <3>3
  <2> QED  BY <2>4 DEF PairInv
<1>12. ChanInv'
  <2>1. ASSUME NEW k \in 1..Len(chan') PROVE Queued(k)'
    <3>1. k + 1 \in 1..Len(chan) /\ chan'[k] = chan[k + 1] /\ (k > 1 => chan'[k - 1] = chan[k])
      BY <1>1, <2>1
    <3>2. Queued(k + 1)
      BY <3>1 DEF SafeInv, ChanInv
    <3>3. chan'[k].kind = "rename" => chan[k] = Delete(chan'[k].from)
      BY <2>1, <3>1, <3>2 DEF Queued
    <3>4. ASSUME k = 1, chan'[k].kind = "rename" PROVE Ready(chan[k].from)'
      BY <1>1, <1>3, <1>4, <3>3, <3>4 DEF Ready
    <3> QED  BY <2>1, <3>1, <3>2, <3>3, <3>4 DEF Queued, Fit
  <2> QED  BY <2>1 DEF ChanInv
<1>13. \A q \in Slipless' : CacheOk(q)' /\ \A v \in Workers : JobOk(v, q)'
  <2>1. \A q, i : Live(i, q)' <=> Live(i, q)
    BY <1>1 DEF Live
  <2>2. Slipless' \subseteq Paths
    BY DEF Slipless
  <2>3. \A v \in Workers, q \in Paths :
           \/ worker'[v] = worker[v]
           \/ ~Uploading(v, q) /\ ~Deleting(v, q) /\ ~Critical(v, q)'
    BY <1>1, <1>3, <1>4 DEF Others, Uploading, Deleting, Critical, Busy, UpSteps
  <2> QED  BY <1>1, <1>5, <2>1, <2>2, <2>3, Frame DEF SafeInv
<1> QED  BY <1>9, <1>10, <1>11, <1>12, <1>13 DEF SafeInv

\* What concerns the worker itself, and pairs of workers, after a step of a task.
LEMMA JobsSafe ==
  ASSUME TypeInv, TypeInv', SafeInv, NEW w \in Workers, Shape(w)
  PROVE  /\ \A v \in Workers : JobInv(v)'
         /\ \A q \in Paths : cache'[q] # NoId => Mine(q, cache[q])'
         /\ PairInv' /\ ChanInv'
<1> DEFINE j == worker[w]
<1>1. /\ worker \in [Workers -> Jobs(Len(drive))] /\ cache \in [Paths -> 0..Len(drive)]
      /\ \A v \in Workers : /\ worker[v].task \in Tasks /\ worker[v].task.path \in Paths
                            /\ worker[v].task.from \in Paths
                            /\ worker[v].id \in 0..Len(drive)
      /\ Len(drive) \in Nat
  BY TaskPaths DEF TypeInv, Staff, Jobs
<1>2. /\ \A q : Slipped(q) => Slipped(q)'
      /\ slips \subseteq slips'
  BY SlippedKept DEF Shape
<1>3. \A q, i : i \in 1..Len(drive) /\ Mine(q, i) => Mine(q, i)'
  BY <1>2, MineKept DEF Shape, SafeInv
<1>4. \A v \in Workers \ {w} : worker'[v] = worker[v]
  BY DEF Shape, Others
<1>5. JobInv(w) /\ Busy(w) /\ Restaffed(w) /\ Recached(w) /\ Rewritten(w)
  BY DEF Shape, SafeInv
\* A path whose id comes or goes: the worker is on it.
<1>6. ASSUME NEW q \in Paths, cache'[q] # cache[q]
      PROVE  /\ Concerns(w, q)
             /\ cache'[q] = NoId \/ (q = j.task.path /\ cache'[q] = j.id)
             /\ cache'[q] = NoId => j.task.kind # "sync" \/ cache[q] = NoId
  <2>1. Concerns(w, q)
    BY <1>5, <1>6 DEF Recached, Concerns, PathsOf
  <2>2. cache'[q] = NoId \/ (q = j.task.path /\ cache'[q] = j.id)
    BY <1>5, <1>6 DEF Recached
  <2>3. cache'[q] = NoId => j.task.kind # "sync" \/ cache[q] = NoId
    BY <1>5, <1>6 DEF Recached, JobInv, DeleteSteps, MoveSteps
  <2> QED  BY <2>1, <2>2, <2>3
<1>7. \A q \in Paths : cache'[q] # NoId => Mine(q, cache[q])'
  <2>1. ASSUME NEW q \in Paths, cache'[q] # NoId PROVE Mine(q, cache[q])'
    <3>1. CASE cache'[q] = cache[q]
      <4>1. Mine(q, cache[q]) /\ cache[q] \in 1..Len(drive)
        BY <1>1, <2>1, <3>1 DEF SafeInv
      <4> QED  BY <1>3, <3>1, <4>1
    <3>2. CASE cache'[q] # cache[q]
      <4>1. q = j.task.path /\ cache'[q] = j.id
        BY <1>6, <2>1, <3>2
      <4>2. Mine(q, j.id) /\ j.id \in 1..Len(drive)
        BY <1>1, <1>5, <2>1, <4>1 DEF JobInv
      <4>3. PICK i \in 1..Len(drive) : i = j.id
        BY <4>2
      <4>4. Mine(q, i)'
        BY <1>3, <4>2, <4>3
      <4> QED  BY <4>1, <4>3, <4>4
    <3> QED  BY <3>1, <3>2
  <2> QED  BY <2>1
<1>8. ASSUME NEW v \in Workers \ {w} PROVE JobInv(v)'
  <2>1. worker'[v] = worker[v] /\ JobInv(v)
    BY <1>4 DEF SafeInv
  <2> DEFINE t == worker[v].task
  <2>2. t.path \in Paths /\ t.from \in Paths
    BY <1>1
  <2>3. worker[v].id # NoId => Mine(t.path, worker[v].id)'
    <3>1. PICK q \in Paths : q = t.path
      BY <2>2
    <3>2. PICK i \in 0..Len(drive) : i = worker[v].id
      BY <1>1
    <3>3. i # NoId => Mine(q, i)'
      BY <1>3, <2>1, <3>1, <3>2 DEF JobInv
    <3> QED  BY <2>1, <3>1, <3>2, <3>3
  <2>4. ASSUME worker[v].pc = "origin"
        PROVE  cache'[t.from] = NoId \/ AllSlipped(worker[v].task)'
    <3>1. cache[t.from] = NoId \/ AllSlipped(t)
      BY <2>1, <2>4 DEF JobInv
    <3>2. ASSUME cache'[t.from] # cache[t.from] PROVE AllSlipped(t)
      <4>1. Concerns(w, t.from) /\ Concerns(v, t.from)
        BY <1>6, <2>2, <2>4, <3>2 DEF Concerns, Busy, PathsOf
      <4>2. t.kind # "sync"
        BY <2>1, <2>4 DEF JobInv
      <4> QED  BY <2>2, <4>1, <4>2 DEF SafeInv, PairInv
    <3> QED  BY <1>2, <2>1, <3>1, <3>2 DEF AllSlipped
  <2> QED  BY <1>2, <2>1, <2>3, <2>4 DEF JobInv, AllSlipped
<1>9. JobInv(w)'
  <2> DEFINE t == j.task
  <2>1. CASE worker'[w].pc = "idle" /\ Fit(worker'[w].task) /\ worker'[w].id = NoId
    BY <2>1 DEF JobInv, SyncSteps, UpSteps, DeleteSteps, MoveSteps, Fit
  <2>2. CASE worker'[w].pc # "idle" /\ worker'[w].task = j.task
    <3> DEFINE pc == worker'[w].pc
               id == worker'[w].id
    <3>1. /\ j.pc \in Steps \ {"idle"} /\ Restaffed(w) /\ JobInv(w)
          /\ t.path \in Paths /\ t.from \in Paths
      BY <1>1, <1>5 DEF Busy, Jobs
    <3>2. /\ pc \in SyncSteps => t.kind # "delete"
          /\ pc \in DeleteSteps => t.kind = "delete"
          /\ pc \in MoveSteps => t.kind = "rename" /\ AllSlipped(t)
          /\ pc # "origin"
      BY <2>2, <3>1
         DEF Steps, Restaffed, JobInv, SyncSteps, UpSteps, DeleteSteps, MoveSteps
    <3>3. pc \in {"verify", "record"} => id # NoId
      BY <2>2, <3>1 DEF Restaffed
    <3>4. ASSUME id # NoId, id # Len(drive) + 1 PROVE id \in 1..Len(drive) /\ Mine(t.path, id)
      <4>1. CASE id = j.id
        BY <1>1, <3>1, <3>4, <4>1 DEF JobInv
      <4>2. CASE id = cache[t.path]
        BY <1>1, <3>1, <3>4, <4>2 DEF SafeInv
      <4>3. CASE id # j.id /\ j.pc = "origin" /\ id = cache[t.from] /\ pc = "patch"
        <5>1. AllSlipped(t)
          BY <3>2, <4>3 DEF MoveSteps
        <5>2. Mine(t.from, id) /\ id \in 1..Len(drive)
          BY <1>1, <3>1, <3>4, <4>3 DEF SafeInv
        <5> QED  BY <5>1, <5>2 DEF Mine, AllSlipped
      <4> QED  BY <2>2, <3>1, <3>4, <4>1, <4>2, <4>3 DEF Restaffed
    <3>5. id # NoId => Mine(t.path, j.id)'
      <4>1. PICK q \in Paths : q = t.path
        BY <3>1
      <4>2. CASE id # Len(drive) + 1 /\ id # NoId
        <5>1. PICK i \in 1..Len(drive) : i = id
          BY <3>4, <4>2
        <5>2. Mine(q, i)'
          BY <1>3, <3>4, <4>1, <4>2, <5>1
        <5> QED  BY <2>2, <4>1, <5>1, <5>2
      <4>3. CASE id = Len(drive) + 1
        <5>1. Len(drive') = Len(drive) + 1
          BY <1>1, <2>2, <3>1, <4>3 DEF Restaffed
        <5>2. drive'[Len(drive) + 1].name = q
          BY <1>1, <1>5, <4>1, <5>1 DEF Rewritten
        <5> QED  BY <2>2, <4>1, <4>3, <5>2 DEF Mine
      <4> QED  BY <4>2, <4>3
    <3> QED  BY <1>2, <2>2, <3>1, <3>2, <3>3, <3>5 DEF JobInv, AllSlipped
  <2> QED  BY <1>5, <2>1, <2>2 DEF Restaffed
<1>b. ASSUME NEW v \in Workers, NEW q, Concerns(v, q)'
      PROVE  Concerns(v, q) /\ worker'[v].task = worker[v].task
  BY <1>4, <1>5, <1>b DEF Concerns, Busy, Restaffed
<1>10. PairInv'
  <2>2. ASSUME NEW v \in Workers, NEW u \in Workers, NEW q \in Paths, v # u,
               Concerns(v, q)', Concerns(u, q)'
        PROVE  \/ AllSlipped(worker[v].task)' /\ AllSlipped(worker[u].task)'
               \/ /\ worker'[v].task.kind = "sync" /\ worker'[u].task.kind = "sync"
                  /\ cache'[q] # NoId
    <3>1. /\ Concerns(v, q) /\ worker'[v].task = worker[v].task
          /\ Concerns(u, q) /\ worker'[u].task = worker[u].task
      BY <1>b, <2>2
    <3>2. CASE AllSlipped(worker[v].task) /\ AllSlipped(worker[u].task)
      BY <1>2, <3>1, <3>2 DEF AllSlipped
    <3>3. CASE /\ worker[v].task.kind = "sync" /\ worker[u].task.kind = "sync"
               /\ cache[q] # NoId
      <4>1. CASE cache'[q] # NoId
        BY <3>1, <3>3, <4>1
      <4>2. CASE cache'[q] = NoId
        <5>1. Concerns(w, q) /\ j.task.kind # "sync"
          BY <1>6, <3>3, <4>2
        <5>2. AllSlipped(worker[v].task) /\ AllSlipped(worker[u].task)
          BY <3>1, <3>3, <5>1 DEF SafeInv, PairInv
        <5> QED  BY <3>2, <5>2
      <4> QED  BY <4>1, <4>2
    <3> QED  BY <2>2, <3>1, <3>2, <3>3 DEF SafeInv, PairInv
  <2> QED  BY <2>2 DEF PairInv
<1>11. ChanInv'
  <2>1. ASSUME NEW f \in Paths, Ready(f) PROVE Ready(f)'
    <3>1. CASE Slipped(f)
      BY <1>2, <3>1 DEF Ready
    <3>2. ASSUME NEW v \in Workers, Busy(v), worker[v].task = Delete(f)
          PROVE  Ready(f)'
      <4>1. CASE worker'[v].pc # "idle"
        BY <1>4, <1>5, <3>2, <4>1 DEF Ready, Busy, Restaffed
      <4>2. CASE worker'[v].pc = "idle"
        <5>1. v = w /\ j.task.kind = "delete" /\ j.task.path = f /\ f \in PathsOf(j.task)
          BY <1>4, <3>2, <4>2 DEF Busy, Delete, PathsOf
        <5>2. j.pc \in DeleteSteps
          BY <1>1, <1>5, <5>1
             DEF Busy, Jobs, Steps, JobInv, SyncSteps, UpSteps, DeleteSteps, MoveSteps
        <5>3. CASE j.pc = "unrow" /\ ~Slipped(f)
          <6>1. cache[f] = NoId /\ cache'[f] = cache[f]
            BY <1>5, <5>1, <5>3 DEF SafeInv, Slipless, JobOk, Recached
          <6>2. \A u \in Workers : ~Concerns(u, f)'
            <7> SUFFICES ASSUME NEW u \in Workers, Concerns(u, f)' PROVE FALSE
              OBVIOUS
            <7>1. Concerns(u, f) /\ u # w
              BY <1>b, <4>2, <5>1 DEF Concerns, Busy
            <7>2. AllSlipped(j.task)
              BY <1>5, <5>1, <7>1 DEF SafeInv, PairInv, Concerns
            <7> QED  BY <5>1, <5>3, <7>2 DEF AllSlipped
          <6> QED  BY <6>1, <6>2 DEF Ready
        <5>4. CASE Slipped(f)'
          BY <5>4 DEF Ready
        <5> QED  BY <1>2, <1>5, <4>2, <5>1, <5>2, <5>3, <5>4 DEF Restaffed
      <4> QED  BY <4>1, <4>2
    <3>3. CASE cache[f] = NoId /\ \A v \in Workers : ~Concerns(v, f)
      BY <1>6, <1>b, <3>3 DEF Ready
    <3> QED  BY <2>1, <3>1, <3>2, <3>3 DEF Ready
  <2>2. \A k \in 1..Len(chan) : chan[k].from \in Paths
    BY TaskPaths DEF TypeInv
  <2>3. chan' = chan
    BY DEF Shape
  <2> QED  BY <2>1, <2>2, <2>3 DEF SafeInv, ChanInv, Queued, Fit
<1> QED  BY <1>7, <1>8, <1>9, <1>10, <1>11

\* A path that the task of the worker is not about.
LEMMA Elsewhere ==
  ASSUME TypeInv, SafeInv, NEW w \in Workers, Shape(w),
         NEW p \in Slipless', worker[w].task.path # p
  PROVE  /\ cache'[p] = cache[p]
         /\ \A i : /\ Live(i, p)' <=> Live(i, p)
                   /\ Live(i, p) => drive'[i] = drive[i]
<1> DEFINE j == worker[w]
<1>1. p \in Paths /\ ~Slipped(p) /\ ~Slipped(p)'
  BY SlippedKept DEF Shape, Slipless
<1>2. JobInv(w) /\ Recached(w) /\ Rewritten(w) /\ Len(drive) \in Nat
  BY DEF Shape, SafeInv, TypeInv
<1>3. cache'[p] = cache[p]
  BY <1>1, <1>2 DEF Recached, JobInv, AllSlipped, MoveSteps
<1>4. ASSUME NEW i PROVE (Live(i, p)' <=> Live(i, p)) /\ (Live(i, p) => drive'[i] = drive[i])
  <2>1. CASE i \in 1..Len(drive)
    <3>1. i \in 1..Len(drive')
      BY <1>2, <2>1 DEF Rewritten
    <3>2. CASE drive'[i] = drive[i]
      BY <2>1, <3>1, <3>2 DEF Live
    <3>3. CASE i = j.id /\ drive'[i].name \in {drive[i].name, j.task.path}
      <4>1. Mine(j.task.path, i)
        BY <1>2, <2>1, <3>3 DEF JobInv
      <4> QED  BY <1>1, <3>3, <4>1 DEF Live, Mine
    <3> QED  BY <1>2, <2>1, <3>2, <3>3 DEF Rewritten
  <2>2. CASE i \notin 1..Len(drive)
    <3>1. i \in 1..Len(drive') => i = Len(drive) + 1 /\ drive'[i].name = j.task.path
      BY <1>2, <2>2 DEF Rewritten
    <3> QED  BY <2>2, <3>1 DEF Live
  <2> QED  BY <2>1, <2>2
<1> QED  BY <1>3, <1>4

LEMMA ElsewhereSafe ==
  ASSUME TypeInv, SafeInv, NEW w \in Workers, Shape(w),
         NEW p \in Slipless', worker[w].task.path # p
  PROVE  CacheOk(p)' /\ \A v \in Workers : JobOk(v, p)'
<1>1. p \in Slipless
  BY SlippedKept DEF Shape
<1>2. \A v \in Workers :
         \/ worker'[v] = worker[v]
         \/ ~Uploading(v, p) /\ ~Deleting(v, p) /\ ~Critical(v, p)'
  BY DEF Shape, Others, Restaffed, Uploading, Deleting, Critical, UpSteps
<1> QED  BY <1>1, <1>2, Elsewhere, Frame DEF SafeInv, Slipless

\* The path of the task.
LEMMA HereSafe ==
  ASSUME TypeInv, TypeInv', SafeInv, NEW w \in Workers, Work(w), ~TakeTask(w), Shape(w),
         NEW p \in Slipless', worker[w].task.path = p
  PROVE  CacheOk(p)' /\ \A v \in Workers : JobOk(v, p)'
<1> DEFINE j == worker[w]
           Safe == CacheOk(p) /\ \A v \in Workers : JobOk(v, p)
<1>1. p \in Paths /\ ~Slipped(p) /\ ~Slipped(p)' /\ p \in PathsOf(j.task)
  BY SlippedKept DEF Shape, Slipless, PathsOf
<1>2. /\ JobInv(w) /\ Busy(w) /\ Safe /\ Len(drive) \in Nat
      /\ \A v \in Workers \ {w} : worker'[v] = worker[v]
      /\ cache[p] \in 0..Len(drive)
  BY <1>1 DEF Shape, Others, SafeInv, TypeInv, Slipless
\* No other worker is on the path, but for uploads to the id in the cache.
<1>3. ASSUME j.task.kind # "sync" \/ cache[p] = NoId, NEW v \in Workers \ {w}
      PROVE  ~Uploading(v, p) /\ ~Deleting(v, p) /\ ~Critical(v, p) /\ ~Critical(v, p)'
  <2>1. ~Concerns(v, p)
    BY <1>1, <1>2, <1>3 DEF SafeInv, PairInv, Concerns, AllSlipped
  <2>2. worker'[v] = worker[v]
    BY <1>2
  <2> QED  BY <2>1, <2>2 DEF Concerns, Busy, Uploading, Deleting, Critical, UpSteps, PathsOf
<1>4. ~Fails(w)
  BY <1>1 DEF Fails
<1>5. ~AllSlipped(j.task) /\ j.pc \notin MoveSteps
  BY <1>1, <1>2 DEF AllSlipped, JobInv
\* The same files of that name, and a step that matters to nobody else.
<1>6. ASSUME cache'[p] = cache[p], \A i : Live(i, p)' <=> Live(i, p),
             \/ ~Uploading(w, p) /\ ~Deleting(w, p) /\ ~Critical(w, p)'
             \/ Uploading(w, p) /\ Uploading(w, p)' /\ worker'[w].id = worker[w].id
             \/ /\ worker'[w].pc = worker[w].pc /\ worker'[w].task = worker[w].task
                /\ worker'[w].id = worker[w].id
      PROVE  Safe'
  BY <1>1, <1>2, <1>6, Frame
<1>7. UNCHANGED drive => \A i : Live(i, p)' <=> Live(i, p)
  BY DEF Live
<1>8. Ends(w) => ~Critical(w, p)'
  BY DEF Ends, Critical, UpSteps, Idle
<1> USE DEF At
<1>9. CASE Stat(w) \/ Quick(w) \/ Hash(w) \/ Row(w) \/ Unrow(w)
  <2>1. ~Uploading(w, p) /\ ~Deleting(w, p) /\ UNCHANGED <<cache, drive>>
    BY <1>9 DEF Stat, Quick, Hash, Row, Unrow, Uploading, Deleting, UpSteps
  <2>2. ~Critical(w, p)'
    BY <1>8, <1>9, Acts DEF Goes, Critical, UpSteps
  <2> QED  BY <1>6, <1>7, <2>1, <2>2
<1>10. CASE Deep(w)
  <2>1. j.pc = "deep" /\ UNCHANGED <<cache, drive>> /\ ~Uploading(w, p) /\ ~Deleting(w, p)
    BY <1>10 DEF Deep, Uploading, Deleting, UpSteps
  <2>2. CASE Ends(w)
    BY <1>6, <1>7, <1>8, <2>1, <2>2
  <2>3. CASE Goes(w, "send", cache[p])
    <3>1. worker'[w].pc = "send" /\ worker'[w].task.path = p /\ worker'[w].id = cache[p]
      BY <2>3 DEF Goes
    <3>2. cache[p] = NoId => \A i : ~Live(i, p)
      BY <1>2, <1>3, <2>1 DEF CacheOk
    <3>3. cache[p] # NoId => Live(cache[p], p)
      <4>1. ASSUME NEW v \in Workers, Deleting(v, p) PROVE cache[p] = NoId
        <5>1. JobInv(v) /\ v # w /\ Concerns(v, p) /\ worker[v].task.kind = "delete"
          BY <2>1, <4>1 DEF SafeInv, JobInv, Deleting, Concerns, Busy, PathsOf, DeleteSteps
        <5> QED  BY <1>1, <1>2, <1>5, <5>1 DEF SafeInv, PairInv, Concerns
      <4> QED  BY <1>2, <4>1 DEF CacheOk
    <3>4. JobOk(w, p)'
      BY <1>2, <1>7, <2>1, <3>1, <3>2, <3>3 DEF JobOk, CacheOk, UpSteps
    <3>5. \A v \in Workers \ {w} : JobOk(v, p)'
      BY <1>2, <1>7, <2>1 DEF JobOk
    <3>6. CacheOk(p)'
      BY <1>2, <1>7, <2>1, <3>2, <3>3 DEF CacheOk
    <3> QED  BY <3>4, <3>5, <3>6
  <2> QED  BY <1>10, <2>2, <2>3, Acts
<1>11. CASE Send(w) \/ Verify(w)
  <2>1. Uploading(w, p) /\ UNCHANGED <<cache, drive>>
    BY <1>11 DEF Send, Verify, Uploading, UpSteps
  <2>2. Uploading(w, p)' /\ worker'[w].id = j.id
    BY <1>4, <1>11, Acts DEF Goes, Uploading, UpSteps
  <2> QED  BY <1>6, <1>7, <2>1, <2>2
<1>12. CASE Land(w)
  <2>1. Uploading(w, p) /\ UNCHANGED cache /\ j.pc = "land"
    BY <1>12 DEF Land, Uploading, UpSteps
  <2>2. CASE (Goes(w, "send", j.id) \/ Goes(w, "verify", j.id)) /\ Renames(w)
    <3>1. Uploading(w, p)' /\ worker'[w].id = j.id
      BY <2>2 DEF Goes, Uploading, UpSteps
    <3>2. j.id # NoId => drive[j.id].name = p
      BY <1>1, <1>2 DEF JobInv, Mine
    <3>3. \A i : Live(i, p)' <=> Live(i, p)
      BY <1>2, <2>2, <3>2 DEF Renames, Live
    <3> QED  BY <1>6, <2>1, <3>1, <3>3
  <2>3. CASE Goes(w, "verify", Len(drive) + 1) /\ Creates(w)
    <3> DEFINE n == Len(drive) + 1
    <3>1. /\ worker'[w].pc = "verify" /\ worker'[w].task.path = p /\ worker'[w].id = n
          /\ j.id = NoId /\ n # NoId
      BY <1>2, <2>3 DEF Goes, Creates
    <3>2. cache[p] = NoId /\ \A i : ~Live(i, p)
      BY <1>2, <2>1, <3>1 DEF JobOk, UpSteps
    <3>3. \A i : Live(i, p)' <=> i = n
      BY <1>2, <2>3, <3>2 DEF Creates, Live
    <3>4. JobOk(w, p)' /\ CacheOk(p)'
      BY <2>1, <3>1, <3>2, <3>3 DEF JobOk, CacheOk, Uploading, UpSteps
    <3>5. \A v \in Workers \ {w} : JobOk(v, p)'
      BY <1>3, <3>2 DEF JobOk, Critical, UpSteps
    <3> QED  BY <3>4, <3>5
  <2>4. CASE Goes(w, "send", NoId) /\ Slipped(worker[w].task.path)'
    BY <1>1, <2>4 DEF Goes
  <2> QED  BY <1>4, <1>12, <2>2, <2>3, <2>4, LandShape
<1>13. CASE Record(w)
  <2>1. /\ worker'[w].pc = "row" /\ worker'[w].task.path = p
        /\ j.pc = "record" /\ j.id # NoId /\ cache'[p] = j.id /\ UNCHANGED drive
    BY <1>1, <1>2, <1>13, Acts DEF Goes, Record, JobInv, TypeInv
  <2>2. Live(j.id, p) /\ (\A i : Live(i, p) => i = j.id) /\ cache[p] \in {NoId, j.id}
    BY <1>2, <2>1 DEF JobOk, UpSteps
  <2>3. JobOk(w, p)'
    BY <2>1 DEF JobOk, UpSteps
  <2>4. CacheOk(p)'
    BY <1>7, <2>1, <2>2 DEF CacheOk
  <2>5. ASSUME NEW v \in Workers \ {w} PROVE JobOk(v, p)'
    <3>1. CASE cache[p] = NoId
      BY <1>3, <3>1 DEF JobOk, Critical, UpSteps
    <3>2. CASE cache'[p] = cache[p]
      BY <1>2, <1>7, <2>1, <3>2 DEF JobOk
    <3> QED  BY <2>1, <2>2, <3>1, <3>2
  <2> QED  BY <2>3, <2>4, <2>5
<1>14. CASE Find(w)
  <2>1. /\ worker'[w].pc = (IF cache[p] = NoId THEN "unrow" ELSE "trash")
        /\ worker'[w].task.path = p /\ worker'[w].id = cache[p]
        /\ UNCHANGED <<cache, drive>> /\ j.pc = "find" /\ j.task.kind # "sync"
    BY <1>2, <1>14, Acts DEF Goes, Find, JobInv, DeleteSteps
  <2>2. JobOk(w, p)'
    BY <2>1 DEF JobOk, UpSteps
  <2>3. \A v \in Workers \ {w} : JobOk(v, p)' /\ ~Uploading(v, p) /\ ~Deleting(v, p)
    BY <1>3, <2>1 DEF JobOk, Critical, UpSteps
  <2>4. ~Uploading(w, p) /\ ~Deleting(w, p)
    BY <2>1 DEF Uploading, Deleting, UpSteps
  <2>5. CacheOk(p)'
    BY <1>2, <1>7, <2>1, <2>3, <2>4 DEF CacheOk
  <2> QED  BY <2>2, <2>3, <2>5
<1>15. CASE Trash(w)
  <2>1. /\ j.pc = "trash" /\ UNCHANGED cache /\ j.task.kind # "sync"
        /\ cache[p] = j.id /\ j.id # NoId
    BY <1>2, <1>15 DEF Trash, JobInv, JobOk, DeleteSteps
  <2>2. CASE Goes(w, "trash", j.id) /\ UNCHANGED drive
    BY <1>6, <1>7, <2>1, <2>2 DEF Goes
  <2>3. CASE (Goes(w, "trash", j.id) \/ Goes(w, "forget", j.id)) /\ Trashes(w)
    <3>1. \A i : ~Live(i, p)'
      <4>1. \A i : Live(i, p) => i = j.id
        BY <1>2, <2>1 DEF CacheOk
      <4> QED  BY <1>2, <2>3, <4>1 DEF Trashes, Live
    <3>2. /\ worker'[w].pc \in {"trash", "forget"} /\ worker'[w].task.path = p
          /\ worker'[w].id = j.id
      BY <2>3 DEF Goes
    <3>3. JobOk(w, p)' /\ CacheOk(p)'
      BY <2>1, <3>1, <3>2 DEF JobOk, CacheOk, Deleting, UpSteps
    <3>4. \A v \in Workers \ {w} : JobOk(v, p)'
      BY <1>3, <2>1 DEF JobOk, Critical, UpSteps
    <3> QED  BY <3>3, <3>4
  <2> QED  BY <1>4, <1>15, <2>2, <2>3, TrashShape
<1>16. CASE Forget(w)
  <2>1. /\ worker'[w].pc = "unrow" /\ worker'[w].task.path = p
        /\ j.pc = "forget" /\ j.task.kind # "sync" /\ cache'[p] = NoId /\ UNCHANGED drive
    BY <1>1, <1>2, <1>16, Acts DEF Goes, Forget, JobInv, DeleteSteps, TypeInv
  <2>2. \A i : ~Live(i, p)
    BY <1>2, <2>1 DEF JobOk
  <2>3. JobOk(w, p)' /\ CacheOk(p)'
    BY <1>7, <2>1, <2>2 DEF JobOk, CacheOk, UpSteps
  <2>4. \A v \in Workers \ {w} : JobOk(v, p)'
    BY <1>3, <2>1 DEF JobOk, Critical, UpSteps
  <2> QED  BY <2>3, <2>4
<1>17. CASE Origin(w)
  <2>1. /\ j.pc = "origin" /\ UNCHANGED <<cache, drive>> /\ cache[j.task.from] = NoId
        /\ ~Uploading(w, p) /\ ~Deleting(w, p)
    BY <1>2, <1>5, <1>17 DEF Origin, JobInv, Uploading, Deleting, UpSteps
  <2>2. ~Critical(w, p)'
    BY <1>8, <1>17, <2>1, Acts DEF Goes, Critical, UpSteps
  <2> QED  BY <1>6, <1>7, <2>1, <2>2
<1>18. CASE Patch(w) \/ Unlink(w) \/ Link(w) \/ MoveRow(w)
  BY <1>5, <1>18 DEF Patch, Unlink, Link, MoveRow, MoveSteps
<1> QED
  BY <1>9, <1>10, <1>11, <1>12, <1>13, <1>14, <1>15, <1>16, <1>17, <1>18 DEF Work

LEMMA InitSafe ==
  ASSUME Init, TypeInv
  PROVE  SafeInv
<1> DEFINE n  == Cardinality(Paths)
           c0 == CHOOSE c \in Contents : TRUE
<1>1. PICK there \in SUBSET Paths, id \in Bijection(Paths, 1..n) : Synchronised(there, id)
  BY DEF Init
<1> DEFINE name(i) == CHOOSE q \in Paths : id[q] = i
<1>2. /\ n \in Nat /\ id \in [Paths -> 1..n]
      /\ \A i \in 1..n : \E q \in Paths : id[q] = i
      /\ \A q, r \in Paths : id[q] = id[r] => q = r
  BY FS_CardinalityType DEF Bijection, Injection, Surjection, IsInjective
<1>3. \A i \in 1..n : name(i) \in Paths /\ id[name(i)] = i
  BY <1>2
<1>4. /\ drive = [i \in 1..n |-> [name |-> name(i), c |-> c0,
                                state |-> IF name(i) \in there THEN "live" ELSE "trashed"]]
      /\ cache = [p \in Paths |-> IF p \in there THEN id[p] ELSE NoId]
  BY <1>1 DEF Synchronised
<1> HIDE DEF n, c0, name
<1>5. /\ Len(drive) = n
      /\ \A i \in 1..n : /\ drive[i].name = name(i)
                         /\ drive[i].state = "live" <=> name(i) \in there
  BY <1>2, <1>4
<1>6. /\ \A p \in Paths : cache[p] # NoId <=> p \in there
      /\ \A p \in there : cache[p] = id[p] /\ id[p] \in 1..n /\ name(id[p]) = p
  BY <1>2, <1>3, <1>4
<1>7. \A w \in Workers : worker[w].pc = "idle" /\ worker[w].id = NoId /\ Fit(worker[w].task)
  <2>1. \A p \in Paths : Fit(Sync(p))
    BY DEF Fit, Sync
  <2>2. \A w \in Workers : worker[w] = Idle
    BY DEF Init
  <2> HIDE DEF Fit, Sync
  <2>3. Idle.pc = "idle" /\ Idle.id = NoId /\ Fit(Idle.task)
    BY <2>1 DEF Idle
  <2> QED  BY <2>2, <2>3
<1>8. \A w \in Workers : JobInv(w)
  BY <1>7 DEF JobInv, SyncSteps, UpSteps, DeleteSteps, MoveSteps
<1>9. \A p \in Paths : cache[p] # NoId => Mine(p, cache[p])
  BY <1>5, <1>6 DEF Mine
<1>10. PairInv /\ ChanInv
  BY <1>7 DEF PairInv, ChanInv, Concerns, Busy, Init
<1>11. ASSUME NEW p \in Paths PROVE CacheOk(p) /\ \A w \in Workers : JobOk(w, p)
  <2>1. \A i : Live(i, p) <=> p \in there /\ i = id[p]
    BY <1>2, <1>3, <1>5, <1>6 DEF Live
  <2> QED  BY <1>6, <1>7, <2>1 DEF CacheOk, JobOk, UpSteps
<1> QED  BY <1>8, <1>9, <1>10, <1>11 DEF SafeInv, Slipless

LEMMA StutterSafe ==
  ASSUME SafeInv, UNCHANGED vars
  PROVE  SafeInv'
<1> USE DEF vars, localVars
<1>1. \A w \in Workers : JobInv(w)'
  BY DEF SafeInv, JobInv, AllSlipped, Slipped, Mine
<1>2. \A p \in Paths : cache'[p] # NoId => Mine(p, cache[p])'
  BY DEF SafeInv, Slipped, Mine
<1>3. PairInv'
  BY DEF SafeInv, PairInv, AllSlipped, Slipped, Concerns, Busy
<1>4. ChanInv'
  BY DEF SafeInv, ChanInv, Queued, Ready, Slipped, Concerns, Busy
<1>5. \A p \in Slipless' : CacheOk(p)' /\ \A w \in Workers : JobOk(w, p)'
  <2>1. \A p, i : Live(i, p)' <=> Live(i, p)
    BY DEF Live
  <2>2. Slipless' = Slipless /\ Slipless \subseteq Paths
    BY DEF Slipless, Slipped
  <2> QED  BY <2>1, <2>2, Frame DEF SafeInv
<1> QED  BY <1>1, <1>2, <1>3, <1>4, <1>5 DEF SafeInv

LEMMA SafeInvariant == Spec => []SafeInv
<1>1. TypeInv /\ TypeInv' /\ SafeInv /\ [Next]_vars => SafeInv'
  <2> SUFFICES ASSUME TypeInv, TypeInv', SafeInv, [Next]_vars PROVE SafeInv'
    OBVIOUS
  <2>1. CASE Desktop
    BY <2>1, DesktopSafe
  <2>2. ASSUME NEW w \in Workers, TakeTask(w) PROVE SafeInv'
    BY <2>2, TakeSafe
  <2>3. ASSUME NEW w \in Workers, Work(w), ~TakeTask(w) PROVE SafeInv'
    <3>1. Shape(w)
      BY <2>3, StepShape DEF SafeInv
    <3>2. \A p \in Slipless' : CacheOk(p)' /\ \A v \in Workers : JobOk(v, p)'
      BY <2>3, <3>1, ElsewhereSafe, HereSafe
    <3> QED  BY <3>1, <3>2, JobsSafe DEF SafeInv
  <2>4. CASE UNCHANGED vars
    BY <2>4, StutterSafe
  <2> QED  BY <2>1, <2>2, <2>3, <2>4 DEF Next
<1>2. Init => SafeInv
  BY InitSafe, InitType
<1> QED  BY <1>1, <1>2, TypeInvariant, PTL DEF Spec

\* Whatever is written, moved, deleted, sent, lost or retried, the Drive has at most one
\* living file of a name that has not slipped (worker.rs:176): an attempt never creates a
\* file beside the one that the cache or an earlier attempt knows.
THEOREM OneDriveCorrect == Spec => []OneDriveFile
<1>1. ASSUME TypeInv, SafeInv, NEW p \in Slipless PROVE Cardinality(LiveIds(p)) <= 1
  <2>1. \A i : i \in LiveIds(p) <=> Live(i, p)
    BY DEF LiveIds, Live, TypeInv
  <2>2. p \in Paths /\ CacheOk(p) /\ \A w \in Workers : JobOk(w, p)
    BY <1>1 DEF SafeInv, Slipless
  <2>3. \E x : \A i : Live(i, p) => i = x
    <3>1. CASE cache[p] # NoId
      BY <2>2, <3>1 DEF CacheOk
    <3>2. ASSUME NEW w \in Workers, Uploading(w, p) PROVE \E x : \A i : Live(i, p) => i = x
      BY <2>2, <3>2 DEF JobOk, Uploading
    <3> QED  BY <2>2, <3>1, <3>2 DEF CacheOk
  <2>4. LiveIds(p) = {} \/ \E x : LiveIds(p) = {x}
    BY <2>1, <2>3
  <2>5. CASE LiveIds(p) = {}
    BY <2>5, FS_EmptySet
  <2>6. ASSUME NEW x, LiveIds(p) = {x} PROVE Cardinality(LiveIds(p)) <= 1
    <3>1. Cardinality({x}) = 1
      BY FS_Singleton
    <3> QED  BY <2>6, <3>1
  <2> QED  BY <2>4, <2>5, <2>6
<1>2. TypeInv /\ SafeInv => OneDriveFile
  BY <1>1 DEF OneDriveFile
<1> QED  BY <1>2, TypeInvariant, SafeInvariant, PTL

\* Between tasks, an id in the cache names a living file of that name (worker.rs:123).
THEOREM CacheCorrect == Spec => []CacheSound
<1>1. TypeInv /\ SafeInv => CacheSound
  <2> SUFFICES ASSUME TypeInv, SafeInv, NEW p \in Slipless, cache[p] # NoId, ~Touched(p)
               PROVE  cache[p] \in LiveIds(p)
    BY DEF CacheSound
  <2>1. CacheOk(p)
    BY DEF SafeInv
  <2>2. \A w \in Workers : ~Deleting(w, p)
    BY DEF Touched, Concerns, Busy, Deleting, PathsOf
  <2> QED  BY <2>1, <2>2 DEF CacheOk, Live, LiveIds, TypeInv
<1> QED  BY <1>1, TypeInvariant, SafeInvariant, PTL

-----------------------------------------------------------------------------
(* The Drive mirrors the disk *)

On(w, p) == worker[w].task.path = p

\* Under way for p: a request not yet compared with the file, or one that will be sent again.
Mends(w, p) ==
    /\ On(w, p)
    /\ \/ worker[w].pc \in {"send", "land"}
       \/ worker[w].pc = "verify" /\ worker[w].bytes # file[p].c
Mending(p) == \E w \in Workers : Mends(w, p)
Good(p) == (\A i : Live(i, p) => drive[i].c = file[p].c) \/ Mending(p)

\* A worker that has looked at p since its last change and has not decided yet.
Early(w, p) ==
    On(w, p) /\ \/ worker[w].pc \in {"quick", "hash"} /\ worker[w].m = file[p].m
                \/ worker[w].pc = "deep" /\ worker[w].hash = file[p].c

\* Some worker will look at p again.
Later(p, k) ==
    \/ p \in pending
    \/ \E l \in 1..Len(chan) : l > k /\ chan[l].path = p /\ chan[l].kind # "delete"
Due(p) == Later(p, 0) \/ \E w \in Workers : On(w, p) /\ worker[w].pc \in {"origin", "stat"}
Undone(p, k) == \E l \in 1..Len(chan) : l > k /\ chan[l] = Delete(p)

\* What a row, or the hash and time a worker is about to write, say about the Drive.
JobRow(w, p) ==
    LET j == worker[w] IN
    On(w, p) /\ file[p] # None =>
        /\ j.pc \in {"verify", "record", "row"} /\ j.hash = file[p].c => Good(p)
        /\ j.pc \in {"deep", "send", "land", "verify", "record", "row"} /\ j.m = file[p].m
              => j.hash = file[p].c
RowInv(p) ==
    /\ index[p] # None /\ cache[p] = NoId => \E w \in Workers : On(w, p) /\ worker[w].pc = "unrow"
    /\ file[p] # None /\ index[p] # None /\ cache[p] # NoId /\ index[p].c = file[p].c => Good(p)
    /\ file[p] # None /\ index[p] # None /\ index[p].m = file[p].m => index[p].c = file[p].c
    /\ \A w \in Workers : JobRow(w, p)

\* After the last deletion of a file that is there comes an upload, and conversely.
OrderInv(p) ==
    /\ file[p] # None =>
          /\ \A w \in Workers : On(w, p) /\ worker[w].pc \in DeleteSteps => Later(p, 0)
          /\ \A k \in 1..Len(chan) : chan[k] = Delete(p) => Later(p, k)
    /\ file[p] = None =>
          /\ p \notin pending
          /\ \A k \in 1..Len(chan) : chan[k].path = p /\ chan[k].kind # "delete" => Undone(p, k)
          /\ \A w \in Workers :
                On(w, p) /\ worker[w].pc \in SyncSteps \cup {"origin"} => Undone(p, 0)

\* What has been done when nothing is due.
Known(p) == index[p] # None /\ cache[p] # NoId
Storing(w, p) == On(w, p) /\ worker[w].pc \in UpSteps \cup {"row"}
DoneInv(p) ==
    /\ file[p] # None /\ ~Due(p) =>
         /\ Good(p) \/ \E w \in Workers : Early(w, p)
         /\ Known(p) \/ \E w \in Workers : Early(w, p) \/ Storing(w, p)
    /\ /\ file[p] = None /\ ~Undone(p, 0)
       /\ \A w \in Workers : ~(On(w, p) /\ worker[w].pc \in DeleteSteps)
       => cache[p] = NoId /\ index[p] = None

PathInv(p) == RowInv(p) /\ OrderInv(p) /\ DoneInv(p)
MirrorInv == \A p \in Slipless : PathInv(p)

\* Nothing that PathInv speaks of changes, but for workers and tasks that are not on p.
LEMMA PathFrame ==
  ASSUME NEW p \in Paths, PathInv(p), chan \in Seq(Tasks), chan' \in Seq(Tasks),
         file'[p] = file[p], index'[p] = index[p], cache'[p] = cache[p],
         (p \in pending') <=> (p \in pending),
         Len(chan) <= Len(chan'), \A k \in 1..Len(chan) : chan'[k] = chan[k],
         \A k \in 1..Len(chan') : k > Len(chan) => chan'[k].path # p,
         \A i : Live(i, p)' <=> Live(i, p), \A i : Live(i, p) => drive'[i] = drive[i],
         \A w \in Workers : \/ worker'[w] = worker[w]
                            \/ /\ ~On(w, p) \/ worker[w].pc = "idle"
                               /\ ~On(w, p)' \/ worker'[w].pc = "idle"
  PROVE  PathInv(p)'
<1>1. (Mending(p)' <=> Mending(p)) /\ (Good(p)' <=> Good(p))
  <2>1. Mending(p)' <=> Mending(p)
    BY DEF Mending, Mends, On
  <2> QED  BY <2>1 DEF Good
<1>2. /\ \A k \in Nat : (Later(p, k)' <=> Later(p, k)) /\ (Undone(p, k)' <=> Undone(p, k))
      /\ Due(p)' <=> Due(p)
  <2>1. Len(chan) \in Nat /\ Len(chan') \in Nat /\ Delete(p).path = p
    BY DEF Delete
  <2>2. ASSUME NEW k \in Nat
        PROVE  (Later(p, k)' <=> Later(p, k)) /\ (Undone(p, k)' <=> Undone(p, k))
    <3>1. \A l : l \in 1..Len(chan) => l \in 1..Len(chan') /\ chan'[l] = chan[l]
      BY <2>1
    <3>2. \A l : l \in 1..Len(chan') /\ chan'[l].path = p => l \in 1..Len(chan)
      BY <2>1
    <3> QED  BY <2>1, <3>1, <3>2 DEF Later, Undone
  <2>3. Due(p)' <=> Due(p)
    BY <2>2 DEF Due, On
  <2> QED  BY <2>2, <2>3
<1>3. \A w \in Workers : (Early(w, p)' <=> Early(w, p)) /\ (Storing(w, p)' <=> Storing(w, p))
  BY DEF Early, Storing, UpSteps, On
<1>4. RowInv(p)'
  BY <1>1 DEF PathInv, RowInv, JobRow, On
<1>5. OrderInv(p)'
  <2>1. \A k \in 1..Len(chan') : chan'[k].path = p => k \in 1..Len(chan) /\ chan'[k] = chan[k]
    OBVIOUS
  <2>2. Delete(p).path = p
    BY DEF Delete
  <2> QED
    BY <1>2, <2>1, <2>2 DEF PathInv, OrderInv, SyncSteps, UpSteps, DeleteSteps, On
<1>6. DoneInv(p)'
  BY <1>1, <1>2, <1>3 DEF PathInv, DoneInv, Known, DeleteSteps, On
<1> QED  BY <1>4, <1>5, <1>6 DEF PathInv

LEMMA MirrorElsewhere ==
  ASSUME TypeInv, SafeInv, NEW w \in Workers, Work(w), ~TakeTask(w), Shape(w),
         NEW p \in Slipless', worker[w].task.path # p, PathInv(p)
  PROVE  PathInv(p)'
<1>1. p \in Paths /\ ~Slipped(p)
  BY SlippedKept DEF Shape, Slipless
<1>2. UNCHANGED localVars
  BY DEF Work, TakeTask, Stat, Quick, Hash, Deep, Send, Land, Verify, Record, Row, Find, Trash,
         Forget, Unrow, Origin, Patch, Unlink, Link, MoveRow
<1>3. index'[p] = index[p]
  <2>1. CASE Deep(w) \/ Row(w) \/ Unrow(w)
    BY <1>1, <2>1 DEF Deep, Row, Unrow, TypeInv
  <2>2. CASE MoveRow(w)
    <3>1. AllSlipped(worker[w].task)
      BY <2>2 DEF MoveRow, At, SafeInv, JobInv, MoveSteps
    <3> QED  BY <1>1, <2>2, <3>1 DEF MoveRow, TypeInv, AllSlipped
  <2>3. CASE UNCHANGED index
    BY <2>3
  <2> QED
    BY <2>1, <2>2, <2>3
       DEF Work, Stat, Quick, Hash, Send, Land, Verify, Record, Find, Trash, Forget, Origin,
           Patch, Unlink, Link
<1>4. chan \in Seq(Tasks) /\ chan' = chan
  BY DEF TypeInv, Shape
<1>5. \A v \in Workers : \/ worker'[v] = worker[v]
                         \/ ~On(v, p) /\ (~On(v, p)' \/ worker'[v].pc = "idle")
  BY DEF Shape, Others, Restaffed, On
<1> QED
  BY <1>1, <1>2, <1>3, <1>4, <1>5, Elsewhere, PathFrame DEF localVars

\* What a worker has read of the file, and what it sends of it.
Keeps(w) == worker'[w].m = worker[w].m /\ worker'[w].hash = worker[w].hash

LEMMA AgainKeeps ==
  ASSUME TypeInv, NEW w \in Workers, NEW pc, NEW id
  PROVE  /\ Again(w, pc, id) => Fails(w) \/ (Keeps(w) /\ worker'[w].pc = pc)
         /\ Goto(w, pc) => Keeps(w) /\ worker'[w].pc = pc
<1>1. worker \in [Workers -> Jobs(Len(drive))] /\ worker[w] \in Jobs(Len(drive))
  BY DEF TypeInv, Staff
<1>2. ASSUME Again(w, pc, id), worker[w].tries # MaxAttempts
      PROVE  Keeps(w) /\ worker'[w].pc = pc
  <2>1. worker' = [worker EXCEPT ![w].pc = pc, ![w].id = id, ![w].tries = worker[w].tries + 1]
    BY <1>2 DEF Again
  <2> QED  BY <1>1, <2>1 DEF Keeps, Jobs
<1>3. ASSUME Again(w, pc, id), worker[w].tries = MaxAttempts PROVE Fails(w)
  BY <1>3, EndShape DEF Again
<1>4. Goto(w, pc) => Keeps(w) /\ worker'[w].pc = pc
  BY <1>1 DEF Goto, Keeps, Jobs
<1> QED  BY <1>2, <1>3, <1>4

LEMMA ReadActs ==
  ASSUME TypeInv, NEW w \in Workers, NEW p, p = worker[w].task.path
  PROVE  LET j == worker[w] IN
         /\ Stat(w) /\ file[p] # None => worker'[w].pc = "quick" /\ worker'[w].m = file[p].m
         /\ Quick(w) => \/ index[p] # None /\ index[p].m = j.m /\ cache[p] # NoId
                        \/ worker'[w].pc = "hash" /\ Keeps(w)
         /\ Hash(w) /\ file[p] # None =>
               worker'[w].pc = "deep" /\ worker'[w].hash = file[p].c /\ worker'[w].m = j.m
         /\ Deep(w) => \/ /\ index[p] # None /\ index[p].c = j.hash /\ cache[p] # NoId
                          /\ index'[p] = [c |-> j.hash, m |-> j.m]
                       \/ UNCHANGED index /\ worker'[w].pc = "send" /\ Keeps(w)
         /\ Send(w) => Fails(w) \/ (Keeps(w) /\ worker'[w].pc \in {"send", "land"})
         /\ Verify(w) => \/ Fails(w)
                         \/ Keeps(w) /\ worker'[w].pc = "send"
                         \/ Keeps(w) /\ worker'[w].pc = "record" /\ file[p].c = j.bytes
         /\ Record(w) => Keeps(w)
<1> DEFINE j == worker[w]
<1>1. /\ worker \in [Workers -> Jobs(Len(drive))] /\ j \in Jobs(Len(drive))
      /\ p \in Paths /\ index \in [Paths -> Stamped]
  BY TaskPaths DEF TypeInv, Staff, Jobs
<1>2. ASSUME Stat(w), file[p] # None PROVE worker'[w].pc = "quick" /\ worker'[w].m = file[p].m
  BY <1>1, <1>2 DEF Stat, Jobs
<1>3. ASSUME Quick(w)
      PROVE  \/ index[p] # None /\ index[p].m = j.m /\ cache[p] # NoId
             \/ worker'[w].pc = "hash" /\ Keeps(w)
  BY <1>3, AgainKeeps DEF Quick
<1>4. ASSUME Hash(w), file[p] # None
      PROVE  worker'[w].pc = "deep" /\ worker'[w].hash = file[p].c /\ worker'[w].m = j.m
  BY <1>1, <1>4 DEF Hash, Jobs
<1>5. ASSUME Deep(w)
      PROVE  \/ /\ index[p] # None /\ index[p].c = j.hash /\ cache[p] # NoId
                /\ index'[p] = [c |-> j.hash, m |-> j.m]
             \/ UNCHANGED index /\ worker'[w].pc = "send" /\ Keeps(w)
  BY <1>1, <1>5 DEF Deep, Keeps, Jobs
<1>6. ASSUME Send(w)
      PROVE  Fails(w) \/ (Keeps(w) /\ worker'[w].pc \in {"send", "land"})
  <2>1. CASE file[p] = None
    BY <1>6, <2>1, AgainKeeps DEF Send
  <2>2. CASE file[p] # None
    BY <1>1, <1>6, <2>2 DEF Send, Keeps, Jobs
  <2> QED  BY <2>1, <2>2
<1>7. ASSUME Verify(w)
      PROVE  \/ Fails(w)
             \/ Keeps(w) /\ worker'[w].pc = "send"
             \/ Keeps(w) /\ worker'[w].pc = "record" /\ file[p].c = j.bytes
  <2>1. CASE file[p] # None /\ file[p].c = j.bytes
    BY <1>7, <2>1, AgainKeeps DEF Verify
  <2>2. CASE ~(file[p] # None /\ file[p].c = j.bytes)
    BY <1>7, <2>2, AgainKeeps DEF Verify
  <2> QED  BY <2>1, <2>2
<1>8. Record(w) => Keeps(w)
  BY AgainKeeps DEF Record
<1> QED  BY <1>2, <1>3, <1>4, <1>5, <1>6, <1>7, <1>8

\* An answered request: the file of the id has the bytes that the worker will compare.
LEMMA LandActs ==
  ASSUME TypeInv, NEW w \in Workers, Land(w)
  PROVE  \/ Fails(w)
         \/ Keeps(w) /\ worker'[w].pc = "send"
         \/ /\ Keeps(w) /\ worker'[w].pc = "verify"
            /\ \E i \in Nat : worker'[w].id = i /\ drive'[i].c = worker'[w].bytes
<1> DEFINE me == worker[w]
<1>1. /\ worker \in [Workers -> Jobs(Len(drive))] /\ me \in Jobs(Len(drive))
      /\ me.id \in 0..Len(drive) /\ drive \in Seq(Entries) /\ Len(drive) \in Nat
  BY DEF TypeInv, Staff, Jobs
<1>2. ASSUME NEW c, Answered(w, c)
      PROVE  /\ Keeps(w) /\ worker'[w].pc = "verify"
             /\ \E i \in Nat : worker'[w].id = i /\ drive'[i].c = worker'[w].bytes
  <2> DEFINE i == IF me.id = NoId THEN Len(drive) + 1 ELSE me.id
  <2>1. worker' = [worker EXCEPT ![w].pc = "verify", ![w].bytes = c, ![w].id = i]
    BY <1>2 DEF Answered
  <2>2. drive'[i].c = c
    <3>1. CASE me.id = NoId
      BY <1>1, <1>2, <3>1 DEF Answered, Stored
    <3>2. CASE me.id # NoId
      <4>1. me.id \in 1..Len(drive) /\ drive[me.id] \in Entries
        BY <1>1, <3>2
      <4>2. drive' = [drive EXCEPT ![me.id] = [drive[me.id] EXCEPT !.name = me.task.path, !.c = c]]
        BY <1>2, <3>2 DEF Answered, Stored
      <4> QED  BY <3>2, <1>1, <4>1, <4>2 DEF Entries
    <3> QED  BY <3>1, <3>2
  <2>3. i \in Nat
    BY <1>1
  <2> HIDE DEF i
  <2>4. /\ worker'[w].pc = "verify" /\ worker'[w].bytes = c /\ worker'[w].id = i
        /\ Keeps(w)
    BY <1>1, <2>1 DEF Keeps, Jobs
  <2> QED  BY <2>2, <2>3, <2>4
<1>3. ASSUME AnswerLost(w) PROVE Fails(w) \/ (Keeps(w) /\ worker'[w].pc = "send")
  <2>1. CASE me.tries = MaxAttempts
    BY <2>1, <1>3, EndShape DEF AnswerLost
  <2>2. CASE me.tries # MaxAttempts
    <3>1. worker' = [worker EXCEPT ![w].pc = "send", ![w].tries = me.tries + 1]
      BY <1>3, <2>2 DEF AnswerLost
    <3> QED  BY <1>1, <3>1 DEF Keeps, Jobs
  <2> QED  BY <2>1, <2>2
<1>4. ASSUME Again(w, "send", me.id) PROVE Fails(w) \/ (Keeps(w) /\ worker'[w].pc = "send")
  BY <1>4, AgainKeeps
<1> QED  BY <1>2, <1>3, <1>4 DEF Land, Lost

\* A step of a worker on its path, when that has not slipped.
LEMMA Here ==
  ASSUME TypeInv, SafeInv, NEW w \in Workers, Work(w), ~TakeTask(w), Shape(w),
         NEW p \in Slipless', worker[w].task.path = p
  PROVE  /\ p \in Paths /\ p \in Slipless /\ file'[p] = file[p] /\ pending' = pending
         /\ chan' = chan /\ ~Fails(w) /\ JobInv(w) /\ Busy(w)
         /\ \A v \in Workers \ {w} : worker'[v] = worker[v]
         /\ worker[w].task.kind # "sync" \/ cache[p] = NoId =>
               \A v \in Workers \ {w} : ~Concerns(v, p)
         /\ On(w, p)' \/ worker'[w].pc = "idle"
         /\ \/ Stat(w) \/ Quick(w) \/ Hash(w) \/ Deep(w) \/ Send(w) \/ Land(w) \/ Verify(w)
            \/ Record(w) \/ Row(w) \/ Find(w) \/ Trash(w) \/ Forget(w) \/ Unrow(w) \/ Origin(w)
         /\ Origin(w) => cache[worker[w].task.from] = NoId
<1> DEFINE j == worker[w]
<1>1. p \in Paths /\ ~Slipped(p) /\ ~Slipped(p)' /\ p \in PathsOf(j.task) /\ p \in Slipless
  BY SlippedKept DEF Shape, Slipless, PathsOf
<1>2. JobInv(w) /\ ~Fails(w) /\ ~AllSlipped(j.task)
  BY <1>1 DEF SafeInv, Fails, AllSlipped
<1>3. UNCHANGED localVars
  BY DEF Work, TakeTask, Stat, Quick, Hash, Deep, Send, Land, Verify, Record, Row, Find, Trash,
         Forget, Unrow, Origin, Patch, Unlink, Link, MoveRow
<1>4. ~Patch(w) /\ ~Unlink(w) /\ ~Link(w) /\ ~MoveRow(w)
  BY <1>2 DEF Patch, Unlink, Link, MoveRow, At, JobInv, MoveSteps
<1>5. ASSUME j.task.kind # "sync" \/ cache[p] = NoId, NEW v \in Workers \ {w}
      PROVE  ~Concerns(v, p)
  BY <1>1, <1>2, <1>5 DEF SafeInv, PairInv, Concerns, Shape
<1>6. On(w, p)' \/ worker'[w].pc = "idle"
  BY DEF Shape, Restaffed, On
<1>7. j.pc = "origin" => cache[j.task.from] = NoId
  BY <1>2 DEF JobInv
<1> QED
  BY <1>1, <1>2, <1>3, <1>4, <1>5, <1>6, <1>7 DEF Shape, Others, localVars, Work, Origin, At

LEMMA GoodHere ==
  ASSUME TypeInv, SafeInv, SafeInv', NEW w \in Workers, Work(w), ~TakeTask(w), Shape(w),
         NEW p \in Slipless', worker[w].task.path = p
  PROVE  (Good(p) \/ Land(w) \/ worker'[w].pc = "send") => Good(p)'
<1> DEFINE j == worker[w]
<1>1. /\ p \in Paths /\ file'[p] = file[p] /\ ~Fails(w) /\ Busy(w)
      /\ \A v \in Workers \ {w} : worker'[v] = worker[v]
      /\ (On(w, p)' \/ (worker'[w].pc = "idle" /\ On(w, p)))
  BY Here DEF On
<1>2. worker'[w].pc \in {"send", "land"} => Good(p)'
  BY <1>1 DEF Good, Mending, Mends
<1>3. CASE Land(w)
  <2>1. CASE worker'[w].pc = "verify"
    <3>1. PICK i \in Nat : worker'[w].id = i /\ drive'[i].c = worker'[w].bytes
      BY <1>1, <1>3, <2>1, LandActs
    <3>2. CASE worker'[w].bytes = file'[p].c
      <4>1. \A k : Live(k, p)' => k = i
        <5>1. JobOk(w, p)' /\ worker'[w].id # NoId
          BY <2>1 DEF SafeInv, JobInv
        <5> QED  BY <1>1, <2>1, <3>1, <5>1 DEF JobOk, UpSteps, On
      <4> QED  BY <3>1, <3>2, <4>1 DEF Good
    <3>3. CASE worker'[w].bytes # file'[p].c
      BY <1>1, <2>1, <3>3 DEF Good, Mending, Mends
    <3> QED  BY <3>2, <3>3
  <2> QED  BY <1>1, <1>2, <1>3, <2>1, LandActs
<1>4. ASSUME Good(p), ~Land(w), worker'[w].pc \notin {"send", "land"} PROVE Good(p)'
  <2>1. ~Send(w)
    BY <1>1, <1>4, ReadActs
  <2>2. ASSUME Mending(p) PROVE Mending(p)'
    <3>1. PICK v \in Workers : Mends(v, p)
      BY <2>2 DEF Mending
    <3>2. CASE v # w
      BY <1>1, <3>1, <3>2 DEF Mending, Mends, On
    <3>3. CASE v = w
      <4>1. Verify(w)
        BY <1>4, <2>1, <3>1, <3>3
           DEF Mends, Work, Stat, Quick, Hash, Deep, Send, Land, Record, Row, Find, Trash,
               Forget, Unrow, Origin, Patch, Unlink, Link, MoveRow, At
      <4> QED  BY <1>1, <1>4, <3>1, <3>3, <4>1, ReadActs DEF Mends, Verify, At
    <3> QED  BY <3>2, <3>3
  <2>3. \A i : Live(i, p)' => Live(i, p) /\ drive'[i] = drive[i]
    <3>1. CASE UNCHANGED drive
      BY <3>1 DEF Live
    <3>2. CASE Trash(w) /\ Trashes(w)
      BY <3>2 DEF Trashes, Live, TypeInv
    <3>3. ~Patch(w)
      BY Here DEF Patch, Stat, Quick, Hash, Deep, Send, Land, Verify, Record, Row, Find, Trash,
                  Forget, Unrow, Origin, At
    <3> QED
      BY <1>1, <1>4, <3>1, <3>2, <3>3, TrashShape
         DEF Work, Stat, Quick, Hash, Deep, Send, Verify, Record, Row, Find,
             Forget, Unrow, Origin, Unlink, Link, MoveRow
  <2> QED  BY <1>1, <1>4, <2>2, <2>3 DEF Good
<1> QED  BY <1>2, <1>3, <1>4

LEMMA MirrorHere ==
  ASSUME TypeInv, TypeInv', SafeInv, SafeInv', NEW w \in Workers, Work(w), ~TakeTask(w), Shape(w),
         NEW p \in Slipless', worker[w].task.path = p, PathInv(p)
  PROVE  PathInv(p)'
<1> DEFINE j == worker[w]
           t == j.task
           pc == worker'[w].pc
<1>1. /\ p \in Paths /\ p \in Slipless /\ file'[p] = file[p] /\ pending' = pending
      /\ chan' = chan /\ ~Fails(w) /\ JobInv(w) /\ Busy(w)
      /\ \A v \in Workers \ {w} : worker'[v] = worker[v]
      /\ t.kind # "sync" \/ cache[p] = NoId => \A v \in Workers \ {w} : ~Concerns(v, p)
      /\ On(w, p) /\ (On(w, p)' \/ pc = "idle")
  BY Here DEF On
<1>2. \/ Stat(w) \/ Quick(w) \/ Hash(w) \/ Deep(w) \/ Send(w) \/ Land(w) \/ Verify(w)
      \/ Record(w) \/ Row(w) \/ Find(w) \/ Trash(w) \/ Forget(w) \/ Unrow(w) \/ Origin(w)
  BY Here
<1>3. RowInv(p) /\ OrderInv(p) /\ DoneInv(p)
  BY DEF PathInv
<1>4. /\ \A v \in Workers : JobOk(v, p)
      /\ cache[p] \in 0..Len(drive) /\ Len(drive) \in Nat
  BY <1>1 DEF SafeInv, TypeInv
<1>5. (Good(p) \/ Land(w) \/ pc = "send") => Good(p)'
  BY GoodHere
<1>6. /\ \A k : (Later(p, k)' <=> Later(p, k)) /\ (Undone(p, k)' <=> Undone(p, k))
  BY <1>1 DEF Later, Undone
<1>e. Ends(w) => pc = "idle"
  BY DEF Ends, Idle
\* The row and the id of p.
<1>7. /\ ~Deep(w) /\ ~Row(w) /\ ~Unrow(w) => UNCHANGED index
      /\ ~Record(w) /\ ~Forget(w) => UNCHANGED cache
  BY <1>2 DEF Stat, Quick, Hash, Deep, Send, Land, Verify, Record, Row, Find, Trash, Forget,
              Unrow, Origin
<1>8. /\ Row(w) => index'[p] = [c |-> j.hash, m |-> j.m] /\ j.hash # 0 /\ cache[p] # NoId
      /\ Unrow(w) => index'[p] = None /\ cache[p] = NoId /\ pc = "idle"
      /\ Record(w) => cache'[p] = j.id /\ j.id # NoId
      /\ Forget(w) => cache'[p] = NoId /\ pc = "unrow"
  <2>1. Row(w) => index'[p] = [c |-> j.hash, m |-> j.m] /\ j.hash # 0 /\ cache[p] # NoId
    BY <1>1, <1>4 DEF Row, At, TypeInv, Staff, Hashed, JobOk, On
  <2>2. Unrow(w) => index'[p] = None /\ cache[p] = NoId /\ pc = "idle"
    <3>1. Unrow(w) => index'[p] = None
      BY <1>1 DEF Unrow, TypeInv
    <3>2. Unrow(w) => cache[p] = NoId
      BY <1>1, <1>4 DEF Unrow, At, JobOk
    <3>3. Unrow(w) => pc = "idle"
      BY <1>e, Acts
    <3> QED  BY <3>1, <3>2, <3>3
  <2>3. Record(w) => cache'[p] = j.id /\ j.id # NoId
    BY <1>1 DEF Record, At, TypeInv, JobInv
  <2>4. Forget(w) => cache'[p] = NoId /\ pc = "unrow"
    BY <1>1, Acts DEF Forget, TypeInv, Goes
  <2> QED  BY <2>1, <2>2, <2>3, <2>4
\* Without an id there is no row, but while a deletion is at work.
<1>9. Record(w) /\ cache[p] = NoId => index[p] = None
  <2> SUFFICES ASSUME Record(w), cache[p] = NoId, index[p] # None PROVE FALSE
    OBVIOUS
  <2>1. PICK v \in Workers : On(v, p) /\ worker[v].pc = "unrow"
    BY <1>3 DEF RowInv
  <2>2. v # w /\ Concerns(v, p)
    BY <2>1 DEF Record, At, On, Concerns, Busy, PathsOf
  <2> QED  BY <1>1, <2>2
<1>10. RowInv(p)'
  <2>1. ASSUME index'[p] # None, cache'[p] = NoId
        PROVE  \E v \in Workers : On(v, p)' /\ worker'[v].pc = "unrow"
    <3>1. CASE Forget(w)
      BY <1>1, <1>8, <3>1
    <3>2. ~Unrow(w) /\ ~Record(w) /\ ~Row(w)
      BY <1>7, <1>8, <2>1 DEF Unrow, Record, Row, At
    <3>3. CASE ~Forget(w)
      <4>1. cache[p] = NoId /\ index[p] # None
        <5>1. CASE Deep(w)
          BY <1>7, <2>1, <3>2, <3>3, <5>1, <1>1, ReadActs
        <5> QED  BY <1>7, <2>1, <3>2, <3>3, <5>1
      <4>2. PICK v \in Workers : On(v, p) /\ worker[v].pc = "unrow"
        BY <1>3, <4>1 DEF RowInv
      <4>3. v # w
        BY <1>2, <3>2, <3>3, <4>2
           DEF Stat, Quick, Hash, Deep, Send, Land, Verify, Find, Trash, Origin, At
      <4> QED  BY <1>1, <4>2, <4>3 DEF On
    <3> QED  BY <3>1, <3>3
  <2>2. ASSUME file[p] # None, index'[p] # None, cache'[p] # NoId, index'[p].c = file[p].c
        PROVE  Good(p)
    <3>1. CASE Row(w)
      BY <1>1, <1>3, <1>8, <2>2, <3>1 DEF RowInv, JobRow, Row, At
    <3>2. CASE Deep(w)
      <4>1. UNCHANGED cache
        BY <3>2 DEF Deep
      <4>2. index[p] # None /\ index[p].c = file[p].c
        <5>1. CASE /\ index[p] # None /\ index[p].c = j.hash
                   /\ index'[p] = [c |-> j.hash, m |-> j.m]
          BY <2>2, <5>1
        <5>2. CASE UNCHANGED index
          BY <2>2, <5>2
        <5> QED  BY <3>2, <5>1, <5>2, ReadActs
      <4> QED  BY <1>3, <2>2, <4>1, <4>2 DEF RowInv
    <3>3. CASE Record(w)
      BY <1>3, <1>7, <1>9, <2>2, <3>3 DEF RowInv, Record, Deep, Row, Unrow, At
    <3>4. ~Forget(w) /\ ~Unrow(w)
      BY <1>8, <2>2
    <3> QED  BY <1>3, <1>7, <2>2, <3>1, <3>2, <3>3, <3>4 DEF RowInv
  <2>3. ASSUME file[p] # None, index'[p] # None, index'[p].m = file[p].m
        PROVE  index'[p].c = file[p].c
    <3>1. CASE Row(w)
      BY <1>1, <1>3, <1>8, <2>3, <3>1 DEF RowInv, JobRow, Row, At
    <3>2. CASE Deep(w)
      <4>1. CASE index'[p] = [c |-> j.hash, m |-> j.m]
        BY <1>1, <1>3, <2>3, <3>2, <4>1 DEF RowInv, JobRow, Deep, At
      <4>2. CASE UNCHANGED index
        BY <1>3, <2>3, <4>2 DEF RowInv
      <4> QED  BY <3>2, <4>1, <4>2, ReadActs
    <3> QED  BY <1>3, <1>7, <1>8, <2>3, <3>1, <3>2 DEF RowInv
  <2>4. ASSUME NEW v \in Workers PROVE JobRow(v, p)'
    <3>1. CASE v # w
      BY <1>1, <1>3, <1>5, <3>1 DEF RowInv, JobRow, On
    <3>2. CASE v = w /\ pc \in {"deep", "send", "land", "verify", "record", "row"} /\ file[p] # None
      <4>1. JobRow(w, p)
        BY <1>3 DEF RowInv
      <4>2. CASE Hash(w)
        <5>1. pc = "deep" /\ worker'[w].hash = file[p].c
          BY <3>2, <4>2, ReadActs
        <5> QED  BY <1>1, <3>2, <5>1 DEF JobRow
      <4>3. CASE Deep(w) \/ Send(w) \/ Verify(w) \/ Record(w) \/ Land(w)
        <5>1. Keeps(w)
          <6>1. CASE Deep(w)
            <7>1. ~Done(w)
              BY <1>e, <3>2, EndShape
            <7> QED  BY <6>1, <7>1, ReadActs DEF Deep
          <6>2. CASE ~Deep(w)
            BY <1>1, <4>3, <6>2, ReadActs, LandActs
          <6> QED  BY <6>1, <6>2
        <5>2. j.pc \in {"deep", "send", "land", "verify", "record", "row"}
          BY <4>3 DEF Deep, Send, Verify, Record, Land, At
        <5>3. j.m = file[p].m => j.hash = file[p].c
          BY <1>1, <3>2, <4>1, <5>2 DEF JobRow
        <5>4. pc \in {"verify", "record", "row"} /\ j.hash = file[p].c => Good(p)'
          <6>1. CASE j.pc \in {"verify", "record", "row"}
            BY <1>1, <1>5, <3>2, <4>1, <6>1 DEF JobRow
          <6>2. CASE Land(w)
            BY <1>5, <6>2
          <6>3. CASE Deep(w) \/ Send(w)
            BY <1>1, <1>e, <6>3, Acts DEF Goes
          <6> QED  BY <4>3, <6>1, <6>2, <6>3 DEF Verify, Record, At
        <5> QED  BY <1>1, <3>2, <5>1, <5>3, <5>4 DEF JobRow, Keeps
      <4> QED
        <5>1. CASE Row(w) \/ Unrow(w) \/ Stat(w) \/ Quick(w) \/ Find(w) \/ Trash(w) \/ Forget(w)
          BY <1>1, <1>e, <3>2, <5>1, Acts DEF Goes
        <5>2. CASE Origin(w)
          BY <1>1, <1>e, <3>2, <5>2, Acts DEF Goes
        <5> QED  BY <1>2, <4>2, <4>3, <5>1, <5>2
    <3>3. CASE v = w /\ ~(pc \in {"deep", "send", "land", "verify", "record", "row"}
                          /\ file[p] # None)
      BY <1>1, <3>3 DEF JobRow
    <3> QED  BY <3>1, <3>2, <3>3
  <2> QED  BY <1>1, <1>5, <2>1, <2>2, <2>3, <2>4 DEF RowInv
<1>11. OrderInv(p)'
  <2>1. pc \in DeleteSteps => j.pc \in DeleteSteps
    <3>1. pc \in DeleteSteps => t.kind = "delete"
      BY <1>1 DEF SafeInv, JobInv, Shape, Restaffed, DeleteSteps
    <3> QED  BY <1>1, <3>1 DEF JobInv, Shape, Restaffed, Busy, TypeInv, Staff, Jobs, Steps,
                               SyncSteps, UpSteps, DeleteSteps, MoveSteps
  <2>2. pc \in SyncSteps \cup {"origin"} => j.pc \in SyncSteps \cup {"origin"}
    <3>1. pc \in SyncSteps \cup {"origin"} => t.kind # "delete"
      BY <1>1 DEF SafeInv, JobInv, Shape, Restaffed, SyncSteps, UpSteps
    <3> QED  BY <1>1, <3>1 DEF JobInv, Shape, Restaffed, Busy, TypeInv, Staff, Jobs, Steps,
                               SyncSteps, UpSteps, DeleteSteps, MoveSteps
  <2>3. ASSUME NEW v \in Workers, On(v, p)'
        PROVE  /\ On(v, p)
               /\ worker'[v].pc \in DeleteSteps => worker[v].pc \in DeleteSteps
               /\ worker'[v].pc \in SyncSteps \cup {"origin"} =>
                     worker[v].pc \in SyncSteps \cup {"origin"}
    BY <1>1, <2>1, <2>2, <2>3 DEF On
  <2> QED  BY <1>1, <1>3, <1>6, <2>3 DEF OrderInv
<1>12. DoneInv(p)'
  <2>1. ASSUME file[p] # None, ~Due(p)'
        PROVE  /\ Good(p)' \/ \E v \in Workers : Early(v, p)'
               /\ Known(p)' \/ \E v \in Workers : Early(v, p)' \/ Storing(v, p)'
    <3>1. CASE Stat(w)
      <4>1. Early(w, p)'
        <5>1. pc = "quick" /\ worker'[w].m = file[p].m
          BY <1>1, <2>1, <3>1, ReadActs
        <5> QED  BY <1>1, <5>1 DEF Early
      <4> QED  BY <4>1
    <3>2. ~Origin(w)
      <4> SUFFICES ASSUME Origin(w) PROVE FALSE
        OBVIOUS
      <4>1. Goto(w, "stat")
        BY <1>1, <2>1, Here DEF Origin
      <4>2. pc = "stat"
        BY <4>1, AgainKeeps
      <4> QED  BY <1>1, <2>1, <4>2 DEF Due
    <3>3. ASSUME ~Stat(w)
          PROVE  /\ ~Due(p) /\ j.pc \notin DeleteSteps
                 /\ Good(p) \/ \E v \in Workers : Early(v, p)
                 /\ Known(p) \/ \E v \in Workers : Early(v, p) \/ Storing(v, p)
      <4>1. ~Due(p)
        <5>1. j.pc \notin {"origin", "stat"}
          BY <1>2, <3>2, <3>3 DEF Quick, Hash, Deep, Send, Land, Verify, Record, Row, Find, Trash,
                                  Forget, Unrow, At
        <5> QED  BY <1>1, <1>6, <2>1, <5>1 DEF Due, On
      <4>2. j.pc \notin DeleteSteps
        BY <1>1, <1>3, <2>1, <4>1 DEF OrderInv, Due
      <4> QED  BY <1>3, <2>1, <4>1, <4>2 DEF DoneInv
    <3>4. ~Stat(w) =>
             \/ Quick(w) \/ Hash(w) \/ Deep(w) \/ Send(w) \/ Land(w) \/ Verify(w)
             \/ Record(w) \/ Row(w)
      BY <1>2, <3>2, <3>3 DEF Find, Trash, Forget, Unrow, At, DeleteSteps
    <3>5. \A v \in Workers \ {w} : /\ Early(v, p) => Early(v, p)'
                                   /\ Storing(v, p) => Storing(v, p)'
      BY <1>1 DEF Early, Storing, On
    <3>6. ASSUME ~Stat(w), Known(p) PROVE Known(p)'
      <4>1. cache'[p] # NoId
        BY <1>7, <1>8, <3>3, <3>6 DEF Known, Forget, At, DeleteSteps
      <4>2. index'[p] # None
        <5>1. CASE Deep(w)
          BY <1>1, <3>6, <5>1, ReadActs DEF Known, None, Deep, At, TypeInv, Staff, Hashed
        <5>2. CASE Row(w)
          BY <1>8, <5>2 DEF None
        <5>3. CASE ~Deep(w) /\ ~Row(w)
          BY <1>7, <3>3, <3>6, <5>3 DEF Known, Unrow, At, DeleteSteps
        <5> QED  BY <5>1, <5>2, <5>3
      <4> QED  BY <4>1, <4>2 DEF Known
    <3>7. ASSUME ~Stat(w), Early(w, p)
          PROVE  \/ Early(w, p)'
                 \/ Good(p)' /\ (Known(p)' \/ Storing(w, p)')
      <4>1. CASE Quick(w)
        <5>1. CASE index[p] # None /\ index[p].m = j.m /\ cache[p] # NoId
          <6>1. index[p].m = file[p].m
            BY <3>7, <4>1, <5>1 DEF Early, Quick, At
          <6>2. Good(p) /\ Known(p)
            BY <1>3, <2>1, <5>1, <6>1 DEF RowInv, Known
          <6> QED  BY <1>5, <3>6, <3>7, <6>2
        <5>2. CASE pc = "hash" /\ Keeps(w)
          BY <1>1, <3>7, <4>1, <5>2 DEF Early, Keeps, Quick, At
        <5> QED  BY <1>1, <4>1, <5>1, <5>2, ReadActs
      <4>2. CASE Hash(w)
        <5>1. pc = "deep" /\ worker'[w].hash = file[p].c
          BY <1>1, <2>1, <4>2, ReadActs
        <5> QED  BY <1>1, <5>1 DEF Early
      <4>3. CASE Deep(w)
        <5>1. CASE index[p] # None /\ index[p].c = j.hash /\ cache[p] # NoId
          <6>1. index[p].c = file[p].c
            BY <3>7, <4>3, <5>1 DEF Early, Deep, At
          <6>2. Good(p) /\ Known(p)
            BY <1>3, <2>1, <5>1, <6>1 DEF RowInv, Known
          <6> QED  BY <1>5, <3>6, <3>7, <6>2
        <5>2. CASE pc = "send"
          BY <1>1, <1>5, <5>2 DEF Storing, UpSteps
        <5> QED  BY <1>1, <4>3, <5>1, <5>2, ReadActs
      <4> QED
        BY <3>4, <3>7, <4>1, <4>2, <4>3 DEF Early, Send, Land, Verify, Record, Row, At
    <3>8. ASSUME ~Stat(w), Storing(w, p) PROVE Known(p)' \/ Storing(w, p)'
      <4>1. CASE Row(w)
        <5>1. cache'[p] = cache[p]
          BY <4>1 DEF Row
        <5> QED  BY <1>8, <4>1, <5>1 DEF Known, None
      <4>2. CASE Send(w) \/ Land(w) \/ Verify(w)
        BY <1>1, <4>2, ReadActs, LandActs DEF Storing, UpSteps
      <4>3. CASE Record(w)
        BY <1>1, <4>3, Acts DEF Goes, Storing
      <4> QED
        BY <3>4, <3>8, <4>1, <4>2, <4>3 DEF Storing, UpSteps, Quick, Hash, Deep, At
    <3> HIDE DEF pc
    <3>9. ASSUME ~Stat(w) PROVE Good(p)' \/ \E v \in Workers : Early(v, p)'
      BY <1>5, <3>3, <3>5, <3>7, <3>9
    <3>10. ASSUME ~Stat(w)
           PROVE  Known(p)' \/ \E v \in Workers : Early(v, p)' \/ Storing(v, p)'
      BY <3>3, <3>5, <3>6, <3>7, <3>8, <3>10
    <3> QED  BY <3>1, <3>9, <3>10
  <2>2. ASSUME file[p] = None, ~Undone(p, 0),
               \A v \in Workers : ~(On(v, p)' /\ worker'[v].pc \in DeleteSteps)
        PROVE  cache'[p] = NoId /\ index'[p] = None
    <3>1. j.pc \notin SyncSteps \cup {"origin"}
      BY <1>1, <1>3, <2>2 DEF OrderInv
    <3>2. Find(w) \/ Trash(w) \/ Forget(w) \/ Unrow(w)
      BY <1>2, <3>1 DEF Stat, Quick, Hash, Deep, Send, Land, Verify, Record, Row, Origin, At,
                        SyncSteps, UpSteps
    <3>3. CASE Unrow(w)
      BY <1>8, <3>3 DEF Unrow
    <3>4. CASE Find(w) \/ Trash(w) \/ Forget(w)
      <4>1. pc \in DeleteSteps
        BY <1>1, <3>4, Acts DEF Goes, DeleteSteps
      <4> QED  BY <1>1, <2>2, <4>1 DEF DeleteSteps
    <3> QED  BY <3>2, <3>3, <3>4
  <2> QED  BY <1>1, <1>6, <2>1, <2>2 DEF DoneInv
<1> QED  BY <1>10, <1>11, <1>12 DEF PathInv

LEMMA MirrorTake ==
  ASSUME TypeInv, SafeInv', NEW w \in Workers, TakeTask(w), NEW t, t = Head(chan),
         NEW p \in Slipless', p \in Paths, PathInv(p)
  PROVE  PathInv(p)'
<1>1. /\ chan \in Seq(Tasks) /\ chan # <<>> /\ t = chan[1] /\ t \in Tasks
      /\ chan' = Tail(chan) /\ Len(chan) \in Nat /\ Len(chan) > 0
      /\ UNCHANGED <<cache, drive, index, file, pending>> /\ ~Busy(w)
  BY DEF TypeInv, TakeTask, localVars
<1>2. Others(w) /\ worker'[w].task = t /\ worker'[w].pc = FirstStep(t)
  <2>1. worker \in [Workers -> Jobs(Len(drive))] /\ Idle \in Jobs(Len(drive))
    BY <1>1, IdleType DEF TypeInv, Staff
  <2> HIDE DEF Idle
  <2> QED  BY <2>1 DEF TakeTask, Others, Jobs
<1>3. /\ t.kind \in {"sync", "delete", "rename"}
      /\ t.kind # "delete" => FirstStep(t) \in {"stat", "origin"}
      /\ t.kind = "delete" => FirstStep(t) = "find"
      /\ t.kind = "delete" /\ t.path = p => t = Delete(p)
      /\ Delete(p).kind = "delete" /\ Delete(p).path = p
  <2>1. Fit(t)
    BY <1>2 DEF SafeInv, JobInv
  <2>2. t.kind = "delete" /\ t.path = p => t = Delete(p)
    BY <1>1, <2>1 DEF Fit, Tasks, Delete
  <2> QED  BY <1>1, <2>2 DEF FirstStep, Tasks, Delete
<1>4. RowInv(p) /\ OrderInv(p) /\ DoneInv(p) /\ worker[w].pc = "idle"
  BY <1>1 DEF PathInv, Busy
<1>5. \A v \in Workers \ {w} : worker'[v] = worker[v]
  BY <1>2 DEF Others
\* Two workers on p are both uploading.
<1>6. ASSUME NEW v \in Workers \ {w}, On(v, p), Busy(v), t.path = p
      PROVE  worker[v].task.kind = "sync" /\ t.kind = "sync" /\ JobInv(v)'
  <2>1. Concerns(v, p)' /\ Concerns(w, p)' /\ JobInv(v)'
    BY <1>2, <1>3, <1>5, <1>6 DEF Concerns, Busy, On, PathsOf, SafeInv
  <2>2. ~Slipped(p)'
    BY DEF Slipless
  <2>3. ~(AllSlipped(worker[w].task)')
    BY <1>2, <1>6, <2>2 DEF AllSlipped
  <2> QED  BY <1>2, <1>5, <2>1, <2>3 DEF SafeInv, PairInv
<1>7. ASSUME NEW k \in Nat
      PROVE  (Later(p, k)' <=> Later(p, k + 1)) /\ (Undone(p, k)' <=> Undone(p, k + 1))
  <2>1. \A l : l \in 1..Len(chan') => l + 1 \in 1..Len(chan) /\ chan'[l] = chan[l + 1]
    BY <1>1
  <2>2. \A l : l \in 1..Len(chan) /\ l > k + 1 =>
                  l - 1 \in 1..Len(chan') /\ l - 1 > k /\ chan'[l - 1] = chan[l]
    BY <1>1
  <2>3. Later(p, k)' => Later(p, k + 1)
    BY <1>1, <2>1 DEF Later
  <2>4. Later(p, k + 1) => Later(p, k)'
    <3>1. ASSUME NEW l \in 1..Len(chan), l > k + 1, chan[l].path = p, chan[l].kind # "delete"
          PROVE  Later(p, k)'
      <4> DEFINE m == l - 1
      <4>1. m \in 1..Len(chan') /\ m > k /\ chan'[m] = chan[l]
        BY <2>2, <3>1
      <4> HIDE DEF m
      <4> QED  BY <3>1, <4>1 DEF Later
    <3> QED  BY <1>1, <3>1 DEF Later
  <2>5. Undone(p, k)' => Undone(p, k + 1)
    BY <1>1, <2>1 DEF Undone
  <2>6. Undone(p, k + 1) => Undone(p, k)'
    BY <1>1, <2>2 DEF Undone
  <2> QED  BY <2>3, <2>4, <2>5, <2>6
<1>8. /\ Later(p, 0) => Later(p, 0)' \/ (t.path = p /\ t.kind # "delete")
      /\ Undone(p, 0) => Undone(p, 0)' \/ t = Delete(p)
  <2>1. Later(p, 0) => Later(p, 1) \/ (t.path = p /\ t.kind # "delete")
    BY <1>1 DEF Later
  <2>2. Undone(p, 0) => Undone(p, 1) \/ t = Delete(p)
    BY <1>1 DEF Undone
  <2> QED  BY <1>7, <2>1, <2>2
<1>9. /\ Mending(p) => Mending(p)'
      /\ Good(p) => Good(p)'
  <2>1. Mending(p) => Mending(p)'
    BY <1>1, <1>4, <1>5 DEF Mending, Mends, On
  <2> QED  BY <1>1, <2>1 DEF Good, Live
<1>10. /\ \A v \in Workers : /\ Early(v, p) => Early(v, p)'
                             /\ Storing(v, p) => Storing(v, p)'
  BY <1>1, <1>4, <1>5 DEF Early, Storing, UpSteps, On
<1>11. RowInv(p)'
  <2>1. ASSUME NEW v \in Workers PROVE JobRow(v, p)'
    <3>1. CASE v = w
      BY <1>2, <1>3, <3>1 DEF JobRow
    <3>2. CASE v # w
      <4>1. JobRow(v, p)
        BY <1>4 DEF RowInv
      <4> QED  BY <1>1, <1>5, <1>9, <3>2, <4>1 DEF JobRow, On
    <3> QED  BY <3>1, <3>2
  <2> QED  BY <1>1, <1>4, <1>5, <1>9, <2>1 DEF RowInv, On
<1>12. OrderInv(p)'
  <2>1. ASSUME file[p] # None, NEW v \in Workers, On(v, p)', worker'[v].pc \in DeleteSteps
        PROVE  Later(p, 0)'
    <3>1. CASE v = w
      <4>1. chan[1] = Delete(p) /\ 1 \in 1..Len(chan)
        BY <1>1, <1>2, <1>3, <2>1, <3>1 DEF On, DeleteSteps
      <4>2. Later(p, 1)
        BY <1>4, <2>1, <4>1 DEF OrderInv
      <4> QED  BY <1>7, <4>2
    <3>2. CASE v # w
      <4>1. Later(p, 0) /\ On(v, p) /\ Busy(v) /\ worker'[v] = worker[v]
        BY <1>4, <1>5, <2>1, <3>2 DEF OrderInv, On, DeleteSteps, Busy
      <4>2. t.path # p
        BY <1>6, <2>1, <3>2, <4>1 DEF JobInv, DeleteSteps
      <4> QED  BY <1>8, <4>1, <4>2
    <3> QED  BY <3>1, <3>2
  <2>2. ASSUME file[p] # None, NEW k \in 1..Len(chan'), chan'[k] = Delete(p)
        PROVE  Later(p, k)'
    <3>1. k + 1 \in 1..Len(chan) /\ chan[k + 1] = Delete(p)
      BY <1>1, <2>2
    <3>2. Later(p, k + 1)
      BY <1>4, <2>2, <3>1 DEF OrderInv
    <3> QED  BY <1>7, <3>2
  <2>3. ASSUME file[p] = None, NEW k \in 1..Len(chan'), chan'[k].path = p,
               chan'[k].kind # "delete"
        PROVE  Undone(p, k)'
    <3>1. k + 1 \in 1..Len(chan) /\ chan[k + 1] = chan'[k]
      BY <1>1, <2>3
    <3>2. Undone(p, k + 1)
      BY <1>4, <2>3, <3>1 DEF OrderInv
    <3> QED  BY <1>7, <3>2
  <2>4. ASSUME file[p] = None, NEW v \in Workers, On(v, p)',
               worker'[v].pc \in SyncSteps \cup {"origin"}
        PROVE  Undone(p, 0)'
    <3>1. CASE v = w
      <4>1. chan[1].path = p /\ chan[1].kind # "delete" /\ 1 \in 1..Len(chan)
        BY <1>1, <1>2, <1>3, <2>4, <3>1 DEF On, SyncSteps, UpSteps
      <4>2. Undone(p, 1)
        BY <1>4, <2>4, <4>1 DEF OrderInv
      <4> QED  BY <1>7, <4>2
    <3>2. CASE v # w
      <4>1. Undone(p, 0) /\ On(v, p) /\ Busy(v)
        BY <1>4, <1>5, <2>4, <3>2 DEF OrderInv, On, SyncSteps, UpSteps, Busy
      <4>2. t # Delete(p)
        BY <1>3, <1>6, <3>2, <4>1
      <4> QED  BY <1>8, <4>1, <4>2
    <3> QED  BY <3>1, <3>2
  <2>5. file[p] = None => p \notin pending
    BY <1>4 DEF OrderInv
  <2> QED  BY <1>1, <2>1, <2>2, <2>3, <2>4, <2>5 DEF OrderInv
<1>13. DoneInv(p)'
  <2>1. ASSUME ~Due(p)' PROVE ~Due(p)
    <3>1. t.path = p => t.kind = "delete"
      BY <1>2, <1>3, <2>1 DEF Due, On
    <3>2. ~Later(p, 0)
      BY <1>8, <2>1, <3>1 DEF Due
    <3>3. \A v \in Workers : ~(On(v, p) /\ worker[v].pc \in {"origin", "stat"})
      BY <1>4, <1>5, <2>1 DEF Due, On
    <3> QED  BY <3>2, <3>3 DEF Due
  <2>2. ASSUME ~Undone(p, 0)', \A v \in Workers : ~(On(v, p)' /\ worker'[v].pc \in DeleteSteps)
        PROVE  /\ ~Undone(p, 0)
               /\ \A v \in Workers : ~(On(v, p) /\ worker[v].pc \in DeleteSteps)
    <3>1. t # Delete(p)
      BY <1>2, <1>3, <2>2 DEF On, DeleteSteps
    <3>2. \A v \in Workers : ~(On(v, p) /\ worker[v].pc \in DeleteSteps)
      BY <1>4, <1>5, <2>2 DEF On, DeleteSteps
    <3> QED  BY <1>8, <2>2, <3>1, <3>2
  <2> QED  BY <1>1, <1>4, <1>9, <1>10, <2>1, <2>2 DEF DoneInv, Known
<1> QED  BY <1>11, <1>12, <1>13 DEF PathInv

\* A file gets another version, and something in the channel or a debounce will look at it.
LEMMA VersionMirrored ==
  ASSUME TypeInv, NEW p \in Paths, CacheOk(p), PathInv(p),
         UNCHANGED <<worker, index, cache, drive>>,
         NEW v \in Stamped, v # None, file'[p] = v, ~SameSecond(p, v.m), ~Restored(p, v.c),
         Later(p, 0)', \A k \in 1..Len(chan') : chan'[k] = Delete(p) => Later(p, k)'
  PROVE  PathInv(p)'
<1>1. RowInv(p) /\ v.c \in Contents
  BY StampedType DEF PathInv
<1>2. file[p].c = v.c => (Good(p) => Good(p)') /\ file[p] # None
  BY <1>1 DEF Good, Mending, Mends, On, Live, None
<1>3. \A w \in Workers : On(w, p) /\ worker[w].pc \in Hashed => Concerns(w, p)
  BY DEF On, Hashed, Concerns, Busy, PathsOf
<1>4. ASSUME index[p] # None, cache[p] # NoId, index[p].c = v.c PROVE Good(p)'
  <2>1. CASE file[p].c = v.c
    BY <1>1, <1>2, <1>4, <2>1 DEF RowInv
  <2>2. CASE file[p].c # v.c
    <3>1. drive[cache[p]].c = v.c
      BY <1>4, <2>2 DEF Restored
    <3>2. \A i : Live(i, p)' => i = cache[p]
      BY <1>4 DEF CacheOk, Live
    <3> QED  BY <3>1, <3>2 DEF Good
  <2> QED  BY <2>1, <2>2
<1>5. ASSUME NEW w \in Workers PROVE JobRow(w, p)'
  <2>1. ASSUME On(w, p), worker[w].pc \in {"verify", "record", "row"}, worker[w].hash = v.c
        PROVE  Good(p)'
    <3>1. CASE file[p].c = v.c
      BY <1>1, <1>2, <2>1, <3>1 DEF RowInv, JobRow
    <3>2. CASE file[p].c # v.c
      BY <1>3, <2>1, <3>2 DEF Restored, Hashed
    <3> QED  BY <3>1, <3>2
  <2>2. ASSUME On(w, p), worker[w].pc \in Hashed PROVE worker[w].m # v.m
    BY <1>3, <2>2 DEF SameSecond, Hashed
  <2> QED  BY <2>1, <2>2 DEF JobRow, On, Hashed
<1>6. RowInv(p)'
  <2>1. index[p] # None => index[p].m # v.m
    BY DEF SameSecond
  <2> QED  BY <1>1, <1>4, <1>5, <2>1 DEF RowInv, On
<1>7. OrderInv(p)' /\ DoneInv(p)'
  BY DEF OrderInv, DoneInv, Due
<1> QED  BY <1>6, <1>7 DEF PathInv

\* A file goes, and its deletion is in the channel behind all that is about it.
LEMMA RemovalMirrored ==
  ASSUME NEW p \in Paths, PathInv(p), UNCHANGED <<worker, index, cache, drive>>,
         file'[p] = None, p \notin pending', Undone(p, 0)',
         \A k \in 1..Len(chan') : chan'[k].path = p /\ chan'[k].kind # "delete" => Undone(p, k)'
  PROVE  PathInv(p)'
<1>1. RowInv(p)'
  BY DEF PathInv, RowInv, JobRow, On
<1>2. OrderInv(p)' /\ DoneInv(p)'
  BY DEF OrderInv, DoneInv
<1> QED  BY <1>1, <1>2 DEF PathInv

LEMMA MirrorDesktop ==
  ASSUME TypeInv, TypeInv', SafeInv, Desktop, NEW p \in Slipless', PathInv(p)
  PROVE  PathInv(p)'
<1> USE DEF localVars
<1>1. /\ UNCHANGED <<worker, index, cache, drive>> /\ slips \subseteq slips'
      /\ chan \in Seq(Tasks) /\ chan' \in Seq(Tasks)
      /\ file \in [Paths -> Stamped]
  BY DEF Desktop, Write, Remove, Fire, Move, Change, TypeInv
<1>2. p \in Paths /\ ~Slipped(p)' /\ CacheOk(p)
  BY <1>1, SlippedKept DEF Slipless, SafeInv
<1>3. \A i : Live(i, p)' <=> Live(i, p)
  BY <1>1 DEF Live
<1>4. /\ \A q : Sync(q).path = q /\ Sync(q).kind = "sync" /\ Delete(q).path = q
                /\ Delete(q).kind = "delete"
      /\ \A q, r : Rename(q, r).path = r /\ Rename(q, r).kind = "rename"
      /\ \A q, r : q \in Paths /\ r \in Paths =>
            /\ Sync(q) \in Tasks /\ Delete(q) \in Tasks /\ Rename(q, r) \in Tasks
  BY TaskTypes DEF Sync, Delete, Rename
<1>5. ASSUME NEW x, Change(p, x) PROVE ~SameSecond(p, x.m) /\ ~Restored(p, x.c)
  BY <1>2, <1>5 DEF Change, Slipped, Slips
<1>6. ASSUME NEW q \in Paths, Write(q) PROVE PathInv(p)'
  <2>1. PICK c \in Contents, s \in {now, now + 1} :
           /\ file' = [file EXCEPT ![q] = [c |-> c, m |-> s]]
           /\ now' = s /\ pending' = pending \cup {q}
           /\ Change(q, [c |-> c, m |-> s]) /\ UNCHANGED chan
    BY <1>6 DEF Write
  <2>2. CASE q # p
    BY <1>1, <1>2, <1>3, <2>1, <2>2, PathFrame
  <2>3. CASE q = p
    <3> DEFINE v == [c |-> c, m |-> s]
    <3>1. file'[p] = v /\ v # None /\ v \in Stamped
      BY <1>1, <1>2, <2>1, <2>3 DEF None, TypeInv
    <3>2. ~SameSecond(p, v.m) /\ ~Restored(p, v.c)
      BY <1>5, <2>1, <2>3
    <3>3. \A k : Later(p, k)'
      BY <2>1, <2>3 DEF Later
    <3> HIDE DEF v
    <3> QED  BY <1>1, <1>2, <3>1, <3>2, <3>3, VersionMirrored
  <2> QED  BY <2>2, <2>3
<1>7. ASSUME NEW q \in Paths, Remove(q) PROVE PathInv(p)'
  <2>1. /\ file' = [file EXCEPT ![q] = None] /\ pending' = pending \ {q}
        /\ chan' = Append(chan, Delete(q))
    BY <1>7 DEF Remove
  <2>2. /\ Len(chan) \in Nat /\ Len(chan') = Len(chan) + 1
        /\ \A k \in 1..Len(chan) : chan'[k] = chan[k]
        /\ chan'[Len(chan) + 1] = Delete(q)
    BY <1>1, <1>4, <2>1
  <2>3. CASE q # p
    BY <1>1, <1>2, <1>3, <1>4, <2>1, <2>2, <2>3, PathFrame
  <2>4. CASE q = p
    <3>1. \A k \in 0..Len(chan) : Undone(p, k)'
      BY <2>2, <2>4 DEF Undone
    <3>2. \A k \in 1..Len(chan') : chan'[k].kind # "delete" => Undone(p, k)'
      BY <1>4, <2>2, <3>1
    <3>3. Undone(p, 0)' /\ file'[p] = None /\ p \notin pending'
      BY <1>1, <1>2, <2>1, <2>2, <2>4, <3>1
    <3> QED  BY <1>1, <1>2, <3>2, <3>3, RemovalMirrored
  <2> QED  BY <2>3, <2>4
<1>8. ASSUME NEW q \in Paths, Fire(q) PROVE PathInv(p)'
  <2>1. /\ q \in pending /\ pending' = pending \ {q} /\ chan' = Append(chan, Sync(q))
        /\ UNCHANGED file
    BY <1>8 DEF Fire
  <2>2. /\ Len(chan) \in Nat /\ Len(chan') = Len(chan) + 1
        /\ \A k \in 1..Len(chan) : chan'[k] = chan[k]
        /\ chan'[Len(chan) + 1] = Sync(q)
    BY <1>1, <1>4, <2>1
  <2>3. CASE q # p
    BY <1>1, <1>2, <1>3, <1>4, <2>1, <2>2, <2>3, PathFrame
  <2>4. CASE q = p
    <3>1. \A k \in 0..Len(chan) : Later(p, k)'
      BY <1>4, <2>2, <2>4 DEF Later
    <3>2. \A k \in 1..Len(chan') : chan'[k] = Delete(p) => Later(p, k)'
      BY <1>4, <2>2, <3>1
    <3>3. file[p] # None /\ RowInv(p)
      BY <2>1, <2>4 DEF PathInv, OrderInv
    <3>4. Good(p)' <=> Good(p)
      BY <1>1, <1>3, <2>1 DEF Good, Mending, Mends, On
    <3>5. RowInv(p)'
      BY <1>1, <2>1, <3>3, <3>4 DEF RowInv, JobRow, On
    <3>6. Later(p, 0)'
      BY <2>2, <3>1
    <3>7. OrderInv(p)' /\ DoneInv(p)'
      BY <2>1, <3>2, <3>3, <3>6 DEF OrderInv, DoneInv, Due
    <3> QED  BY <3>5, <3>7 DEF PathInv
  <2> QED  BY <2>3, <2>4
<1>9. ASSUME NEW f \in Paths, NEW t \in Paths, Move(f, t) PROVE PathInv(p)'
  <2> DEFINE n == Len(chan)
  <2>1. /\ f # t /\ file[f] # None /\ file' = [file EXCEPT ![t] = file[f], ![f] = None]
        /\ pending' = pending \ {f, t} /\ chan' = chan \o <<Delete(f), Rename(f, t)>>
        /\ Change(t, file[f])
    BY <1>9 DEF Move
  <2>2. /\ n \in Nat /\ Len(chan') = n + 2
        /\ \A k \in 1..n : chan'[k] = chan[k]
        /\ chan'[n + 1] = Delete(f) /\ chan'[n + 2] = Rename(f, t)
    BY <1>1, <1>4, <2>1
  <2> HIDE DEF n
  <2>3. CASE p # f /\ p # t
    <3>1. \A k \in 1..Len(chan') : k > n => chan'[k].path # p
      BY <1>4, <2>2, <2>3
    <3>2. file'[p] = file[p] /\ (p \in pending' <=> p \in pending) /\ n <= Len(chan')
      BY <1>1, <1>2, <2>1, <2>2, <2>3
    <3> QED  BY <1>1, <1>2, <1>3, <2>2, <3>1, <3>2, PathFrame DEF n
  <2>4. CASE p = f
    <3>1. \A k \in 0..n : Undone(p, k)'
      BY <2>2, <2>4 DEF Undone
    <3>2. ASSUME NEW k \in 1..Len(chan'), chan'[k].path = p, chan'[k].kind # "delete"
          PROVE  Undone(p, k)'
      <4>1. k # n + 1 /\ k # n + 2
        BY <1>4, <2>1, <2>2, <2>4, <3>2
      <4>2. k \in 0..n
        BY <2>2, <3>2, <4>1
      <4> QED  BY <3>1, <4>2
    <3>3. file'[p] = None /\ p \notin pending'
      BY <1>1, <1>2, <2>1, <2>4
    <3>4. Undone(p, 0)'
      BY <2>2, <3>1
    <3> QED  BY <1>1, <1>2, <3>2, <3>3, <3>4, RemovalMirrored
  <2>5. CASE p = t
    <3>1. PICK v \in Stamped : v = file[f]
      BY <1>1
    <3>2. file'[p] = v /\ v # None
      BY <1>1, <1>2, <2>1, <2>5, <3>1
    <3>3. ~SameSecond(p, v.m) /\ ~Restored(p, v.c)
      BY <1>5, <2>1, <2>5, <3>1
    <3>4. \A k \in 0..n + 1 : Later(p, k)'
      BY <1>4, <2>2, <2>5 DEF Later
    <3>5. \A k \in 1..Len(chan') : chan'[k] = Delete(p) => Later(p, k)'
      BY <1>4, <2>2, <2>5, <3>4
    <3>6. Later(p, 0)'
      BY <2>2, <3>4
    <3> QED  BY <1>1, <1>2, <3>2, <3>3, <3>5, <3>6, VersionMirrored
  <2> QED  BY <2>3, <2>4, <2>5
<1> QED  BY <1>6, <1>7, <1>8, <1>9 DEF Desktop

LEMMA InitMirror ==
  ASSUME Init
  PROVE  MirrorInv
<1> DEFINE n  == Cardinality(Paths)
           c0 == CHOOSE c \in Contents : TRUE
<1>1. PICK there \in SUBSET Paths, id \in Bijection(Paths, 1..n) : Synchronised(there, id)
  BY DEF Init
<1> DEFINE name(i) == CHOOSE q \in Paths : id[q] = i
<1>2. /\ n \in Nat /\ id \in [Paths -> 1..n] /\ c0 \in Contents
  BY FS_CardinalityType DEF Bijection, Injection
<1>3. /\ drive = [i \in 1..n |-> [name |-> name(i), c |-> c0,
                                state |-> IF name(i) \in there THEN "live" ELSE "trashed"]]
      /\ cache = [p \in Paths |-> IF p \in there THEN id[p] ELSE NoId]
      /\ file = [p \in Paths |-> IF p \in there THEN [c |-> c0, m |-> 0] ELSE None]
      /\ index = file
  BY <1>1 DEF Synchronised
<1> HIDE DEF n, c0, name
<1>4. \A i : i \in 1..Len(drive) => drive[i].c = c0
  BY <1>2, <1>3
<1>5. \A w \in Workers : worker[w].pc = "idle"
  BY DEF Init, Idle
<1>6. pending = {} /\ Len(chan) = 0
  BY DEF Init
<1>7. ASSUME NEW p \in Paths PROVE PathInv(p)
  <2>1. /\ file[p] # None => index[p] # None /\ cache[p] # NoId /\ file[p].c = c0
        /\ file[p] = None => cache[p] = NoId
        /\ index[p] = file[p]
    BY <1>2, <1>3 DEF None
  <2>2. file[p] # None => Good(p)
    BY <1>4, <2>1 DEF Good, Live
  <2>3. RowInv(p)
    BY <1>5, <2>1, <2>2 DEF RowInv, JobRow
  <2>4. OrderInv(p)
    BY <1>5, <1>6 DEF OrderInv, SyncSteps, UpSteps, DeleteSteps
  <2>5. DoneInv(p)
    BY <2>1, <2>2 DEF DoneInv, Known
  <2> QED  BY <2>3, <2>4, <2>5 DEF PathInv
<1> QED  BY <1>7 DEF MirrorInv, Slipless

LEMMA MirrorInvariant == Spec => []MirrorInv
<1>1. TypeInv /\ TypeInv' /\ SafeInv /\ SafeInv' /\ MirrorInv /\ [Next]_vars => MirrorInv'
  <2> SUFFICES ASSUME TypeInv, TypeInv', SafeInv, SafeInv', MirrorInv, [Next]_vars,
                      NEW p \in Slipless'
               PROVE  PathInv(p)'
    BY DEF MirrorInv
  <2>0. p \in Paths
    BY DEF Slipless
  <2>1. slips \subseteq slips' => PathInv(p)
    BY SlippedKept DEF MirrorInv
  <2>2. CASE Desktop
    <3>1. slips \subseteq slips'
      BY <2>2 DEF Desktop, Write, Remove, Fire, Move, Change
    <3> QED  BY <2>1, <2>2, <3>1, MirrorDesktop
  <2>3. ASSUME NEW w \in Workers, TakeTask(w) PROVE PathInv(p)'
    <3>1. slips \subseteq slips'
      BY <2>3 DEF TakeTask
    <3> QED  BY <2>0, <2>1, <2>3, <3>1, MirrorTake
  <2>4. ASSUME NEW w \in Workers, Work(w), ~TakeTask(w) PROVE PathInv(p)'
    <3>1. Shape(w)
      BY <2>4, StepShape DEF SafeInv
    <3>2. PathInv(p)
      BY <2>1, <3>1 DEF Shape
    <3> QED  BY <2>4, <3>1, <3>2, MirrorElsewhere, MirrorHere
  <2>5. CASE UNCHANGED vars
    <3>1. PathInv(p) /\ \A i : Live(i, p)' <=> Live(i, p)
      BY <2>1, <2>5 DEF vars, Live
    <3>2. chan \in Seq(Tasks)
      BY DEF TypeInv
    <3> QED  BY <2>0, <2>5, <3>1, <3>2, PathFrame DEF vars, localVars
  <2> QED  BY <2>2, <2>3, <2>4, <2>5 DEF Next
<1>2. Init => MirrorInv
  BY InitMirror
<1> QED  BY <1>1, <1>2, TypeInvariant, SafeInvariant, PTL DEF Spec

\* When no worker is on a path, a good path has on the Drive what is on the disk.
LEMMA Rested ==
  ASSUME TypeInv, NEW p \in Paths, CacheOk(p), ~Touched(p)
  PROVE  /\ Good(p) => \A i : Live(i, p) => drive[i].c = file[p].c
         /\ cache[p] # NoId => LiveIds(p) = {cache[p]} /\ Live(cache[p], p)
         /\ cache[p] = NoId => LiveIds(p) = {}
         /\ \A w \in Workers : On(w, p) => worker[w].pc = "idle"
<1>1. \A w \in Workers : On(w, p) => worker[w].pc = "idle"
  BY DEF Touched, Concerns, Busy, On, PathsOf
<1>2. \A w \in Workers : ~Mends(w, p) /\ ~Deleting(w, p) /\ ~Uploading(w, p)
  BY <1>1 DEF Mends, Deleting, Uploading, UpSteps, On
<1>3. \A i : i \in LiveIds(p) <=> Live(i, p)
  BY DEF LiveIds, Live, TypeInv
<1>4. Good(p) => \A i : Live(i, p) => drive[i].c = file[p].c
  BY <1>2 DEF Good, Mending
<1>5. cache[p] # NoId => LiveIds(p) = {cache[p]} /\ Live(cache[p], p)
  BY <1>2, <1>3 DEF CacheOk
<1>6. cache[p] = NoId => LiveIds(p) = {}
  BY <1>2, <1>3 DEF CacheOk
<1> QED  BY <1>1, <1>4, <1>5, <1>6

\* When nothing is on its way for a path that has not slipped, the Drive has what the disk
\* has, once, and cache and index know it (worker.rs:23), whatever happened to the file
\* while it was hashed, sent, verified or deleted, and with any number of uploads at once.
THEOREM MirrorCorrect == Spec => []MirrorKept
<1>1. TypeInv /\ SafeInv /\ MirrorInv => MirrorKept
  <2> SUFFICES ASSUME TypeInv, SafeInv, MirrorInv, NEW p \in Slipless, Settled(p)
               PROVE  Mirrored(p)
    BY DEF MirrorKept
  <2>1. p \in Paths /\ CacheOk(p) /\ DoneInv(p) /\ ~Touched(p) /\ p \notin pending
    BY DEF Slipless, SafeInv, MirrorInv, PathInv, Settled
  <2>2. \A k \in 1..Len(chan) : chan[k].path # p
    BY DEF Settled, PathsOf, TypeInv
  <2>3. ~Due(p) /\ ~Undone(p, 0)
    BY <2>1, <2>2, Rested DEF Due, Later, Undone, Delete
  <2>4. \A w \in Workers : /\ ~Early(w, p) /\ ~Storing(w, p)
                           /\ ~(On(w, p) /\ worker[w].pc \in DeleteSteps)
    BY <2>1, Rested DEF Early, Storing, UpSteps, DeleteSteps
  <2>5. CASE file[p] = None
    BY <2>1, <2>3, <2>4, <2>5, Rested DEF DoneInv, Mirrored
  <2>6. CASE file[p] # None
    <3>1. Good(p) /\ Known(p)
      BY <2>1, <2>3, <2>4, <2>6 DEF DoneInv
    <3> QED  BY <2>1, <2>6, <3>1, Rested DEF Known, Mirrored
  <2> QED  BY <2>5, <2>6
<1> QED  BY <1>1, TypeInvariant, SafeInvariant, MirrorInvariant, PTL

\* The quick check of the times (worker.rs:75) never skips a file of a path that has not
\* slipped when its content is not on the Drive.
THEOREM SkipCorrect == Spec => []SkipIsSound
<1>1. TypeInv /\ SafeInv /\ MirrorInv => SkipIsSound
  <2> SUFFICES ASSUME TypeInv, SafeInv, MirrorInv, NEW p \in Slipless, ~Touched(p),
                      file[p] # None, index[p] # None, cache[p] # NoId,
                      index[p].m = file[p].m
               PROVE  drive[cache[p]].c = file[p].c
    BY DEF SkipIsSound
  <2>1. p \in Paths /\ CacheOk(p) /\ RowInv(p)
    BY DEF Slipless, SafeInv, MirrorInv, PathInv
  <2>2. Good(p)
    BY <2>1 DEF RowInv
  <2> QED  BY <2>1, <2>2, Rested
<1> QED  BY <1>1, TypeInvariant, SafeInvariant, MirrorInvariant, PTL
=============================================================================
