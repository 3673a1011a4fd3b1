---------------------------- MODULE DispatchProofs ----------------------------
(* Proofs about module Dispatch: types, that no local change is forgotten, that no row of
   the offline queue is lost and that the last task of a path tells whether it exists, for
   all capacities, workers and changes. *)
EXTENDS Dispatch, SequenceTheorems, WellFoundedInduction, TLAPS

USE DispatchAssumption

LEMMA TaskTypes ==
  /\ \A p \in Paths, src \in {"live", "row", "scan"} :
        Sync(p, src) \in Tasks /\ Delete(p, src) \in Tasks
  /\ \A f, t \in Paths, src \in {"live", "row", "scan"} : Rename(f, t, src) \in Tasks
  /\ \A kind \in {"Modified", "Deleted", "Renamed"}, p, f \in Paths : Ev(kind, p, f) \in Events
  /\ \A t \in Tasks : [t EXCEPT !.src = "row"] \in Tasks
  /\ \A t \in Tasks : PathsOf([t EXCEPT !.src = "row"]) = PathsOf(t)
  /\ Nothing \notin Tasks
BY DEF Sync, Delete, Rename, Ev, Events, Tasks, PathsOf, Nothing

LEMMA FirstPart ==
  ASSUME NEW S, NEW q \in Seq(S), NEW r \in Seq(S), NEW n \in 0..Len(r)
  PROVE  /\ q \o SubSeq(r, 1, n) \in Seq(S)
         /\ Len(q \o SubSeq(r, 1, n)) = Len(q) + n
         /\ n = Len(r) => SubSeq(r, 1, n) = r
<1>1. SubSeq(r, 1, n) \in Seq(S) /\ Len(SubSeq(r, 1, n)) = n
  OBVIOUS
<1>2. n = Len(r) => SubSeq(r, 1, n) = r
  OBVIOUS
<1> QED  BY <1>1, <1>2

LEMMA AmongTail ==
  ASSUME NEW S, NEW q \in Seq(S), q # <<>>, NEW p, Among(p, q)
  PROVE  p \in PathsOf(Head(q)) \/ Among(p, Tail(q))
<1>1. PICK i \in 1..Len(q) : p \in PathsOf(q[i])
  BY DEF Among
<1>2. CASE i = 1
  BY <1>1, <1>2
<1>3. CASE i # 1
  <2>1. i - 1 \in 1..Len(Tail(q)) /\ Tail(q)[i - 1] = q[i]
    BY <1>3
  <2>2. i - 1 \in DOMAIN Tail(q)
    BY <2>1
  <2>3. p \in PathsOf(Tail(q)[i - 1])
    BY <1>1, <2>1
  <2> HIDE DEF Among
  <2> DEFINE r == Tail(q)
  <2> HIDE DEF r
  <2>4. \E j \in DOMAIN r : p \in PathsOf(r[j])
    BY <2>2, <2>3 DEF r
  <2>5. Among(p, r)
    BY <2>4 DEF Among
  <2> QED  BY <2>5 DEF r
<1> QED  BY <1>2, <1>3

LEMMA AmongAppend ==
  ASSUME NEW S, NEW q \in Seq(S), NEW x \in S, NEW p,
         Among(p, q) \/ p \in PathsOf(x)
  PROVE  Among(p, Append(q, x))
<1>1. /\ Append(q, x) \in Seq(S) /\ Len(Append(q, x)) = Len(q) + 1
      /\ \A i \in 1..Len(q) : Append(q, x)[i] = q[i]
      /\ Append(q, x)[Len(q) + 1] = x
  OBVIOUS
<1>2. CASE Among(p, q)
  <2>1. PICK i \in 1..Len(q) : p \in PathsOf(q[i])
    BY <1>2 DEF Among
  <2> QED  BY <1>1, <2>1 DEF Among
<1>3. CASE p \in PathsOf(x)
  BY <1>1, <1>3 DEF Among
<1> QED  BY <1>2, <1>3

LEMMA AmongConcat ==
  ASSUME NEW S, NEW q \in Seq(S), NEW r \in Seq(S), NEW p
  PROVE  /\ Among(p, q) => Among(p, q \o r)
         /\ Among(p, r) => Among(p, q \o r)
<1>1. /\ q \o r \in Seq(S) /\ Len(q \o r) = Len(q) + Len(r)
      /\ \A i \in 1..Len(q) : (q \o r)[i] = q[i]
      /\ \A i \in 1..Len(r) : (q \o r)[Len(q) + i] = r[i]
  OBVIOUS
<1>2. ASSUME Among(p, q) PROVE Among(p, q \o r)
  <2>1. PICK i \in 1..Len(q) : p \in PathsOf(q[i])
    BY <1>2 DEF Among
  <2> QED  BY <1>1, <2>1 DEF Among
<1>3. ASSUME Among(p, r) PROVE Among(p, q \o r)
  <2>1. PICK i \in 1..Len(r) : p \in PathsOf(r[i])
    BY <1>3 DEF Among
  <2>2. Len(q) + i \in 1..Len(q \o r)
    BY <1>1
  <2> QED  BY <1>1, <2>1, <2>2 DEF Among
<1> QED  BY <1>2, <1>3

LEMMA AppendHead ==
  ASSUME NEW S, NEW q \in Seq(S), NEW x \in S
  PROVE  /\ Append(q, x) \in Seq(S) /\ Len(Append(q, x)) = Len(q) + 1
         /\ Len(q) > 0 => Head(Append(q, x)) = Head(q)
OBVIOUS

LEMMA TailType ==
  ASSUME NEW S, NEW q \in Seq(S), Len(q) > 0
  PROVE  /\ Head(q) \in S /\ Tail(q) \in Seq(S) /\ Len(Tail(q)) = Len(q) - 1
         /\ Len(q) \in Nat
OBVIOUS

LEMMA HasAppend ==
  ASSUME NEW S, NEW q \in Seq(S), NEW x \in S, NEW y,
         x = y \/ \E i \in DOMAIN q : q[i] = y
  PROVE  \E i \in DOMAIN Append(q, x) : Append(q, x)[i] = y
<1>1. /\ Append(q, x) \in Seq(S) /\ Len(Append(q, x)) = Len(q) + 1
      /\ \A i \in 1..Len(q) : Append(q, x)[i] = q[i]
      /\ Append(q, x)[Len(q) + 1] = x
  OBVIOUS
<1>2. DOMAIN q = 1..Len(q) /\ DOMAIN Append(q, x) = 1..(Len(q) + 1)
  OBVIOUS
<1> QED  BY <1>1, <1>2

-----------------------------------------------------------------------------
(* Types *)

\* What the dispatcher holds is a task; the watcher is absent in the initial scan only;
\* tasks are left for the scan that sends; a row is removed after its task was sent.
StepInv ==
    /\ at # "ready" => out \in Tasks
    /\ startup => mode \in {"scan", "enqueue"}
    /\ todo # {} => mode = "enqueue"
    /\ mode = "remove" => flushing > 0 /\ \E i \in DOMAIN chan : chan[i] = Head(rows)

Inv == TypeOK /\ StepInv

LEMMA InitInv == Init => Inv
<1> SUFFICES ASSUME Init PROVE Inv
  OBVIOUS
<1>1. Len(<<>>) = 0 /\ <<>> \in Seq(Events) /\ <<>> \in Seq(Tasks)
  OBVIOUS
<1>2. StepInv
  BY DEF Init, StepInv
<1>3. Len(watch) <= WatchCap /\ Len(chan) <= ChanCap /\ flushing \in 0..Len(rows)
  BY <1>1 DEF Init
<1>4. changes \in 0..MaxChanges /\ watch \in Seq(Events) /\ rows \in Seq(Tasks)
      /\ chan \in Seq(Tasks)
  BY <1>1 DEF Init
<1> QED  BY <1>2, <1>3, <1>4 DEF Init, Inv, TypeOK

LEMMA EmitType ==
  ASSUME TypeOK, NEW evs \in Seq(Events), NEW touched \in SUBSET Paths, Emit(evs, touched)
  PROVE  watch' \in Seq(Events) /\ Len(watch') <= WatchCap /\ missed' \subseteq Paths
<1> DEFINE room == WatchCap - Len(watch)
           n == IF Len(evs) <= room THEN Len(evs) ELSE room
<1>1. room \in Nat /\ n \in 0..Len(evs) /\ n <= room
  BY DEF TypeOK
<1>2. CASE Watching
  <2>1. watch' = watch \o SubSeq(evs, 1, n)
    BY <1>2 DEF Emit
  <2>2. missed' \subseteq missed \cup touched
    BY <1>2 DEF Emit
  <2>3. watch \in Seq(Events) /\ Len(watch) \in Nat
    BY DEF TypeOK
  <2>4. watch' \in Seq(Events) /\ Len(watch') = Len(watch) + n
    BY <1>1, <2>1, <2>3, FirstPart
  <2> QED  BY <1>1, <2>2, <2>3, <2>4 DEF TypeOK
<1>3. CASE ~Watching
  BY <1>3 DEF Emit, TypeOK
<1> QED  BY <1>2, <1>3

LEMMA TouchInv ==
  ASSUME Inv, NEW evs \in Seq(Events), NEW touched \in SUBSET Paths, Touch(evs, touched),
         exists' \subseteq Paths
  PROVE  Inv'
<1>1. TypeOK
  BY DEF Inv
<1>2. watch' \in Seq(Events) /\ Len(watch') <= WatchCap /\ missed' \subseteq Paths
  BY <1>1, EmitType DEF Touch
<1>3. TypeOK'
  BY <1>1, <1>2 DEF Touch, TypeOK, loopVars
<1>4. StepInv'
  BY DEF Inv, StepInv, Touch, loopVars
<1> QED  BY <1>3, <1>4 DEF Inv

LEMMA FileSystemInv == Inv /\ FileSystem => Inv'
<1> SUFFICES ASSUME Inv, NEW p \in Paths, NEW q \in Paths, Write(p) \/ Remove(p) \/ Move(p, q)
             PROVE  Inv'
  BY DEF FileSystem
<1>1. exists \subseteq Paths
  BY DEF Inv, TypeOK
<1>2. CASE Write(p)
  <2>1. <<Ev("Modified", p, p)>> \in Seq(Events)
    BY TaskTypes
  <2> QED  BY <1>1, <1>2, <2>1, TouchInv DEF Write
<1>3. CASE Remove(p)
  <2>1. <<Ev("Deleted", p, p)>> \in Seq(Events)
    BY TaskTypes
  <2> QED  BY <1>1, <1>3, <2>1, TouchInv DEF Remove
<1>4. CASE Move(p, q)
  <2>1. <<Ev("Deleted", p, p), Ev("Modified", q, q), Ev("Renamed", q, p)>> \in Seq(Events)
    BY TaskTypes
  <2>2. {p, q} \in SUBSET Paths /\ exists' \subseteq Paths
    BY <1>1, <1>4 DEF Move
  <2>3. Touch(<<Ev("Deleted", p, p), Ev("Modified", q, q), Ev("Renamed", q, p)>>, {p, q})
    BY <1>4 DEF Move
  <2> QED  BY <2>1, <2>2, <2>3, TouchInv
<1> QED  BY <1>2, <1>3, <1>4

LEMMA DispatcherInv == Inv /\ Dispatcher => Inv'
<1> SUFFICES ASSUME Inv, Dispatcher PROVE Inv'
  OBVIOUS
<1> USE DEF Inv, TypeOK, StepInv, localVars, loopVars
<1>1. ASSUME NEW t \in Tasks, Route(t) PROVE out' \in Tasks /\ at' \in {"push", "send"}
  BY <1>1 DEF Route
<1>2. CASE Tick
  BY <1>2 DEF Tick
<1>3. CASE DispatchReady
  <2>1. PICK p \in batch : batch' = batch \ {p} /\ Route(Sync(p, "live"))
    BY <1>3 DEF DispatchReady
  <2>2. out' \in Tasks /\ at' \in {"push", "send"}
    BY <1>1, <2>1, TaskTypes
  <2> QED  BY <1>3, <2>1, <2>2 DEF DispatchReady
<1>4. ASSUME NEW kind, Receive(kind)
      PROVE  /\ watch' \in Seq(Events) /\ Len(watch') <= WatchCap
             /\ Head(watch) \in Events
  <2>1. watch \in Seq(Events) /\ watch # <<>> /\ watch' = Tail(watch)
    BY <1>4 DEF Receive
  <2>2. Head(watch) \in Events /\ Tail(watch) \in Seq(Events)
        /\ Len(Tail(watch)) = Len(watch) - 1 /\ Len(watch) \in Nat
    BY <2>1
  <2> QED  BY <2>1, <2>2
<1>5. CASE RecvModified
  <2>1. Head(watch).path \in Paths
    BY <1>4, <1>5 DEF RecvModified, Events
  <2> QED  BY <1>4, <1>5, <2>1 DEF RecvModified, Receive
<1>6. CASE RecvDeleted
  <2>1. Head(watch).path \in Paths
    BY <1>4, <1>6 DEF RecvDeleted, Events
  <2>2. out' \in Tasks /\ at' \in {"push", "send"}
    BY <1>1, <1>6, <2>1, TaskTypes DEF RecvDeleted
  <2> QED  BY <1>4, <1>6, <2>2 DEF RecvDeleted, Receive
<1>7. CASE RecvRenamed
  <2>1. Head(watch).path \in Paths /\ Head(watch).from \in Paths
    BY <1>4, <1>7 DEF RecvRenamed, Events
  <2>2. out' \in Tasks /\ at' \in {"push", "send"}
    BY <1>1, <1>7, <2>1, TaskTypes DEF RecvRenamed
  <2> QED  BY <1>4, <1>7, <2>2 DEF RecvRenamed, Receive
<1>8. CASE Push
  <2>1. out \in Tasks /\ [out EXCEPT !.src = "row"] \in Tasks /\ PathsOf(out) \subseteq Paths
    BY <1>8, TaskTypes DEF Push, PathsOf, Tasks
  <2>2. rows \in Seq(Tasks) /\ Len(rows) \in Nat
    OBVIOUS
  <2>3. /\ rows' \in Seq(Tasks) /\ Len(rows') >= Len(rows) /\ Len(rows') \in Nat
        /\ Len(rows) > 0 => Head(rows') = Head(rows)
    <3> DEFINE row == [out EXCEPT !.src = "row"]
    <3> HIDE DEF row, Inv, TypeOK, StepInv
    <3>1. rows' = Append(rows, row) \/ rows' = rows
      BY <1>8 DEF Push, row
    <3>2. /\ Append(rows, row) \in Seq(Tasks) /\ Len(Append(rows, row)) = Len(rows) + 1
          /\ Len(rows) > 0 => Head(Append(rows, row)) = Head(rows)
      BY <2>1, <2>2, AppendHead DEF row
    <3> QED  BY <2>2, <3>1, <3>2
  <2>4. missed' \subseteq Paths
    BY <1>8, <2>1 DEF Push
  <2> QED  BY <1>8, <2>2, <2>3, <2>4 DEF Push
<1>9. CASE Send
  <2>1. out \in Tasks /\ chan \in Seq(Tasks) /\ chan' = Append(chan, out)
    BY <1>9 DEF Send
  <2>2. chan' \in Seq(Tasks) /\ Len(chan') = Len(chan) + 1 /\ Len(chan) \in Nat
    BY <2>1
  <2>3. mode = "remove" => \E i \in DOMAIN chan' : chan'[i] = Head(rows)
    BY <2>1, HasAppend
  <2>4. StepInv'
    BY <1>9, <2>3 DEF Send
  <2> QED  BY <1>9, <2>2, <2>4 DEF Send
<1> QED  BY <1>2, <1>3, <1>5, <1>6, <1>7, <1>8, <1>9 DEF Dispatcher

LEMMA LoopInv == Inv /\ Loop => Inv'
<1> SUFFICES ASSUME Inv, Loop PROVE Inv'
  OBVIOUS
<1> USE DEF Inv, TypeOK, StepInv, localVars, dispVars
<1>1. CASE Start \/ Rescan \/ ScanEnd \/ Pause \/ Resume \/ HealthKo \/ HealthOk
  <2>1. CASE Start \/ Rescan \/ ScanEnd
    <3>1. CASE Start
      BY <3>1 DEF Start
    <3>2. CASE Rescan
      BY <3>2 DEF Rescan
    <3>3. CASE ScanEnd
      BY <3>3 DEF ScanEnd
    <3> QED  BY <2>1, <3>1, <3>2, <3>3
  <2>2. CASE Pause
    BY <2>2 DEF Pause
  <2>3. CASE Resume
    BY <2>3 DEF Resume
  <2>4. CASE HealthKo \/ HealthOk
    <3>1. CASE HealthKo
      BY <3>1 DEF HealthKo
    <3>2. CASE HealthOk
      <4>1. ~startup
        BY <3>2 DEF HealthOk
      <4> QED  BY <3>2, <4>1 DEF HealthOk
    <3> QED  BY <2>4, <3>1, <3>2
  <2> QED  BY <1>1, <2>1, <2>2, <2>3, <2>4
<1>2. CASE Walk
  <2>1. PICK found \in SUBSET dirty :
          /\ dirty' = found
          /\ todo' = {Sync(p, "scan") : p \in found \cap exists}
                       \cup {Delete(p, "scan") : p \in found \ exists}
    BY <1>2 DEF Walk
  <2>2. todo' \subseteq Tasks /\ dirty' \subseteq Paths
    BY <2>1, TaskTypes
  <2>3. missed' \subseteq Paths /\ startup' = startup
    BY <1>2 DEF Walk
  <2> QED  BY <1>2, <2>2, <2>3 DEF Walk
<1>3. CASE ScanFail
  BY <1>3 DEF ScanFail
<1>4. CASE Enqueue
  <2>1. PICK t \in todo : todo' = todo \ {t} /\ chan' = Append(chan, t)
    BY <1>4 DEF Enqueue
  <2>2. t \in Tasks /\ chan \in Seq(Tasks) /\ Len(chan) \in Nat
    BY <2>1
  <2>3. chan' \in Seq(Tasks) /\ Len(chan') = Len(chan) + 1
    BY <2>1, <2>2, AppendHead
  <2> QED  BY <1>4, <2>1, <2>2, <2>3 DEF Enqueue
<1>5. CASE FlushRead
  BY <1>5 DEF FlushRead
<1>6. CASE FlushSend
  <2>1. rows \in Seq(Tasks) /\ Len(rows) > 0 /\ chan \in Seq(Tasks) /\ Len(chan) \in Nat
    BY <1>6 DEF FlushSend
  <2>2. Head(rows) \in Tasks
    BY <2>1, TailType
  <2>3. chan' \in Seq(Tasks) /\ Len(chan') = Len(chan) + 1
    BY <1>6, <2>1, <2>2, AppendHead DEF FlushSend
  <2>4. \E i \in DOMAIN chan' : chan'[i] = Head(rows)
    BY <1>6, <2>1, <2>2, HasAppend DEF FlushSend
  <2> QED  BY <1>6, <2>1, <2>3, <2>4 DEF FlushSend
<1>7. CASE FlushRemove
  <2>1. rows \in Seq(Tasks) /\ Len(rows) > 0 /\ flushing > 0
    BY <1>7 DEF FlushRemove
  <2>2. Tail(rows) \in Seq(Tasks) /\ Len(Tail(rows)) = Len(rows) - 1 /\ Len(rows) \in Nat
    BY <2>1, TailType
  <2>3. rows' \in Seq(Tasks) /\ flushing' \in 0..Len(rows')
    <3>1. \/ rows' = Tail(rows) /\ flushing' = flushing - 1
          \/ rows' = rows /\ flushing' = 0
      BY <1>7 DEF FlushRemove
    <3>2. flushing \in 0..Len(rows)
      OBVIOUS
    <3> HIDE DEF Inv, TypeOK, StepInv
    <3> QED  BY <2>1, <2>2, <3>1, <3>2
  <2>4. mode' \in {"flush", "select"}
    BY <1>7 DEF FlushRemove
  <2> QED  BY <1>7, <2>3, <2>4 DEF FlushRemove
<1>8. CASE FlushEnd
  BY <1>8 DEF FlushEnd
<1>9. CASE TakeTask
  <2>1. chan \in Seq(Tasks) /\ Len(chan) > 0
    BY <1>9 DEF TakeTask
  <2>2. Head(chan) \in Tasks /\ Tail(chan) \in Seq(Tasks)
        /\ Len(Tail(chan)) = Len(chan) - 1 /\ Len(chan) \in Nat
    BY <2>1, TailType
  <2> QED  BY <1>9, <2>2 DEF TakeTask, loopVars
<1> QED  BY <1>1, <1>2, <1>3, <1>4, <1>5, <1>6, <1>7, <1>8, <1>9 DEF Loop

LEMMA EndInv == Inv /\ (WorkerOk \/ WorkerErr \/ Crash) => Inv'
<1> SUFFICES ASSUME Inv, WorkerOk \/ WorkerErr \/ Crash PROVE Inv'
  OBVIOUS
<1> USE DEF Inv, TypeOK, StepInv, localVars, dispVars, loopVars
<1>1. \A t \in work : PathsOf(t) \subseteq Paths
  BY DEF PathsOf, Tasks
<1>2. CASE WorkerOk
  BY <1>2 DEF WorkerOk
<1>3. CASE WorkerErr
  BY <1>1, <1>3 DEF WorkerErr
<1>4. CASE Crash
  <2>1. <<>> \in Seq(Events) /\ <<>> \in Seq(Tasks) /\ Len(<<>>) = 0
    OBVIOUS
  <2>2. dirty' \subseteq Paths
    BY <1>1, <1>4 DEF Crash
  <2>3. /\ watch' \in Seq(Events) /\ Len(watch') <= WatchCap
        /\ chan' \in Seq(Tasks) /\ Len(chan') <= ChanCap /\ flushing' \in 0..Len(rows')
    BY <1>4, <2>1 DEF Crash
  <2>4. StepInv'
    BY <1>4 DEF Crash
  <2> QED  BY <1>4, <2>2, <2>3, <2>4 DEF Crash
<1> QED  BY <1>2, <1>3, <1>4

LEMMA StepKeepsInv == Inv /\ [Next]_vars => Inv'
<1> SUFFICES ASSUME Inv, [Next]_vars PROVE Inv'
  OBVIOUS
<1>1. CASE UNCHANGED vars
  BY <1>1 DEF vars, localVars, dispVars, loopVars, Inv, TypeOK, StepInv
<1> QED  BY <1>1, FileSystemInv, DispatcherInv, LoopInv, EndInv DEF Next

LEMMA Invariant == Spec => []Inv
BY InitInv, StepKeepsInv, PTL DEF Spec

\* Every queue of the way keeps its capacity and its types, and flush_queue never
\* removes more rows than it has read (watcher.rs:36, mod.rs:89, offline.rs:58-68).
THEOREM TypeCorrect == Spec => []TypeOK
<1>1. Inv => TypeOK
  BY DEF Inv
<1> QED  BY <1>1, Invariant, PTL

-----------------------------------------------------------------------------
(* No change is forgotten *)

Known(p) == Covered(p) \/ p \in missed \/ ScanDue

\* Only the announcement of a move is about two paths.
Plain == {e \in Events : e.kind # "Renamed" => e.from = e.path}
PlainWatch == watch \in Seq(Plain)

LEMMA PlainTypes ==
  /\ \A kind \in {"Modified", "Deleted", "Renamed"}, p \in Paths : Ev(kind, p, p) \in Plain
  /\ \A p, f \in Paths : Ev("Renamed", p, f) \in Plain
BY DEF Plain, Events, Ev

LEMMA EmitPlain ==
  ASSUME PlainWatch, Inv, NEW evs \in Seq(Plain), NEW touched, Emit(evs, touched)
  PROVE  PlainWatch'
<1> DEFINE room == WatchCap - Len(watch)
           n == IF Len(evs) <= room THEN Len(evs) ELSE room
<1>1. n \in 0..Len(evs)
  BY DEF Inv, TypeOK
<1>2. watch \in Seq(Plain)
  BY DEF PlainWatch
<1>3. watch' = watch \/ watch' = watch \o SubSeq(evs, 1, n)
  BY DEF Emit
<1>4. watch \o SubSeq(evs, 1, n) \in Seq(Plain)
  BY <1>1, <1>2, FirstPart
<1> QED  BY <1>2, <1>3, <1>4 DEF PlainWatch

LEMMA PlainStep == Inv /\ PlainWatch /\ [Next]_vars => PlainWatch'
<1> SUFFICES ASSUME Inv, PlainWatch, [Next]_vars PROVE PlainWatch'
  OBVIOUS
<1>1. watch \in Seq(Plain)
  BY DEF PlainWatch
<1>2. CASE FileSystem
  <2>1. PICK p \in Paths, q \in Paths : Write(p) \/ Remove(p) \/ Move(p, q)
    BY <1>2 DEF FileSystem
  <2>2. /\ <<Ev("Modified", p, p)>> \in Seq(Plain) /\ <<Ev("Deleted", p, p)>> \in Seq(Plain)
        /\ <<Ev("Deleted", p, p), Ev("Modified", q, q), Ev("Renamed", q, p)>> \in Seq(Plain)
    BY PlainTypes
  <2> QED  BY <2>1, <2>2, EmitPlain DEF Write, Remove, Move, Touch
<1>3. ASSUME NEW kind, Receive(kind) PROVE PlainWatch'
  BY <1>1, <1>3 DEF Receive, PlainWatch
<1>4. CASE Crash
  BY <1>4 DEF Crash, PlainWatch
<1>5. CASE UNCHANGED watch
  BY <1>1, <1>5 DEF PlainWatch
<1> QED  BY <1>2, <1>3, <1>4, <1>5
       DEF Next, Dispatcher, Tick, DispatchReady, RecvModified, RecvDeleted, RecvRenamed,
           Push, Send, Loop, Start, Rescan, Walk, ScanFail, Enqueue, ScanEnd, Pause, Resume,
           HealthKo, HealthOk, FlushRead, FlushSend, FlushRemove, FlushEnd, TakeTask,
           WorkerOk, WorkerErr, vars, localVars, dispVars, loopVars

LEMMA TouchKnown ==
  ASSUME Inv, NoChangeForgotten, NEW evs \in Seq(Events), NEW touched \in SUBSET Paths,
         \A p \in touched : Among(p, evs), Touch(evs, touched), NEW p \in dirty'
  PROVE  Known(p)'
<1> DEFINE room == WatchCap - Len(watch)
           n == IF Len(evs) <= room THEN Len(evs) ELSE room
<1>1. watch \in Seq(Events) /\ Len(watch) \in 0..WatchCap
  BY DEF Inv, TypeOK
<1>2. room \in Nat /\ n \in 0..Len(evs)
  BY <1>1
<1>3. /\ UNCHANGED <<pending, batch, at, out, rows, chan, todo, mode, rescanDue, startup>>
      /\ p \in dirty \/ p \in touched
      /\ Emit(evs, touched)
  BY DEF Touch, loopVars
<1>4. CASE Watching
  <2>1. /\ watch' = watch \o SubSeq(evs, 1, n)
        /\ missed' = IF n < Len(evs) THEN missed \cup touched ELSE missed
    BY <1>4 DEF Touch, Emit
  <2>2. SubSeq(evs, 1, n) \in Seq(Events)
    BY <1>2
  <2>3. Among(p, watch) => Among(p, watch')
    BY <1>1, <2>1, <2>2, AmongConcat
  <2>4. CASE p \in dirty
    BY <1>3, <2>1, <2>3, <2>4 DEF Known, Covered, NoChangeForgotten, ScanDue
  <2>5. CASE p \in touched /\ n < Len(evs)
    BY <2>1, <2>5 DEF Known
  <2>6. CASE p \in touched /\ n = Len(evs)
    <3>1. SubSeq(evs, 1, n) = evs
      BY <1>1, <1>2, <2>6, FirstPart
    <3>2. Among(p, watch')
      BY <1>1, <2>1, <2>6, <3>1, AmongConcat
    <3> QED  BY <3>2 DEF Known, Covered
  <2> QED  BY <1>2, <1>3, <2>4, <2>5, <2>6
<1>5. CASE ~Watching
  <2>1. /\ watch' = watch
        /\ missed' = IF mode = "enqueue" THEN missed \cup touched ELSE missed
    BY <1>5 DEF Touch, Emit
  <2>2. mode \in {"down", "scan", "enqueue"}
    BY <1>5 DEF Watching, Inv, StepInv
  <2>3. CASE mode = "enqueue"
    BY <1>3, <2>1, <2>3 DEF Known, Covered, NoChangeForgotten, ScanDue
  <2>4. CASE mode # "enqueue"
    BY <1>3, <2>2, <2>4 DEF Known, ScanDue
  <2> QED  BY <2>3, <2>4
<1> QED  BY <1>4, <1>5

LEMMA FileSystemKnown ==
  ASSUME Inv, NoChangeForgotten, FileSystem, NEW p \in dirty'
  PROVE  Known(p)'
<1>1. PICK f \in Paths, t \in Paths : Write(f) \/ Remove(f) \/ Move(f, t)
  BY DEF FileSystem
<1>2. \A kind, q, r : PathsOf(Ev(kind, q, r)) = {q, r}
  BY DEF PathsOf, Ev
<1>3. CASE Write(f)
  <2> DEFINE evs == <<Ev("Modified", f, f)>>
  <2>1. evs \in Seq(Events) /\ DOMAIN evs = {1} /\ evs[1] = Ev("Modified", f, f)
    BY TaskTypes
  <2>2. \A q \in {f} : Among(q, evs)
    BY <1>2, <2>1 DEF Among
  <2> QED  BY <1>3, <2>1, <2>2, TouchKnown DEF Write
<1>4. CASE Remove(f)
  <2> DEFINE evs == <<Ev("Deleted", f, f)>>
  <2>1. evs \in Seq(Events) /\ DOMAIN evs = {1} /\ evs[1] = Ev("Deleted", f, f)
    BY TaskTypes
  <2>2. \A q \in {f} : Among(q, evs)
    BY <1>2, <2>1 DEF Among
  <2> QED  BY <1>4, <2>1, <2>2, TouchKnown DEF Remove
<1>5. CASE Move(f, t)
  <2> DEFINE evs == <<Ev("Deleted", f, f), Ev("Modified", t, t), Ev("Renamed", t, f)>>
  <2>1. evs \in Seq(Events) /\ 3 \in DOMAIN evs /\ evs[3] = Ev("Renamed", t, f)
    BY TaskTypes
  <2>2. \A q \in {f, t} : Among(q, evs)
    BY <1>2, <2>1 DEF Among
  <2>3. Touch(evs, {f, t}) /\ {f, t} \in SUBSET Paths
    BY <1>5 DEF Move
  <2> HIDE DEF evs
  <2> QED  BY <2>1, <2>2, <2>3, TouchKnown
<1> QED  BY <1>1, <1>3, <1>4, <1>5

LEMMA DispatcherKnown ==
  ASSUME Inv, PlainWatch, NoChangeForgotten, Dispatcher, NEW p \in dirty'
  PROVE  Known(p)'
<1> USE DEF localVars, loopVars, ScanDue
<1>1. p \in dirty /\ mode' = mode /\ rescanDue' = rescanDue /\ todo' = todo
  BY DEF Dispatcher, Tick, DispatchReady, RecvModified, RecvDeleted, RecvRenamed, Receive,
         Push, Send
<1>2. Known(p)
  BY <1>1 DEF NoChangeForgotten, Known
<1>3. /\ watch \in Seq(Events) /\ rows \in Seq(Tasks) /\ chan \in Seq(Tasks)
      /\ at # "ready" => out \in Tasks
  BY DEF Inv, TypeOK, StepInv
<1>4. CASE Tick
  BY <1>1, <1>2, <1>4 DEF Tick, Known, Covered
<1>5. CASE DispatchReady
  <2>1. PICK q \in batch : batch' = batch \ {q} /\ out' = Sync(q, "live") /\ at' # "ready"
    BY <1>5 DEF DispatchReady, Route
  <2>2. PathsOf(out') = {q}
    BY <2>1 DEF PathsOf, Sync
  <2> QED  BY <1>1, <1>2, <1>5, <2>1, <2>2 DEF DispatchReady, Known, Covered
<1>6. ASSUME NEW kind, Receive(kind)
      PROVE  Among(p, watch) => p \in PathsOf(Head(watch)) \/ Among(p, watch')
  BY <1>3, <1>6, AmongTail DEF Receive
<1>7. ASSUME NEW kind, Receive(kind), kind # "Renamed"
      PROVE  PathsOf(Head(watch)) = {Head(watch).path}
  <2>1. watch \in Seq(Plain) /\ Len(watch) > 0 /\ Head(watch).kind = kind
    BY <1>3, <1>7 DEF Receive, PlainWatch
  <2>2. Head(watch) \in Plain
    BY <2>1, TailType
  <2> QED  BY <1>7, <2>1, <2>2 DEF Plain, PathsOf
<1>8. CASE RecvModified
  BY <1>1, <1>2, <1>6, <1>7, <1>8 DEF RecvModified, Receive, Known, Covered
<1>9. CASE RecvDeleted
  <2>1. out' = Delete(Head(watch).path, "live") /\ at' # "ready"
    BY <1>9 DEF RecvDeleted, Route
  <2>2. Head(watch).path \in PathsOf(out')
    BY <2>1 DEF PathsOf, Delete
  <2>3. Among(p, watch) => p \in PathsOf(out') \/ Among(p, watch')
    BY <1>6, <1>7, <1>9, <2>2 DEF RecvDeleted
  <2>4. p \in pending => p \in PathsOf(out') \/ p \in pending'
    BY <1>9, <2>2 DEF RecvDeleted
  <2> QED  BY <1>1, <1>2, <1>9, <2>1, <2>3, <2>4 DEF RecvDeleted, Receive, Known, Covered
<1>10. CASE RecvRenamed
  <2>1. out' = Rename(Head(watch).from, Head(watch).path, "live") /\ at' # "ready"
    BY <1>10 DEF RecvRenamed, Route
  <2>2. PathsOf(out') = PathsOf(Head(watch))
    BY <2>1 DEF PathsOf, Rename
  <2>3. Among(p, watch) => p \in PathsOf(out') \/ Among(p, watch')
    BY <1>6, <1>10, <2>2 DEF RecvRenamed
  <2>4. p \in pending => p \in PathsOf(out') \/ p \in pending'
    BY <1>10, <2>2 DEF RecvRenamed
  <2>5. at = "ready" /\ UNCHANGED <<batch, rows, chan, missed>>
    BY <1>10 DEF RecvRenamed, Receive
  <2>6. at' # "ready"
    BY <2>1
  <2> HIDE DEF Rename
  <2> QED  BY <1>1, <1>2, <2>3, <2>4, <2>5, <2>6 DEF Known, Covered
<1>11. CASE Push
  <2> DEFINE row == [out EXCEPT !.src = "row"]
  <2>1. row \in Tasks /\ PathsOf(row) = PathsOf(out)
    BY <1>3, <1>11, TaskTypes DEF Push
  <2>2. Among(p, rows) \/ p \in PathsOf(out) => Among(p, Append(rows, row))
    BY <1>3, <2>1, AmongAppend
  <2>3. CASE rows' = Append(rows, row) /\ missed' = missed
    BY <1>1, <1>2, <1>11, <2>2, <2>3 DEF Push, Known, Covered
  <2>4. CASE rows' = rows /\ missed' = missed \cup PathsOf(out)
    BY <1>1, <1>2, <1>11, <2>4 DEF Push, Known, Covered
  <2> QED  BY <1>11, <2>3, <2>4 DEF Push
<1>12. CASE Send
  <2>1. Among(p, chan) \/ p \in PathsOf(out) => Among(p, Append(chan, out))
    BY <1>3, <1>12, AmongAppend DEF Send
  <2> QED  BY <1>1, <1>2, <1>12, <2>1 DEF Send, Known, Covered
<1> QED  BY <1>4, <1>5, <1>8, <1>9, <1>10, <1>11, <1>12 DEF Dispatcher

LEMMA LoopKnown ==
  ASSUME Inv, NoChangeForgotten, Loop, NEW p \in dirty'
  PROVE  Known(p)'
<1> USE DEF localVars, dispVars
<1>1. /\ watch' = watch /\ pending' = pending /\ batch' = batch /\ at' = at /\ out' = out
      /\ chan \in Seq(Tasks) /\ rows \in Seq(Tasks)
  BY DEF Loop, Start, Rescan, Walk, ScanFail, Enqueue, ScanEnd, Pause, Resume, HealthKo,
         HealthOk, FlushRead, FlushSend, FlushRemove, FlushEnd, TakeTask, Inv, TypeOK
<1>2. CASE Walk
  <2>1. PICK found \in SUBSET dirty :
          /\ dirty' = found
          /\ todo' = {Sync(q, "scan") : q \in found \cap exists}
                       \cup {Delete(q, "scan") : q \in found \ exists}
    BY <1>2 DEF Walk
  <2>2. p \in PathsOf(Sync(p, "scan")) /\ p \in PathsOf(Delete(p, "scan"))
    BY DEF PathsOf, Sync, Delete
  <2>3. \E t \in todo' : p \in PathsOf(t)
    BY <2>1, <2>2
  <2> QED  BY <2>3 DEF Known, Covered
<1>3. CASE ~Walk
  <2>1. p \in dirty
    BY <1>3 DEF Loop, Start, Rescan, ScanFail, Enqueue, ScanEnd, Pause, Resume, HealthKo,
           HealthOk, FlushRead, FlushSend, FlushRemove, FlushEnd, TakeTask
  <2>2. Known(p)
    BY <2>1 DEF NoChangeForgotten, Known
  <2>3. CASE Start \/ Pause
    <3>1. CASE Start
      BY <3>1 DEF Start, Known, ScanDue
    <3>2. CASE Pause /\ mode # "select"
      BY <3>2 DEF Pause, Known, ScanDue
    <3>3. CASE Pause /\ mode = "select"
      BY <1>1, <2>2, <3>3 DEF Pause, Known, Covered, ScanDue, Inv, StepInv
    <3> QED  BY <2>3, <3>1, <3>2, <3>3
  <2>4. CASE Rescan
    BY <2>4 DEF Rescan, Known, ScanDue
  <2>5. CASE ScanFail
    BY <1>1, <2>1, <2>5 DEF ScanFail, Known, Covered
  <2>6. CASE Enqueue
    <3>1. PICK t \in todo : todo' = todo \ {t} /\ chan' = Append(chan, t)
      BY <2>6 DEF Enqueue
    <3>2. t \in Tasks
      BY <3>1 DEF Inv, TypeOK
    <3>3. Among(p, chan) \/ p \in PathsOf(t) => Among(p, chan')
      BY <1>1, <3>1, <3>2, AmongAppend
    <3> QED  BY <1>1, <2>2, <2>6, <3>1, <3>3 DEF Enqueue, Known, Covered, ScanDue
  <2>7. CASE ScanEnd
    BY <1>1, <2>2, <2>7 DEF ScanEnd, Known, Covered, ScanDue
  <2>8. CASE Resume
    BY <1>1, <2>2, <2>8 DEF Resume, Known, Covered, ScanDue
  <2>9. CASE HealthKo \/ HealthOk \/ FlushRead \/ FlushEnd
    BY <1>1, <2>2, <2>9
       DEF HealthKo, HealthOk, FlushRead, FlushEnd, Known, Covered, ScanDue
  <2>10. CASE FlushSend
    <3>1. Head(rows) \in Tasks
      BY <1>1, <2>10, TailType DEF FlushSend, Inv, TypeOK
    <3>2. Among(p, chan) => Among(p, chan')
      BY <1>1, <2>10, <3>1, AmongAppend DEF FlushSend
    <3> QED  BY <1>1, <2>2, <2>10, <3>2 DEF FlushSend, Known, Covered, ScanDue
  <2>11. CASE FlushRemove
    <3>1. rows # <<>>
      <4>1. flushing > 0 /\ flushing \in 0..Len(rows)
        BY <2>11 DEF FlushRemove, Inv, TypeOK, StepInv
      <4> QED  BY <4>1
    <3>2. PICK i \in DOMAIN chan : chan[i] = Head(rows)
      BY <2>11 DEF FlushRemove, Inv, StepInv
    <3>3. p \in PathsOf(Head(rows)) => Among(p, chan)
      BY <3>2 DEF Among
    <3>4. Among(p, rows) => Among(p, chan) \/ Among(p, rows')
      BY <1>1, <2>11, <3>1, <3>3, AmongTail DEF FlushRemove
    <3> QED  BY <1>1, <2>2, <2>11, <3>4 DEF FlushRemove, Known, Covered, ScanDue
  <2>12. CASE TakeTask
    <3>1. chan # <<>> /\ p \notin PathsOf(Head(chan)) /\ chan' = Tail(chan)
      BY <2>12 DEF TakeTask
    <3>2. Among(p, chan) => Among(p, chan')
      BY <1>1, <3>1, AmongTail
    <3> QED  BY <1>1, <2>2, <2>12, <3>2 DEF TakeTask, loopVars, Known, Covered, ScanDue
  <2> QED  BY <1>3, <2>3, <2>4, <2>5, <2>6, <2>7, <2>8, <2>9, <2>10, <2>11, <2>12 DEF Loop
<1> QED  BY <1>2, <1>3

LEMMA NoChangeStep ==
  Inv /\ PlainWatch /\ NoChangeForgotten /\ [Next]_vars => NoChangeForgotten'
<1> SUFFICES ASSUME Inv, PlainWatch, NoChangeForgotten, [Next]_vars, NEW p \in dirty'
             PROVE  Known(p)'
  BY DEF NoChangeForgotten, Known
<1> USE DEF localVars, dispVars, loopVars
<1>1. CASE WorkerOk
  BY <1>1 DEF WorkerOk, NoChangeForgotten, Known, Covered, ScanDue
<1>2. CASE WorkerErr
  BY <1>2 DEF WorkerErr, NoChangeForgotten, Known, Covered, ScanDue
<1>3. CASE Crash
  BY <1>3 DEF Crash, Known, ScanDue
<1>4. CASE UNCHANGED vars
  BY <1>4 DEF vars, NoChangeForgotten, Known, Covered, ScanDue
<1> QED  BY <1>1, <1>2, <1>3, <1>4, FileSystemKnown, DispatcherKnown, LoopKnown DEF Next

\* No change of a local file is forgotten on its way from the callback to a worker, for
\* all capacities of the channels and every mixture of scans, pauses, cuts of the
\* network, flushes and crashes, but for the drops the model names (watcher.rs:58-75,
\* mod.rs:668-729, offline.rs:27-76).
THEOREM NoChangeCorrect == Spec => []NoChangeForgotten
<1>1. Init => PlainWatch /\ NoChangeForgotten
  BY DEF Init, PlainWatch, NoChangeForgotten
<1> QED  BY <1>1, Invariant, PlainStep, NoChangeStep, PTL DEF Spec
-----------------------------------------------------------------------------
(* The order of what is said of a path *)

\* Position i of q holds the last item about p.
LastIn(q, i, p) ==
    /\ i \in DOMAIN q /\ p \in PathsOf(q[i])
    /\ \A j \in DOMAIN q : j > i => p \notin PathsOf(q[j])

LEMMA LastTail ==
  ASSUME NEW S, NEW q \in Seq(S), q # <<>>, NEW i, NEW p, LastIn(Tail(q), i, p)
  PROVE  LastIn(q, i + 1, p) /\ q[i + 1] = Tail(q)[i]
<1> DEFINE r == Tail(q)
<1>1. /\ Len(q) \in Nat /\ Len(q) > 0 /\ Len(r) = Len(q) - 1
      /\ DOMAIN q = 1..Len(q) /\ DOMAIN r = 1..Len(r)
      /\ \A k \in 1..Len(r) : r[k] = q[k + 1]
  OBVIOUS
<1> HIDE DEF r
<1>2. LastIn(r, i, p)
  BY DEF r
<1>3. i \in 1..Len(r) /\ r[i] = q[i + 1] /\ p \in PathsOf(q[i + 1]) /\ i + 1 \in DOMAIN q
  BY <1>1, <1>2 DEF LastIn
<1>4. ASSUME NEW j \in DOMAIN q, j > i + 1 PROVE p \notin PathsOf(q[j])
  <2>1. j - 1 \in DOMAIN r /\ j - 1 > i /\ r[j - 1] = q[j]
    BY <1>1, <1>3, <1>4
  <2> QED  BY <1>2, <2>1 DEF LastIn
<1> QED  BY <1>3, <1>4 DEF LastIn, r

LEMMA LastHead ==
  ASSUME NEW S, NEW q \in Seq(S), q # <<>>, NEW p, p \in PathsOf(Head(q)),
         ~Among(p, Tail(q))
  PROVE  LastIn(q, 1, p) /\ q[1] = Head(q)
<1> DEFINE r == Tail(q)
<1>1. /\ Len(q) \in Nat /\ Len(q) > 0 /\ Len(r) = Len(q) - 1 /\ q[1] = Head(q)
      /\ DOMAIN q = 1..Len(q) /\ DOMAIN r = 1..Len(r)
      /\ \A k \in 1..Len(r) : r[k] = q[k + 1]
  OBVIOUS
<1> HIDE DEF r
<1>2. \A k \in DOMAIN r : p \notin PathsOf(r[k])
  BY DEF r, Among
<1>3. ASSUME NEW j \in DOMAIN q, j > 1 PROVE p \notin PathsOf(q[j])
  <2>1. j - 1 \in DOMAIN r /\ r[j - 1] = q[j]
    BY <1>1, <1>3
  <2> QED  BY <1>2, <2>1
<1> QED  BY <1>1, <1>3 DEF LastIn

LEMMA AmongOfTail ==
  ASSUME NEW S, NEW q \in Seq(S), q # <<>>, NEW p, Among(p, Tail(q))
  PROVE  Among(p, q)
<1> DEFINE r == Tail(q)
<1>1. /\ Len(q) \in Nat /\ Len(q) > 0 /\ Len(r) = Len(q) - 1
      /\ DOMAIN q = 1..Len(q) /\ DOMAIN r = 1..Len(r)
      /\ \A k \in 1..Len(r) : r[k] = q[k + 1]
  OBVIOUS
<1> HIDE DEF r
<1>2. PICK k \in DOMAIN r : p \in PathsOf(r[k])
  BY DEF r, Among
<1>3. k + 1 \in DOMAIN q /\ p \in PathsOf(q[k + 1])
  BY <1>1, <1>2
<1> QED  BY <1>3 DEF Among

LEMMA LastAppend ==
  ASSUME NEW S, NEW q \in Seq(S), NEW x \in S, NEW i, NEW p,
         LastIn(Append(q, x), i, p)
  PROVE  \/ Append(q, x)[i] = x
         \/ p \notin PathsOf(x) /\ LastIn(q, i, p) /\ Append(q, x)[i] = q[i]
<1> DEFINE r == Append(q, x)
<1>1. /\ Len(q) \in Nat /\ Len(r) = Len(q) + 1
      /\ DOMAIN q = 1..Len(q) /\ DOMAIN r = 1..Len(r)
      /\ \A k \in 1..Len(q) : r[k] = q[k]
      /\ r[Len(q) + 1] = x
  OBVIOUS
<1> HIDE DEF r
<1>2. LastIn(r, i, p)
  BY DEF r
<1>3. i \in 1..Len(r)
  BY <1>1, <1>2 DEF LastIn
<1>4. CASE i = Len(r)
  BY <1>1, <1>4 DEF r
<1>5. CASE i # Len(r)
  <2>1. i \in DOMAIN q /\ r[i] = q[i] /\ Len(q) + 1 > i /\ Len(q) + 1 \in DOMAIN r
    BY <1>1, <1>3, <1>5
  <2>2. p \notin PathsOf(x)
    BY <1>1, <1>2, <2>1 DEF LastIn
  <2>3. \A j \in DOMAIN q : j \in DOMAIN r /\ r[j] = q[j]
    BY <1>1
  <2>4. LastIn(q, i, p)
    BY <1>2, <2>1, <2>3 DEF LastIn
  <2> QED  BY <2>1, <2>2, <2>4 DEF r
<1> QED  BY <1>4, <1>5

LEMMA LastConcat ==
  ASSUME NEW S, NEW q \in Seq(S), NEW r \in Seq(S), NEW i, NEW p,
         LastIn(q \o r, i, p)
  PROVE  \/ /\ ~Among(p, r) /\ LastIn(q, i, p) /\ (q \o r)[i] = q[i]
         \/ \E k \in DOMAIN r : LastIn(r, k, p) /\ (q \o r)[i] = r[k]
<1> DEFINE s == q \o r
<1>1. /\ Len(q) \in Nat /\ Len(r) \in Nat /\ Len(s) = Len(q) + Len(r)
      /\ DOMAIN q = 1..Len(q) /\ DOMAIN r = 1..Len(r) /\ DOMAIN s = 1..Len(s)
      /\ \A k \in 1..Len(q) : s[k] = q[k]
      /\ \A k \in 1..Len(r) : s[Len(q) + k] = r[k]
  OBVIOUS
<1> HIDE DEF s
<1>2. LastIn(s, i, p)
  BY DEF s
<1>3. i \in 1..Len(s) /\ p \in PathsOf(s[i])
  BY <1>1, <1>2 DEF LastIn
<1>4. CASE i \in 1..Len(q)
  <2>1. ASSUME NEW k \in DOMAIN r PROVE p \notin PathsOf(r[k])
    <3>1. Len(q) + k \in DOMAIN s /\ Len(q) + k > i /\ s[Len(q) + k] = r[k]
      BY <1>1, <1>4
    <3> QED  BY <1>2, <3>1 DEF LastIn
  <2>2. \A j \in DOMAIN q : j \in DOMAIN s /\ s[j] = q[j]
    BY <1>1
  <2>3. LastIn(q, i, p)
    BY <1>1, <1>2, <1>4, <2>2 DEF LastIn
  <2> QED  BY <1>1, <1>4, <2>1, <2>3 DEF Among, s
<1>5. CASE i \notin 1..Len(q)
  <2> DEFINE k == i - Len(q)
  <2>1. k \in DOMAIN r /\ i = Len(q) + k /\ s[i] = r[k]
    BY <1>1, <1>3, <1>5
  <2> HIDE DEF k
  <2>2. ASSUME NEW j \in DOMAIN r, j > k PROVE p \notin PathsOf(r[j])
    <3>1. Len(q) + j \in DOMAIN s /\ Len(q) + j > i /\ s[Len(q) + j] = r[j]
      BY <1>1, <2>1, <2>2
    <3> QED  BY <1>2, <3>1 DEF LastIn
  <2>3. LastIn(r, k, p)
    BY <1>3, <2>1, <2>2 DEF LastIn
  <2> QED  BY <2>1, <2>3 DEF s
<1> QED  BY <1>4, <1>5

\* What waits later than the channel: in the hand of the dispatcher, in the debounce, in
\* the watch channel, in a row that is not in the channel yet.
InHand(p) == at # "ready" /\ p \in PathsOf(out)
Debounced(p) == p \in pending \cup batch
Kept(p) == \E i \in DOMAIN rows : (mode = "remove" => i > 1) /\ p \in PathsOf(rows[i])

Said(e, p) == e.kind # "Deleted" /\ e.path = p

\* At each stage of the way, the last thing about p, when nothing about p waits at an
\* earlier stage, tells whether p exists.
WatchTells(p) ==
    \A i \in DOMAIN watch : LastIn(watch, i, p) => (Said(watch[i], p) <=> p \in exists)
DebounceTells(p) == Debounced(p) /\ ~Among(p, watch) => p \in exists
HandTells(p) ==
    InHand(p) /\ ~Debounced(p) /\ ~Among(p, watch) => (MeansPresent(out, p) <=> p \in exists)
Past(p) == ~InHand(p) /\ ~Debounced(p) /\ ~Among(p, watch) /\ ~Kept(p)
ChanTells(p) ==
    Past(p) =>
        \A i \in DOMAIN chan : LastIn(chan, i, p) /\ chan[i].src = "live" =>
            (MeansPresent(chan[i], p) <=> p \in exists)

Tells(p) == WatchTells(p) /\ DebounceTells(p) /\ HandTells(p) /\ ChanTells(p)

\* Each task says where it comes from; nothing of the watcher is on its way while
\* nobody listens.
Sources ==
    /\ \A i \in DOMAIN rows : rows[i].src = "row"
    /\ \A t \in todo : t.src = "scan"
Deaf ==
    ~Watching =>
        /\ watch = <<>> /\ pending = {} /\ batch = {} /\ at = "ready"
        /\ \A i \in DOMAIN chan : chan[i].src # "live"

OrderInv == Sources /\ Deaf /\ \A p \in Paths \ missed : Tells(p)

LEMMA SourcesStep == Inv /\ Sources /\ [Next]_vars => Sources'
<1> SUFFICES ASSUME Inv, Sources, [Next]_vars PROVE Sources'
  OBVIOUS
<1>1. rows \in Seq(Tasks) /\ \A i \in DOMAIN rows : rows[i].src = "row"
  BY DEF Inv, TypeOK, Sources
<1>2. \A i \in DOMAIN rows' : rows'[i].src = "row"
  <2>1. CASE UNCHANGED rows
    BY <1>1, <2>1
  <2>2. CASE Push /\ rows' # rows
    <3> DEFINE row == [out EXCEPT !.src = "row"]
    <3>1. row \in Tasks /\ row.src = "row"
      BY <2>2, TaskTypes DEF Push, Inv, StepInv, Tasks
    <3>2. rows' = Append(rows, row)
      BY <2>2 DEF Push
    <3> HIDE DEF row
    <3>3. /\ Len(rows) \in Nat /\ DOMAIN rows = 1..Len(rows)
          /\ DOMAIN Append(rows, row) = 1..(Len(rows) + 1)
          /\ \A i \in 1..Len(rows) : Append(rows, row)[i] = rows[i]
          /\ Append(rows, row)[Len(rows) + 1] = row
      BY <1>1, <3>1
    <3> QED  BY <1>1, <3>1, <3>2, <3>3
  <2>3. CASE FlushRemove /\ rows' # rows
    <3>1. rows' = Tail(rows) /\ rows # <<>>
      BY <2>3 DEF FlushRemove, Inv, TypeOK, StepInv
    <3>2. /\ Len(rows) \in Nat /\ DOMAIN rows = 1..Len(rows)
          /\ DOMAIN Tail(rows) = 1..(Len(rows) - 1)
          /\ \A i \in 1..(Len(rows) - 1) : Tail(rows)[i] = rows[i + 1]
      BY <1>1, <3>1
    <3>3. \A i \in DOMAIN rows' : i + 1 \in DOMAIN rows /\ rows'[i] = rows[i + 1]
      BY <3>1, <3>2
    <3> QED  BY <1>1, <3>3
  <2>4. CASE ~(Push \/ FlushRemove)
    <3>1. UNCHANGED rows
      BY <2>4
         DEF Next, FileSystem, Write, Remove, Move, Touch, Dispatcher, Tick, DispatchReady,
             RecvModified, RecvDeleted, RecvRenamed, Receive, Send, Loop, Start, Rescan,
             Walk, ScanFail, Enqueue, ScanEnd, Pause, Resume, HealthKo, HealthOk,
             FlushRead, FlushSend, FlushEnd, TakeTask, WorkerOk, WorkerErr, Crash, vars
    <3> QED  BY <2>1, <3>1
  <2> QED  BY <2>1, <2>2, <2>3, <2>4
<1>3. \A t \in todo' : t.src = "scan"
  <2>1. CASE Walk
    <3>1. \A q : Sync(q, "scan").src = "scan" /\ Delete(q, "scan").src = "scan"
      BY DEF Sync, Delete
    <3> HIDE DEF Sync, Delete
    <3>2. PICK found \in SUBSET dirty :
            todo' = {Sync(p, "scan") : p \in found \cap exists}
                         \cup {Delete(p, "scan") : p \in found \ exists}
      BY <2>1 DEF Walk
    <3> QED  BY <3>1, <3>2
  <2>2. CASE ~Walk
    <3>1. todo' \subseteq todo
      BY <2>2
         DEF Next, FileSystem, Write, Remove, Move, Touch, Dispatcher, Tick, DispatchReady,
             RecvModified, RecvDeleted, RecvRenamed, Receive, Push, Send, Loop, Start,
             Rescan, ScanFail, Enqueue, ScanEnd, Pause, Resume, HealthKo, HealthOk,
             FlushRead, FlushSend, FlushRemove, FlushEnd, TakeTask, WorkerOk, WorkerErr,
             Crash, vars, loopVars
    <3> QED  BY <3>1 DEF Sources
  <2> QED  BY <2>1, <2>2
<1> QED  BY <1>2, <1>3 DEF Sources

LEMMA SourceAppend ==
  ASSUME NEW q \in Seq(Tasks), NEW x \in Tasks, x.src # "live",
         \A i \in DOMAIN q : q[i].src # "live"
  PROVE  \A i \in DOMAIN Append(q, x) : Append(q, x)[i].src # "live"
<1>1. /\ Len(q) \in Nat /\ DOMAIN q = 1..Len(q)
      /\ DOMAIN Append(q, x) = 1..(Len(q) + 1)
      /\ \A i \in 1..Len(q) : Append(q, x)[i] = q[i]
      /\ Append(q, x)[Len(q) + 1] = x
  OBVIOUS
<1> QED  BY <1>1

LEMMA DeafStep == Inv /\ Sources /\ Deaf /\ [Next]_vars => Deaf'
<1> SUFFICES ASSUME Inv, Sources, Deaf, [Next]_vars, ~Watching' PROVE Deaf'
  BY DEF Deaf
<1> USE DEF localVars, dispVars, loopVars
<1>1. CASE Crash
  BY <1>1 DEF Crash, Deaf
<1>2. CASE UNCHANGED vars
  BY <1>2 DEF vars, Deaf, Watching
<1>3. CASE Next /\ ~Crash
  <2>1. ~Watching
    <3>1. CASE UNCHANGED <<mode, startup>>
      BY <3>1 DEF Watching
    <3>2. CASE mode' # "down" /\ startup' = startup /\ mode # "down"
      BY <3>2 DEF Watching
    <3>3. CASE mode' # "down" /\ ~startup'
      BY <3>3 DEF Watching
    <3>4. CASE Start
      BY <3>4 DEF Start, Watching
    <3>5. CASE Loop /\ ~Start
      BY <3>1, <3>2, <3>3, <3>5 DEF Loop, Rescan, Walk, ScanFail, Enqueue, ScanEnd, Pause,
             Resume, HealthKo, HealthOk, FlushRead, FlushSend, FlushRemove, FlushEnd, TakeTask
    <3>6. CASE ~Loop
      BY <1>3, <3>1, <3>6 DEF Next, FileSystem, Write, Remove, Move, Touch, Dispatcher, Tick,
             DispatchReady, RecvModified, RecvDeleted, RecvRenamed, Receive, Push, Send,
             WorkerOk, WorkerErr
    <3> QED  BY <3>4, <3>5, <3>6
  <2>2. /\ watch = <<>> /\ pending = {} /\ batch = {} /\ at = "ready"
        /\ \A i \in DOMAIN chan : chan[i].src # "live"
    BY <2>1 DEF Deaf
  <2>3. ~Dispatcher
    <3>1. \A ready \in SUBSET pending : ready = {}
      BY <2>2
    <3>2. ~Tick
      BY <3>1 DEF Tick
    <3> QED  BY <2>2, <3>2 DEF Dispatcher, DispatchReady, RecvModified, RecvDeleted,
                 RecvRenamed, Receive, Push, Send
  <2>4. mode \in {"down", "scan", "enqueue"}
    BY <2>1 DEF Watching, Inv, StepInv
  <2>5. CASE FileSystem
    <3>1. watch' = watch
      BY <2>1, <2>5 DEF FileSystem, Write, Remove, Move, Touch, Emit
    <3>2. UNCHANGED <<pending, batch, at, chan>>
      BY <2>5 DEF FileSystem, Write, Remove, Move, Touch
    <3> QED  BY <2>2, <3>1, <3>2 DEF Deaf
  <2>6. CASE Enqueue
    <3>1. PICK t \in todo : chan' = Append(chan, t)
      BY <2>6 DEF Enqueue
    <3>2. t \in Tasks /\ t.src = "scan" /\ chan \in Seq(Tasks)
      BY <3>1 DEF Inv, TypeOK, Sources
    <3>3. \A i \in DOMAIN chan' : chan'[i].src # "live"
      BY <2>2, <3>1, <3>2, SourceAppend
    <3> QED  BY <2>2, <2>6, <3>3 DEF Enqueue, Deaf
  <2>7. CASE UNCHANGED <<watch, pending, batch, at, chan>>
    BY <2>2, <2>7 DEF Deaf
  <2> QED  BY <1>3, <2>3, <2>4, <2>5, <2>6, <2>7
       DEF Next, Loop, Start, Rescan, Walk, ScanFail, ScanEnd, Pause, Resume, HealthKo,
           HealthOk, FlushRead, FlushSend, FlushRemove, FlushEnd, TakeTask, WorkerOk,
           WorkerErr
<1> QED  BY <1>1, <1>2, <1>3

-----------------------------------------------------------------------------
(* Order: the file system *)

\* Events for which nobody has missed anything say what has become of their paths.
LEMMA TouchOrder ==
  ASSUME Inv, OrderInv, NEW evs \in Seq(Events), NEW touched \in SUBSET Paths,
         Touch(evs, touched), \A q \in Paths \ touched : (q \in exists') <=> (q \in exists),
         \A q \in Paths \ touched : ~Among(q, evs),
         \A q \in touched : \E k \in DOMAIN evs : q \in PathsOf(evs[k]),
         \A q \in touched : \A k \in DOMAIN evs :
            LastIn(evs, k, q) => (Said(evs[k], q) <=> q \in exists'),
         NEW p \in Paths \ missed'
  PROVE  Tells(p)'
<1> DEFINE room == WatchCap - Len(watch)
           n == IF Len(evs) <= room THEN Len(evs) ELSE room
           heard == SubSeq(evs, 1, n)
<1>1. watch \in Seq(Events) /\ Len(watch) \in 0..WatchCap
  BY DEF Inv, TypeOK
<1>2. room \in Nat /\ n \in 0..Len(evs) /\ Len(evs) \in Nat
  BY <1>1
<1>3. /\ UNCHANGED <<pending, batch, at, out, rows, chan, mode>>
      /\ Emit(evs, touched)
  BY DEF Touch, loopVars
<1>4. p \notin missed
  BY <1>3 DEF Emit
<1>5. Tells(p)
  BY <1>4 DEF OrderInv
<1>6. CASE ~Watching
  <2>1. watch' = <<>> /\ pending' = {} /\ batch' = {} /\ at' = "ready"
        /\ \A i \in DOMAIN chan' : chan'[i].src # "live"
    BY <1>3, <1>6 DEF Emit, OrderInv, Deaf
  <2>2. ~Debounced(p)' /\ ~InHand(p)' /\ WatchTells(p)'
    BY <2>1 DEF Debounced, InHand, WatchTells
  <2> QED  BY <2>1, <2>2 DEF Tells, DebounceTells, HandTells, ChanTells
<1>7. CASE Watching
  <2>1. /\ watch' = watch \o heard
        /\ missed' = IF n < Len(evs) THEN missed \cup touched ELSE missed
    BY <1>3, <1>7 DEF Emit
  <2>2. heard \in Seq(Events) /\ DOMAIN heard = 1..n /\ \A k \in 1..n : heard[k] = evs[k]
    BY <1>2
  <2>3. n = Len(evs) => heard = evs
    BY <1>1, <1>2, FirstPart
  <2> HIDE DEF heard, n
  <2>4. Among(p, watch) => Among(p, watch')
    BY <1>1, <2>1, <2>2, AmongConcat
  <2>5. CASE p \notin touched
    <3>1. ~Among(p, heard)
      <4>1. \A k \in DOMAIN evs : p \notin PathsOf(evs[k])
        BY <2>5 DEF Among
      <4>2. \A k \in 1..n : k \in DOMAIN evs
        BY <1>2
      <4> QED  BY <2>2, <4>1, <4>2 DEF Among
    <3>2. p \in exists' <=> p \in exists
      BY <2>5
    <3>3. WatchTells(p)'
      <4> SUFFICES ASSUME NEW i \in DOMAIN watch', LastIn(watch', i, p)
                   PROVE  Said(watch'[i], p) <=> p \in exists'
        BY DEF WatchTells
      <4>1. LastIn(watch, i, p) /\ watch'[i] = watch[i]
        <5>1. \A k \in DOMAIN heard : ~LastIn(heard, k, p)
          BY <3>1 DEF LastIn, Among
        <5>2. LastIn(watch \o heard, i, p)
          BY <2>1
        <5> QED  BY <1>1, <2>1, <2>2, <5>1, <5>2, LastConcat
      <4>2. Said(watch[i], p) <=> p \in exists
        BY <1>5, <4>1 DEF Tells, WatchTells, LastIn
      <4> QED  BY <3>2, <4>1, <4>2
    <3> QED  BY <1>3, <1>5, <2>4, <3>2, <3>3
         DEF Tells, DebounceTells, HandTells, ChanTells, Debounced, InHand, Past, Kept
  <2>6. CASE p \in touched
    <3>1. heard = evs
      BY <1>2, <2>1, <2>3, <2>6 DEF n
    <3>2. Among(p, evs)
      BY <2>6 DEF Among
    <3>3. Among(p, watch')
      BY <1>1, <2>1, <3>1, <3>2, AmongConcat
    <3>4. WatchTells(p)'
      <4> SUFFICES ASSUME NEW i \in DOMAIN watch', LastIn(watch', i, p)
                   PROVE  Said(watch'[i], p) <=> p \in exists'
        BY DEF WatchTells
      <4>1. PICK k \in DOMAIN evs : LastIn(evs, k, p) /\ watch'[i] = evs[k]
        BY <1>1, <2>1, <3>1, <3>2, LastConcat
      <4> QED  BY <2>6, <4>1
    <3> QED  BY <3>3, <3>4 DEF Tells, DebounceTells, HandTells, ChanTells, Past
  <2> QED  BY <2>5, <2>6
<1> QED  BY <1>6, <1>7

LEMMA FileSystemOrder ==
  ASSUME Inv, OrderInv, FileSystem, NEW p \in Paths \ missed'
  PROVE  Tells(p)'
<1>1. PICK f \in Paths, t \in Paths : Write(f) \/ Remove(f) \/ Move(f, t)
  BY DEF FileSystem
<1>2. \A kind, q, r : PathsOf(Ev(kind, q, r)) = {q, r}
                        /\ Ev(kind, q, r).path = q /\ Ev(kind, q, r).kind = kind
  BY DEF PathsOf, Ev
<1>3. CASE Write(f)
  <2> DEFINE evs == <<Ev("Modified", f, f)>>
  <2>1. evs \in Seq(Events) /\ DOMAIN evs = {1} /\ evs[1] = Ev("Modified", f, f)
    BY TaskTypes
  <2>2. exists' = exists \cup {f} /\ Touch(evs, {f})
    BY <1>3 DEF Write
  <2> HIDE DEF evs
  <2>3. \A q \in Paths \ {f} : ~Among(q, evs)
    BY <1>2, <2>1 DEF Among
  <2>4. Said(evs[1], f)
    BY <1>2, <2>1 DEF Said
  <2>5. \A q \in {f} : \E k \in DOMAIN evs : q \in PathsOf(evs[k])
    BY <1>2, <2>1
  <2>6. \A q \in {f} : \A k \in DOMAIN evs :
            LastIn(evs, k, q) => (Said(evs[k], q) <=> q \in exists')
    BY <2>1, <2>2, <2>4
  <2>7. \A q \in Paths \ {f} : (q \in exists') <=> (q \in exists)
    BY <2>2
  <2> QED  BY <2>1, <2>2, <2>3, <2>5, <2>6, <2>7, TouchOrder
<1>4. CASE Remove(f)
  <2> DEFINE evs == <<Ev("Deleted", f, f)>>
  <2>1. evs \in Seq(Events) /\ DOMAIN evs = {1} /\ evs[1] = Ev("Deleted", f, f)
    BY TaskTypes
  <2>2. exists' = exists \ {f} /\ Touch(evs, {f})
    BY <1>4 DEF Remove
  <2> HIDE DEF evs
  <2>3. \A q \in Paths \ {f} : ~Among(q, evs)
    BY <1>2, <2>1 DEF Among
  <2>4. ~Said(evs[1], f)
    BY <1>2, <2>1 DEF Said
  <2>5. \A q \in {f} : \E k \in DOMAIN evs : q \in PathsOf(evs[k])
    BY <1>2, <2>1
  <2>6. \A q \in {f} : \A k \in DOMAIN evs :
            LastIn(evs, k, q) => (Said(evs[k], q) <=> q \in exists')
    BY <2>1, <2>2, <2>4
  <2>7. \A q \in Paths \ {f} : (q \in exists') <=> (q \in exists)
    BY <2>2
  <2> QED  BY <2>1, <2>2, <2>3, <2>5, <2>6, <2>7, TouchOrder
<1>5. CASE Move(f, t)
  <2> DEFINE evs == <<Ev("Deleted", f, f), Ev("Modified", t, t), Ev("Renamed", t, f)>>
  <2>1. /\ evs \in Seq(Events) /\ DOMAIN evs = 1..3
        /\ evs[1] = Ev("Deleted", f, f) /\ evs[2] = Ev("Modified", t, t)
        /\ evs[3] = Ev("Renamed", t, f)
    BY TaskTypes
  <2>2. exists' = (exists \ {f}) \cup {t} /\ Touch(evs, {f, t}) /\ f # t
    BY <1>5 DEF Move
  <2> HIDE DEF evs
  <2>3. \A q \in Paths \ {f, t} : ~Among(q, evs)
    <3>1. \A k \in DOMAIN evs : PathsOf(evs[k]) \subseteq {f, t}
      BY <1>2, <2>1
    <3> QED  BY <3>1 DEF Among
  <2>4. \A q \in {f, t} : q \in PathsOf(evs[3])
    BY <1>2, <2>1
  <2>5. Said(evs[3], t) /\ ~Said(evs[3], f)
    BY <1>2, <2>1, <2>2 DEF Said
  <2>6. ASSUME NEW q \in {f, t}, NEW k \in DOMAIN evs, LastIn(evs, k, q)
        PROVE  Said(evs[k], q) <=> q \in exists'
    <3>1. k = 3
      BY <2>1, <2>4, <2>6 DEF LastIn
    <3> QED  BY <2>2, <2>5, <3>1
  <2>7. \A q \in Paths \ {f, t} : (q \in exists') <=> (q \in exists)
    BY <2>2
  <2>8. {f, t} \in SUBSET Paths /\ 3 \in DOMAIN evs
    BY <2>1
  <2> QED  BY <2>1, <2>2, <2>3, <2>4, <2>6, <2>7, <2>8, TouchOrder
<1> QED  BY <1>1, <1>3, <1>4, <1>5

-----------------------------------------------------------------------------
(* Order: the dispatcher *)

LEMMA DispatcherOrder ==
  ASSUME Inv, PlainWatch, OrderInv, Dispatcher, NEW p \in Paths \ missed'
  PROVE  Tells(p)'
<1> USE DEF localVars, loopVars
<1>1. /\ exists' = exists /\ mode' = mode
      /\ p \notin missed
  BY DEF Dispatcher, Tick, DispatchReady, RecvModified, RecvDeleted, RecvRenamed, Receive,
         Push, Send
<1>2. WatchTells(p) /\ DebounceTells(p) /\ HandTells(p) /\ ChanTells(p)
  BY <1>1 DEF OrderInv, Tells
<1>3. /\ watch \in Seq(Events) /\ rows \in Seq(Tasks) /\ chan \in Seq(Tasks)
      /\ at # "ready" => out \in Tasks
  BY DEF Inv, TypeOK, StepInv
<1>4. CASE Tick
  <2>1. UNCHANGED <<watch, at, out, rows, chan>> /\ (Debounced(p)' <=> Debounced(p))
    BY <1>4 DEF Tick, Debounced
  <2> QED  BY <1>1, <1>2, <2>1 DEF Tells, WatchTells, DebounceTells, HandTells, ChanTells,
           Past, InHand, Kept
<1>5. CASE DispatchReady
  <2>1. PICK q \in batch : batch' = batch \ {q} /\ out' = Sync(q, "live") /\ at' # "ready"
    BY <1>5 DEF DispatchReady, Route
  <2>2. PathsOf(out') = {q} /\ MeansPresent(out', q)
    BY <2>1 DEF PathsOf, Sync, MeansPresent
  <2>3. UNCHANGED <<watch, pending, rows, chan>> /\ at = "ready"
    BY <1>5 DEF DispatchReady
  <2>4. WatchTells(p)'
    BY <1>1, <1>2, <2>3 DEF WatchTells
  <2>5. CASE p = q
    <3>1. ~Among(p, watch) => p \in exists
      BY <1>2, <2>1, <2>5 DEF DebounceTells, Debounced
    <3>2. InHand(p)'
      BY <2>1, <2>2, <2>5 DEF InHand
    <3> QED  BY <1>1, <2>2, <2>3, <2>4, <2>5, <3>1, <3>2
         DEF Tells, DebounceTells, HandTells, ChanTells, Past
  <2>6. CASE p # q
    <3>1. (Debounced(p)' <=> Debounced(p)) /\ ~InHand(p)' /\ ~InHand(p)
      BY <2>1, <2>2, <2>3, <2>6 DEF Debounced, InHand
    <3> QED  BY <1>1, <1>2, <2>3, <2>4, <3>1
         DEF Tells, DebounceTells, HandTells, ChanTells, Past, Kept
  <2> QED  BY <2>5, <2>6
<1>6. ASSUME NEW kind, Receive(kind)
      PROVE  /\ WatchTells(p)'
             /\ p \in PathsOf(Head(watch)) /\ ~Among(p, watch)' =>
                    (Said(Head(watch), p) <=> p \in exists')
             /\ p \notin PathsOf(Head(watch)) => (Among(p, watch)' <=> Among(p, watch))
             /\ UNCHANGED <<batch, rows, chan>> /\ at = "ready" /\ batch = {}
  <2>1. watch # <<>> /\ watch' = Tail(watch)
    BY <1>6 DEF Receive
  <2>2. WatchTells(p)'
    <3> SUFFICES ASSUME NEW i \in DOMAIN watch', LastIn(watch', i, p)
                 PROVE  Said(watch'[i], p) <=> p \in exists'
      BY DEF WatchTells
    <3>1. LastIn(watch, i + 1, p) /\ watch'[i] = watch[i + 1]
      BY <1>3, <2>1, LastTail
    <3>2. i + 1 \in DOMAIN watch
      BY <3>1 DEF LastIn
    <3> QED  BY <1>1, <1>2, <3>1, <3>2 DEF WatchTells
  <2>3. ASSUME p \in PathsOf(Head(watch)), ~Among(p, watch)'
        PROVE  Said(Head(watch), p) <=> p \in exists'
    <3>1. ~Among(p, Tail(watch))
      BY <2>1, <2>3
    <3>2. LastIn(watch, 1, p) /\ watch[1] = Head(watch)
      BY <1>3, <2>1, <2>3, <3>1, LastHead
    <3>3. 1 \in DOMAIN watch
      BY <3>2 DEF LastIn
    <3> QED  BY <1>1, <1>2, <3>2, <3>3 DEF WatchTells
  <2>4. p \notin PathsOf(Head(watch)) => (Among(p, watch)' <=> Among(p, watch))
    BY <1>3, <2>1, AmongTail, AmongOfTail
  <2> QED  BY <1>6, <2>2, <2>3, <2>4 DEF Receive
<1>7. ASSUME NEW kind, Receive(kind), kind # "Renamed"
      PROVE  PathsOf(Head(watch)) = {Head(watch).path}
  <2>1. watch \in Seq(Plain) /\ Len(watch) > 0 /\ Head(watch).kind = kind
    BY <1>3, <1>7 DEF Receive, PlainWatch
  <2>2. Head(watch) \in Plain
    BY <2>1, TailType
  <2> QED  BY <1>7, <2>1, <2>2 DEF Plain, PathsOf
<1>8. CASE RecvModified
  <2>1. /\ Receive("Modified") /\ Head(watch).kind = "Modified"
        /\ pending' = pending \cup {Head(watch).path} /\ UNCHANGED <<at, out>>
    BY <1>8 DEF RecvModified, Receive
  <2>2. PathsOf(Head(watch)) = {Head(watch).path}
    BY <1>7, <2>1
  <2>3. UNCHANGED <<batch, rows, chan, at, out>> /\ WatchTells(p)'
    BY <1>6, <2>1
  <2>4. CASE p = Head(watch).path
    <3>1. Debounced(p)'
      BY <2>1, <2>4 DEF Debounced
    <3>2. Said(Head(watch), p)
      BY <2>1, <2>4 DEF Said
    <3>3. DebounceTells(p)'
      BY <1>1, <1>6, <2>1, <2>2, <2>4, <3>2 DEF DebounceTells
    <3> QED  BY <2>3, <3>1, <3>3 DEF Tells, HandTells, ChanTells, Past
  <2>5. CASE p # Head(watch).path
    <3>1. Debounced(p)' <=> Debounced(p)
      BY <2>1, <2>3, <2>5 DEF Debounced
    <3>2. Among(p, watch)' <=> Among(p, watch)
      BY <1>6, <2>1, <2>2, <2>5
    <3> QED  BY <1>1, <1>2, <2>3, <3>1, <3>2
         DEF Tells, DebounceTells, HandTells, ChanTells, Past, InHand, Kept
  <2> QED  BY <2>4, <2>5
<1>9. ASSUME NEW kind, Receive(kind), NEW t \in Tasks, Route(t),
             PathsOf(t) = PathsOf(Head(watch)), pending' = pending \ PathsOf(Head(watch)),
             MeansPresent(t, p) <=> Said(Head(watch), p)
      PROVE  Tells(p)'
  <2>1. out' = t /\ at' # "ready" /\ UNCHANGED <<batch, rows, chan>> /\ at = "ready"
        /\ batch = {} /\ WatchTells(p)'
    BY <1>6, <1>9 DEF Route
  <2>2. CASE p \in PathsOf(Head(watch))
    <3>1. ~Debounced(p)'
      BY <1>9, <2>1, <2>2 DEF Debounced
    <3>2. InHand(p)'
      BY <1>9, <2>1, <2>2 DEF InHand
    <3>3. HandTells(p)'
      BY <1>6, <1>9, <2>1, <2>2 DEF HandTells, MeansPresent
    <3> QED  BY <2>1, <3>1, <3>2, <3>3 DEF Tells, DebounceTells, ChanTells, Past
  <2>3. CASE p \notin PathsOf(Head(watch))
    <3>1. (Debounced(p)' <=> Debounced(p)) /\ ~InHand(p)' /\ ~InHand(p)
      BY <1>9, <2>1, <2>3 DEF Debounced, InHand
    <3>2. Among(p, watch)' <=> Among(p, watch)
      BY <1>6, <1>9, <2>3
    <3> QED  BY <1>1, <1>2, <2>1, <3>1, <3>2
         DEF Tells, DebounceTells, HandTells, ChanTells, Past, Kept
  <2> QED  BY <2>2, <2>3
<1>10. ASSUME NEW kind, Receive(kind)
       PROVE  Head(watch) \in Events /\ Head(watch).kind = kind
  BY <1>3, <1>10 DEF Receive
<1>11. CASE RecvDeleted
  <2> DEFINE t == Delete(Head(watch).path, "live")
  <2>1. /\ Receive("Deleted") /\ pending' = pending \ {Head(watch).path}
        /\ Route(t)
    BY <1>11 DEF RecvDeleted
  <2>2. Head(watch).path \in Paths /\ Head(watch).kind = "Deleted"
    BY <1>10, <2>1 DEF Events
  <2>3. t \in Tasks /\ PathsOf(t) = {Head(watch).path}
    BY <2>2, TaskTypes DEF PathsOf, Delete
  <2>4. MeansPresent(t, p) <=> Said(Head(watch), p)
    BY <2>2 DEF MeansPresent, Said, Delete
  <2>5. PathsOf(Head(watch)) = {Head(watch).path}
    BY <1>7, <2>1
  <2> QED  BY <1>9, <2>1, <2>3, <2>4, <2>5
<1>12. CASE RecvRenamed
  <2> DEFINE t == Rename(Head(watch).from, Head(watch).path, "live")
  <2>1. /\ Receive("Renamed") /\ pending' = pending \ PathsOf(Head(watch))
        /\ Route(t)
    BY <1>12 DEF RecvRenamed
  <2>2. Head(watch).path \in Paths /\ Head(watch).from \in Paths
        /\ Head(watch).kind = "Renamed"
    BY <1>10, <2>1 DEF Events
  <2>3. t \in Tasks /\ PathsOf(t) = PathsOf(Head(watch))
    BY <2>2, TaskTypes DEF PathsOf, Rename
  <2>4. MeansPresent(t, p) <=> Said(Head(watch), p)
    BY <2>2 DEF MeansPresent, Said, Rename
  <2> QED  BY <1>9, <2>1, <2>3, <2>4
<1>13. CASE Push
  <2> DEFINE row == [out EXCEPT !.src = "row"]
  <2>1. /\ at' = "ready" /\ UNCHANGED <<watch, pending, batch, chan>>
        /\ at # "ready"
    BY <1>13 DEF Push
  <2>2. (Debounced(p)' <=> Debounced(p)) /\ ~InHand(p)' /\ WatchTells(p)' /\ DebounceTells(p)'
    BY <1>1, <1>2, <2>1 DEF Debounced, InHand, WatchTells, DebounceTells
  <2>3. rows' = Append(rows, row) \/ (rows' = rows /\ missed' = missed \cup PathsOf(out))
    BY <1>13 DEF Push
  <2>4. row \in Tasks /\ PathsOf(row) = PathsOf(out)
    BY <1>3, <2>1, TaskTypes
  <2> HIDE DEF row
  <2>5. /\ Len(rows) \in Nat /\ DOMAIN rows = 1..Len(rows)
        /\ DOMAIN Append(rows, row) = 1..(Len(rows) + 1)
        /\ \A i \in 1..Len(rows) : Append(rows, row)[i] = rows[i]
        /\ Append(rows, row)[Len(rows) + 1] = row
    BY <1>3, <2>4
  <2>6. Kept(p) => Kept(p)'
    BY <1>1, <2>3, <2>5 DEF Kept
  <2>7. InHand(p) => Kept(p)'
    <3> SUFFICES ASSUME InHand(p) PROVE Kept(p)'
      OBVIOUS
    <3>1. p \in PathsOf(row) /\ rows' = Append(rows, row)
      BY <2>3, <2>4 DEF InHand
    <3>2. mode = "remove" => Len(rows) > 0
      <4>1. mode = "remove" => flushing > 0 /\ flushing \in 0..Len(rows)
        BY DEF Inv, TypeOK, StepInv
      <4> QED  BY <2>5, <4>1
    <3>3. Len(rows) + 1 \in DOMAIN rows' /\ rows'[Len(rows) + 1] = row
      BY <2>5, <3>1
    <3>4. mode' = "remove" => Len(rows) + 1 > 1
      BY <1>1, <2>5, <3>2
    <3> QED  BY <3>1, <3>3, <3>4 DEF Kept
  <2>8. Past(p)' => Past(p)
    BY <2>1, <2>2, <2>6, <2>7 DEF Past
  <2>9. ChanTells(p)'
    BY <1>1, <1>2, <2>1, <2>8 DEF ChanTells
  <2> QED  BY <2>2, <2>9 DEF Tells, HandTells
<1>14. CASE Send
  <2>1. /\ at' = "ready" /\ UNCHANGED <<watch, pending, batch, rows>>
        /\ at # "ready" /\ chan' = Append(chan, out)
    BY <1>14 DEF Send
  <2>2. (Debounced(p)' <=> Debounced(p)) /\ ~InHand(p)' /\ WatchTells(p)' /\ DebounceTells(p)'
    BY <1>1, <1>2, <2>1 DEF Debounced, InHand, WatchTells, DebounceTells
  <2>3. Kept(p)' <=> Kept(p)
    BY <1>1, <2>1 DEF Kept
  <2>4. ChanTells(p)'
    <3> SUFFICES ASSUME Past(p)', NEW i \in DOMAIN chan', LastIn(chan', i, p),
                        chan'[i].src = "live"
                 PROVE  MeansPresent(chan'[i], p) <=> p \in exists'
      BY DEF ChanTells
    <3>1. ~Debounced(p) /\ ~Among(p, watch) /\ ~Kept(p)
      BY <2>1, <2>2, <2>3 DEF Past
    <3>2. \/ chan'[i] = out
          \/ p \notin PathsOf(out) /\ LastIn(chan, i, p) /\ chan'[i] = chan[i]
      BY <1>3, <2>1, LastAppend
    <3>3. CASE chan'[i] = out
      <4>1. InHand(p)
        BY <2>1, <3>3 DEF InHand, LastIn
      <4> QED  BY <1>1, <1>2, <3>1, <3>3, <4>1 DEF HandTells, MeansPresent
    <3>4. CASE p \notin PathsOf(out) /\ LastIn(chan, i, p) /\ chan'[i] = chan[i]
      <4>1. Past(p) /\ i \in DOMAIN chan
        BY <3>1, <3>4 DEF Past, InHand, LastIn
      <4> QED  BY <1>1, <1>2, <3>4, <4>1 DEF ChanTells, MeansPresent
    <3> QED  BY <3>2, <3>3, <3>4
  <2> QED  BY <2>2, <2>4 DEF Tells, HandTells
<1> QED  BY <1>4, <1>5, <1>8, <1>11, <1>12, <1>13, <1>14 DEF Dispatcher

-----------------------------------------------------------------------------
(* Order: the loop, the workers, the end *)

\* The stages before the channel are as they were, and so is all that is kept in rows.
Quiet(p) ==
    /\ UNCHANGED <<exists, watch, pending, batch, at, out>>
    /\ Kept(p) => Kept(p)'

LEMMA QuietTells ==
  ASSUME NEW p, Tells(p), Quiet(p)
  PROVE  /\ WatchTells(p)' /\ DebounceTells(p)' /\ HandTells(p)'
         /\ Past(p)' => Past(p)
         /\ UNCHANGED chan => Tells(p)'
BY DEF Tells, Quiet, WatchTells, DebounceTells, HandTells, ChanTells, Past, InHand,
       Debounced, MeansPresent

\* A task that does not come from the watcher is put behind all others.
LEMMA OtherAppended ==
  ASSUME Inv, NEW p, Tells(p), NEW t \in Tasks, t.src # "live", chan' = Append(chan, t),
         UNCHANGED <<exists, watch, pending, batch, at, out>>,
         p \notin PathsOf(t) => (Kept(p) => Kept(p)')
  PROVE  Tells(p)'
<1>1. chan \in Seq(Tasks)
  BY DEF Inv, TypeOK
<1>2. WatchTells(p)' /\ DebounceTells(p)' /\ HandTells(p)'
  BY DEF Tells, WatchTells, DebounceTells, HandTells, InHand, Debounced, MeansPresent
<1>3. ChanTells(p)'
  <2> SUFFICES ASSUME Past(p)', NEW i \in DOMAIN chan', LastIn(chan', i, p),
                      chan'[i].src = "live"
               PROVE  MeansPresent(chan'[i], p) <=> p \in exists'
    BY DEF ChanTells
  <2>1. p \notin PathsOf(t) /\ LastIn(chan, i, p) /\ chan'[i] = chan[i]
    BY <1>1, LastAppend
  <2>2. Past(p) /\ i \in DOMAIN chan
    BY <2>1 DEF Past, InHand, Debounced, LastIn
  <2> QED  BY <2>1, <2>2 DEF Tells, ChanTells, MeansPresent
<1> QED  BY <1>2, <1>3 DEF Tells

\* A path that nothing concerns has nothing to tell.
LEMMA UncoveredTells ==
  ASSUME Inv, NEW p, ~Covered(p), UNCHANGED <<watch, pending, batch, at, out, chan>>
  PROVE  Tells(p)'
<1>1. ~Among(p, watch') /\ ~Among(p, chan') /\ ~Debounced(p)' /\ ~InHand(p)'
  BY DEF Covered, Debounced, InHand
<1>2. (\A i \in DOMAIN watch' : ~LastIn(watch', i, p))
      /\ (\A i \in DOMAIN chan' : ~LastIn(chan', i, p))
  BY <1>1 DEF Among, LastIn
<1> QED  BY <1>1, <1>2 DEF Tells, WatchTells, DebounceTells, HandTells, ChanTells

LEMMA LoopOrder ==
  ASSUME Inv, OrderInv, Loop, NEW p \in Paths \ missed'
  PROVE  Tells(p)'
<1> USE DEF localVars, dispVars
<1>1. /\ UNCHANGED <<exists, watch, pending, batch, at, out>>
      /\ chan \in Seq(Tasks) /\ rows \in Seq(Tasks)
  BY DEF Loop, Start, Rescan, Walk, ScanFail, Enqueue, ScanEnd, Pause, Resume, HealthKo,
         HealthOk, FlushRead, FlushSend, FlushRemove, FlushEnd, TakeTask, Inv, TypeOK
<1>2. CASE Walk
  <2>1. UNCHANGED <<rows, chan>> /\ mode # "remove"
        /\ missed' = {q \in missed : Covered(q) \/ \E t \in work : q \in PathsOf(t)}
    BY <1>2 DEF Walk
  <2>2. CASE p \in missed
    <3>1. ~Covered(p)
      BY <2>1, <2>2
    <3> QED  BY <1>1, <2>1, <3>1, UncoveredTells
  <2>3. CASE p \notin missed
    <3>1. mode' # "remove"
      BY <1>2 DEF Walk
    <3>2. Tells(p) /\ Quiet(p)
      BY <1>1, <2>1, <2>3, <3>1 DEF OrderInv, Quiet, Kept
    <3> QED  BY <2>1, <3>2, QuietTells
  <2> QED  BY <2>2, <2>3
<1>3. CASE ~Walk
  <2>1. p \notin missed
    BY <1>3 DEF Loop, Start, Rescan, ScanFail, Enqueue, ScanEnd, Pause, Resume, HealthKo,
           HealthOk, FlushRead, FlushSend, FlushRemove, FlushEnd, TakeTask
  <2>2. Tells(p)
    BY <2>1 DEF OrderInv
  <2>3. ASSUME UNCHANGED <<rows, chan>>, mode' # "remove" PROVE Tells(p)'
    <3>1. Quiet(p)
      BY <1>1, <2>3 DEF Quiet, Kept
    <3> QED  BY <2>2, <2>3, <3>1, QuietTells
  <2>4. CASE Start \/ Rescan \/ ScanFail \/ ScanEnd \/ Pause \/ Resume
    BY <2>3, <2>4 DEF Start, Rescan, ScanFail, ScanEnd, Pause, Resume
  <2>5. CASE HealthKo \/ HealthOk \/ FlushRead \/ FlushEnd
    BY <2>3, <2>5 DEF HealthKo, HealthOk, FlushRead, FlushEnd
  <2>6. CASE Enqueue
    <3>1. PICK t \in todo : chan' = Append(chan, t)
      BY <2>6 DEF Enqueue
    <3>2. t \in Tasks /\ t.src # "live"
      BY <3>1 DEF Inv, TypeOK, OrderInv, Sources
    <3>3. Kept(p) => Kept(p)'
      BY <2>6 DEF Enqueue, Kept
    <3> QED  BY <1>1, <2>2, <3>1, <3>2, <3>3, OtherAppended
  <2>7. CASE FlushSend
    <3> DEFINE t == Head(rows)
    <3>1. rows # <<>>
      <4>1. flushing > 0 /\ flushing \in 0..Len(rows)
        BY <2>7 DEF FlushSend, Inv, TypeOK
      <4> QED  BY <4>1
    <3>2. t \in Tasks /\ rows[1] = t /\ 1 \in DOMAIN rows
      BY <1>1, <3>1
    <3>3. t.src # "live"
      BY <3>2 DEF OrderInv, Sources
    <3>4. chan' = Append(chan, t) /\ rows' = rows
      BY <2>7 DEF FlushSend
    <3>5. ASSUME p \notin PathsOf(t), Kept(p) PROVE Kept(p)'
      <4>1. PICK i \in DOMAIN rows : p \in PathsOf(rows[i])
        BY <3>5 DEF Kept
      <4>2. i # 1 /\ i \in 1..Len(rows)
        BY <1>1, <3>2, <3>5, <4>1
      <4> QED  BY <3>4, <4>1, <4>2 DEF Kept
    <3> HIDE DEF t
    <3> QED  BY <1>1, <2>2, <3>2, <3>3, <3>4, <3>5, OtherAppended
  <2>8. CASE FlushRemove
    <3>1. mode = "remove" /\ mode' # "remove" /\ UNCHANGED chan
      BY <2>8 DEF FlushRemove
    <3>2. rows # <<>>
      <4>1. flushing > 0 /\ flushing \in 0..Len(rows)
        BY <2>8 DEF FlushRemove, Inv, TypeOK, StepInv
      <4> QED  BY <4>1
    <3>3. ASSUME Kept(p) PROVE Kept(p)'
      <4>1. PICK i \in DOMAIN rows : i > 1 /\ p \in PathsOf(rows[i])
        BY <3>1, <3>3 DEF Kept
      <4>2. CASE rows' = rows
        BY <3>1, <4>1, <4>2 DEF Kept
      <4>3. CASE rows' = Tail(rows)
        <5>1. i - 1 \in DOMAIN Tail(rows) /\ Tail(rows)[i - 1] = rows[i]
          BY <1>1, <3>2, <4>1
        <5>2. i - 1 \in DOMAIN rows' /\ p \in PathsOf(rows'[i - 1])
          BY <4>1, <4>3, <5>1
        <5> QED  BY <3>1, <5>2 DEF Kept
      <4> QED  BY <2>8, <4>2, <4>3 DEF FlushRemove
    <3>4. Quiet(p)
      BY <1>1, <3>3 DEF Quiet
    <3> QED  BY <2>2, <3>1, <3>4, QuietTells
  <2>9. CASE TakeTask
    <3>1. chan # <<>> /\ chan' = Tail(chan) /\ Quiet(p)
      BY <1>1, <2>9 DEF TakeTask, Quiet, Kept, loopVars
    <3>2. WatchTells(p)' /\ DebounceTells(p)' /\ HandTells(p)' /\ (Past(p)' => Past(p))
      BY <2>2, <3>1, QuietTells
    <3>3. ChanTells(p)'
      <4> SUFFICES ASSUME Past(p), NEW i \in DOMAIN chan', LastIn(chan', i, p),
                          chan'[i].src = "live"
                   PROVE  MeansPresent(chan'[i], p) <=> p \in exists'
        BY <3>2 DEF ChanTells
      <4>1. LastIn(chan, i + 1, p) /\ chan'[i] = chan[i + 1]
        BY <1>1, <3>1, LastTail
      <4>2. i + 1 \in DOMAIN chan
        BY <4>1 DEF LastIn
      <4> QED  BY <1>1, <2>2, <4>1, <4>2 DEF Tells, ChanTells, MeansPresent
    <3> QED  BY <3>2, <3>3 DEF Tells
  <2> QED  BY <1>3, <2>4, <2>5, <2>6, <2>7, <2>8, <2>9 DEF Loop
<1> QED  BY <1>2, <1>3

LEMMA OrderStep == Inv /\ PlainWatch /\ OrderInv /\ [Next]_vars => OrderInv'
<1> SUFFICES ASSUME Inv, PlainWatch, OrderInv, [Next]_vars, NEW p \in Paths \ missed'
             PROVE  Tells(p)'
  BY SourcesStep, DeafStep DEF OrderInv
<1> USE DEF localVars, dispVars, loopVars
<1>1. CASE WorkerOk \/ WorkerErr \/ UNCHANGED vars
  <2>1. UNCHANGED <<exists, watch, pending, batch, at, out, rows, chan, mode>>
        /\ p \notin missed
    BY <1>1 DEF WorkerOk, WorkerErr, vars
  <2>2. Tells(p) /\ Quiet(p)
    BY <2>1 DEF OrderInv, Quiet, Kept
  <2> QED  BY <2>1, <2>2, QuietTells
<1>2. CASE Crash
  <2>1. watch' = <<>> /\ pending' = {} /\ batch' = {} /\ at' = "ready" /\ chan' = <<>>
    BY <1>2 DEF Crash
  <2> QED  BY <2>1 DEF Tells, WatchTells, DebounceTells, HandTells, ChanTells, Debounced,
           InHand, Among
<1> QED  BY <1>1, <1>2, FileSystemOrder, DispatcherOrder, LoopOrder DEF Next

\* A set of numbers with a bound has a greatest one.
LEMMA Greatest ==
  ASSUME NEW n \in Nat, NEW T, T \subseteq 1..n, T # {}
  PROVE  \E i \in T : \A j \in T : j <= i
<1> DEFINE M == {n - i : i \in T}
<1>1. M \subseteq Nat /\ M # {}
  <2>1. \A i \in T : n - i \in Nat
    OBVIOUS
  <2>2. PICK i \in T : TRUE
    OBVIOUS
  <2>3. n - i \in M
    BY <2>2
  <2> QED  BY <2>1, <2>3
<1>2. PICK x \in M : \A y \in M : ~(<<y, x>> \in OpToRel(<, Nat))
  <2> HIDE DEF M
  <2> QED  BY <1>1, NatLessThanWellFounded, WFMin
<1>3. PICK i \in T : x = n - i
  OBVIOUS
<1>4. ASSUME NEW j \in T PROVE j <= i
  <2>1. n - j \in M /\ n - j \in Nat /\ x \in Nat
    BY <1>1
  <2>2. ~(n - j < x)
    BY <1>2, <2>1 DEF OpToRel
  <2> QED  BY <1>3, <2>2
<1> QED  BY <1>4

LEMMA LastForIs ==
  ASSUME chan \in Seq(Tasks), NEW p, LastFor(p) > 0
  PROVE  LastIn(chan, LastFor(p), p)
<1> DEFINE at_p == {i \in DOMAIN chan : p \in PathsOf(chan[i])}
<1>1. at_p # {} /\ LastFor(p) = CHOOSE i \in at_p : \A j \in at_p : j <= i
  BY DEF LastFor
<1>2. at_p \subseteq 1..Len(chan) /\ Len(chan) \in Nat
  OBVIOUS
<1>3. \E i \in at_p : \A j \in at_p : j <= i
  <2> HIDE DEF at_p
  <2> QED  BY <1>1, <1>2, Greatest
<1>4. LastFor(p) \in at_p /\ \A j \in at_p : j <= LastFor(p)
  <2> HIDE DEF at_p
  <2> QED  BY <1>1, <1>3
<1>5. ASSUME NEW j \in DOMAIN chan, j > LastFor(p) PROVE p \notin PathsOf(chan[j])
  BY <1>2, <1>4, <1>5
<1> QED  BY <1>4, <1>5 DEF LastIn

\* Of what the watcher says of a path the last word is the truth, wherever it waits: an
\* immediate event and the debounce of one path do not overtake each other, nor do the
\* table and the channel, whatever is dropped, paused or crashes between them
\* (mod.rs:668-708).
THEOREM LiveOrderCorrect == Spec => []LiveOrder
<1>1. Init => PlainWatch /\ OrderInv
  <2> SUFFICES ASSUME Init PROVE PlainWatch /\ OrderInv
    OBVIOUS
  <2>1. PlainWatch /\ Sources /\ Deaf
    BY DEF Init, PlainWatch, Sources, Deaf
  <2>2. ASSUME NEW p PROVE Tells(p)
    BY DEF Init, Tells, WatchTells, DebounceTells, HandTells, ChanTells, Debounced, InHand,
           Among
  <2> QED  BY <2>1, <2>2 DEF OrderInv
<1>2. Inv /\ OrderInv => LiveOrder
  <2> SUFFICES ASSUME Inv, OrderInv, NEW p \in Paths, LastFor(p) > 0, Settled(p),
                      chan[LastFor(p)].src = "live"
               PROVE  MeansPresent(chan[LastFor(p)], p) <=> p \in exists
    BY DEF LiveOrder
  <2>1. LastIn(chan, LastFor(p), p)
    BY LastForIs DEF Inv, TypeOK
  <2>2. LastFor(p) \in DOMAIN chan
    BY <2>1 DEF LastIn
  <2>3. Past(p) /\ p \notin missed
    BY DEF Settled, Past, InHand, Debounced, Kept, Among
  <2> QED  BY <2>1, <2>2, <2>3 DEF OrderInv, Tells, ChanTells
<1> QED  BY <1>1, <1>2, Invariant, PlainStep, OrderStep, PTL DEF Spec
=============================================================================
