----------------------------- MODULE ScanProofs -----------------------------
(* Proofs about module Scan: types, that no file that is there is ordered away, that
   every upload a scan orders has the id of its folder, that no path gets a second
   object, and that a whole scan repairs what differs, for all trees, changes and
   faults. *)
EXTENDS Scan, FiniteSetTheorems, TLAPS

USE ScanAssumption DEF Root, Nodes

\* Objects whose folder is one of the first k.
Objects(k) == [path : Nodes, in : 0..k, c : Full \cup {"folder"}, live : BOOLEAN]

LEMMA MoreObjects ==
  ASSUME NEW k \in Nat, NEW l \in Nat, k <= l
  PROVE  Objects(k) \subseteq Objects(l)
BY DEF Objects

\* A new object, and a change of one that exists, keep the type of the Drive.
LEMMA Appended ==
  ASSUME NEW s, s \in Seq(Objects(Len(s))), NEW o \in Objects(Len(s))
  PROVE  /\ Append(s, o) \in Seq(Objects(Len(Append(s, o))))
         /\ Len(Append(s, o)) = Len(s) + 1
<1>1. Len(Append(s, o)) = Len(s) + 1 /\ Append(s, o) \in Seq(Objects(Len(s)))
  OBVIOUS
<1>2. Objects(Len(s)) \subseteq Objects(Len(s) + 1)
  BY MoreObjects
<1> QED  BY <1>1, <1>2

LEMMA Altered ==
  ASSUME NEW s, s \in Seq(Objects(Len(s))), NEW i \in 1..Len(s),
         NEW o \in Objects(Len(s))
  PROVE  /\ [s EXCEPT ![i] = o] \in Seq(Objects(Len([s EXCEPT ![i] = o])))
         /\ Len([s EXCEPT ![i] = o]) = Len(s)
OBVIOUS

LEMMA Edited ==
  ASSUME NEW k \in Nat, NEW x \in Objects(k), NEW c \in Full
  PROVE  /\ [x EXCEPT !.c = c] \in Objects(k)
         /\ [x EXCEPT !.live = FALSE] \in Objects(k)
         /\ [x EXCEPT !.c = c].path = x.path /\ [x EXCEPT !.live = FALSE].path = x.path
         /\ [x EXCEPT !.c = c].in = x.in /\ [x EXCEPT !.live = FALSE].in = x.in
         /\ [x EXCEPT !.c = c].live = x.live /\ ~[x EXCEPT !.live = FALSE].live
BY DEF Objects

\* What a step makes of the Drive.
DriveType == drive \in Seq(Objects(Len(drive)))
Grown == DriveType' /\ Len(drive) \in Nat /\ Len(drive') \in Nat /\ Len(drive) <= Len(drive')

LEMMA ReplacedGrows ==
  ASSUME TypeOK, NEW i \in 1..Len(drive), NEW o \in Objects(Len(drive)),
         drive' = [drive EXCEPT ![i] = o]
  PROVE  Grown /\ Len(drive') = Len(drive)
<1>1. DriveType /\ Len(drive) \in Nat
  BY DEF TypeOK, DriveType, Objects
<1> QED  BY <1>1, Altered DEF Grown, DriveType

LEMMA ParentType == \A n \in Files : Parent[n] # Root => Parent[n] \in Dirs
OBVIOUS

LEMMA StoredGrows ==
  ASSUME TypeOK, NEW p \in Files, Sendable(p), Stored(p)
  PROVE  Grown /\ (cache[p] = 0 => Len(drive') = Len(drive) + 1)
<1>1. DriveType /\ Len(drive) \in Nat /\ cache[p] \in 0..Len(drive)
  BY DEF TypeOK, DriveType, Objects
<1>2. file[p] \in Full
  BY DEF Sendable
<1>3. CASE cache[p] = 0
  <2>1. Folder(p) \in 0..Len(drive)
    BY ParentType, <1>1 DEF Folder, TypeOK
  <2>2. Object(p, Folder(p), file[p]) \in Objects(Len(drive))
    BY <2>1, <1>2 DEF Object, Objects
  <2>3. drive' = Append(drive, Object(p, Folder(p), file[p]))
    BY <1>3 DEF Stored
  <2> QED  BY <1>1, <2>2, <2>3, Appended DEF Grown, DriveType
<1>4. CASE cache[p] # 0
  <2> DEFINE i == cache[p]
             o == [drive[i] EXCEPT !.c = file[p]]
  <2>1. i \in 1..Len(drive)
    BY <1>1, <1>4
  <2>2. o \in Objects(Len(drive))
    <3>1. drive[i] \in Objects(Len(drive))
      BY <2>1, <1>1 DEF DriveType
    <3> QED  BY <3>1, <1>1, <1>2, Edited
  <2>3. drive' = [drive EXCEPT ![i] = o]
    BY <1>4 DEF Stored
  <2> HIDE DEF i, o
  <2> QED  BY <1>1, <1>4, <2>1, <2>2, <2>3, Altered DEF Grown, DriveType
<1> QED  BY <1>3, <1>4

LEMMA OffGrows ==
  ASSUME TypeOK, NEW i \in 1..Len(drive), drive' = [drive EXCEPT ![i].live = FALSE]
  PROVE  Grown
<1>1. DriveType /\ Len(drive) \in Nat
  BY DEF TypeOK, DriveType, Objects
<1>2. [drive[i] EXCEPT !.live = FALSE] \in Objects(Len(drive))
  <2>1. drive[i] \in Objects(Len(drive))
    BY <1>1 DEF DriveType
  <2>2. "a" \in Full
    BY DEF Full
  <2> QED  BY <2>1, <2>2, <1>1, Edited
<1>3. drive' = [drive EXCEPT ![i] = [drive[i] EXCEPT !.live = FALSE]]
  OBVIOUS
<1> QED  BY <1>2, <1>3, ReplacedGrows

LEMMA TrashedGrows ==
  ASSUME TypeOK, NEW p \in Files, Trashed(p)
  PROVE  Grown
<1>1. DriveType /\ Len(drive) \in Nat /\ cache[p] \in 0..Len(drive)
  BY DEF TypeOK, DriveType, Objects
<1>2. CASE cache[p] = 0
  BY <1>1, <1>2 DEF Trashed, Grown, DriveType
<1>3. CASE cache[p] # 0
  <2>1. cache[p] \in 1..Len(drive)
    BY <1>1, <1>3
  <2>2. drive' = [drive EXCEPT ![cache[p]].live = FALSE]
    BY <1>3 DEF Trashed
  <2> QED  BY <2>1, <2>2, OffGrows
<1> QED  BY <1>2, <1>3

\* The part of the type that only depends on the Drive getting no shorter.
LEMMA GrownIds ==
  ASSUME TypeOK, Grown
  PROVE  /\ cache \in [Nodes -> 0..Len(drive')]
         /\ found \in [Nodes -> 0..Len(drive')]
         /\ drive' \in Seq([path : Nodes, in : 0..Len(drive'),
                            c : Full \cup {"folder"}, live : BOOLEAN])
BY DEF TypeOK, Grown, DriveType, Objects

LEMMA SameDrive ==
  ASSUME TypeOK, UNCHANGED drive
  PROVE  Grown
BY DEF TypeOK, Grown, DriveType, Objects

-----------------------------------------------------------------------------
(* Types *)

LEMMA InitType == Init => TypeOK
<1> SUFFICES ASSUME Init PROVE TypeOK
  OBVIOUS
<1>1. DriveType
  <2>1. CASE drive = <<>>
    BY <2>1 DEF DriveType
  <2>2. CASE \E d \in Dirs : drive = <<Object(d, 0, "folder")>>
    BY <2>2 DEF DriveType, Object, Objects
  <2>3. CASE \E p \in Files, c \in Full : drive = <<Object(p, 0, c)>>
    BY <2>3 DEF DriveType, Object, Objects
  <2>4. CASE \E p \in Files, c \in Full :
                /\ Parent[p] \in Dirs
                /\ drive = <<Object(Parent[p], 0, "folder"), Object(p, 1, c)>>
    BY <2>4 DEF DriveType, Object, Objects
  <2> QED  BY <2>1, <2>2, <2>3, <2>4 DEF Init
<1>2. cache \in [Nodes -> 0..Len(drive)] /\ found \in [Nodes -> 0..Len(drive)]
  BY <1>1 DEF Init, Nowhere, DriveType
<1> QED  BY <1>1, <1>2 DEF Init, TypeOK, DriveType, Objects, Contents, Full

LEMMA UpsertType ==
  ASSUME TypeOK, NEW p \in Files, Upsert(p)
  PROVE  row' \in [Files -> Contents \cup {"none"}] /\ fresh' \subseteq Files
BY DEF TypeOK, Upsert

LEMMA ForgottenType ==
  ASSUME Grown, Forgotten
  PROVE  /\ found' \in [Nodes -> 0..Len(drive')]
         /\ walked' = {} /\ left' = {} /\ known' = {}
BY DEF Forgotten, Nowhere, Grown

LEMMA UserType == TypeOK /\ User => TypeOK'
<1> SUFFICES ASSUME TypeOK, User PROVE TypeOK'
  OBVIOUS
<1> USE DEF scanVars, taskVars, diskVars
<1>1. ASSUME NEW p \in Files, Write(p) PROVE TypeOK'
  BY <1>1 DEF TypeOK, Write, Change, Slips
<1>2. ASSUME NEW p \in Files, Remove(p) PROVE TypeOK'
  BY <1>2 DEF TypeOK, Remove, Change
<1>3. ASSUME NEW d \in Dirs, MakeDir(d) PROVE TypeOK'
  BY <1>3 DEF TypeOK, MakeDir, Change
<1>4. ASSUME NEW d \in Dirs, RemoveDir(d) PROVE TypeOK'
  BY <1>4 DEF TypeOK, RemoveDir, Change, Under
<1>5. ASSUME NEW i \in 1..Len(drive), RemoteTrash(i) PROVE TypeOK'
  <2>1. Grown
    BY <1>5, OffGrows DEF RemoteTrash
  <2>2. Under(drive[i].path) \subseteq Nodes
    BY DEF Under
  <2>3. doubt' \subseteq Nodes /\ slips' \subseteq Nodes \X Slips
    BY <1>5, <2>2 DEF TypeOK, RemoteTrash, Change, Slips
  <2>4. /\ cache \in [Nodes -> 0..Len(drive')]
        /\ found \in [Nodes -> 0..Len(drive')]
        /\ drive' \in Seq([path : Nodes, in : 0..Len(drive'),
                           c : Full \cup {"folder"}, live : BOOLEAN])
    BY <2>1, GrownIds
  <2>5. changes' \in 0..MaxChanges
    BY <1>5 DEF TypeOK, RemoteTrash, Change
  <2> HIDE DEF Nodes
  <2> QED  BY <1>5, <2>3, <2>4, <2>5 DEF TypeOK, RemoteTrash, Change
<1> QED  BY <1>1, <1>2, <1>3, <1>4, <1>5 DEF User

LEMMA ScanningType == TypeOK /\ Scanning => TypeOK'
<1> SUFFICES ASSUME TypeOK, Scanning PROVE TypeOK'
  OBVIOUS
<1> USE DEF taskVars, diskVars, indexVars, Local
<1>1. CASE Begin
  <2>1. doubt' \subseteq Nodes
    BY <1>1 DEF TypeOK, Begin, Tasks
  <2> QED  BY <1>1, <2>1 DEF TypeOK, Begin
<1>2. CASE List
  BY <1>2 DEF TypeOK, List
<1>3. CASE ListFails
  <2>1. slips' \subseteq Nodes \X Slips
    BY <1>3 DEF TypeOK, ListFails, Slips
  <2>2. found' \in [Nodes -> 0..Len(drive)]
    BY <1>3, SameDrive DEF ListFails, Nowhere, Grown
  <2> QED  BY <1>3, <2>1, <2>2 DEF TypeOK, ListFails
<1>4. CASE Fill
  <2>1. slips' \subseteq Nodes \X Slips
    BY <1>4 DEF TypeOK, Fill, Slips
  <2>2. cache' \in [Nodes -> 0..Len(drive)]
    BY <1>4 DEF TypeOK, Fill
  <2> QED  BY <1>4, <2>1, <2>2 DEF TypeOK, Fill
<1>5. CASE Walk
  BY <1>5 DEF TypeOK, Walk
<1>6. ASSUME NEW d \in Dirs, MkDir(d) PROVE TypeOK'
  <2>1. DriveType /\ Len(drive) \in Nat
    BY DEF TypeOK, DriveType, Objects
  <2>2. /\ phase' = phase /\ left' \subseteq left
        /\ faults' \in 0..MaxFaults
    BY <1>6 DEF MkDir, TypeOK
  <2>3. CASE /\ drive' = drive
             /\ cache' = cache \/ \E i \in Copies(d) : cache' = [cache EXCEPT ![d] = i]
    <3>0. Copies(d) \subseteq 0..Len(drive)
      BY <2>1 DEF Copies
    <3>1. cache' \in [Nodes -> 0..Len(drive)]
      BY <2>3, <3>0 DEF TypeOK
    <3> QED  BY <1>6, <2>2, <2>3, <3>1 DEF TypeOK, MkDir
  <2>4. CASE /\ drive' = Append(drive, Object(d, Folder(d), "folder"))
             /\ cache' = cache \/ cache' = [cache EXCEPT ![d] = Len(drive) + 1]
    <3>0. Folder(d) = 0 /\ 0 \in 0..Len(drive)
      BY <2>1 DEF Folder
    <3>1. Object(d, Folder(d), "folder") \in Objects(Len(drive))
      BY <3>0 DEF Object, Objects
    <3>2. Grown /\ Len(drive') = Len(drive) + 1
      BY <2>1, <2>4, <3>1, Appended DEF Grown, DriveType
    <3>3. cache' = cache \/ cache' = [cache EXCEPT ![d] = Len(drive')]
      BY <2>4, <3>2
    <3>4. cache' \in [Nodes -> 0..Len(drive')]
      BY <3>2, <3>3, GrownIds DEF Grown
    <3> QED  BY <1>6, <2>2, <3>2, <3>4, GrownIds DEF TypeOK, MkDir
  <2> QED  BY <1>6, <2>3, <2>4 DEF MkDir
<1>7. CASE ReadIndex
  BY <1>7 DEF TypeOK, ReadIndex
<1>8. ASSUME NEW p \in Files, Compare(p) PROVE TypeOK'
  <2>1. row' \in [Files -> Contents \cup {"none"}] /\ fresh' \subseteq Files
    BY <1>8, UpsertType DEF Compare, TypeOK
  <2>2. toSync' \subseteq Files /\ slips' \subseteq Nodes \X Slips
    BY <1>8 DEF Compare, TypeOK, Slips
  <2> QED  BY <1>8, <2>1, <2>2 DEF TypeOK, Compare
<1>9. CASE Compared
  <2>1. found' \in [Nodes -> 0..Len(drive')] /\ walked' = {} /\ left' = {} /\ known' = {}
    BY <1>9, SameDrive, ForgottenType DEF Compared
  <2>2. toSync' \subseteq Files /\ toDelete' \subseteq Files
    BY <1>9 DEF TypeOK, Compared, Listed
  <2> QED  BY <1>9, <2>1, <2>2 DEF TypeOK, Compared
<1>10. CASE SendTask
  <2>1. chan' \subseteq Tasks
    BY <1>10 DEF TypeOK, SendTask, Tasks, Sync, Delete
  <2> QED  BY <1>10, <2>1 DEF TypeOK, SendTask
<1>11. CASE Finish
  BY <1>11 DEF TypeOK, Finish
<1>12. CASE Cut
  <2>1. found' \in [Nodes -> 0..Len(drive')] /\ walked' = {} /\ left' = {} /\ known' = {}
    BY <1>12, SameDrive, ForgottenType DEF Cut
  <2> QED  BY <1>12, <2>1 DEF TypeOK, Cut
<1> QED  BY <1>1, <1>2, <1>3, <1>4, <1>5, <1>6, <1>7, <1>8, <1>9, <1>10, <1>11, <1>12
         DEF Scanning

LEMMA WorkingType == TypeOK /\ Working => TypeOK'
<1> SUFFICES ASSUME TypeOK, Working PROVE TypeOK'
  OBVIOUS
<1> USE DEF scanVars, diskVars, indexVars, Local
<1>1. ASSUME NEW t \in chan, Take(t) PROVE TypeOK'
  BY <1>1 DEF TypeOK, Take
<1>2. ASSUME NEW p \in Files, Synced(p) PROVE TypeOK'
  <2>1. work' \subseteq Tasks /\ slips' \subseteq Nodes \X Slips
    BY <1>2 DEF TypeOK, Synced
  <2>2. row' \in [Files -> Contents \cup {"none"}] /\ fresh' \subseteq Files
    BY <1>2, UpsertType DEF Synced, TypeOK
  <2>3. CASE UNCHANGED <<drive, cache>>
    BY <1>2, <2>1, <2>2, <2>3 DEF TypeOK, Synced
  <2>4. CASE /\ Sendable(p) /\ Stored(p)
             /\ cache' = [cache EXCEPT ![p] = IF @ = 0 THEN Len(drive) + 1 ELSE @]
    <3>1. Grown /\ (cache[p] = 0 => Len(drive') = Len(drive) + 1)
      BY <2>4, StoredGrows
    <3>2. cache \in [Nodes -> 0..Len(drive')]
      BY <3>1, GrownIds
    <3>3. (IF cache[p] = 0 THEN Len(drive) + 1 ELSE cache[p]) \in 0..Len(drive')
      BY <3>1, <3>2 DEF Grown
    <3>4. cache' \in [Nodes -> 0..Len(drive')]
      BY <2>4, <3>2, <3>3
    <3> QED  BY <1>2, <2>1, <2>2, <3>1, <3>4, GrownIds DEF TypeOK, Synced
  <2> QED  BY <1>2, <2>3, <2>4 DEF Synced
<1>3. ASSUME NEW p \in Files, Deleted(p) PROVE TypeOK'
  <2>1. Grown
    BY <1>3, TrashedGrows DEF Deleted
  <2>2. cache' \in [Nodes -> 0..Len(drive')]
    BY <1>3, <2>1, GrownIds DEF Deleted, Grown
  <2>3. /\ row' \in [Files -> Contents \cup {"none"}] /\ fresh' \subseteq Files
        /\ work' \subseteq Tasks /\ slips' \subseteq Nodes \X Slips
    BY <1>3 DEF TypeOK, Deleted
  <2> QED  BY <1>3, <2>1, <2>2, <2>3, GrownIds DEF TypeOK, Deleted
<1>4. ASSUME NEW t \in work, Failed(t) PROVE TypeOK'
  <2>1. t.path \in Files
    BY DEF TypeOK, Tasks
  <2>2. Grown
    BY <1>4, <2>1, SameDrive, StoredGrows, TrashedGrows DEF Failed
  <2>3. doubt' \subseteq Nodes /\ slips' \subseteq Nodes \X Slips
    BY <1>4, <2>1 DEF TypeOK, Failed, Slips
  <2>4. faults' \in 0..MaxFaults /\ work' \subseteq Tasks
    BY <1>4 DEF TypeOK, Failed
  <2> QED  BY <1>4, <2>2, <2>3, <2>4, GrownIds DEF TypeOK, Failed
<1>5. ASSUME NEW p \in Files, Hopeless(p) PROVE TypeOK'
  BY <1>5 DEF TypeOK, Hopeless
<1> QED  BY <1>1, <1>2, <1>3, <1>4, <1>5 DEF Working

LEMMA CrashType == TypeOK /\ Crash => TypeOK'
<1> SUFFICES ASSUME TypeOK, Crash PROVE TypeOK'
  OBVIOUS
<1> USE DEF diskVars, indexVars, Local
<1>1. Grown
  BY SameDrive, StoredGrows, TrashedGrows DEF Crash
<1>2. found' \in [Nodes -> 0..Len(drive')] /\ walked' = {} /\ left' = {} /\ known' = {}
  BY <1>1, ForgottenType DEF Crash
<1>3. cache' \in [Nodes -> 0..Len(drive')]
  BY <1>1 DEF Crash, Nowhere, Grown
<1>4. faults' \in 0..MaxFaults
  BY DEF TypeOK, Crash
<1> QED  BY <1>1, <1>2, <1>3, <1>4, GrownIds DEF TypeOK, Crash

LEMMA StepType == TypeOK /\ [Next]_vars => TypeOK'
<1> SUFFICES ASSUME TypeOK, [Next]_vars PROVE TypeOK'
  OBVIOUS
<1>1. CASE UNCHANGED vars
  BY <1>1 DEF TypeOK, vars, diskVars, indexVars, scanVars, taskVars, histVars
<1> QED  BY <1>1, UserType, ScanningType, WorkingType, CrashType DEF Next

\* The Drive, the cache, the index and the tasks keep their types: an id in the cache
\* is one that the Drive has given (path_cache.rs:48).
THEOREM TypeCorrect == Spec => []TypeOK
BY InitType, StepType, PTL DEF Spec

-----------------------------------------------------------------------------
(* What a scan orders *)

\* Below DeletesAbsent: what the walk met is what is there, but for what is in doubt,
\* and orphans wait only while they are sent.
WalkInv ==
    /\ phase \in {"dirs", "compare"} =>
          \A p \in Files \ doubt : file[p] # "none" => p \in walked
    /\ phase # "send" => toDelete = {}

\* Below ParentCached: a file has its folder, on the disk and in the walk, and the
\* folders of the walk are in the cache before files are compared.
FolderInv ==
    /\ \A p \in Files : file[p] # "none" => Parent[p] \in dirs \cup {Root}
    /\ phase \in {"dirs", "compare"} =>
          \A p \in Files \cap walked : Parent[p] \in walked \cup {Root}
    /\ phase = "dirs" => \A d \in Dirs \cap walked : d \in left \/ cache[d] # 0
    /\ phase = "compare" => /\ left \subseteq walked \cap Files
                           /\ \A d \in Dirs \cap walked : cache[d] # 0
    /\ \A p \in toSync : HasFolder(p)

LEMMA AbsentStep ==
  TypeOK /\ WalkInv /\ DeletesAbsent /\ [Next]_vars => WalkInv' /\ DeletesAbsent'
<1> SUFFICES ASSUME TypeOK, WalkInv, DeletesAbsent, [Next]_vars
             PROVE  WalkInv' /\ DeletesAbsent'
  OBVIOUS
<1> USE DEF WalkInv, DeletesAbsent, Ordered, diskVars, indexVars, scanVars, taskVars
<1>1. CASE User
  <2>1. ASSUME NEW p \in Files, Write(p) \/ Remove(p) PROVE WalkInv' /\ DeletesAbsent'
    BY <2>1 DEF Write, Remove, Change, TypeOK
  <2>2. ASSUME NEW d \in Dirs, MakeDir(d) PROVE WalkInv' /\ DeletesAbsent'
    BY <2>2 DEF MakeDir, Change
  <2>3. ASSUME NEW d \in Dirs, RemoveDir(d) PROVE WalkInv' /\ DeletesAbsent'
    BY <2>3 DEF RemoveDir, Change
  <2>4. ASSUME NEW i \in 1..Len(drive), RemoteTrash(i) PROVE WalkInv' /\ DeletesAbsent'
    BY <2>4 DEF RemoteTrash, Change
  <2> QED  BY <1>1, <2>1, <2>2, <2>3, <2>4 DEF User
<1>2. CASE Scanning
  <2> USE DEF Local
  <2>1. CASE Begin
    <3>1. \A p \in Files \ doubt' : Delete(p) \notin chan \cup work
      <4> SUFFICES ASSUME NEW p \in Files, Delete(p) \in chan \cup work
                   PROVE  p \in doubt'
        OBVIOUS
      <4>1. Delete(p).path = p
        BY DEF Delete
      <4>2. doubt' = {t.path : t \in chan \cup work}
        BY <2>1 DEF Begin
      <4> QED  BY <4>1, <4>2
    <3> QED  BY <2>1, <3>1 DEF Begin
  <2>2. CASE List \/ ListFails \/ Fill
    BY <2>2 DEF List, ListFails, Fill
  <2>3. CASE Walk
    BY <2>3 DEF Walk
  <2>4. ASSUME NEW d \in Dirs, MkDir(d) PROVE WalkInv' /\ DeletesAbsent'
    BY <2>4 DEF MkDir
  <2>5. CASE ReadIndex
    BY <2>5 DEF ReadIndex
  <2>6. ASSUME NEW p \in Files, Compare(p) PROVE WalkInv' /\ DeletesAbsent'
    BY <2>6 DEF Compare
  <2>7. CASE Compared
    BY <2>7 DEF Compared
  <2>8. CASE SendTask
    BY <2>8 DEF SendTask, Sync, Delete
  <2>9. CASE Finish \/ Cut
    BY <2>9 DEF Finish, Cut
  <2> QED  BY <1>2, <2>1, <2>2, <2>3, <2>4, <2>5, <2>6, <2>7, <2>8, <2>9 DEF Scanning
<1>3. CASE Working
  <2> USE DEF Local
  <2>1. ASSUME NEW t \in chan, Take(t) PROVE WalkInv' /\ DeletesAbsent'
    BY <2>1 DEF Take
  <2>2. ASSUME NEW p \in Files, Synced(p) \/ Deleted(p) \/ Hopeless(p)
        PROVE  WalkInv' /\ DeletesAbsent'
    BY <2>2 DEF Synced, Deleted, Hopeless
  <2>3. ASSUME NEW t \in work, Failed(t) PROVE WalkInv' /\ DeletesAbsent'
    BY <2>3 DEF Failed
  <2> QED  BY <1>3, <2>1, <2>2, <2>3 DEF Working
<1>4. CASE Crash
  BY <1>4 DEF Crash, Local
<1>5. CASE UNCHANGED vars
  BY <1>5 DEF vars, histVars
<1> QED  BY <1>1, <1>2, <1>3, <1>4, <1>5 DEF Next

LEMMA FolderStep ==
  TypeOK /\ FolderInv /\ ParentCached /\ [Next]_vars => FolderInv' /\ ParentCached'
<1> SUFFICES ASSUME TypeOK, FolderInv, ParentCached, [Next]_vars
             PROVE  FolderInv' /\ ParentCached'
  OBVIOUS
<1> USE DEF FolderInv, ParentCached, Ordered, HasFolder, diskVars, indexVars, scanVars,
            taskVars
<1>1. CASE User
  <2>1. ASSUME NEW p \in Files, Write(p) \/ Remove(p) PROVE FolderInv' /\ ParentCached'
    BY <2>1 DEF Write, Remove, Change, TypeOK
  <2>2. ASSUME NEW d \in Dirs, MakeDir(d) PROVE FolderInv' /\ ParentCached'
    BY <2>2 DEF MakeDir, Change
  <2>3. ASSUME NEW d \in Dirs, RemoveDir(d) PROVE FolderInv' /\ ParentCached'
    BY <2>3 DEF RemoveDir, Change
  <2>4. ASSUME NEW i \in 1..Len(drive), RemoteTrash(i) PROVE FolderInv' /\ ParentCached'
    BY <2>4 DEF RemoteTrash, Change
  <2> QED  BY <1>1, <2>1, <2>2, <2>3, <2>4 DEF User
<1>2. CASE Scanning
  <2> USE DEF Local
  <2>1. CASE Begin \/ List \/ ListFails
    BY <2>1 DEF Begin, List, ListFails
  <2>2. CASE Fill
    <3>1. \A n \in Nodes : cache[n] # 0 => cache'[n] # 0
      BY <2>2 DEF Fill
    <3> QED  BY <2>2, <3>1, ParentType DEF Fill, TypeOK
  <2>3. CASE Walk
    BY <2>3 DEF Walk, TypeOK
  <2>4. ASSUME NEW d \in Dirs, MkDir(d) PROVE FolderInv' /\ ParentCached'
    <3>1. Len(drive) \in Nat
      BY DEF TypeOK
    <3>2. /\ \A n \in Nodes : cache[n] # 0 => cache'[n] # 0
          /\ left' = left \/ (left' = left \ {d} /\ cache'[d] # 0)
      BY <2>4, <3>1 DEF MkDir, TypeOK, Copies
    <3> QED  BY <2>4, <3>2, ParentType DEF MkDir, TypeOK
  <2>5. CASE ReadIndex
    BY <2>5 DEF ReadIndex
  <2>6. ASSUME NEW p \in Files, Compare(p) PROVE FolderInv' /\ ParentCached'
    <3>1. HasFolder(p)
      BY <2>6, ParentType DEF Compare
    <3> QED  BY <2>6, <3>1 DEF Compare
  <2>7. CASE Compared
    BY <2>7 DEF Compared
  <2>8. CASE SendTask
    BY <2>8 DEF SendTask, Sync, Delete
  <2>9. CASE Finish \/ Cut
    BY <2>9 DEF Finish, Cut
  <2> QED  BY <1>2, <2>1, <2>2, <2>3, <2>4, <2>5, <2>6, <2>7, <2>8, <2>9 DEF Scanning
<1>3. CASE Working
  <2> USE DEF Local
  <2>1. ASSUME NEW t \in chan, Take(t) PROVE FolderInv' /\ ParentCached'
    BY <2>1 DEF Take
  <2>2. ASSUME NEW p \in Files, Synced(p) \/ Deleted(p) \/ Hopeless(p)
        PROVE  FolderInv' /\ ParentCached'
    <3>1. \A d \in Dirs : cache'[d] = cache[d]
      BY <2>2 DEF Synced, Deleted, Hopeless, TypeOK
    <3> QED  BY <2>2, <3>1, ParentType DEF Synced, Deleted, Hopeless, TypeOK
  <2>3. ASSUME NEW t \in work, Failed(t) PROVE FolderInv' /\ ParentCached'
    BY <2>3 DEF Failed
  <2> QED  BY <1>3, <2>1, <2>2, <2>3 DEF Working
<1>4. CASE Crash
  BY <1>4 DEF Crash, Local
<1>5. CASE UNCHANGED vars
  BY <1>5 DEF vars, histVars
<1> QED  BY <1>1, <1>2, <1>3, <1>4, <1>5 DEF Next

\* A scan orders no deletion of a file that is there, whatever changes, fails or ends
\* meanwhile, unless the path is in doubt (scan.rs:372, scan.rs:403).
THEOREM AbsentCorrect == Spec => []DeletesAbsent
<1>1. Init => WalkInv /\ DeletesAbsent
  BY DEF Init, WalkInv, DeletesAbsent, Ordered
<1> QED  BY <1>1, TypeCorrect, AbsentStep, PTL DEF Spec

\* Every upload that a scan orders finds the id of its folder, over scans that are cut,
\* folders that cannot be made, and restarts (worker.rs:107-118, scan.rs:205).
THEOREM ParentCorrect == Spec => []ParentCached
<1>1. Init => FolderInv /\ ParentCached
  BY DEF Init, FolderInv, ParentCached, Ordered
<1> QED  BY <1>1, TypeCorrect, FolderStep, PTL DEF Spec

-----------------------------------------------------------------------------
(* Copies *)

Clear(n) == {<<n, "doubled">>, <<n, "stale">>} \cap slips = {}

\* The files a scan may create are those that the Drive does not have: without an id in
\* the cache there is no copy, from the end of the listing to the end of the upload, and
\* after a whole scan of any file.
Awaited(p) ==
    \/ phase \in {"walk", "dirs", "compare", "send"}
    \/ phase = "idle" /\ extent = "whole"
    \/ p \in toSync
    \/ Sync(p) \in Ordered

CopyInv ==
    /\ \A i \in 1..Len(drive) : drive[i].path \in Dirs => drive[i].in = 0
    /\ \A p \in Files : found[p] # 0 => drive[found[p]].path = p
    /\ \A n \in Nodes : Clear(n) => \A i, j \in Copies(n) : i = j
    /\ \A p \in Files : Clear(p) /\ cache[p] # 0 => Copies(p) \subseteq {cache[p]}
    /\ \A p \in Files : Clear(p) /\ cache[p] = 0 /\ Awaited(p) => Copies(p) = {}
    /\ phase = "fill" =>
          \A p \in Files : Clear(p) /\ cache[p] = 0 /\ found[p] = 0 => Copies(p) = {}

\* No step but a creation makes a copy.
Kept ==
    /\ Len(drive') = Len(drive) /\ Len(drive) \in Nat
    /\ \A i \in 1..Len(drive) : /\ drive'[i].path = drive[i].path
                                /\ drive'[i].in = drive[i].in
                                /\ drive'[i].live => drive[i].live

Created(n) ==
    /\ Len(drive') = Len(drive) + 1 /\ Len(drive) \in Nat
    /\ \A i \in 1..Len(drive) : drive'[i] = drive[i]
    /\ drive'[Len(drive')].path = n
    /\ n \in Dirs => drive'[Len(drive')].in = 0

LEMMA Elements ==
  ASSUME TypeOK
  PROVE  /\ Len(drive) \in Nat
         /\ \A i \in 1..Len(drive) : /\ drive[i] \in Objects(Len(drive))
                                     /\ drive[i].in \in 0..Len(drive)
<1>1. drive \in Seq(Objects(Len(drive)))
  BY DEF TypeOK, Objects
<1>2. Len(drive) \in Nat /\ \A i \in 1..Len(drive) : drive[i] \in Objects(Len(drive))
  BY <1>1
<1>3. \A o \in Objects(Len(drive)) : o.in \in 0..Len(drive)
  BY DEF Objects
<1> QED  BY <1>2, <1>3

LEMMA KeptCopies ==
  ASSUME TypeOK, Kept
  PROVE  \A n \in Nodes : Copies(n)' \subseteq Copies(n)
<1>1. Len(drive) \in Nat /\ \A i \in 1..Len(drive) : drive[i].in \in 0..Len(drive)
  BY Elements
<1>2. ASSUME NEW i \in 1..Len(drive), Visible(i)' PROVE Visible(i)
  <2>1. CASE drive[i].in = 0
    BY <1>2, <2>1 DEF Kept, Visible
  <2>2. CASE drive[i].in \in 1..Len(drive)
    BY <1>2, <2>2 DEF Kept, Visible
  <2> QED  BY <1>1, <2>1, <2>2 DEF Kept
<1> QED  BY <1>2 DEF Kept, Copies

LEMMA CreatedCopies ==
  ASSUME TypeOK, NEW m \in Nodes, Created(m)
  PROVE  /\ \A n \in Nodes \ {m} : Copies(n)' \subseteq Copies(n)
         /\ Copies(m)' \subseteq Copies(m) \cup {Len(drive')}
<1>1. Len(drive) \in Nat /\ \A i \in 1..Len(drive) : drive[i].in \in 0..Len(drive)
  BY Elements
<1>2. ASSUME NEW i \in 1..Len(drive), Visible(i)' PROVE Visible(i)
  <2>1. CASE drive[i].in = 0
    BY <1>2, <2>1 DEF Created, Visible
  <2>2. CASE drive[i].in \in 1..Len(drive)
    BY <1>2, <2>2 DEF Created, Visible
  <2> QED  BY <1>1, <2>1, <2>2 DEF Created
<1>3. \A n \in Nodes : Copies(n)' \subseteq Copies(n) \cup {Len(drive')}
  BY <1>2 DEF Created, Copies
<1>4. \A n \in Nodes \ {m} : Len(drive') \notin Copies(n)'
  BY DEF Created, Copies
<1> QED  BY <1>3, <1>4

LEMMA SameKept ==
  ASSUME TypeOK, UNCHANGED drive
  PROVE  Kept
BY DEF TypeOK, Kept

LEMMA OffKept ==
  ASSUME TypeOK, NEW i \in 1..Len(drive), drive' = [drive EXCEPT ![i].live = FALSE]
  PROVE  Kept
<1>1. Len(drive) \in Nat /\ drive[i] \in Objects(Len(drive)) /\ "a" \in Full
  BY Elements DEF Full
<1>2. drive' = [drive EXCEPT ![i] = [drive[i] EXCEPT !.live = FALSE]]
  OBVIOUS
<1> QED  BY <1>1, <1>2, Edited DEF TypeOK, Kept

LEMMA TrashedKept ==
  ASSUME TypeOK, NEW p \in Files, Trashed(p)
  PROVE  Kept
<1>1. CASE cache[p] = 0
  BY <1>1, SameKept DEF Trashed
<1>2. CASE cache[p] # 0
  <2>1. cache[p] \in 1..Len(drive)
    BY <1>2 DEF TypeOK
  <2>2. drive' = [drive EXCEPT ![cache[p]].live = FALSE]
    BY <1>2 DEF Trashed
  <2> QED  BY <2>1, <2>2, OffKept
<1> QED  BY <1>1, <1>2

LEMMA StoredCopies ==
  ASSUME TypeOK, NEW p \in Files, Sendable(p), Stored(p)
  PROVE  IF cache[p] = 0 THEN Created(p) ELSE Kept
<1>1. Len(drive) \in Nat /\ cache[p] \in 0..Len(drive)
  BY DEF TypeOK
<1>2. CASE cache[p] = 0
  <2>1. drive' = Append(drive, Object(p, Folder(p), file[p]))
    BY <1>2 DEF Stored
  <2>2. p \notin Dirs
    OBVIOUS
  <2> QED  BY <1>1, <1>2, <2>1, <2>2 DEF TypeOK, Created, Object
<1>3. CASE cache[p] # 0
  <2>1. cache[p] \in 1..Len(drive)
    BY <1>1, <1>3
  <2>2. drive[cache[p]] \in Objects(Len(drive)) /\ file[p] \in Full
    BY <2>1, Elements DEF Sendable
  <2>3. drive' = [drive EXCEPT ![cache[p]] = [drive[cache[p]] EXCEPT !.c = file[p]]]
    BY <1>3 DEF Stored
  <2>4. Kept
    BY <1>1, <2>1, <2>2, <2>3, Edited DEF TypeOK, Kept
  <2> QED  BY <1>3, <2>4
<1> QED  BY <1>2, <1>3

\* A step that keeps the copies, forgets no id and awaits nothing new.
Calm ==
    /\ Kept
    /\ \A n \in Nodes : Clear(n)' => Clear(n)
    /\ \A p \in Files : found'[p] \in {0, found[p]}
    /\ \A p \in Files : \/ cache'[p] = cache[p]
                        \/ /\ cache'[p] = 0
                           /\ Clear(p) /\ (Awaited(p)' \/ phase' = "fill")
                                 => Copies(p)' = {}
    /\ \A p \in Files : Awaited(p)' => Awaited(p)
    /\ phase' = "fill" => phase = "fill" /\ found' = found

LEMMA CalmKeeps ==
  ASSUME TypeOK, CopyInv, Calm
  PROVE  CopyInv'
<1>1. \A n \in Nodes : Copies(n)' \subseteq Copies(n)
  BY KeptCopies DEF Calm
<1>2. (\A i \in 1..Len(drive) : drive[i].path \in Dirs => drive[i].in = 0)'
  BY DEF CopyInv, Calm, Kept
<1>3. (\A p \in Files : found[p] # 0 => drive[found[p]].path = p)'
  BY DEF CopyInv, Calm, Kept, TypeOK
<1>4. (\A n \in Nodes : Clear(n) => \A i, j \in Copies(n) : i = j)'
  BY <1>1 DEF CopyInv, Calm
<1>5. ASSUME NEW p \in Files, Clear(p)', cache'[p] # 0
      PROVE  Copies(p)' \subseteq {cache'[p]}
  BY <1>1, <1>5 DEF CopyInv, Calm
<1>6. ASSUME NEW p \in Files, Clear(p)', cache'[p] = 0, Awaited(p)'
      PROVE  Copies(p)' = {}
  BY <1>1, <1>6 DEF CopyInv, Calm
<1>7. ASSUME NEW p \in Files, phase' = "fill", Clear(p)', cache'[p] = 0, found'[p] = 0
      PROVE  Copies(p)' = {}
  BY <1>1, <1>7 DEF CopyInv, Calm
<1> QED  BY <1>2, <1>3, <1>4, <1>5, <1>6, <1>7 DEF CopyInv

\* A creation where there was no copy.
Creation(m) ==
    /\ Created(m)
    /\ Clear(m)' => Copies(m) = {}
    /\ \A n \in Nodes : Clear(n)' => Clear(n)
    /\ \A p \in Files : found'[p] \in {0, found[p]}
    /\ \A p \in Files : \/ cache'[p] = 0 /\ ~Awaited(p)' /\ phase' # "fill"
                        \/ p # m /\ cache'[p] = cache[p]
                        \/ p = m /\ (Clear(m)' => cache'[m] = Len(drive'))
    /\ \A p \in Files : Awaited(p)' => Awaited(p)
    /\ phase' = "fill" => phase = "fill" /\ found' = found

LEMMA CreationKeeps ==
  ASSUME TypeOK, CopyInv, NEW m \in Nodes, Creation(m)
  PROVE  CopyInv'
<1>1. /\ \A n \in Nodes \ {m} : Copies(n)' \subseteq Copies(n)
      /\ Copies(m)' \subseteq Copies(m) \cup {Len(drive')}
  BY CreatedCopies DEF Creation
<1>2. (\A i \in 1..Len(drive) : drive[i].path \in Dirs => drive[i].in = 0)'
  BY DEF CopyInv, Creation, Created
<1>3. ASSUME NEW p \in Files, found'[p] # 0 PROVE drive'[found'[p]].path = p
  <2>1. found'[p] = found[p] /\ found[p] \in 1..Len(drive)
    BY <1>3 DEF Creation, TypeOK
  <2>2. drive'[found[p]] = drive[found[p]]
    BY <2>1 DEF Creation, Created
  <2> QED  BY <1>3, <2>1, <2>2 DEF CopyInv
<1>4. (\A n \in Nodes : Clear(n) => \A i, j \in Copies(n) : i = j)'
  BY <1>1 DEF CopyInv, Creation
<1>5. ASSUME NEW p \in Files, Clear(p)', cache'[p] # 0
      PROVE  Copies(p)' \subseteq {cache'[p]}
  BY <1>1, <1>5 DEF CopyInv, Creation
<1>6. ASSUME NEW p \in Files, Clear(p)', cache'[p] = 0, Awaited(p)' \/ phase' = "fill"
      PROVE  p # m /\ cache[p] = 0
  BY <1>6 DEF Creation, Created
<1>7. ASSUME NEW p \in Files, Clear(p)', cache'[p] = 0, Awaited(p)'
      PROVE  Copies(p)' = {}
  BY <1>1, <1>6, <1>7 DEF CopyInv, Creation
<1>8. ASSUME NEW p \in Files, phase' = "fill", Clear(p)', cache'[p] = 0, found'[p] = 0
      PROVE  Copies(p)' = {}
  BY <1>1, <1>6, <1>8 DEF CopyInv, Creation
<1> QED  BY <1>2, <1>3, <1>4, <1>5, <1>7, <1>8 DEF CopyInv

LEMMA UserCopies == TypeOK /\ CopyInv /\ User => CopyInv'
<1> SUFFICES ASSUME TypeOK, CopyInv, User PROVE Calm
  BY CalmKeeps
<1> USE DEF Calm, Awaited, Ordered, scanVars, taskVars, diskVars
<1>1. ASSUME NEW p \in Files, Write(p) PROVE Calm
  BY <1>1, SameKept DEF Write, Change, Clear
<1>2. ASSUME NEW p \in Files, Remove(p) PROVE Calm
  BY <1>2, SameKept DEF Remove, Change, Clear
<1>3. ASSUME NEW d \in Dirs, MakeDir(d) PROVE Calm
  BY <1>3, SameKept DEF MakeDir, Change, Clear
<1>4. ASSUME NEW d \in Dirs, RemoveDir(d) PROVE Calm
  BY <1>4, SameKept DEF RemoveDir, Change, Clear
<1>5. ASSUME NEW i \in 1..Len(drive), RemoteTrash(i) PROVE Calm
  <2>1. Kept
    BY <1>5, OffKept DEF RemoteTrash
  <2> QED  BY <1>5, <2>1 DEF RemoteTrash, Change, Clear
<1> QED  BY <1>1, <1>2, <1>3, <1>4, <1>5 DEF User

LEMMA ListCopies ==
  ASSUME TypeOK, CopyInv, List \/ ListFails \/ Fill
  PROVE  CopyInv'
<1> USE DEF Local, diskVars, indexVars, taskVars
<1>1. drive' = drive /\ \A n \in Nodes : Copies(n)' = Copies(n)
  BY DEF List, ListFails, Fill, Copies, Visible
<1>2. CASE List
  <2>1. \A p \in Files : found'[p] # 0 => drive[found'[p]].path = p
    BY <1>2 DEF List, Copies
  <2>2. \A p \in Files : Awaited(p)' => Awaited(p)
    BY <1>2 DEF List, Awaited, Ordered
  <2>3. \A p \in Files : found'[p] = 0 => Copies(p) = {}
    BY <1>2 DEF List, Copies
  <2> QED  BY <1>1, <1>2, <2>1, <2>2, <2>3 DEF CopyInv, List, Clear
<1>3. CASE ListFails
  <2>1. \A p \in Files : found'[p] = 0
    BY <1>3 DEF ListFails, Nowhere
  <2>2. \A p \in Files : Awaited(p)' => Awaited(p)
    BY <1>3 DEF ListFails, Awaited, Ordered
  <2>3. \A n \in Nodes : Clear(n)' => Clear(n)
    BY <1>3 DEF ListFails, Clear
  <2>4. ASSUME NEW p \in Files, Clear(p)', cache[p] = 0 PROVE Copies(p) = {}
    <3> DEFINE lost == {n \in Files : Copies(n) # {} /\ cache[n] = 0}
    <3>1. slips' = slips \cup (lost \X {"doubled"})
      BY <1>3 DEF ListFails
    <3>2. <<p, "doubled">> \notin lost \X {"doubled"}
      BY <2>4, <3>1 DEF Clear
    <3> HIDE DEF lost
    <3>3. p \notin lost
      BY <3>2
    <3> QED  BY <2>4, <3>3 DEF lost
  <2> QED  BY <1>1, <1>3, <2>1, <2>2, <2>3, <2>4 DEF CopyInv, ListFails
<1>4. CASE Fill
  <2>1. \A n \in Nodes : Clear(n)' => Clear(n)
    BY <1>4 DEF Fill, Clear
  <2>2. ASSUME NEW p \in Files, found[p] # 0, Clear(p)'
        PROVE  Copies(p) = {found[p]}
    <3> DEFINE stale == {n \in Files : found[n] # 0 /\ ~Visible(found[n])}
    <3>a. \E gone : slips' = (slips \ gone) \cup (stale \X {"stale"})
      BY <1>4 DEF Fill
    <3>b. <<p, "stale">> \notin stale \X {"stale"}
      BY <2>2, <3>a DEF Clear
    <3> HIDE DEF stale
    <3>c. p \notin stale
      BY <3>b
    <3>1. Visible(found[p])
      BY <2>2, <3>c DEF stale
    <3>2. found[p] \in Copies(p)
      BY <2>2, <3>1 DEF Copies, CopyInv, TypeOK
    <3> QED  BY <2>1, <2>2, <3>2 DEF CopyInv
  <2>3. \A p \in Files : cache'[p] = IF found[p] = 0 THEN cache[p] ELSE found[p]
    BY <1>4 DEF Fill
  <2>4. found' = found /\ phase = "fill" /\ phase' = "walk"
    BY <1>4 DEF Fill
  <2> QED  BY <1>1, <2>1, <2>2, <2>3, <2>4 DEF CopyInv
<1> QED  BY <1>2, <1>3, <1>4

LEMMA MkDirCopies ==
  ASSUME TypeOK, CopyInv, NEW d \in Dirs, MkDir(d)
  PROVE  CopyInv'
<1> USE DEF Local, diskVars, indexVars, taskVars
<1>1. /\ \A p \in Files : cache'[p] = cache[p] /\ Awaited(p)' = Awaited(p)
      /\ \A n \in Nodes : Clear(n)' = Clear(n)
      /\ found' = found /\ phase' = "dirs"
  BY DEF MkDir, TypeOK, Awaited, Ordered, Clear
<1>2. CASE drive' = drive
  BY <1>1, <1>2, SameKept, CalmKeeps DEF Calm
<1>3. CASE /\ drive' = Append(drive, Object(d, Folder(d), "folder"))
           /\ {i \in Copies(d) : drive[i].in = Folder(d)} = {}
  <2>1. Folder(d) = 0
    BY DEF Folder
  <2>2. Len(drive) \in Nat
    BY Elements
  <2>3. Created(d)
    BY <1>3, <2>1, <2>2 DEF Created, Object, TypeOK
  <2>4. \A i \in Copies(d) : drive[i].in = 0
    BY DEF CopyInv, Copies
  <2>5. Copies(d) = {}
    BY <1>3, <2>1, <2>4
  <2>6. Creation(d)
    BY <1>1, <2>3, <2>5 DEF Creation
  <2> QED  BY <2>6, CreationKeeps
<1> QED  BY <1>2, <1>3 DEF MkDir

LEMMA ScanningCopies == TypeOK /\ CopyInv /\ Scanning => CopyInv'
<1> SUFFICES ASSUME TypeOK, CopyInv, Scanning PROVE CopyInv'
  OBVIOUS
<1> USE DEF Local, diskVars, indexVars, taskVars
<1>1. CASE Begin \/ Walk \/ ReadIndex \/ Finish
  BY <1>1, SameKept, CalmKeeps DEF Begin, Walk, ReadIndex, Finish, Calm, Awaited, Ordered, Clear
<1>2. ASSUME NEW p \in Files, Compare(p) PROVE CopyInv'
  <2>1. \A n \in Nodes : Clear(n)' => Clear(n)
    BY <1>2 DEF Compare, Clear
  <2> QED  BY <1>2, <2>1, SameKept, CalmKeeps DEF Compare, Calm, Awaited, Ordered
<1>3. CASE Compared \/ Cut
  <2>1. \A p \in Files : found'[p] = 0
    BY <1>3 DEF Compared, Cut, Forgotten, Nowhere
  <2> QED  BY <1>3, <2>1, SameKept, CalmKeeps DEF Compared, Cut, Calm, Awaited, Ordered, Clear
<1>4. CASE SendTask
  BY <1>4, SameKept, CalmKeeps DEF SendTask, Calm, Awaited, Ordered, Clear
<1> QED  BY <1>1, <1>2, <1>3, <1>4, ListCopies, MkDirCopies DEF Scanning

LEMMA WorkingCopies == TypeOK /\ CopyInv /\ Working => CopyInv'
<1> SUFFICES ASSUME TypeOK, CopyInv, Working PROVE CopyInv'
  OBVIOUS
<1> USE DEF Local, diskVars, indexVars, scanVars, Awaited, Ordered
<1>1. ASSUME NEW t \in chan, Take(t) PROVE CopyInv'
  BY <1>1, SameKept, CalmKeeps DEF Take, Calm, Clear
<1>2. ASSUME NEW p \in Files, Synced(p) PROVE CopyInv'
  <2>1. \A n \in Nodes : Clear(n)' => Clear(n)
    BY <1>2 DEF Synced, Clear
  <2>2. CASE UNCHANGED <<drive, cache>>
    BY <1>2, <2>1, <2>2, SameKept, CalmKeeps DEF Synced, Calm
  <2>3. CASE /\ Sendable(p) /\ Stored(p)
             /\ cache' = [cache EXCEPT ![p] = IF @ = 0 THEN Len(drive) + 1 ELSE @]
    <3>1. CASE cache[p] = 0
      <4>1. Created(p)
        BY <2>3, <3>1, StoredCopies
      <4>2. Clear(p) => Copies(p) = {}
        BY <1>2, <3>1 DEF CopyInv, Synced
      <4>3. cache'[p] = Len(drive') /\ \A q \in Files \ {p} : cache'[q] = cache[q]
        BY <2>3, <3>1, <4>1 DEF TypeOK, Created
      <4>4. Creation(p)
        BY <1>2, <2>1, <4>1, <4>2, <4>3 DEF Synced, Creation
      <4> QED  BY <4>4, CreationKeeps
    <3>2. CASE cache[p] # 0
      <4>1. Kept /\ cache' = cache
        BY <2>3, <3>2, StoredCopies DEF TypeOK
      <4> QED  BY <1>2, <2>1, <4>1, CalmKeeps DEF Synced, Calm
    <3> QED  BY <3>1, <3>2
  <2> QED  BY <1>2, <2>2, <2>3 DEF Synced
<1>3. ASSUME NEW p \in Files, Deleted(p) PROVE CopyInv'
  <2>1. Kept
    BY <1>3, TrashedKept DEF Deleted
  <2>2. \A n \in Nodes : Clear(n)' => Clear(n)
    BY <1>3 DEF Deleted, Clear
  <2>3. \A q \in Files \ {p} : cache'[q] = cache[q]
    BY <1>3 DEF Deleted, TypeOK
  <2>4. cache'[p] = 0
    BY <1>3 DEF Deleted, TypeOK
  <2>5. CASE cache[p] = 0
    BY <1>3, <2>1, <2>2, <2>3, <2>4, <2>5, CalmKeeps DEF Deleted, Calm
  <2>6. CASE cache[p] # 0
    <3>1. cache[p] \in 1..Len(drive) /\ drive[cache[p]] \in Objects(Len(drive))
      BY <2>6, Elements DEF TypeOK
    <3>2. drive' = [drive EXCEPT ![cache[p]] = [drive[cache[p]] EXCEPT !.live = FALSE]]
      BY <1>3, <2>6 DEF Deleted, Trashed
    <3>3. ~drive'[cache[p]].live
      BY <3>1, <3>2, Elements, Edited DEF TypeOK, Full
    <3>4. cache[p] \notin Copies(p)'
      BY <3>3 DEF Copies, Visible
    <3>5. Clear(p) => Copies(p)' = {}
      BY <2>1, <2>6, <3>4, KeptCopies DEF CopyInv
    <3> QED  BY <1>3, <2>1, <2>2, <2>3, <2>4, <3>5, CalmKeeps DEF Deleted, Calm
  <2> QED  BY <2>5, <2>6
<1>4. ASSUME NEW t \in work, Failed(t) PROVE CopyInv'
  <2>1. t.path \in Files
    BY DEF TypeOK, Tasks
  <2>2. \A n \in Nodes : Clear(n)' => Clear(n)
    BY <1>4 DEF Failed, Clear
  <2>3. CASE Kept
    BY <1>4, <2>2, <2>3, CalmKeeps DEF Failed, Calm
  <2>4. CASE Created(t.path) /\ ~Clear(t.path)'
    <3>1. Creation(t.path)
      BY <1>4, <2>1, <2>2, <2>4 DEF Failed, Creation
    <3> QED  BY <2>1, <3>1, CreationKeeps
  <2>5. Kept \/ (Created(t.path) /\ ~Clear(t.path)')
    BY <1>4, <2>1, SameKept, TrashedKept, StoredCopies DEF Failed, Clear
  <2> QED  BY <2>3, <2>4, <2>5
<1>5. ASSUME NEW p \in Files, Hopeless(p) PROVE CopyInv'
  BY <1>5, SameKept, CalmKeeps DEF Hopeless, Calm, Clear
<1> QED  BY <1>1, <1>2, <1>3, <1>4, <1>5 DEF Working

LEMMA CrashCopies == TypeOK /\ CopyInv /\ Crash => CopyInv'
<1> SUFFICES ASSUME TypeOK, CopyInv, Crash PROVE CopyInv'
  OBVIOUS
<1> USE DEF Local, diskVars, indexVars
<1>1. /\ \A p \in Files : cache'[p] = 0 /\ found'[p] = 0 /\ ~Awaited(p)'
      /\ phase' # "fill" /\ \A n \in Nodes : Clear(n)' = Clear(n)
  BY DEF Crash, Forgotten, Nowhere, Awaited, Ordered, Clear
<1>2. CASE Kept
  BY <1>1, <1>2, CalmKeeps DEF Calm
<1>3. ASSUME NEW p \in Files, Sync(p) \in work, Sendable(p), Stored(p), cache[p] = 0
      PROVE  CopyInv'
  <2>1. Created(p)
    BY <1>3, StoredCopies
  <2>2. Clear(p) => Copies(p) = {}
    BY <1>3 DEF CopyInv, Awaited, Ordered
  <2>3. Creation(p)
    BY <1>1, <2>1, <2>2 DEF Creation
  <2> QED  BY <2>3, CreationKeeps
<1> QED  BY <1>2, <1>3, SameKept, TrashedKept, StoredCopies DEF Crash

LEMMA InitCopies == Init => CopyInv
<1> SUFFICES ASSUME Init PROVE CopyInv
  OBVIOUS
<1>1. \A p \in Files : cache[p] = 0 /\ found[p] = 0 /\ ~Awaited(p)
  BY DEF Init, Nowhere, Awaited, Ordered
<1>2. phase # "fill"
  BY DEF Init
<1>3. /\ \A i \in 1..Len(drive) : drive[i].path \in Dirs => drive[i].in = 0
      /\ \A i, j \in 1..Len(drive) : drive[i].path = drive[j].path => i = j
  BY DEF Init, Object
<1> QED  BY <1>1, <1>2, <1>3 DEF CopyInv, Copies

LEMMA CopyStep == TypeOK /\ CopyInv /\ [Next]_vars => CopyInv'
<1> SUFFICES ASSUME TypeOK, CopyInv, [Next]_vars PROVE CopyInv'
  OBVIOUS
<1>1. CASE UNCHANGED vars
  BY <1>1, SameKept, CalmKeeps
     DEF vars, scanVars, taskVars, histVars, Calm, Awaited, Ordered, Clear
<1> QED  BY <1>1, UserCopies, ScanningCopies, WorkingCopies, CrashCopies DEF Next

LEMMA CopiesFew == TypeOK /\ CopyInv => OneCopy
<1> SUFFICES ASSUME TypeOK, CopyInv, NEW n \in Nodes, Clear(n)
             PROVE  Cardinality(Copies(n)) <= 1
  BY DEF OneCopy, Clear
<1>1. CASE Copies(n) = {}
  BY <1>1, FS_EmptySet
<1>2. ASSUME NEW i \in Copies(n) PROVE Cardinality(Copies(n)) <= 1
  <2>1. Copies(n) = {i}
    BY DEF CopyInv
  <2>2. Cardinality({i}) = 1
    BY FS_Singleton, Zenon
  <2> QED  BY <2>1, <2>2
<1> QED  BY <1>1, <1>2

\* Whatever fails, is cut or starts again, a scan and its tasks make no second object of
\* a path, but after the slips that OneCopy names (scan.rs:199, worker.rs:120).
THEOREM OneCopyCorrect == Spec => []OneCopy
BY InitCopies, TypeCorrect, CopyStep, CopiesFew, PTL DEF Spec

-----------------------------------------------------------------------------
(* What a scan repairs: the objects behind the ids *)

Gone(n)  == <<n, "gone">> \in slips
Stale(n) == <<n, "stale">> \in slips

\* An id of the cache or of the listing is that of an object of its path; an object is in
\* the folder of its path; what is in the trash is known to have slipped.
NamesInv ==
    /\ \A n \in Nodes : cache[n] # 0 => drive[cache[n]].path = n
    /\ \A n \in Nodes : found[n] # 0 => drive[found[n]].path = n
    /\ \A i \in 1..Len(drive) : drive[i].in # 0 =>
          /\ drive[i].path \in Files
          /\ drive[drive[i].in].path = Parent[drive[i].path]
    /\ \A p \in Files : Parent[p] # Root /\ Gone(Parent[p]) => Gone(p)
    /\ \A n \in Nodes, i \in 1..Len(drive) :
          cache[n] = i /\ ~Gone(n) /\ ~Stale(n) => Visible(i)
    /\ phase = "fill" =>
          \A d \in Dirs, i \in 1..Len(drive) : found[d] = i /\ ~Gone(d) => Visible(i)
    /\ \A d \in Dirs : ~Stale(d)

\* No slip of a folder is new but that it is gone, and its files with it.
SlipsGrow ==
    /\ \A n \in Nodes : (Gone(n) => Gone(n)') /\ (Stale(n) => Stale(n)')
    /\ \A d \in Dirs : ~Stale(d)'
    /\ \A p \in Files : Parent[p] # Root /\ Gone(Parent[p])' => Gone(p)'

\* An id is forgotten, kept, or one of a copy.
IdsKept ==
    /\ \A n \in Nodes : cache'[n] \in {0, cache[n]} \cup Copies(n)
    /\ \A n \in Nodes : found'[n] \in {0, found[n]} \cup Copies(n)
    /\ phase' = "fill" =>
          (phase = "fill" /\ found' = found) \/ \A n \in Nodes : found'[n] \in {0} \cup Copies(n)

\* What goes to the trash is known to be gone, or its id is forgotten.
TrashKnown ==
    \A i \in 1..Len(drive), n \in Nodes : Visible(i) /\ drive[i].path = n =>
        \/ Visible(i)'
        \/ Gone(n)'
        \/ n \in Files /\ cache'[n] = 0

LEMMA NamesKept ==
  ASSUME TypeOK, NamesInv, Kept, SlipsGrow, IdsKept, TrashKnown
  PROVE  NamesInv'
<1>1. /\ Len(drive) \in Nat
      /\ \A i \in 1..Len(drive) : /\ drive'[i].path = drive[i].path
                                  /\ drive'[i].in = drive[i].in
                                  /\ drive[i].in \in 0..Len(drive)
  BY Elements DEF Kept
<1>2. \A n \in Nodes : cache[n] \in 0..Len(drive) /\ found[n] \in 0..Len(drive)
  BY DEF TypeOK
<1>3. \A n \in Nodes : \A i \in Copies(n) : i \in 1..Len(drive) /\ drive[i].path = n /\ Visible(i)
  BY DEF Copies
<1>4. ASSUME NEW n \in Nodes, cache'[n] # 0
      PROVE  /\ cache'[n] \in 1..Len(drive) /\ drive[cache'[n]].path = n
             /\ ~Gone(n)' /\ ~Stale(n)' => Visible(cache'[n])
  <2>0. cache[n] # 0 => cache[n] \in 1..Len(drive)
    BY <1>1, <1>2
  <2>1. CASE cache'[n] = cache[n]
    BY <1>4, <2>0, <2>1 DEF NamesInv, SlipsGrow
  <2>2. CASE cache'[n] \in Copies(n)
    BY <1>3, <2>2
  <2> QED  BY <1>4, <2>1, <2>2 DEF IdsKept
<1>5. ASSUME NEW n \in Nodes, found'[n] # 0
      PROVE  /\ found'[n] \in 1..Len(drive) /\ drive[found'[n]].path = n
             /\ phase' = "fill" /\ n \in Dirs /\ ~Gone(n)' => Visible(found'[n])
  <2>1. CASE found'[n] \in Copies(n)
    BY <1>3, <2>1
  <2>2. CASE found'[n] \notin Copies(n)
    <3>1. found'[n] = found[n] /\ (phase' = "fill" => phase = "fill")
      BY <1>5, <2>2 DEF IdsKept
    <3>2. found[n] \in 1..Len(drive)
      BY <1>1, <1>2, <1>5, <3>1
    <3> QED  BY <1>5, <3>1, <3>2 DEF NamesInv, SlipsGrow
  <2> QED  BY <2>1, <2>2
<1>6. ASSUME NEW n \in Nodes, NEW i \in 1..Len(drive'), cache'[n] = i, ~Gone(n)', ~Stale(n)'
      PROVE  Visible(i)'
  <2>1. i \in 1..Len(drive) /\ drive[i].path = n /\ Visible(i) /\ i # 0
    BY <1>1, <1>4, <1>6 DEF Kept
  <2> QED  BY <1>6, <2>1 DEF TrashKnown
<1>7. ASSUME NEW d \in Dirs, NEW i \in 1..Len(drive'), phase' = "fill", found'[d] = i,
             ~Gone(d)'
      PROVE  Visible(i)'
  <2>1. d \notin Files
    OBVIOUS
  <2>2. i \in 1..Len(drive) /\ drive[i].path = d /\ Visible(i)
    BY <1>1, <1>5, <1>7 DEF Kept
  <2> QED  BY <1>7, <2>1, <2>2 DEF TrashKnown
<1>8. ASSUME NEW i \in 1..Len(drive'), drive'[i].in # 0
      PROVE  drive'[i].path \in Files /\ drive'[drive'[i].in].path = Parent[drive'[i].path]
  BY <1>1, <1>8 DEF NamesInv, Kept
<1>9. \A n \in Nodes : (cache'[n] # 0 => drive'[cache'[n]].path = n)
                       /\ (found'[n] # 0 => drive'[found'[n]].path = n)
  BY <1>1, <1>4, <1>5
<1> QED  BY <1>6, <1>7, <1>8, <1>9 DEF NamesInv, SlipsGrow

\* An object made in the cached folder of its path.
Made(m) ==
    /\ Created(m)
    /\ drive'[Len(drive')].in = Folder(m) /\ drive'[Len(drive')].live
    /\ m \in Files => HasFolder(m)

LEMMA NamesMade ==
  ASSUME TypeOK, NamesInv, NEW m \in Nodes, Made(m), SlipsGrow,
         \A n \in Nodes : cache'[n] \in {0, cache[n]} \/ (n = m /\ cache'[n] = Len(drive')),
         \A n \in Nodes : found'[n] \in {0, found[n]},
         phase' = "fill" => phase = "fill" /\ found' = found
  PROVE  NamesInv'
<1>0. PICK new \in Nat : new = Len(drive')
  BY Elements DEF Made, Created
<1>1. /\ Len(drive) \in Nat /\ new = Len(drive) + 1
      /\ \A i \in 1..Len(drive) : drive'[i] = drive[i] /\ drive[i].in \in 0..Len(drive)
      /\ drive'[new].path = m /\ drive'[new].in = Folder(m) /\ drive'[new].live
  BY <1>0, Elements DEF Made, Created
<1>2. \A n \in Nodes : cache[n] \in 0..Len(drive) /\ found[n] \in 0..Len(drive)
  BY DEF TypeOK
<1>3. \A i \in 1..Len(drive) : Visible(i)' <=> Visible(i)
  <2> SUFFICES ASSUME NEW i \in 1..Len(drive) PROVE Visible(i)' <=> Visible(i)
    OBVIOUS
  <2>1. drive'[i] = drive[i] /\ drive[i].in \in 0..Len(drive)
    BY <1>1
  <2>2. drive[i].in # 0 => drive'[drive[i].in] = drive[drive[i].in]
    BY <1>1, <2>1
  <2> QED  BY <2>1, <2>2 DEF Visible
<1>4. Folder(m) # 0 => /\ m \in Files /\ Parent[m] \in Dirs /\ Folder(m) \in 1..Len(drive)
                       /\ Folder(m) = cache[Parent[m]]
                       /\ drive[Folder(m)].path = Parent[m]
                       /\ drive[Folder(m)].in = 0
  <2> SUFFICES ASSUME Folder(m) # 0
               PROVE  /\ m \in Files /\ Parent[m] \in Dirs /\ Folder(m) \in 1..Len(drive)
                      /\ Folder(m) = cache[Parent[m]]
                      /\ drive[Folder(m)].path = Parent[m]
                      /\ drive[Folder(m)].in = 0
    OBVIOUS
  <2>1. Parent[m] # Root /\ Folder(m) = cache[Parent[m]]
    BY DEF Folder
  <2>2. m \in Files /\ Parent[m] \in Dirs
    BY <2>1
  <2>3. Folder(m) \in 1..Len(drive) /\ drive[Folder(m)].path = Parent[m]
    BY <1>2, <2>1, <2>2 DEF NamesInv
  <2>4. drive[Folder(m)].path \notin Files
    BY <2>2, <2>3
  <2>5. drive[Folder(m)].in = 0
    BY <2>3, <2>4 DEF NamesInv
  <2> QED  BY <2>1, <2>2, <2>3, <2>5
<1>5. ~Gone(m)' => Visible(new)'
  <2> SUFFICES ASSUME ~Gone(m)', Folder(m) # 0 PROVE Visible(new)'
    BY <1>1 DEF Visible
  <2>1. ~Gone(Parent[m]) /\ ~Stale(Parent[m])
    BY <1>4 DEF SlipsGrow, NamesInv
  <2>2. Visible(Folder(m))
    BY <1>4, <2>1 DEF NamesInv
  <2>3. drive'[Folder(m)].live
    BY <1>1, <1>4, <2>2 DEF Visible
  <2> QED  BY <1>1, <2>3 DEF Visible
<1>6. ASSUME NEW n \in Nodes, NEW i \in 1..Len(drive'), cache'[n] = i
      PROVE  drive'[i].path = n /\ (~Gone(n)' /\ ~Stale(n)' => Visible(i)')
  <2>1. CASE cache[n] = i
    <3>1. i \in 1..Len(drive)
      BY <1>1, <1>2, <1>6, <2>1
    <3> QED  BY <1>1, <1>3, <2>1, <3>1 DEF NamesInv, SlipsGrow
  <2>2. CASE n = m /\ i = new
    BY <1>1, <1>5, <2>2
  <2> QED  BY <1>0, <1>6, <2>1, <2>2
<1>7. ASSUME NEW n \in Nodes, NEW i \in 1..Len(drive'), found'[n] = i
      PROVE  /\ drive'[i].path = n
             /\ phase' = "fill" /\ n \in Dirs /\ ~Gone(n)' => Visible(i)'
  <2>1. found[n] = i /\ i \in 1..Len(drive)
    BY <1>1, <1>2, <1>7
  <2>2. drive'[i].path = n
    BY <1>1, <2>1 DEF NamesInv
  <2>3. phase' = "fill" /\ n \in Dirs /\ ~Gone(n)' => Visible(i)
    BY <2>1 DEF NamesInv, SlipsGrow
  <2> QED  BY <1>3, <2>1, <2>2, <2>3
<1>8. ASSUME NEW i \in 1..Len(drive'), drive'[i].in # 0
      PROVE  drive'[i].path \in Files /\ drive'[drive'[i].in].path = Parent[drive'[i].path]
  <2>1. CASE i \in 1..Len(drive)
    <3>1. drive'[i] = drive[i] /\ drive[i].in \in 1..Len(drive)
      BY <1>1, <1>8, <2>1
    <3> QED  BY <1>1, <1>8, <2>1, <3>1 DEF NamesInv
  <2>2. CASE i = new
    BY <1>1, <1>4, <1>8, <2>2
  <2> QED  BY <1>0, <1>1, <1>8, <2>1, <2>2
<1>9. ASSUME NEW n \in Nodes
      PROVE  /\ cache'[n] # 0 => cache'[n] \in 1..Len(drive')
             /\ found'[n] # 0 => found'[n] \in 1..Len(drive')
  BY <1>0, <1>1, <1>2
<1> QED  BY <1>6, <1>7, <1>8, <1>9 DEF NamesInv, SlipsGrow

LEMMA UserNames == TypeOK /\ NamesInv /\ User => NamesInv'
<1> SUFFICES ASSUME TypeOK, NamesInv, User PROVE NamesInv'
  OBVIOUS
<1> USE DEF scanVars, diskVars
<1>1. found' = found /\ cache' = cache /\ phase' = phase
  BY DEF User, Write, Remove, MakeDir, RemoveDir, RemoteTrash, Change
<1>2. IdsKept
  BY <1>1 DEF IdsKept
<1>3. CASE \/ \E p \in Files : Write(p) \/ Remove(p)
           \/ \E d \in Dirs : MakeDir(d) \/ RemoveDir(d)
  <2>1. drive' = drive
    BY <1>3 DEF Write, Remove, MakeDir, RemoveDir
  <2>2. slips' = slips \/ \E p \in Files : slips' = slips \cup {<<p, "restored">>}
    <3>1. ASSUME NEW p \in Files, Write(p)
          PROVE  slips' = slips \/ slips' = slips \cup {<<p, "restored">>}
      BY <3>1 DEF Write, Change
    <3>2. CASE (\E p \in Files : Remove(p)) \/ \E d \in Dirs : MakeDir(d) \/ RemoveDir(d)
      BY <3>2 DEF Remove, MakeDir, RemoveDir, Change
    <3> QED  BY <1>3, <3>1, <3>2
  <2>3. \A n \in Nodes : (Gone(n)' <=> Gone(n)) /\ (Stale(n)' <=> Stale(n))
    BY <2>2 DEF Gone, Stale
  <2>4. TrashKnown
    BY <2>1 DEF TrashKnown, Visible
  <2>5. SlipsGrow
    BY <2>3 DEF SlipsGrow, NamesInv
  <2> QED  BY <1>2, <2>1, <2>4, <2>5, SameKept, NamesKept
<1>4. ASSUME NEW k \in 1..Len(drive), RemoteTrash(k) PROVE NamesInv'
  <2> DEFINE m == drive[k].path
  <2>1. /\ drive' = [drive EXCEPT ![k].live = FALSE]
        /\ slips' = slips \cup (Under(m) \X {"gone"})
    BY <1>4 DEF RemoteTrash, Change
  <2>2. Kept
    BY <2>1, OffKept
  <2>3. m \in Nodes /\ Under(m) \subseteq Nodes
    BY Elements DEF Objects, Under
  <2>4. \A n \in Nodes : (Gone(n)' <=> Gone(n) \/ n \in Under(m)) /\ (Stale(n)' <=> Stale(n))
    BY <2>1 DEF Gone, Stale
  <2>5. SlipsGrow
    <3>1. \A p \in Files : Parent[p] # Root /\ Parent[p] \in Under(m) => p \in Under(m)
      BY <2>3, ParentType DEF Under
    <3> QED  BY <2>4, <3>1 DEF SlipsGrow, NamesInv
  <2>6. ASSUME NEW i \in 1..Len(drive), NEW n \in Nodes, Visible(i), drive[i].path = n,
               n \notin Under(m)
        PROVE  Visible(i)'
    <3>1. i # k
      BY <2>6 DEF Under
    <3>2. drive[i].in # 0 => drive[i].in # k
      BY <2>6 DEF NamesInv, Under
    <3>3. drive[i].in \in 0..Len(drive) /\ Len(drive) \in Nat
      BY Elements
    <3>4. drive'[i] = drive[i]
      BY <2>1, <3>1, <3>3 DEF TypeOK
    <3>5. drive[i].in # 0 => drive'[drive[i].in] = drive[drive[i].in]
      BY <2>1, <3>2, <3>3 DEF TypeOK
    <3> QED  BY <2>6, <3>4, <3>5 DEF Visible
  <2>7. TrashKnown
    BY <2>4, <2>6 DEF TrashKnown
  <2> QED  BY <1>2, <2>2, <2>5, <2>7, NamesKept
<1> QED  BY <1>3, <1>4 DEF User

\* A step that changes neither the Drive nor the cache.
LEMMA NamesStill ==
  ASSUME TypeOK, NamesInv, UNCHANGED <<drive, cache>>,
         \A n \in Nodes : found'[n] \in {0, found[n]} \cup Copies(n),
         phase' = "fill" => \/ phase = "fill" /\ found' = found
                            \/ \A n \in Nodes : found'[n] \in {0} \cup Copies(n),
         \A n \in Nodes : (Gone(n)' <=> Gone(n)) /\ (Stale(n)' <=> Stale(n))
  PROVE  NamesInv'
<1>1. TrashKnown
  BY DEF TrashKnown, Visible
<1>2. SlipsGrow
  BY DEF SlipsGrow, NamesInv
<1>3. IdsKept
  BY DEF IdsKept
<1> QED  BY <1>1, <1>2, <1>3, SameKept, NamesKept

LEMMA FillNames == TypeOK /\ NamesInv /\ CopyInv /\ Fill => NamesInv'
<1> SUFFICES ASSUME TypeOK, NamesInv, CopyInv, Fill PROVE NamesInv'
  OBVIOUS
<1> DEFINE unknown(n) == n = Root \/ cache'[n] = 0
           lost == {n \in Nodes : unknown(n) /\ unknown(Parent[n])}
           stale == {n \in Files : found[n] # 0 /\ ~Visible(found[n])}
<1>1. /\ cache' = [n \in Nodes |-> IF found[n] = 0 THEN cache[n] ELSE found[n]]
      /\ slips' = (slips \ (lost \X {"gone"})) \cup (stale \X {"stale"})
      /\ drive' = drive /\ found' = found /\ phase = "fill" /\ phase' = "walk"
  BY DEF Fill
<1>2. \A n \in Nodes : (Gone(n)' <=> Gone(n) /\ n \notin lost)
                       /\ (Stale(n)' <=> Stale(n) \/ n \in stale)
  <2> HIDE DEF lost, stale
  <2> QED  BY <1>1 DEF Gone, Stale
<1>3. \A n \in Nodes : cache'[n] = IF found[n] = 0 THEN cache[n] ELSE found[n]
  BY <1>1
<1>4. \A i : Visible(i)' <=> Visible(i)
  BY <1>1 DEF Visible
<1>5. \A n \in Nodes : cache[n] \in 0..Len(drive) /\ found[n] \in 0..Len(drive)
  BY DEF TypeOK
<1>6. \A n \in Nodes : cache'[n] # 0 => n \notin lost
  OBVIOUS
<1>7. ASSUME NEW n \in Nodes, NEW i \in 1..Len(drive), cache'[n] = i, ~Gone(n)', ~Stale(n)'
      PROVE  Visible(i)'
  <2>1. ~Gone(n) /\ ~Stale(n) /\ n \notin stale
    BY <1>2, <1>6, <1>7
  <2>2. CASE found[n] = 0
    BY <1>3, <1>4, <1>7, <2>1, <2>2 DEF NamesInv
  <2>3. CASE found[n] # 0 /\ n \in Files
    BY <1>3, <1>4, <1>7, <2>1, <2>3
  <2>4. CASE found[n] # 0 /\ n \in Dirs
    BY <1>1, <1>3, <1>4, <1>7, <2>1, <2>4 DEF NamesInv
  <2> QED  BY <2>2, <2>3, <2>4
<1>8. ASSUME NEW p \in Files, Parent[p] # Root, Gone(Parent[p])' PROVE Gone(p)'
  <2>1. Parent[p] \in Dirs /\ Parent[Parent[p]] = Root
    BY <1>8, ParentType
  <2>2. Gone(Parent[p]) /\ Parent[p] \notin lost
    BY <1>2, <1>8, <2>1
  <2>3. ~unknown(Parent[p])
    BY <2>1, <2>2
  <2>4. p \notin lost
    BY <2>3
  <2>5. Gone(p)
    BY <1>8, <2>2 DEF NamesInv
  <2> QED  BY <1>2, <2>4, <2>5
<1>9. \A d \in Dirs : ~Stale(d)'
  <2>1. \A d \in Dirs : d \notin stale
    OBVIOUS
  <2> QED  BY <1>2, <2>1 DEF NamesInv
<1>10. /\ \A n \in Nodes : cache'[n] # 0 => drive'[cache'[n]].path = n
       /\ \A n \in Nodes : found'[n] # 0 => drive'[found'[n]].path = n
  BY <1>1, <1>3 DEF NamesInv
<1>11. (\A i \in 1..Len(drive) : drive[i].in # 0 =>
          /\ drive[i].path \in Files
          /\ drive[drive[i].in].path = Parent[drive[i].path])'
  BY <1>1 DEF NamesInv
<1>12. phase' # "fill"
  BY <1>1
<1>13. \A n \in Nodes, i \in 1..Len(drive') :
          cache'[n] = i /\ ~Gone(n)' /\ ~Stale(n)' => Visible(i)'
  BY <1>1, <1>7
<1> QED  BY <1>8, <1>9, <1>10, <1>11, <1>12, <1>13 DEF NamesInv

LEMMA MkDirNames == \A d \in Dirs : TypeOK /\ NamesInv /\ MkDir(d) => NamesInv'
<1> SUFFICES ASSUME NEW d \in Dirs, TypeOK, NamesInv, MkDir(d) PROVE NamesInv'
  OBVIOUS
<1> USE DEF indexVars, taskVars
<1>1. found' = found /\ slips' = slips /\ phase' = phase
  BY DEF MkDir
<1>2. SlipsGrow
  BY <1>1 DEF SlipsGrow, NamesInv, Gone, Stale
<1>3. CASE drive' = drive
  <2>1. \A n \in Nodes : cache'[n] \in {0, cache[n]} \cup Copies(n)
    <3>1. cache' = cache \/ (\E i \in Copies(d) : cache' = [cache EXCEPT ![d] = i])
      <4>1. drive' # Append(drive, Object(d, Folder(d), "folder"))
        BY <1>3, Elements DEF TypeOK
      <4> QED  BY <4>1 DEF MkDir
    <3> QED  BY <3>1 DEF TypeOK
  <2>2. IdsKept
    BY <1>1, <2>1 DEF IdsKept
  <2>3. TrashKnown
    BY <1>3 DEF TrashKnown, Visible
  <2> QED  BY <1>2, <1>3, <2>2, <2>3, SameKept, NamesKept
<1>4. CASE drive' = Append(drive, Object(d, Folder(d), "folder")) /\ drive' # drive
  <2>1. Folder(d) = 0 /\ Len(drive) \in Nat /\ d \notin Files
    BY Elements DEF Folder
  <2>2. Made(d)
    BY <1>4, <2>1 DEF Made, Created, Object, TypeOK
  <2>3. \A n \in Nodes : cache'[n] = cache[n] \/ (n = d /\ cache'[n] = Len(drive'))
    <3>1. cache' = cache \/ cache' = [cache EXCEPT ![d] = Len(drive')]
      BY <1>4, <2>2 DEF MkDir, Made, Created
    <3> QED  BY <3>1 DEF TypeOK
  <2> QED  BY <1>1, <1>2, <2>2, <2>3, NamesMade
<1> QED  BY <1>3, <1>4 DEF MkDir

LEMMA ScanningNames == TypeOK /\ NamesInv /\ CopyInv /\ Scanning => NamesInv'
<1> SUFFICES ASSUME TypeOK, NamesInv, Scanning,
                    Begin \/ List \/ ListFails \/ Walk \/ ReadIndex
                      \/ (\E p \in Files : Compare(p))
                      \/ Compared \/ SendTask \/ Finish \/ Cut
             PROVE  NamesInv'
  BY FillNames, MkDirNames DEF Scanning
<1> USE DEF indexVars, taskVars
<1>1. UNCHANGED <<drive, cache>>
  BY DEF Begin, List, ListFails, Walk, ReadIndex, Compare, Compared, SendTask, Finish, Cut
<1>2. \A n \in Nodes : (Gone(n)' <=> Gone(n)) /\ (Stale(n)' <=> Stale(n))
  <2>1. CASE ListFails
    BY <2>1 DEF ListFails, Gone, Stale
  <2>2. ASSUME NEW p \in Files, Compare(p)
        PROVE  \A n \in Nodes : (Gone(n)' <=> Gone(n)) /\ (Stale(n)' <=> Stale(n))
    <3>1. slips' = slips \/ slips' = slips \cup {<<p, "adopted">>}
      BY <2>2 DEF Compare
    <3> QED  BY <3>1 DEF Gone, Stale
  <2>3. CASE UNCHANGED slips
    BY <2>3 DEF Gone, Stale
  <2> QED  BY <2>1, <2>2, <2>3
       DEF Begin, List, Walk, ReadIndex, Compared, SendTask, Finish, Cut
<1>3. /\ \A n \in Nodes : found'[n] \in {0, found[n]} \cup Copies(n)
      /\ phase' = "fill" => \/ phase = "fill" /\ found' = found
                            \/ \A n \in Nodes : found'[n] \in {0} \cup Copies(n)
  <2>1. CASE List
    <3>1. \A n \in Nodes : found'[n] \in {0} \cup Copies(n)
      BY <2>1 DEF List
    <3> QED  BY <3>1
  <2>2. CASE ListFails
    BY <2>2 DEF ListFails, Nowhere
  <2>3. CASE Compared \/ Cut
    BY <2>3 DEF Compared, Cut, Forgotten, Nowhere
  <2>4. CASE found' = found /\ phase' # "fill"
    BY <2>4
  <2> QED  BY <2>1, <2>2, <2>3, <2>4
       DEF Begin, Walk, ReadIndex, Compare, SendTask, Finish
<1> QED  BY <1>1, <1>2, <1>3, NamesStill

\* An object whose content or place is not in question goes to the trash.
LEMMA OffSees ==
  ASSUME TypeOK, NamesInv, NEW p \in Files, NEW k \in 1..Len(drive), drive[k].path = p,
         drive' = [drive EXCEPT ![k].live = FALSE]
  PROVE  \A i \in 1..Len(drive) : Visible(i) /\ drive[i].path # p => Visible(i)'
<1> SUFFICES ASSUME NEW i \in 1..Len(drive), Visible(i), drive[i].path # p
             PROVE  Visible(i)'
  OBVIOUS
<1>1. i # k /\ drive[i].in \in 0..Len(drive) /\ Len(drive) \in Nat
  BY Elements
<1>2. drive[i].in # 0 => drive[i].in # k
  <2> SUFFICES ASSUME drive[i].in # 0, drive[i].in = k PROVE FALSE
    OBVIOUS
  <2>1. drive[i].path \in Files /\ p = Parent[drive[i].path]
    BY DEF NamesInv
  <2> QED  BY <2>1
<1>3. drive'[i] = drive[i]
  BY <1>1 DEF TypeOK
<1>4. drive[i].in # 0 => drive'[drive[i].in] = drive[drive[i].in]
  BY <1>1, <1>2 DEF TypeOK
<1> QED  BY <1>3, <1>4 DEF Visible

LEMMA TrashedSees ==
  ASSUME TypeOK, NamesInv, NEW p \in Files, Trashed(p)
  PROVE  /\ Kept
         /\ \A i \in 1..Len(drive) : Visible(i) /\ drive[i].path # p => Visible(i)'
<1>1. Kept
  BY TrashedKept
<1>2. CASE cache[p] = 0
  BY <1>1, <1>2 DEF Trashed, Visible
<1>3. CASE cache[p] # 0
  <2>1. cache[p] \in 1..Len(drive) /\ drive[cache[p]].path = p
    BY <1>3 DEF TypeOK, NamesInv
  <2>2. drive' = [drive EXCEPT ![cache[p]].live = FALSE]
    BY <1>3 DEF Trashed
  <2> QED  BY <1>1, <2>1, <2>2, OffSees
<1> QED  BY <1>2, <1>3

LEMMA StoredSees ==
  ASSUME TypeOK, NEW p \in Files, Sendable(p), Stored(p)
  PROVE  /\ cache[p] = 0 => Made(p)
         /\ cache[p] # 0 =>
               Kept /\ \A i \in 1..Len(drive) : /\ Visible(i)' <=> Visible(i)
                                                /\ i # cache[p] => drive'[i] = drive[i]
         /\ (cache[p] = 0 => drive'[Len(drive')].c = file[p])
         /\ (cache[p] # 0 => drive'[cache[p]].c = file[p])
<1>1. Len(drive) \in Nat /\ cache[p] \in 0..Len(drive)
  BY DEF TypeOK
<1>2. CASE cache[p] = 0
  <2>1. drive' = Append(drive, Object(p, Folder(p), file[p])) /\ Created(p)
    BY <1>2, StoredCopies DEF Stored
  <2>2. Made(p) /\ drive'[Len(drive')].c = file[p]
    BY <1>1, <2>1 DEF Made, Created, Object, TypeOK, Sendable
  <2> QED  BY <1>2, <2>2
<1>3. CASE cache[p] # 0
  <2>1. cache[p] \in 1..Len(drive) /\ Kept
    BY <1>1, <1>3, StoredCopies
  <2>2. drive[cache[p]] \in Objects(Len(drive)) /\ file[p] \in Full
    BY <2>1, Elements DEF Sendable
  <2>3. drive' = [drive EXCEPT ![cache[p]] = [drive[cache[p]] EXCEPT !.c = file[p]]]
    BY <1>3 DEF Stored
  <2>4. drive'[cache[p]].c = file[p] /\ drive'[cache[p]].live = drive[cache[p]].live
    BY <2>1, <2>2, <2>3 DEF TypeOK, Objects
  <2>5. \A i \in 1..Len(drive) : i # cache[p] => drive'[i] = drive[i]
    BY <2>1, <2>3 DEF TypeOK
  <2>6. \A i \in 1..Len(drive) : drive'[i].live = drive[i].live /\ drive'[i].in = drive[i].in
                                   /\ drive[i].in \in 0..Len(drive)
    BY <2>1, <2>4, <2>5, Elements DEF Kept
  <2>7. \A i \in 1..Len(drive) : Visible(i)' <=> Visible(i)
    BY <1>1, <2>6 DEF Visible
  <2> QED  BY <1>3, <2>1, <2>4, <2>5, <2>7
<1> QED  BY <1>2, <1>3

LEMMA WorkingNames == TypeOK /\ NamesInv /\ Working => NamesInv'
<1> SUFFICES ASSUME TypeOK, NamesInv, Working PROVE NamesInv'
  OBVIOUS
<1> USE DEF indexVars, scanVars
<1>1. found' = found /\ phase' = phase
  BY DEF Working, Take, Synced, Deleted, Hopeless, Failed
<1>2. ASSUME NEW t \in chan, Take(t) PROVE NamesInv'
  BY <1>1, <1>2, NamesStill DEF Take, Gone, Stale
<1>3. ASSUME NEW p \in Files, Hopeless(p) PROVE NamesInv'
  BY <1>1, <1>3, NamesStill DEF Hopeless, Gone, Stale
<1>4. ASSUME NEW p \in Files, Synced(p) PROVE NamesInv'
  <2>1. \A n \in Nodes : (Gone(n)' <=> Gone(n)) /\ (Stale(n)' <=> Stale(n))
    BY <1>4 DEF Synced, Gone, Stale
  <2>2. SlipsGrow
    BY <2>1 DEF SlipsGrow, NamesInv
  <2>3. CASE UNCHANGED <<drive, cache>>
    BY <1>1, <2>1, <2>3, NamesStill
  <2>4. CASE /\ Sendable(p) /\ Stored(p)
             /\ cache' = [cache EXCEPT ![p] = IF @ = 0 THEN Len(drive) + 1 ELSE @]
    <3>1. CASE cache[p] = 0
      <4>1. Made(p)
        BY <2>4, <3>1, StoredSees
      <4>2. \A n \in Nodes : cache'[n] = cache[n] \/ (n = p /\ cache'[n] = Len(drive'))
        BY <2>4, <3>1, <4>1 DEF TypeOK, Made, Created
      <4> QED  BY <1>1, <2>2, <4>1, <4>2, NamesMade
    <3>2. CASE cache[p] # 0
      <4>1. Kept /\ TrashKnown
        BY <2>4, <3>2, StoredSees DEF TrashKnown
      <4>2. cache' = cache
        BY <2>4, <3>2 DEF TypeOK
      <4> QED  BY <1>1, <2>2, <4>1, <4>2, NamesKept DEF IdsKept
    <3> QED  BY <3>1, <3>2
  <2> QED  BY <1>4, <2>3, <2>4 DEF Synced
<1>5. ASSUME NEW p \in Files, Deleted(p) PROVE NamesInv'
  <2>1. \A n \in Nodes : (Gone(n)' <=> Gone(n)) /\ (Stale(n)' <=> Stale(n))
    BY <1>5 DEF Deleted, Gone, Stale
  <2>2. SlipsGrow
    BY <2>1 DEF SlipsGrow, NamesInv
  <2>3. /\ Trashed(p) /\ cache'[p] = 0
        /\ \A n \in Nodes : cache'[n] \in {0, cache[n]}
    BY <1>5 DEF Deleted, TypeOK
  <2>4. Kept /\ TrashKnown
    BY <2>3, TrashedSees DEF TrashKnown
  <2> QED  BY <1>1, <2>2, <2>3, <2>4, NamesKept DEF IdsKept
<1>6. ASSUME NEW t \in work, Failed(t) PROVE NamesInv'
  <2>1. t.path \in Files /\ cache' = cache
    BY <1>6 DEF TypeOK, Tasks, Failed
  <2>2. IdsKept
    BY <1>1, <2>1 DEF IdsKept
  <2>3. CASE UNCHANGED <<drive, slips>>
    BY <1>1, <2>1, <2>3, NamesStill DEF Gone, Stale
  <2>4. CASE /\ Sendable(t.path) /\ Stored(t.path)
             /\ slips' = slips \cup IF cache[t.path] = 0 THEN {<<t.path, "doubled">>} ELSE {}
    <3>1. \A n \in Nodes : (Gone(n)' <=> Gone(n)) /\ (Stale(n)' <=> Stale(n))
      BY <2>4 DEF Gone, Stale
    <3>2. SlipsGrow
      BY <3>1 DEF SlipsGrow, NamesInv
    <3>3. CASE cache[t.path] = 0
      <4>1. Made(t.path)
        BY <2>1, <2>4, <3>3, StoredSees
      <4> QED  BY <1>1, <2>1, <3>2, <4>1, NamesMade
    <3>4. CASE cache[t.path] # 0
      <4>1. Kept /\ TrashKnown
        BY <2>1, <2>4, <3>4, StoredSees DEF TrashKnown
      <4> QED  BY <2>2, <3>2, <4>1, NamesKept
    <3> QED  BY <3>3, <3>4
  <2>5. CASE Trashed(t.path) /\ slips' = slips \cup {<<t.path, "gone">>}
    <3>1. \A n \in Nodes : (Gone(n)' <=> Gone(n) \/ n = t.path) /\ (Stale(n)' <=> Stale(n))
      BY <2>5 DEF Gone, Stale
    <3>2. SlipsGrow
      <4>1. \A p \in Files : Parent[p] # t.path
        BY <2>1
      <4> QED  BY <3>1, <4>1 DEF SlipsGrow, NamesInv
    <3>3. Kept /\ TrashKnown
      BY <2>1, <2>5, <3>1, TrashedSees DEF TrashKnown
    <3> QED  BY <2>2, <3>2, <3>3, NamesKept
  <2> QED  BY <1>6, <2>3, <2>4, <2>5 DEF Failed
<1> QED  BY <1>2, <1>3, <1>4, <1>5, <1>6 DEF Working

LEMMA CrashNames == TypeOK /\ NamesInv /\ Crash => NamesInv'
<1> SUFFICES ASSUME TypeOK, NamesInv, Crash PROVE NamesInv'
  OBVIOUS
<1> USE DEF indexVars
<1>1. /\ \A n \in Nodes : cache'[n] = 0 /\ found'[n] = 0
      /\ phase' # "fill" /\ slips' = slips
  BY DEF Crash, Forgotten, Nowhere
<1>2. SlipsGrow
  BY <1>1 DEF SlipsGrow, NamesInv, Gone, Stale
<1>3. IdsKept
  BY <1>1 DEF IdsKept
<1>4. CASE UNCHANGED drive
  BY <1>2, <1>3, <1>4, SameKept, NamesKept DEF TrashKnown, Visible
<1>5. ASSUME NEW p \in Files, Sendable(p), Stored(p) PROVE NamesInv'
  <2>1. CASE cache[p] = 0
    <3>1. Made(p)
      BY <1>5, <2>1, StoredSees
    <3> QED  BY <1>1, <1>2, <3>1, NamesMade
  <2>2. CASE cache[p] # 0
    <3>1. Kept /\ TrashKnown
      BY <1>5, <2>2, StoredSees DEF TrashKnown
    <3> QED  BY <1>2, <1>3, <3>1, NamesKept
  <2> QED  BY <2>1, <2>2
<1>6. ASSUME NEW p \in Files, Trashed(p) PROVE NamesInv'
  <2>1. Kept /\ TrashKnown
    BY <1>1, <1>6, TrashedSees DEF TrashKnown
  <2> QED  BY <1>2, <1>3, <2>1, NamesKept
<1> QED  BY <1>4, <1>5, <1>6 DEF Crash

LEMMA NamesStep == TypeOK /\ NamesInv /\ CopyInv /\ [Next]_vars => NamesInv'
<1> SUFFICES ASSUME TypeOK, NamesInv, CopyInv, UNCHANGED vars PROVE NamesInv'
  BY UserNames, ScanningNames, WorkingNames, CrashNames DEF Next
<1> QED  BY NamesStill DEF vars, scanVars, histVars, Gone, Stale

LEMMA InitNames == Init => NamesInv
<1> SUFFICES ASSUME Init PROVE NamesInv
  OBVIOUS
<1>1. /\ \A n \in Nodes : cache[n] = 0 /\ found[n] = 0 /\ ~Gone(n) /\ ~Stale(n)
      /\ phase # "fill"
  BY DEF Init, Nowhere, Gone, Stale
<1>2. ASSUME NEW i \in 1..Len(drive), drive[i].in # 0
      PROVE  /\ drive[i].path \in Files
             /\ drive[drive[i].in].path = Parent[drive[i].path]
  <2>1. PICK p \in {q \in Files : Parent[q] \in Dirs}, c \in Full :
          drive = <<Object(Parent[p], 0, "folder"), Object(p, 1, c)>>
    BY <1>2 DEF Init, Object
  <2> QED  BY <1>2, <2>1 DEF Object
<1> QED  BY <1>1, <1>2 DEF NamesInv

-----------------------------------------------------------------------------
(* What a scan repairs: contents *)

\* The time of a file is that of its row only when the row has its content.
FreshInv == \A p \in fresh : row[p] = file[p] /\ file[p] # "none"

Pure(p) == \A how \in {"adopted", "restored", "doubled", "stale"} : <<p, how>> \notin slips

\* What the index takes for synchronised has its content on the Drive.
Content(p) ==
    Pure(p) /\ row[p] = file[p] /\ row[p] # "none" => \A i \in Copies(p) : drive[i].c = row[p]
ContentInv == \A p \in Files : Content(p)

LEMMA FreshStep == TypeOK /\ FreshInv /\ [Next]_vars => FreshInv'
<1> SUFFICES ASSUME TypeOK, FreshInv, [Next]_vars PROVE FreshInv'
  OBVIOUS
<1> USE DEF FreshInv, diskVars, indexVars, Local
<1>1. CASE User
  <2>1. ASSUME NEW p \in Files, Write(p) PROVE FreshInv'
    BY <2>1 DEF Write, Change, TypeOK
  <2>2. ASSUME NEW p \in Files, Remove(p) PROVE FreshInv'
    BY <2>2 DEF Remove, Change, TypeOK
  <2>3. ASSUME NEW d \in Dirs, MakeDir(d) PROVE FreshInv'
    BY <2>3 DEF MakeDir, Change
  <2>4. ASSUME NEW d \in Dirs, RemoveDir(d) PROVE FreshInv'
    <3>1. \A p \in fresh' : p \in fresh /\ p \in Files /\ Parent[p] # d
      BY <2>4 DEF RemoveDir, TypeOK, Under
    <3>2. \A p \in Files : Parent[p] # d => file'[p] = file[p]
      BY <2>4 DEF RemoveDir
    <3> QED  BY <2>4, <3>1, <3>2 DEF RemoveDir, Change
  <2>5. ASSUME NEW i \in 1..Len(drive), RemoteTrash(i) PROVE FreshInv'
    BY <2>5 DEF RemoteTrash, Change
  <2> QED  BY <1>1, <2>1, <2>2, <2>3, <2>4, <2>5 DEF User
<1>2. ASSUME NEW p \in Files, Upsert(p), file' = file, file[p] # "none" PROVE FreshInv'
  BY <1>2 DEF Upsert, TypeOK
<1>3. CASE UNCHANGED <<file, row, fresh>>
  BY <1>3
<1>4. ASSUME NEW p \in Files, Compare(p) PROVE FreshInv'
  BY <1>2, <1>3, <1>4 DEF Compare
<1>5. ASSUME NEW p \in Files, Synced(p) PROVE FreshInv'
  <2>1. "none" \notin Full
    BY DEF Full
  <2> QED  BY <1>2, <1>3, <1>5, <2>1 DEF Synced, Sendable
<1>6. ASSUME NEW p \in Files, Deleted(p) PROVE FreshInv'
  BY <1>6 DEF Deleted, TypeOK
<1>7. CASE Scanning
  BY <1>3, <1>4, <1>7 DEF Scanning, Begin, List, ListFails, Fill, Walk, MkDir, ReadIndex,
         Compared, SendTask, Finish, Cut
<1>8. CASE Working
  BY <1>3, <1>5, <1>6, <1>8 DEF Working, Take, Hopeless, Failed
<1>9. CASE Crash \/ UNCHANGED vars
  BY <1>3, <1>9 DEF Crash, vars
<1> QED  BY <1>1, <1>7, <1>8, <1>9 DEF Next

\* No copy of q is new, and each has the content it had.
SameContents(q) == \A i \in Copies(q)' : i \in Copies(q) /\ drive'[i].c = drive[i].c

LEMMA OffContents ==
  ASSUME TypeOK, NEW k \in 1..Len(drive), drive' = [drive EXCEPT ![k].live = FALSE]
  PROVE  \A q \in Nodes : SameContents(q)
<1>1. Kept /\ drive[k] \in Objects(Len(drive))
  BY OffKept, Elements
<1>2. \A i \in 1..Len(drive) : drive'[i].c = drive[i].c
  BY <1>1 DEF TypeOK, Objects
<1> QED  BY <1>1, <1>2, KeptCopies DEF SameContents, Copies

LEMMA TrashedContents ==
  ASSUME TypeOK, NEW p \in Files, Trashed(p)
  PROVE  \A q \in Nodes : SameContents(q)
<1>1. CASE cache[p] = 0
  BY <1>1 DEF Trashed, SameContents, Copies, Visible
<1>2. CASE cache[p] # 0
  <2>1. cache[p] \in 1..Len(drive)
    BY <1>2 DEF TypeOK
  <2> QED  BY <1>2, <2>1, OffContents DEF Trashed
<1> QED  BY <1>1, <1>2

LEMMA StoredContents ==
  ASSUME TypeOK, NamesInv, CopyInv, NEW p \in Files, Sendable(p), Stored(p)
  PROVE  /\ \A q \in Nodes \ {p} : SameContents(q)
         /\ Clear(p) /\ (cache[p] = 0 => Copies(p) = {}) =>
               \A i \in Copies(p)' : drive'[i].c = file[p]
<1>1. CASE cache[p] = 0
  <2>1. Created(p) /\ drive'[Len(drive')].c = file[p]
    BY <1>1, StoredSees DEF Made
  <2>2. /\ \A q \in Nodes \ {p} : Copies(q)' \subseteq Copies(q)
        /\ Copies(p)' \subseteq Copies(p) \cup {Len(drive')}
    BY <2>1, CreatedCopies
  <2>3. \A q \in Nodes : \A i \in Copies(q) : drive'[i] = drive[i]
    BY <2>1 DEF Created, Copies
  <2>4. \A q \in Nodes \ {p} : SameContents(q)
    BY <2>2, <2>3 DEF SameContents
  <2>5. Copies(p) = {} => \A i \in Copies(p)' : drive'[i].c = file[p]
    BY <2>1, <2>2
  <2> QED  BY <1>1, <2>4, <2>5
<1>2. CASE cache[p] # 0
  <2>1. /\ Kept /\ drive'[cache[p]].c = file[p]
        /\ \A i \in 1..Len(drive) : i # cache[p] => drive'[i] = drive[i]
    BY <1>2, StoredSees
  <2>2. \A q \in Nodes : Copies(q)' \subseteq Copies(q)
    BY <2>1, KeptCopies
  <2>3. drive[cache[p]].path = p
    BY <1>2 DEF NamesInv
  <2>4. \A q \in Nodes \ {p} : \A i \in Copies(q) : drive'[i] = drive[i]
    BY <2>1, <2>3 DEF Copies
  <2>5. \A q \in Nodes \ {p} : SameContents(q)
    BY <2>2, <2>4 DEF SameContents
  <2>6. Clear(p) => Copies(p) \subseteq {cache[p]}
    BY <1>2 DEF CopyInv
  <2>7. Clear(p) => \A i \in Copies(p)' : drive'[i].c = file[p]
    BY <2>1, <2>2, <2>6
  <2> QED  BY <2>5, <2>7
<1> QED  BY <1>1, <1>2

LEMMA ContentSame ==
  ASSUME ContentInv, NEW p \in Files, Pure(p)' => Pure(p), SameContents(p),
         row'[p] = row[p], file'[p] = file[p]
  PROVE  Content(p)'
BY DEF ContentInv, Content, SameContents

LEMMA ContentStep ==
  TypeOK /\ NamesInv /\ CopyInv /\ ContentInv /\ [Next]_vars => ContentInv'
<1> SUFFICES ASSUME TypeOK, NamesInv, CopyInv, ContentInv, [Next]_vars, NEW p \in Files
             PROVE  Content(p)'
  BY DEF ContentInv
<1> USE DEF diskVars, indexVars, Local
<1>1. Pure(p) => Clear(p)
  BY DEF Pure, Clear
<1>2. drive' = drive => SameContents(p)
  BY DEF SameContents, Copies, Visible
<1>3. ASSUME drive' = drive, slips \subseteq slips', UNCHANGED <<row, file>>
      PROVE  Content(p)'
  BY <1>2, <1>3, ContentSame DEF Pure
<1>4. CASE User
  <2>1. row' = row /\ (Pure(p)' => Pure(p))
    BY <1>4 DEF User, Write, Remove, MakeDir, RemoveDir, RemoteTrash, Change, Pure
  <2>2. ASSUME NEW q \in Files, Write(q) PROVE Content(p)'
    <3>1. PICK c \in Contents :
            /\ file' = [file EXCEPT ![q] = c]
            /\ slips' = slips \cup IF Restored(q, c) THEN {<<q, "restored">>} ELSE {}
      BY <2>2 DEF Write, Change
    <3>2. drive' = drive
      BY <2>2 DEF Write
    <3>3. CASE q # p
      <4>1. file'[p] = file[p]
        BY <3>1, <3>3 DEF TypeOK
      <4> QED  BY <1>2, <2>1, <3>2, <4>1, ContentSame
    <3>4. CASE q = p
      <4>1. file'[p] = c
        BY <3>1, <3>4 DEF TypeOK
      <4>2. Pure(p)' => ~Restored(p, c)
        BY <3>1, <3>4 DEF Pure
      <4>3. Pure(p)' /\ row[p] = c => \A i \in Copies(p) : drive[i].c = c
        BY <4>2 DEF Restored
      <4> QED  BY <1>2, <2>1, <3>2, <4>1, <4>3 DEF Content, SameContents
    <3> QED  BY <3>3, <3>4
  <2>3. CASE file'[p] = "none"
    BY <2>1, <2>3 DEF Content
  <2>4. ASSUME NEW q \in Files, Remove(q) PROVE Content(p)'
    <3>1. file'[p] = "none" \/ file'[p] = file[p]
      BY <2>4 DEF Remove, TypeOK
    <3> QED  BY <1>2, <2>1, <2>3, <2>4, <3>1, ContentSame DEF Remove
  <2>5. ASSUME NEW d \in Dirs, MakeDir(d) PROVE Content(p)'
    BY <1>2, <2>1, <2>5, ContentSame DEF MakeDir
  <2>6. ASSUME NEW d \in Dirs, RemoveDir(d) PROVE Content(p)'
    <3>1. file'[p] = "none" \/ file'[p] = file[p]
      BY <2>6 DEF RemoveDir
    <3> QED  BY <1>2, <2>1, <2>3, <2>6, <3>1, ContentSame DEF RemoveDir
  <2>7. ASSUME NEW k \in 1..Len(drive), RemoteTrash(k) PROVE Content(p)'
    <3>1. SameContents(p) /\ file' = file
      BY <2>7, OffContents DEF RemoteTrash
    <3> QED  BY <2>1, <3>1, ContentSame
  <2> QED  BY <1>4, <2>2, <2>4, <2>5, <2>6, <2>7 DEF User
<1>5. ASSUME NEW q \in Files, Compare(q) PROVE Content(p)'
  <2>1. drive' = drive /\ file' = file /\ slips \subseteq slips'
    BY <1>5 DEF Compare
  <2>2. CASE row' = row
    BY <1>3, <2>1, <2>2
  <2>3. CASE Upsert(q) /\ q # p
    <3>1. row'[p] = row[p]
      BY <2>3 DEF Upsert, TypeOK
    <3> QED  BY <1>2, <2>1, <3>1, ContentSame DEF Pure
  <2>4. CASE Upsert(q) /\ q = p /\ row[p] = file[p]
    <3>1. row'[p] = row[p]
      BY <2>4 DEF Upsert, TypeOK
    <3> QED  BY <1>2, <2>1, <3>1, ContentSame DEF Pure
  <2>5. CASE /\ Upsert(q) /\ q = p /\ cache[p] # 0
             /\ slips' = slips \cup IF file[p] # drive[cache[p]].c THEN {<<p, "adopted">>} ELSE {}
    <3>1. row'[p] = file[p]
      BY <2>5 DEF Upsert, TypeOK
    <3>2. Pure(p)' => Pure(p) /\ file[p] = drive[cache[p]].c
      BY <2>5 DEF Pure
    <3>3. Pure(p)' => Copies(p) \subseteq {cache[p]}
      BY <1>1, <2>5, <3>2 DEF CopyInv
    <3>4. Copies(p)' = Copies(p)
      BY <2>1 DEF Copies, Visible
    <3> QED  BY <2>1, <3>1, <3>2, <3>3, <3>4 DEF Content
  <2> QED  BY <1>5, <2>2, <2>3, <2>4, <2>5 DEF Compare
<1>6. CASE Fill
  BY <1>2, <1>6, ContentSame DEF Fill, Pure
<1>7. ASSUME NEW d \in Dirs, MkDir(d) PROVE Content(p)'
  <2>1. slips' = slips /\ file' = file /\ row' = row
    BY <1>7 DEF MkDir
  <2>2. CASE drive' = drive
    BY <1>2, <2>1, <2>2, ContentSame DEF Pure
  <2>3. CASE drive' = Append(drive, Object(d, Folder(d), "folder"))
    <3>1. Folder(d) = 0 /\ Len(drive) \in Nat /\ d # p
      BY Elements DEF Folder
    <3>2. Created(d)
      BY <2>3, <3>1 DEF Created, Object, TypeOK
    <3>3. Copies(p)' \subseteq Copies(p)
      BY <3>1, <3>2, CreatedCopies
    <3>4. SameContents(p)
      BY <3>2, <3>3 DEF SameContents, Created, Copies
    <3> QED  BY <2>1, <3>4, ContentSame DEF Pure
  <2> QED  BY <1>7, <2>2, <2>3 DEF MkDir
<1>8. CASE \/ Begin \/ List \/ ListFails \/ Walk \/ ReadIndex \/ Compared \/ SendTask
           \/ Finish \/ Cut
  BY <1>3, <1>8 DEF Begin, List, ListFails, Walk, ReadIndex, Compared, SendTask, Finish, Cut
<1>9. ASSUME NEW q \in Files, Synced(q) PROVE Content(p)'
  <2>1. file' = file
    BY <1>9 DEF Synced
  <2>2. CASE UNCHANGED <<drive, slips, row>>
    BY <1>3, <2>1, <2>2
  <2>3. CASE UNCHANGED <<drive, slips>> /\ Upsert(q) /\ (q # p \/ row[p] = file[p])
    <3>1. row'[p] = row[p]
      BY <2>3 DEF Upsert, TypeOK
    <3> QED  BY <1>2, <2>1, <2>3, <3>1, ContentSame DEF Pure
  <2>4. CASE /\ Sendable(q) /\ Stored(q) /\ Upsert(q) /\ q # p
             /\ slips' = slips \ ({q} \X {"adopted", "restored"})
    <3>1. row'[p] = row[p] /\ SameContents(p)
      BY <2>4, StoredContents DEF Upsert, TypeOK
    <3> QED  BY <2>1, <2>4, <3>1, ContentSame DEF Pure
  <2>5. CASE /\ Sendable(q) /\ Stored(q) /\ Upsert(q) /\ q = p
             /\ slips' = slips \ ({q} \X {"adopted", "restored"})
    <3>1. row'[p] = file[p]
      BY <2>5 DEF Upsert, TypeOK
    <3>2. Pure(p)' => Clear(p)
      BY <2>5 DEF Pure, Clear
    <3>3. Awaited(p)
      BY <1>9, <2>5 DEF Synced, Awaited, Ordered
    <3>4. Clear(p) /\ cache[p] = 0 => Copies(p) = {}
      BY <3>3 DEF CopyInv
    <3>5. Clear(p) => \A i \in Copies(p)' : drive'[i].c = file[p]
      BY <2>5, <3>4, StoredContents
    <3> QED  BY <2>1, <3>1, <3>2, <3>5 DEF Content
  <2> QED  BY <1>9, <2>2, <2>3, <2>4, <2>5 DEF Synced, InSync
<1>10. ASSUME NEW q \in Files, Deleted(q) PROVE Content(p)'
  <2>1. Trashed(q) /\ file' = file
    BY <1>10 DEF Deleted
  <2>2. CASE q = p
    <3>1. row'[p] = "none"
      BY <1>10, <2>2 DEF Deleted, TypeOK
    <3> QED  BY <3>1 DEF Content
  <2>3. CASE q # p
    <3>1. row'[p] = row[p] /\ (Pure(p)' => Pure(p))
      BY <1>10, <2>3 DEF Deleted, TypeOK, Pure
    <3> QED  BY <2>1, <3>1, TrashedContents, ContentSame
  <2> QED  BY <2>2, <2>3
<1>11. ASSUME NEW q \in Files, Sendable(q), Stored(q), UNCHANGED <<row, file>>,
              Pure(p)' => Pure(p)
       PROVE  Content(p)'
  <2>1. CASE q # p
    BY <1>11, <2>1, StoredContents, ContentSame
  <2>2. CASE q = p /\ cache[p] # 0
    <3>1. row[p] = "none" \/ row[p] # file[p]
      BY <1>11, <2>2 DEF Sendable, InSync
    <3> QED  BY <1>11, <3>1 DEF Content
  <2>3. CASE q = p /\ cache[p] = 0
    <3>1. Created(p) /\ drive'[Len(drive')].c = file[p]
      BY <1>11, <2>3, StoredSees DEF Made
    <3>2. Copies(p)' \subseteq Copies(p) \cup {Len(drive')}
      BY <3>1, CreatedCopies
    <3>3. \A i \in Copies(p) : drive'[i] = drive[i]
      BY <3>1 DEF Created, Copies
    <3> QED  BY <1>11, <3>1, <3>2, <3>3 DEF Content, ContentInv
  <2> QED  BY <2>1, <2>2, <2>3
<1>12. ASSUME NEW q \in Files, Trashed(q), UNCHANGED <<row, file>>, Pure(p)' => Pure(p)
       PROVE  Content(p)'
  BY <1>12, TrashedContents, ContentSame
<1>13. ASSUME NEW t \in work, Failed(t) PROVE Content(p)'
  <2>1. t.path \in Files /\ UNCHANGED <<row, file>> /\ (Pure(p)' => Pure(p))
    BY <1>13 DEF Failed, TypeOK, Tasks, Pure
  <2> QED  BY <1>2, <1>11, <1>12, <1>13, <2>1, ContentSame DEF Failed
<1>14. CASE Crash
  <2>1. UNCHANGED <<row, file>> /\ (Pure(p)' => Pure(p))
    BY <1>14 DEF Crash, Pure
  <2> QED  BY <1>2, <1>11, <1>12, <1>14, <2>1, ContentSame DEF Crash
<1>15. CASE (\E t \in chan : Take(t)) \/ \E q \in Files : Hopeless(q)
  BY <1>3, <1>15 DEF Take, Hopeless
<1>16. CASE UNCHANGED vars
  BY <1>3, <1>16 DEF vars, histVars
<1> QED  BY <1>4, <1>5, <1>6, <1>7, <1>8, <1>9, <1>10, <1>13, <1>14, <1>15, <1>16
       DEF Next, Scanning, Working

-----------------------------------------------------------------------------
(* What a scan repairs: what is still to come *)

\* The scan, or a task it has sent, still has to look at the file.
ToCome(p) ==
    \/ phase \in {"fill", "walk", "dirs"}
    \/ phase = "compare" /\ p \in left
    \/ p \in toSync
    \/ Sync(p) \in Ordered

FileGoal(p) == file[p] \in Full => ToCome(p) \/ (p \in fresh /\ cache[p] # 0)

\* What has no file is listed, then an orphan of the listing or of the index, then
\* deleted; or there is nothing left of it.
AbsentGoal(p) ==
    Clear(p) /\ file[p] = "none" =>
        /\ phase \in {"fill", "walk", "dirs", "compare"} /\ found[p] = 0 => Copies(p) = {}
        /\ phase \in {"dirs", "compare"} => p \notin walked
        /\ phase = "compare" /\ p \notin known => row[p] = "none"
        /\ phase \in {"send", "idle"} => \/ p \in toDelete
                                         \/ Delete(p) \in Ordered
                                         \/ Copies(p) = {} /\ row[p] = "none"

FolderGoal ==
    /\ phase = "dirs" => dirs \ doubt \subseteq walked
    /\ phase \in {"compare", "send"} \/ (phase = "idle" /\ extent = "whole") =>
          \A d \in dirs \ doubt : cache[d] # 0

PhaseInv ==
    /\ phase \notin {"compare", "send"} => toSync = {}
    /\ extent # "part" => phase # "list"
    /\ phase = "idle" => extent # "listed"

FileGoals == extent # "part" => \A p \in Files \ doubt : FileGoal(p) /\ AbsentGoal(p)

GoalInv == PhaseInv /\ FolderGoal /\ FileGoals

LEMMA PhaseStep == TypeOK /\ PhaseInv /\ [Next]_vars => PhaseInv'
<1> SUFFICES ASSUME TypeOK, PhaseInv, [Next]_vars PROVE PhaseInv'
  OBVIOUS
<1> USE DEF PhaseInv, scanVars
<1>1. CASE UNCHANGED <<phase, toSync, extent>>
  BY <1>1
<1>2. CASE User
  BY <1>1, <1>2 DEF User, Write, Remove, MakeDir, RemoveDir, RemoteTrash, Change
<1>3. CASE Begin \/ List \/ ListFails \/ Fill \/ Walk \/ ReadIndex
  BY <1>3 DEF Begin, List, ListFails, Fill, Walk, ReadIndex
<1>4. ASSUME NEW d \in Dirs, MkDir(d) PROVE PhaseInv'
  BY <1>1, <1>4 DEF MkDir
<1>5. ASSUME NEW p \in Files, Compare(p) PROVE PhaseInv'
  BY <1>5 DEF Compare
<1>6. CASE Compared \/ SendTask \/ Finish \/ Cut
  BY <1>6 DEF Compared, SendTask, Finish, Cut, TypeOK
<1>7. CASE Working
  BY <1>1, <1>7 DEF Working, Take, Synced, Deleted, Hopeless, Failed
<1>8. CASE Crash
  BY <1>8 DEF Crash
<1>9. CASE UNCHANGED vars
  BY <1>1, <1>9 DEF vars, histVars
<1> QED  BY <1>2, <1>3, <1>4, <1>5, <1>6, <1>7, <1>8, <1>9 DEF Next, Scanning

LEMMA FolderGoalStep ==
  TypeOK /\ PhaseInv /\ FolderInv /\ FolderGoal /\ [Next]_vars => FolderGoal'
<1> SUFFICES ASSUME TypeOK, PhaseInv, FolderInv, FolderGoal, [Next]_vars PROVE FolderGoal'
  OBVIOUS
<1> USE DEF FolderGoal, scanVars, diskVars, Local
<1>1. CASE User
  <2>1. CASE dirs' \subseteq dirs /\ doubt \subseteq doubt' /\ UNCHANGED <<phase, walked, cache, extent>>
    BY <2>1
  <2>2. ASSUME NEW d \in Dirs, MakeDir(d) PROVE FolderGoal'
    BY <2>2 DEF MakeDir, Change
  <2> QED  BY <1>1, <2>1, <2>2 DEF User, Write, Remove, RemoveDir, RemoteTrash, Change
<1>2. CASE Begin \/ List \/ ListFails \/ Fill
  BY <1>2 DEF Begin, List, ListFails, Fill
<1>3. CASE Walk
  BY <1>3 DEF Walk
<1>4. ASSUME NEW d \in Dirs, MkDir(d) PROVE FolderGoal'
  BY <1>4 DEF MkDir
<1>5. CASE ReadIndex
  BY <1>5 DEF ReadIndex, FolderInv, TypeOK
<1>6. ASSUME NEW p \in Files, Compare(p) PROVE FolderGoal'
  BY <1>6 DEF Compare
<1>7. CASE Compared \/ SendTask \/ Finish \/ Cut
  BY <1>7 DEF Compared, SendTask, Finish, Cut
<1>8. CASE Working
  <2>1. \A d \in Dirs : cache'[d] = cache[d]
    BY <1>8 DEF Working, Take, Synced, Deleted, Hopeless, Failed, TypeOK
  <2>2. UNCHANGED <<phase, walked, extent, dirs>> /\ doubt \subseteq doubt'
    BY <1>8 DEF Working, Take, Synced, Deleted, Hopeless, Failed
  <2> QED  BY <2>1, <2>2 DEF TypeOK
<1>9. CASE Crash
  BY <1>9 DEF Crash
<1>10. CASE UNCHANGED vars
  BY <1>10 DEF vars, histVars
<1> QED  BY <1>1, <1>2, <1>3, <1>4, <1>5, <1>6, <1>7, <1>8, <1>9, <1>10 DEF Next, Scanning

\* A step that is about other paths.
Apart(p) ==
    /\ file'[p] = file[p] /\ row'[p] = row[p] /\ UNCHANGED <<phase, found, walked, known>>
    /\ p \in fresh => p \in fresh'
    /\ cache[p] # 0 => cache'[p] # 0
    /\ p \in left => p \in left'
    /\ p \in toSync => p \in toSync'
    /\ p \in toDelete => p \in toDelete'
    /\ \A t \in {Sync(p), Delete(p)} : t \in Ordered => t \in Ordered'
    /\ Copies(p)' \subseteq Copies(p)
    /\ Clear(p)' => Clear(p)

LEMMA ApartKeeps ==
  ASSUME NEW p \in Files, FileGoal(p), AbsentGoal(p), Apart(p)
  PROVE  FileGoal(p)' /\ AbsentGoal(p)'
<1>1. FileGoal(p)'
  BY DEF FileGoal, ToCome, Apart
<1>2. AbsentGoal(p)'
  BY DEF AbsentGoal, Apart
<1> QED  BY <1>1, <1>2

LEMMA OtherTasks ==
  \A p, q \in Files : /\ Sync(p) # Delete(q)
                      /\ p # q => Sync(p) # Sync(q) /\ Delete(p) # Delete(q)
BY DEF Sync, Delete

LEMMA MkDirApart ==
  ASSUME TypeOK, NEW d \in Dirs, MkDir(d), NEW p \in Files
  PROVE  Apart(p)
<1> USE DEF Local, diskVars, indexVars, taskVars
<1>1. p # d
  OBVIOUS
<1>2. CASE drive' = drive
  BY <1>1, <1>2 DEF MkDir, Apart, Ordered, Copies, Visible, Clear, TypeOK
<1>3. CASE drive' = Append(drive, Object(d, Folder(d), "folder"))
  <2>1. Folder(d) = 0 /\ Len(drive) \in Nat
    BY Elements DEF Folder
  <2>2. Created(d)
    BY <1>3, <2>1 DEF Created, Object, TypeOK
  <2>3. Copies(p)' \subseteq Copies(p)
    BY <1>1, <2>2, CreatedCopies
  <2> QED  BY <1>1, <2>3 DEF MkDir, Apart, Ordered, Clear, TypeOK
<1> QED  BY <1>2, <1>3 DEF MkDir

LEMMA UserApart ==
  ASSUME TypeOK, User, NEW p \in Files, p \notin doubt'
  PROVE  p \notin doubt /\ extent' = extent /\ Apart(p)
<1> USE DEF Ordered, Clear, Change, scanVars, taskVars, diskVars
<1>1. drive' = drive => Copies(p)' \subseteq Copies(p)
  BY DEF Copies, Visible
<1>2. ASSUME NEW q \in Files, Write(q) \/ Remove(q)
      PROVE  p \notin doubt /\ extent' = extent /\ Apart(p)
  <2>1. p # q
    BY <1>2 DEF Write, Remove
  <2> QED  BY <1>1, <1>2, <2>1 DEF Write, Remove, Apart, TypeOK
<1>3. ASSUME NEW d \in Dirs, MakeDir(d)
      PROVE  p \notin doubt /\ extent' = extent /\ Apart(p)
  BY <1>1, <1>3 DEF MakeDir, Apart
<1>4. ASSUME NEW d \in Dirs, RemoveDir(d)
      PROVE  p \notin doubt /\ extent' = extent /\ Apart(p)
  <2>1. p \notin Under(d)
    BY <1>4 DEF RemoveDir
  <2>2. file'[p] = file[p]
    BY <1>4, <2>1 DEF RemoveDir, Under
  <2> QED  BY <1>1, <1>4, <2>1, <2>2 DEF RemoveDir, Apart
<1>5. ASSUME NEW i \in 1..Len(drive), RemoteTrash(i)
      PROVE  p \notin doubt /\ extent' = extent /\ Apart(p)
  <2>1. Copies(p)' \subseteq Copies(p)
    BY <1>5, OffContents DEF RemoteTrash, SameContents
  <2> QED  BY <1>5, <2>1 DEF RemoteTrash, Apart
<1> QED  BY <1>2, <1>3, <1>4, <1>5 DEF User

LEMMA ScanningGoals ==
  ASSUME TypeOK, WalkInv, FolderInv, PhaseInv, FileGoals, Scanning, extent' # "part",
         NEW p \in Files, p \notin doubt'
  PROVE  FileGoal(p)' /\ AbsentGoal(p)'
<1> USE DEF Local, diskVars, indexVars, taskVars
<1>1. ~Begin /\ ~Cut /\ ~ListFails
  BY DEF Begin, Cut, ListFails, PhaseInv
<1>2. drive' = drive => Copies(p)' = Copies(p)
  BY DEF Copies, Visible
<1>3. "none" \notin Full
  BY DEF Full
<1>4. CASE List
  <2>1. FileGoal(p)'
    BY <1>4 DEF List, FileGoal, ToCome
  <2>2. found'[p] = 0 => Copies(p)' = {}
    BY <1>2, <1>4 DEF List, Copies
  <2> QED  BY <1>4, <2>1, <2>2 DEF List, AbsentGoal
<1>5. CASE ~List
  <2>1. extent # "part" /\ p \notin doubt
    BY <1>1, <1>5 DEF Scanning, Fill, Walk, MkDir, ReadIndex, Compare, Compared, SendTask, Finish
  <2>2. FileGoal(p) /\ AbsentGoal(p)
    BY <2>1 DEF FileGoals
  <2>3. Clear(p)' => Clear(p)
    BY <1>1, <1>5 DEF Scanning, Fill, Walk, MkDir, ReadIndex, Compare, Compared, SendTask,
           Finish, Clear
  <2>4. CASE Fill
    <3>1. FileGoal(p)'
      BY <2>4 DEF Fill, FileGoal, ToCome
    <3> QED  BY <1>2, <2>2, <2>3, <2>4, <3>1 DEF Fill, AbsentGoal
  <2>5. CASE Walk
    <3>1. FileGoal(p)'
      BY <2>5 DEF Walk, FileGoal, ToCome
    <3>2. file[p] = "none" => p \notin walked'
      BY <2>5 DEF Walk, TypeOK
    <3> QED  BY <1>2, <2>2, <2>3, <2>5, <3>1, <3>2 DEF Walk, AbsentGoal
  <2>6. ASSUME NEW d \in Dirs, MkDir(d) PROVE FileGoal(p)' /\ AbsentGoal(p)'
    BY <2>2, <2>6, MkDirApart, ApartKeeps
  <2>7. CASE ReadIndex
    <3>1. file[p] # "none" => p \in left'
      BY <2>1, <2>7 DEF ReadIndex, WalkInv
    <3>2. FileGoal(p)'
      BY <1>3, <2>7, <3>1 DEF ReadIndex, FileGoal, ToCome
    <3>3. p \notin known' => row'[p] = "none"
      BY <2>7 DEF ReadIndex
    <3> QED  BY <1>2, <2>2, <2>3, <2>7, <3>2, <3>3 DEF ReadIndex, AbsentGoal
  <2>8. ASSUME NEW q \in Files, Compare(q), q # p PROVE FileGoal(p)' /\ AbsentGoal(p)'
    <3>1. Apart(p)
      BY <1>2, <2>3, <2>8 DEF Compare, Upsert, Apart, Ordered, TypeOK
    <3> QED  BY <2>2, <3>1, ApartKeeps
  <2>9. CASE Compare(p)
    <3>1. Clear(p)' => file'[p] # "none"
      BY <2>2, <2>3, <2>9 DEF Compare, FolderInv, AbsentGoal
    <3>2. CASE cache[p] # 0 /\ p \in fresh'
      BY <2>9, <3>2, <3>1 DEF Compare, FileGoal, AbsentGoal
    <3>3. CASE p \in toSync'
      BY <3>1, <3>3 DEF FileGoal, ToCome, AbsentGoal
    <3>4. CASE file[p] = "none"
      BY <1>3, <2>9, <3>1, <3>4 DEF Compare, FileGoal, AbsentGoal
    <3> QED  BY <2>9, <3>2, <3>3, <3>4 DEF Compare, Upsert
  <2>10. CASE Compared
    <3>1. FileGoal(p)'
      BY <2>2, <2>10 DEF Compared, FileGoal, ToCome, Ordered
    <3>2. file[p] = "none" /\ Clear(p) /\ p \notin toDelete' => Copies(p) = {} /\ row[p] = "none"
      BY <2>2, <2>10 DEF Compared, AbsentGoal, Listed
    <3> QED  BY <1>2, <2>3, <2>10, <3>1, <3>2 DEF Compared, AbsentGoal
  <2>11. CASE SendTask
    <3>1. FileGoal(p)'
      BY <2>2, <2>11 DEF SendTask, FileGoal, ToCome, Ordered
    <3> QED  BY <1>2, <2>2, <2>3, <2>11, <3>1 DEF SendTask, AbsentGoal, Ordered
  <2>12. CASE Finish
    <3>1. FileGoal(p)'
      BY <2>2, <2>12 DEF Finish, FileGoal, ToCome, Ordered
    <3> QED  BY <1>2, <2>2, <2>3, <2>12, <3>1 DEF Finish, AbsentGoal, Ordered
  <2> QED  BY <1>1, <1>5, <2>4, <2>5, <2>6, <2>7, <2>8, <2>9, <2>10, <2>11, <2>12
           DEF Scanning
<1> QED  BY <1>4, <1>5

LEMMA WorkingGoals ==
  ASSUME TypeOK, NamesInv, CopyInv, DeletesAbsent, ParentCached, PhaseInv, FileGoals,
         Working, extent' # "part", NEW p \in Files, p \notin doubt'
  PROVE  FileGoal(p)' /\ AbsentGoal(p)'
<1> USE DEF Local, diskVars, indexVars, scanVars
<1>1. extent # "part" /\ p \notin doubt
  BY DEF Working, Take, Synced, Deleted, Hopeless, Failed
<1>2. FileGoal(p) /\ AbsentGoal(p)
  BY <1>1 DEF FileGoals
<1>3. Clear(p)' => Clear(p)
  BY DEF Working, Take, Synced, Deleted, Hopeless, Failed, Clear
<1>4. drive' = drive => Copies(p)' \subseteq Copies(p)
  BY DEF Copies, Visible
<1>5. "none" \notin Full /\ "empty" \notin Full
  BY DEF Full
<1>6. ASSUME NEW t \in chan, Take(t) PROVE FileGoal(p)' /\ AbsentGoal(p)'
  <2>1. Apart(p)
    BY <1>3, <1>4, <1>6 DEF Take, Apart, Ordered
  <2> QED  BY <1>2, <2>1, ApartKeeps
<1>7. ASSUME NEW q \in Files, Synced(q) PROVE FileGoal(p)' /\ AbsentGoal(p)'
  <2>1. CASE q # p
    <3>1. \A t \in {Sync(p), Delete(p)} : t \in Ordered => t \in Ordered'
      BY <1>7, <2>1, OtherTasks DEF Synced, Ordered
    <3>2. Copies(p)' \subseteq Copies(p)
      BY <1>4, <1>7, <2>1, StoredContents DEF Synced, SameContents
    <3>3. Apart(p)
      BY <1>3, <1>7, <2>1, <3>1, <3>2 DEF Synced, Upsert, Apart, TypeOK
    <3> QED  BY <1>2, <3>3, ApartKeeps
  <2>2. CASE q = p
    <3>1. file[p] # "none" /\ file' = file
      BY <1>5, <1>7, <2>2 DEF Synced, Sendable
    <3>2. file[p] \in Full => p \in fresh' /\ cache'[p] # 0
      BY <1>5, <1>7, <2>2, Elements DEF Synced, InSync, Upsert, TypeOK
    <3> QED  BY <3>1, <3>2 DEF FileGoal, AbsentGoal
  <2> QED  BY <2>1, <2>2
<1>8. ASSUME NEW q \in Files, Deleted(q) PROVE FileGoal(p)' /\ AbsentGoal(p)'
  <2>1. SameContents(p)
    BY <1>8, TrashedContents DEF Deleted
  <2>2. CASE q # p
    <3>1. \A t \in {Sync(p), Delete(p)} : t \in Ordered => t \in Ordered'
      BY <1>8, <2>2, OtherTasks DEF Deleted, Ordered
    <3>2. Apart(p)
      BY <1>3, <1>8, <2>1, <2>2, <3>1 DEF Deleted, SameContents, Apart, TypeOK
    <3> QED  BY <1>2, <3>2, ApartKeeps
  <2>3. CASE q = p
    <3>1. file[p] = "none" /\ file' = file
      BY <1>1, <1>8, <2>3 DEF Deleted, DeletesAbsent, Ordered
    <3>2. row'[p] = "none"
      BY <1>8, <2>3 DEF Deleted, TypeOK
    <3>3. ASSUME Clear(p), phase \in {"send", "idle"} PROVE Copies(p)' = {}
      <4>1. Awaited(p)
        BY <1>1, <3>3 DEF Awaited, PhaseInv, TypeOK
      <4>2. CASE cache[p] = 0
        BY <2>1, <3>3, <4>1, <4>2 DEF CopyInv, SameContents
      <4>3. CASE cache[p] # 0
        <5>1. cache[p] \in 1..Len(drive) /\ drive[cache[p]] \in Objects(Len(drive))
          BY <4>3, Elements DEF TypeOK
        <5>2. drive' = [drive EXCEPT ![cache[p]] = [drive[cache[p]] EXCEPT !.live = FALSE]]
          BY <1>8, <2>3, <4>3 DEF Deleted, Trashed
        <5>3. ~drive'[cache[p]].live
          BY <5>1, <5>2, Elements, Edited DEF TypeOK, Full
        <5>4. cache[p] \notin Copies(p)'
          BY <5>3 DEF Copies, Visible
        <5> QED  BY <2>1, <3>3, <4>3, <5>4 DEF CopyInv, SameContents
      <4> QED  BY <4>2, <4>3
    <3>4. UNCHANGED <<phase, found, walked, known>> /\ Copies(p)' \subseteq Copies(p)
      BY <1>8, <2>1 DEF Deleted, SameContents
    <3>5. FileGoal(p)'
      BY <1>5, <3>1 DEF FileGoal
    <3>6. AbsentGoal(p)'
      BY <1>2, <1>3, <3>1, <3>2, <3>3, <3>4 DEF AbsentGoal
    <3> QED  BY <3>5, <3>6
  <2> QED  BY <2>2, <2>3
<1>9. ASSUME NEW q \in Files, Hopeless(q) PROVE FileGoal(p)' /\ AbsentGoal(p)'
  <2>1. CASE q # p
    <3>1. \A t \in {Sync(p), Delete(p)} : t \in Ordered => t \in Ordered'
      BY <1>9, <2>1, OtherTasks DEF Hopeless, Ordered
    <3>2. Apart(p)
      BY <1>3, <1>4, <1>9, <3>1 DEF Hopeless, Apart
    <3> QED  BY <1>2, <3>2, ApartKeeps
  <2>2. CASE q = p
    <3>1. file[p] = "none" /\ file' = file
      BY <1>9, <2>2 DEF Hopeless, ParentCached, Ordered
    <3>2. Delete(p) \in Ordered => Delete(p) \in Ordered'
      BY <1>9, <2>2, OtherTasks DEF Hopeless, Ordered
    <3>3. FileGoal(p)'
      BY <1>5, <3>1 DEF FileGoal
    <3>4. AbsentGoal(p)'
      BY <1>2, <1>3, <1>4, <1>9, <3>1, <3>2 DEF Hopeless, AbsentGoal
    <3> QED  BY <3>3, <3>4
  <2> QED  BY <2>1, <2>2
<1>10. ASSUME NEW t \in work, Failed(t) PROVE FileGoal(p)' /\ AbsentGoal(p)'
  <2>1. t.path \in Files /\ t.path # p
    BY <1>10 DEF Failed, TypeOK, Tasks
  <2>2. \A u \in {Sync(p), Delete(p)} : u \in Ordered => u \in Ordered'
    BY <1>10, <2>1 DEF Failed, Ordered, Sync, Delete
  <2>3. Copies(p)' \subseteq Copies(p)
    BY <1>4, <1>10, <2>1, StoredContents, TrashedContents DEF Failed, SameContents
  <2>4. Apart(p)
    BY <1>3, <1>10, <2>2, <2>3 DEF Failed, Apart
  <2> QED  BY <1>2, <2>4, ApartKeeps
<1> QED  BY <1>6, <1>7, <1>8, <1>9, <1>10 DEF Working

LEMMA FileGoalsStep ==
  ASSUME TypeOK, NamesInv, CopyInv, WalkInv, DeletesAbsent, FolderInv, ParentCached,
         PhaseInv, FileGoals, [Next]_vars
  PROVE  FileGoals'
<1> SUFFICES ASSUME extent' # "part", NEW p \in Files, p \notin doubt'
             PROVE  FileGoal(p)' /\ AbsentGoal(p)'
  BY DEF FileGoals
<1>1. CASE User
  BY <1>1, UserApart, ApartKeeps DEF FileGoals
<1>2. CASE Scanning
  BY <1>2, ScanningGoals
<1>3. CASE Working
  BY <1>3, WorkingGoals
<1>4. CASE Crash
  BY <1>4 DEF Crash
<1>5. CASE UNCHANGED vars
  <2>1. Apart(p) /\ extent' = extent /\ doubt' = doubt
    BY <1>5 DEF vars, diskVars, indexVars, scanVars, taskVars, histVars, Apart, Ordered,
           Clear, Copies, Visible
  <2> QED  BY <2>1, ApartKeeps DEF FileGoals
<1> QED  BY <1>1, <1>2, <1>3, <1>4, <1>5 DEF Next

\* What the five invariants say of a path on which no slip is known, when a whole scan has
\* ended and its tasks are done.
LEMMA FolderRepaired ==
  ASSUME TypeOK, NamesInv, CopyInv, GoalInv, phase = "idle", extent = "whole",
         NEW d \in Sure \cap dirs
  PROVE  Copied(d)
<1>1. d \in Nodes /\ d \notin doubt /\ ~Slipped(d)
  BY DEF Sure
<1>2. Clear(d) /\ ~Gone(d) /\ ~Stale(d)
  BY <1>1 DEF Slipped, Slips, Clear, Gone, Stale
<1>3. cache[d] # 0 /\ cache[d] \in 1..Len(drive)
  BY <1>1, Elements DEF GoalInv, FolderGoal, TypeOK
<1>4. cache[d] \in Copies(d)
  BY <1>1, <1>2, <1>3 DEF NamesInv, Copies
<1>5. Copies(d) = {cache[d]}
  BY <1>1, <1>2, <1>4 DEF CopyInv
<1>6. Cardinality({cache[d]}) = 1
  BY FS_Singleton, Zenon
<1> QED  BY <1>5, <1>6 DEF Copied

LEMMA FileRepaired ==
  ASSUME TypeOK, NamesInv, CopyInv, FreshInv, ContentInv, WalkInv, GoalInv,
         phase = "idle", extent = "whole", Ordered = {}, NEW p \in Sure \cap Files
  PROVE  /\ file[p] \in Full =>
               /\ Copied(p) /\ p \in fresh /\ row[p] = file[p]
               /\ cache[p] \in Copies(p) /\ drive[cache[p]].c = file[p]
         /\ file[p] = "none" => Copies(p) = {} /\ row[p] = "none"
<1>1. p \in Files /\ p \in Nodes /\ p \notin doubt /\ ~Slipped(p)
  BY DEF Sure
<1>2. Clear(p) /\ ~Gone(p) /\ ~Stale(p) /\ Pure(p)
  BY <1>1 DEF Slipped, Slips, Clear, Gone, Stale, Pure
<1>3. FileGoal(p) /\ AbsentGoal(p) /\ toSync = {} /\ toDelete = {}
  BY <1>1 DEF GoalInv, FileGoals, PhaseInv, WalkInv
<1>4. ASSUME file[p] \in Full
      PROVE  /\ Copied(p) /\ p \in fresh /\ row[p] = file[p]
             /\ cache[p] \in Copies(p) /\ drive[cache[p]].c = file[p]
  <2>1. p \in fresh /\ cache[p] # 0
    BY <1>3, <1>4 DEF FileGoal, ToCome
  <2>2. row[p] = file[p] /\ row[p] # "none"
    BY <2>1 DEF FreshInv
  <2>3. cache[p] \in 1..Len(drive)
    BY <2>1, Elements DEF TypeOK
  <2>4. cache[p] \in Copies(p)
    BY <1>2, <2>1, <2>3 DEF NamesInv, Copies
  <2>5. Copies(p) = {cache[p]}
    BY <1>1, <1>2, <2>4 DEF CopyInv
  <2>6. Cardinality({cache[p]}) = 1
    BY FS_Singleton, Zenon
  <2>7. drive[cache[p]].c = file[p]
    BY <1>2, <2>2, <2>4 DEF ContentInv, Content
  <2> QED  BY <2>1, <2>2, <2>4, <2>5, <2>6, <2>7 DEF Copied
<1>5. ASSUME file[p] = "none" PROVE Copies(p) = {} /\ row[p] = "none"
  BY <1>2, <1>3, <1>5 DEF AbsentGoal
<1> QED  BY <1>4, <1>5

\* When a scan has run to its end and its tasks are done, the Drive has each folder and
\* each file of the disk once, with its content, and no other file, and cache and index
\* agree: for all trees, and whatever changed, failed or crashed before that scan or
\* beside it (scan.rs:82, scan.rs:271-306).
THEOREM RepairsCorrect == Spec => []ScanRepairs
<1>1. Init => WalkInv /\ DeletesAbsent /\ FolderInv /\ ParentCached
  BY DEF Init, WalkInv, DeletesAbsent, FolderInv, ParentCached, Ordered
<1>2. Init => FreshInv /\ ContentInv /\ GoalInv
  BY DEF Init, FreshInv, ContentInv, Content, GoalInv, PhaseInv, FolderGoal, FileGoals
<1>3. /\ TypeOK /\ NamesInv /\ CopyInv /\ WalkInv /\ DeletesAbsent /\ FolderInv
      /\ ParentCached /\ GoalInv /\ [Next]_vars
      => GoalInv'
  BY PhaseStep, FolderGoalStep, FileGoalsStep DEF GoalInv
<1>4. TypeOK /\ NamesInv /\ CopyInv /\ FreshInv /\ ContentInv /\ WalkInv /\ GoalInv
      => ScanRepairs
  BY FolderRepaired, FileRepaired DEF ScanRepairs
<1> QED  BY <1>1, <1>2, <1>3, <1>4, TypeCorrect, InitCopies, CopyStep, InitNames, NamesStep,
            FreshStep, ContentStep, AbsentStep, FolderStep, PTL DEF Spec
=============================================================================
