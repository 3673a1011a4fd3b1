--------------------------------- MODULE Scan ---------------------------------
(***************************************************************************)
(* The full scan (engine/scan.rs): it lists the Drive, walks the folder,   *)
(* makes the missing remote folders, compares every file with the index    *)
(* and the path cache, and sends uploads and deletions to the workers. The *)
(* cache is born empty with the process, grows with every listing and is   *)
(* never rebuilt; the index survives.                                      *)
(*                                                                         *)
(* While the loop awaits a scan no task is taken, but workers that already *)
(* have one go on, and the user goes on. A task is one step here: module   *)
(* Worker opens it. Events of the watcher are in module Dispatch: here a   *)
(* change is found by a scan or not at all.                                *)
(***************************************************************************)
EXTENDS Naturals, Sequences, FiniteSets

CONSTANTS
    Dirs, Files,  \* folders and files, by relative path
    Parent,       \* their folder; folders are not nested
    MaxChanges,   \* bound of the model: changes of the user, here or on the Drive
    MaxFaults     \* bound of the model: failed requests and tasks, crashes

Root == "root"
Nodes == Dirs \cup Files
ASSUME ScanAssumption ==
    /\ IsFiniteSet(Nodes) /\ Root \notin Nodes /\ Dirs \cap Files = {}
    /\ Parent \in [Nodes -> Dirs \cup {Root}] /\ \A d \in Dirs : Parent[d] = Root
    /\ MaxChanges \in Nat /\ MaxFaults \in Nat

VARIABLES
    dirs, file,       \* local folders; content of local files
    row,              \* the table file_index: content (its hash) at the last synchronisation
    fresh,            \* files whose time is that of their row
    drive,            \* objects of the Drive, by id
    cache,            \* PathCache: Drive id by path, 0 without entry
    phase,            \* what the scan is about to do
    found,            \* remote_index: Drive id by path, 0 when not listed
    walked,           \* local_dirs and local_files
    left,             \* folders to make, or files to compare
    known,            \* db_index
    toSync, toDelete, \* what phases 4 to 6 have not sent yet
    chan, work,       \* tasks in the channel, tasks of workers
    changes, faults,  \* so far
    extent,           \* history: how far the last scan is known to have gone
    doubt,            \* history: paths that changed, failed or had a task since its start
    slips             \* history: paths on which a scan is known to slip, and how

diskVars  == <<dirs, file>>
indexVars == <<row, fresh>>
scanVars  == <<phase, found, walked, left, known, toSync, toDelete>>
taskVars  == <<chan, work>>
histVars  == <<changes, faults, extent, doubt, slips>>
vars == <<diskVars, indexVars, drive, cache, scanVars, taskVars, histVars>>

Full == {"a", "b"}                       \* contents of a file, but for none
Contents == Full \cup {"empty"}
Sync(p)   == [kind |-> "sync", path |-> p]
Delete(p) == [kind |-> "delete", path |-> p]
Tasks == [kind : {"sync", "delete"}, path : Files]
Slips == {"adopted", "gone", "doubled", "stale", "restored"}

TypeOK ==
    /\ dirs \subseteq Dirs /\ file \in [Files -> Contents \cup {"none"}]
    /\ row \in [Files -> Contents \cup {"none"}] /\ fresh \subseteq Files
    /\ drive \in Seq([path : Nodes, in : 0..Len(drive), c : Full \cup {"folder"},
                      live : BOOLEAN])
    /\ cache \in [Nodes -> 0..Len(drive)]
    /\ phase \in {"idle", "list", "fill", "walk", "dirs", "compare", "send"}
    /\ found \in [Nodes -> 0..Len(drive)] /\ known \subseteq Files
    /\ walked \subseteq Nodes /\ left \subseteq Nodes
    /\ toSync \subseteq Files /\ toDelete \subseteq Files
    /\ chan \subseteq Tasks /\ work \subseteq Tasks
    /\ changes \in 0..MaxChanges /\ faults \in 0..MaxFaults
    /\ extent \in {"part", "listed", "whole"}
    /\ doubt \subseteq Nodes /\ slips \subseteq Nodes \X Slips

\* An object is in the listing when neither it nor its folder is in the trash.
Visible(i) == drive[i].live /\ (drive[i].in # 0 => drive[drive[i].in].live)
Copies(n) == {i \in 1..Len(drive) : drive[i].path = n /\ Visible(i)}

\* The id under which an object of n is created: that of its cached folder.
Folder(n) == IF Parent[n] = Root THEN 0 ELSE cache[Parent[n]]
HasFolder(n) == Parent[n] # Root => cache[Parent[n]] # 0

Under(d) == {n \in Nodes : n = d \/ Parent[n] = d}

Nowhere == [n \in Nodes |-> 0]

Object(n, id, c) == [path |-> n, in |-> id, c |-> c, live |-> TRUE]

\* A first start: nothing in the index, a file with or without its folder on the Drive.
Init ==
    /\ dirs = Dirs
    /\ file \in [Files -> {"none", "a"}]
    /\ row = [p \in Files |-> "none"] /\ fresh = {}
    /\ drive \in {<<>>}
          \cup {<<Object(d, 0, "folder")>> : d \in Dirs}
          \cup {<<Object(p, 0, c)>> : p \in {q \in Files : Parent[q] = Root}, c \in Full}
          \cup {<<Object(Parent[p], 0, "folder"), Object(p, 1, c)>> :
                    p \in {q \in Files : Parent[q] \in Dirs}, c \in Full}
    /\ cache = Nowhere
    /\ phase = "list" /\ found = Nowhere
    /\ walked = {} /\ left = {} /\ known = {}
    /\ toSync = {} /\ toDelete = {} /\ chan = {} /\ work = {}
    /\ changes = 0 /\ faults = 0 /\ extent = "part" /\ doubt = {} /\ slips = {}

-----------------------------------------------------------------------------
(* The user, here and on the Drive *)

Change(ns, more) ==
    /\ changes < MaxChanges /\ changes' = changes + 1
    /\ doubt' = doubt \cup ns
    /\ slips' = slips \cup more
    /\ UNCHANGED <<row, cache, scanVars, taskVars, faults, extent>>

\* A former content may come back while the Drive has another one.
Restored(p, c) == row[p] = c /\ \E i \in Copies(p) : drive[i].c # c

Write(p) ==
    /\ Parent[p] \in dirs \cup {Root}
    /\ \E c \in Contents :
          /\ file' = [file EXCEPT ![p] = c]
          /\ Change({p}, IF Restored(p, c) THEN {<<p, "restored">>} ELSE {})
    /\ fresh' = fresh \ {p}
    /\ UNCHANGED <<dirs, drive>>

Remove(p) ==
    /\ file[p] # "none"
    /\ file' = [file EXCEPT ![p] = "none"] /\ fresh' = fresh \ {p}
    /\ Change({p}, {})
    /\ UNCHANGED <<dirs, drive>>

MakeDir(d) ==
    /\ d \notin dirs
    /\ dirs' = dirs \cup {d}
    /\ Change({d}, {})
    /\ UNCHANGED <<file, fresh, drive>>

RemoveDir(d) ==
    /\ d \in dirs
    /\ dirs' = dirs \ {d}
    /\ file' = [p \in Files |-> IF Parent[p] = d THEN "none" ELSE file[p]]
    /\ fresh' = fresh \ Under(d)
    /\ Change(Under(d), {})
    /\ UNCHANGED drive

\* Another client of the Drive puts a file or a folder in the trash.
RemoteTrash(i) ==
    /\ Visible(i)
    /\ drive' = [drive EXCEPT ![i].live = FALSE]
    /\ Change(Under(drive[i].path), Under(drive[i].path) \X {"gone"})
    /\ UNCHANGED <<diskVars, fresh>>

-----------------------------------------------------------------------------
(* The scan *)

Local == UNCHANGED <<diskVars, changes>>

\* Nothing is promised of the paths whose tasks are older than the scan.
Begin ==
    /\ phase = "idle"
    /\ phase' = "list"
    /\ extent' = "part"
    /\ doubt' = {t.path : t \in chan \cup work}
    /\ UNCHANGED <<indexVars, drive, cache, found, walked, left, known, toSync,
                   toDelete, taskVars, faults, slips>>
    /\ Local

\* Phase 0. Of two files with one name the last one stays.
List ==
    /\ phase = "list" /\ phase' = "fill"
    /\ found' \in [Nodes -> 0..Len(drive)]
    /\ \A n \in Nodes : IF Copies(n) = {} THEN found'[n] = 0 ELSE found'[n] \in Copies(n)
    /\ extent' = "listed"
    /\ UNCHANGED <<indexVars, drive, cache, walked, left, known, toSync, toDelete,
                   taskVars, faults, doubt, slips>>
    /\ Local

\* A listing that fails counts as an empty Drive. A file that is there and not in
\* the cache is then created a second time.
ListFails ==
    /\ phase = "list" /\ phase' = "fill"
    /\ faults < MaxFaults /\ faults' = faults + 1
    /\ found' = Nowhere
    /\ slips' = slips \cup {n \in Files : Copies(n) # {} /\ cache[n] = 0} \X {"doubled"}
    /\ UNCHANGED <<indexVars, drive, cache, walked, left, known, toSync, toDelete,
                   taskVars, extent, doubt>>
    /\ Local

\* What is listed goes into the cache, also what a worker has deleted meanwhile, and
\* nothing leaves it: only a new process, whose cache is empty, sees what is gone.
Fill ==
    /\ phase = "fill" /\ phase' = "walk"
    /\ cache' = [n \in Nodes |-> IF found[n] = 0 THEN cache[n] ELSE found[n]]
    /\ LET unknown(n) == n = Root \/ cache'[n] = 0
           stale == {n \in Files : found[n] # 0 /\ ~Visible(found[n])}
       IN slips' = (slips \ ({n \in Nodes : unknown(n) /\ unknown(Parent[n])} \X {"gone"}))
                     \cup (stale \X {"stale"})
    /\ UNCHANGED <<indexVars, drive, found, walked, left, known, toSync, toDelete,
                   taskVars, faults, extent, doubt>>
    /\ Local

\* Phase 1.
Walk ==
    /\ phase = "walk"
    /\ walked' = dirs \cup {p \in Files : file[p] # "none"}
    /\ left' = dirs /\ phase' = "dirs"
    /\ UNCHANGED <<indexVars, drive, cache, found, known, toSync, toDelete, taskVars,
                   faults, extent, doubt, slips>>
    /\ Local

\* Mutation: an id goes into the cache for a creation that has failed.
MkDirAnyAnswer(d) ==
    /\ phase = "dirs" /\ d \in left /\ left' = left \ {d}
    /\ drive' \in {drive, Append(drive, Object(d, Folder(d), "folder"))}
    /\ cache' = [cache EXCEPT ![d] = IF @ = 0 THEN Len(drive) + 1 ELSE @]
    /\ UNCHANGED <<indexVars, phase, found, walked, known, toSync, toDelete,
                   taskVars, faults, extent, doubt, slips>>
    /\ Local

\* Mutation: a mkdir that fails is passed over.
MkDirSkips(d) ==
    /\ phase = "dirs" /\ d \in left
    /\ left' = left \ {d}
    /\ \/ /\ faults < MaxFaults /\ faults' = faults + 1
          /\ UNCHANGED <<drive, cache>>
       \/ /\ cache[d] # 0
          /\ UNCHANGED <<drive, cache, faults>>
       \/ /\ cache[d] = 0 /\ Copies(d) = {}
          /\ drive' = Append(drive, Object(d, Folder(d), "folder"))
          /\ cache' = [cache EXCEPT ![d] = Len(drive) + 1]
          /\ UNCHANGED faults
    /\ UNCHANGED <<indexVars, phase, found, walked, known, toSync, toDelete,
                   taskVars, extent, doubt, slips>>
    /\ Local

\* Mutation: mkdir that creates without searching, and loses an answer.
MkDirBlind(d) ==
    /\ phase = "dirs" /\ d \in left
    /\ \/ /\ cache[d] # 0
          /\ left' = left \ {d}
          /\ UNCHANGED <<drive, cache, faults>>
       \/ /\ cache[d] = 0
          /\ drive' = Append(drive, Object(d, Folder(d), "folder"))
          /\ \/ /\ cache' = [cache EXCEPT ![d] = Len(drive) + 1]
                /\ left' = left \ {d} /\ UNCHANGED faults
             \/ /\ faults < MaxFaults /\ faults' = faults + 1
                /\ UNCHANGED <<cache, left>>
    /\ UNCHANGED <<indexVars, phase, found, walked, known, toSync, toDelete,
                   taskVars, extent, doubt, slips>>
    /\ Local

\* Phase 2, one folder: mkdir searches before it creates, so a
\* creation whose answer is lost is found by the next attempt.
MkDir(d) ==
    /\ phase = "dirs" /\ d \in left
    /\ LET there == {i \in Copies(d) : drive[i].in = Folder(d)} IN
       \/ /\ cache[d] # 0
          /\ left' = left \ {d}
          /\ UNCHANGED <<drive, cache, faults>>
       \/ /\ cache[d] = 0 /\ there # {}
          /\ \E i \in there : cache' = [cache EXCEPT ![d] = i]
          /\ left' = left \ {d}
          /\ UNCHANGED <<drive, faults>>
       \/ /\ cache[d] = 0 /\ there = {}
          /\ drive' = Append(drive, Object(d, Folder(d), "folder"))
          /\ \/ /\ cache' = [cache EXCEPT ![d] = Len(drive) + 1]
                /\ left' = left \ {d} /\ UNCHANGED faults
             \/ /\ faults < MaxFaults /\ faults' = faults + 1
                /\ UNCHANGED <<cache, left>>
    /\ UNCHANGED <<indexVars, phase, found, walked, known, toSync, toDelete,
                   taskVars, extent, doubt, slips>>
    /\ Local

\* The index is read before the comparison.
ReadIndex ==
    /\ phase = "dirs" /\ left = {}
    /\ known' = {p \in Files : row[p] # "none"}
    /\ left' = walked \cap Files
    /\ phase' = "compare"
    /\ UNCHANGED <<indexVars, drive, cache, found, walked, toSync, toDelete, taskVars,
                   faults, extent, doubt, slips>>
    /\ Local

\* The row of p gets the hash and the time of the file as it is now.
Upsert(p) ==
    /\ row' = [row EXCEPT ![p] = file[p]]
    /\ fresh' = fresh \cup {p}


\* Mutation: the index alone decides, the Drive is not asked.
CompareIndexOnly(p) ==
    LET same == p \in known /\ row[p] # "none" /\ (p \in fresh \/ row[p] = file[p])
    IN
    /\ phase = "compare" /\ p \in left
    /\ left' = left \ {p}
    /\ \/ /\ same
          /\ IF p \in fresh THEN UNCHANGED indexVars ELSE Upsert(p)
          /\ UNCHANGED toSync
       \/ /\ ~same
          /\ toSync' = toSync \cup {p}
          /\ UNCHANGED indexVars
    /\ UNCHANGED <<drive, cache, phase, found, walked, known, toDelete, taskVars, faults,
                   extent, doubt, slips>>
    /\ Local

\* Phase 3, one file: known here and there, it is compared by time, then by hash;
\* known there only, it is taken for synchronised whatever its content.
Compare(p) ==
    LET same == p \in known /\ row[p] # "none" /\ (p \in fresh \/ row[p] = file[p])
    IN
    /\ phase = "compare" /\ p \in left
    /\ left' = left \ {p}
    /\ \/ /\ cache[p] # 0 /\ same
          /\ IF p \in fresh THEN UNCHANGED indexVars ELSE Upsert(p)
          /\ UNCHANGED <<toSync, slips>>
       \/ /\ cache[p] # 0 /\ p \notin known
          /\ IF file[p] = "none" THEN UNCHANGED indexVars ELSE Upsert(p)
          /\ slips' = slips \cup IF file[p] # drive[cache[p]].c THEN {<<p, "adopted">>} ELSE {}
          /\ UNCHANGED toSync
       \/ /\ cache[p] = 0 \/ (p \in known /\ ~same)
          /\ toSync' = toSync \cup {p}
          /\ UNCHANGED <<indexVars, slips>>
    /\ UNCHANGED <<drive, cache, phase, found, walked, known, toDelete, taskVars, faults,
                   extent, doubt>>
    /\ Local


Listed == {p \in Files : found[p] # 0}

Forgotten == found' = Nowhere /\ walked' = {} /\ left' = {} /\ known' = {}

\* Mutation: the files of the index are not held against the walk.
ComparedAnyKnown ==
    /\ phase = "compare" /\ left = {}
    /\ toSync' = {p \in toSync : file[p] \in Full}
    /\ toDelete' = known \cup (Listed \ walked)
    /\ phase' = "send" /\ Forgotten
    /\ UNCHANGED <<indexVars, drive, cache, taskVars, faults, extent, doubt, slips>>
    /\ Local

\* Empty files are left out; the orphans of the index and of the listing are those
\* that the walk has not met.
Compared ==
    /\ phase = "compare" /\ left = {}
    /\ toSync' = {p \in toSync : file[p] \in Full}
    /\ toDelete' = (known \cup Listed) \ walked
    /\ phase' = "send" /\ Forgotten
    /\ UNCHANGED <<indexVars, drive, cache, taskVars, faults, extent, doubt, slips>>
    /\ Local

\* Phases 4, 5 and 6, one task.
SendTask ==
    /\ phase = "send"
    /\ \/ \E p \in toSync :
             /\ chan' = chan \cup {Sync(p)} /\ toSync' = toSync \ {p}
             /\ UNCHANGED toDelete
       \/ /\ toSync = {}
          /\ \E p \in toDelete :
                /\ chan' = chan \cup {Delete(p)} /\ toDelete' = toDelete \ {p}
          /\ UNCHANGED toSync
    /\ UNCHANGED <<indexVars, drive, cache, phase, found, walked, left, known, work,
                   faults, extent, doubt, slips>>
    /\ Local

\* Without a listing the orphans of the Drive are not seen.
Finish ==
    /\ phase = "send" /\ toSync = {} /\ toDelete = {}
    /\ phase' = "idle"
    /\ extent' = IF extent = "listed" THEN "whole" ELSE extent
    /\ UNCHANGED <<indexVars, drive, cache, found, walked, left, known, toSync,
                   toDelete, taskVars, faults, doubt, slips>>
    /\ Local

\* A pause drops the scan, or a mkdir has failed for good.
Cut ==
    /\ phase # "idle" /\ phase' = "idle"
    /\ Forgotten /\ toSync' = {} /\ toDelete' = {}
    /\ extent' = "part"
    /\ UNCHANGED <<indexVars, drive, cache, taskVars, faults, doubt, slips>>
    /\ Local

-----------------------------------------------------------------------------
(* The workers, and the end of the process *)

\* The loop takes no task while it awaits a scan. Two tasks that are equal count
\* as one: whatever comes between them is in doubt.
Take(t) ==
    /\ phase = "idle"
    /\ t \in chan
    /\ chan' = chan \ {t} /\ work' = work \cup {t}
    /\ UNCHANGED <<indexVars, drive, cache, scanVars, faults, extent, doubt, slips>>
    /\ Local

InSync(p) == row[p] # "none" /\ cache[p] # 0 /\ (p \in fresh \/ row[p] = file[p])
Sendable(p) == file[p] \in Full /\ ~InSync(p) /\ HasFolder(p)

\* The upload of p creates an object in its folder, or changes the one of the cache.
Stored(p) ==
    drive' = IF cache[p] = 0
             THEN Append(drive, Object(p, Folder(p), file[p]))
             ELSE [drive EXCEPT ![cache[p]].c = file[p]]

\* sync_file: nothing to do, or an upload that ends well.
Synced(p) ==
    /\ Sync(p) \in work
    /\ work' = work \ {Sync(p)}
    /\ \/ /\ file[p] = "empty"
          /\ UNCHANGED <<indexVars, drive, cache, slips>>
       \/ /\ file[p] \in Full /\ InSync(p)
          /\ IF p \in fresh THEN UNCHANGED indexVars ELSE Upsert(p)
          /\ UNCHANGED <<drive, cache, slips>>
       \/ /\ Sendable(p)
          /\ Stored(p)
          /\ cache' = [cache EXCEPT ![p] = IF @ = 0 THEN Len(drive) + 1 ELSE @]
          /\ Upsert(p)
          /\ slips' = slips \ ({p} \X {"adopted", "restored"})
    /\ UNCHANGED <<scanVars, chan, faults, extent, doubt>>
    /\ Local

Trashed(p) ==
    drive' = IF cache[p] = 0 THEN drive ELSE [drive EXCEPT ![cache[p]].live = FALSE]

\* delete: it never looks at the file.
Deleted(p) ==
    /\ Delete(p) \in work
    /\ work' = work \ {Delete(p)}
    /\ Trashed(p)
    /\ cache' = [cache EXCEPT ![p] = 0]
    /\ row' = [row EXCEPT ![p] = "none"] /\ fresh' = fresh \ {p}
    /\ slips' = slips \ ({p} \X {"adopted", "restored"})
    /\ UNCHANGED <<scanVars, chan, faults, extent, doubt>>
    /\ Local

\* A task that fails, before or after its request has reached the Drive.
Failed(t) ==
    /\ t \in work
    /\ faults < MaxFaults /\ faults' = faults + 1
    /\ work' = work \ {t}
    /\ doubt' = doubt \cup {t.path}
    /\ \/ UNCHANGED <<drive, slips>>
       \/ /\ t.kind = "sync" /\ Sendable(t.path)
          /\ Stored(t.path)
          /\ slips' = slips \cup IF cache[t.path] = 0 THEN {<<t.path, "doubled">>} ELSE {}
       \/ /\ t.kind = "delete"
          /\ Trashed(t.path)
          /\ slips' = slips \cup {<<t.path, "gone">>}
    /\ UNCHANGED <<indexVars, cache, scanVars, chan, extent>>
    /\ Local

\* A file that is gone or whose folder has no cached id: the task fails each time.
Hopeless(p) ==
    /\ Sync(p) \in work
    /\ file[p] = "none" \/ (file[p] \in Full /\ ~InSync(p) /\ ~HasFolder(p))
    /\ work' = work \ {Sync(p)}
    /\ UNCHANGED <<indexVars, drive, cache, scanVars, chan, faults, extent, doubt, slips>>
    /\ Local

\* The process ends and starts again. A request under way may have reached the
\* Drive: neither cache nor index know.
Crash ==
    /\ faults < MaxFaults /\ faults' = faults + 1
    /\ \/ UNCHANGED drive
       \/ \E p \in Files : Sync(p) \in work /\ Sendable(p) /\ Stored(p)
       \/ \E p \in Files : Delete(p) \in work /\ Trashed(p)
    /\ cache' = Nowhere
    /\ chan' = {} /\ work' = {}
    /\ phase' = "list" /\ Forgotten /\ toSync' = {} /\ toDelete' = {}
    /\ extent' = "part" /\ doubt' = {}
    /\ UNCHANGED <<indexVars, slips>>
    /\ Local

-----------------------------------------------------------------------------
User ==
    \/ \E p \in Files : Write(p) \/ Remove(p)
    \/ \E d \in Dirs : MakeDir(d) \/ RemoveDir(d)
    \/ \E i \in 1..Len(drive) : RemoteTrash(i)

Scanning ==
    \/ Begin \/ List \/ ListFails \/ Fill \/ Walk
    \/ \E d \in Dirs : MkDir(d)
    \/ ReadIndex
    \/ \E p \in Files : Compare(p)
    \/ Compared \/ SendTask \/ Finish \/ Cut

Working ==
    \/ \E t \in chan : Take(t)
    \/ \E p \in Files : Synced(p) \/ Deleted(p) \/ Hopeless(p)
    \/ \E t \in work : Failed(t)

Next == User \/ Scanning \/ Working \/ Crash

Spec == Init /\ [][Next]_vars

-----------------------------------------------------------------------------
Slipped(n) == \E how \in Slips : <<n, how>> \in slips
Sure == {n \in Nodes \ doubt : ~Slipped(n)}
Copied(n) == Cardinality(Copies(n)) = 1
Ordered == chan \cup work

\* When a scan has run to its end and its tasks are done, the Drive has every folder
\* and every file of the disk once, with its content, and no other file; cache and
\* index agree (scan.rs:82, scan.rs:271-306). The exceptions: what changed or failed
\* since the scan began; a file found on the Drive at a first start, adopted unread
\* (scan.rs:292); what another client, or a deletion that failed, has put in the
\* trash, until the process starts again; a file doubled after a failed listing
\* (scan.rs:72) or deleted while it was listed (scan.rs:87); a former content that
\* came back.
ScanRepairs ==
    phase = "idle" /\ extent = "whole" /\ Ordered = {} =>
        /\ \A d \in Sure \cap dirs : Copied(d)
        /\ \A p \in Sure \cap Files :
              /\ file[p] \in Full =>
                    /\ Copied(p) /\ p \in fresh /\ row[p] = file[p]
                    /\ cache[p] \in Copies(p) /\ drive[cache[p]].c = file[p]
              /\ file[p] = "none" => Copies(p) = {} /\ row[p] = "none"

\* A scan orders no deletion of a file that is there (scan.rs:372, scan.rs:403), but
\* when the file came back after the walk or before this scan.
DeletesAbsent ==
    \A p \in Files \ doubt :
        p \in toDelete \/ Delete(p) \in Ordered => file[p] = "none"

\* No scan, no failed request and no crash makes a second object of a path
\* (scan.rs:199, worker.rs:120), but a file after a listing that failed, an upload
\* that failed after its request, or a deletion that overtook the listing.
OneCopy ==
    \A n \in Nodes :
        {<<n, "doubled">>, <<n, "stale">>} \cap slips = {} => Cardinality(Copies(n)) <= 1

\* The uploads a scan orders find the id of their folder (worker.rs:107-118): a
\* folder that cannot be made ends the scan before them (scan.rs:205).
ParentCached == \A p \in Files : Sync(p) \in Ordered => HasFolder(p)
=============================================================================
