---------------------------- MODULE PackageCache ----------------------------
(***************************************************************************)
(* The package cache that the worker processes of one machine share        *)
(* (client/package_cache.py): the .index, .copying and .downloading files, *)
(* changed under the lock on .cache_info, and the directories below the    *)
(* cache's root, which are copied, filled and removed outside any record.  *)
(*                                                                         *)
(* A locked section is one step, except the last one of a download, which  *)
(* removes directories, writes .index and writes .downloading: a process   *)
(* may die between these.  The lock dies with its holder.  A section that  *)
(* dies within the writing of one file is not modelled.                    *)
(*                                                                         *)
(* A directory is full when on_cache_miss has returned; there are no       *)
(* checksums, so what it returned from is taken for the package.           *)
(*                                                                         *)
(* Times are ages in units of Tick: the age of a record is the time since  *)
(* its timestamp, and ages stop at AgeCap, above which no two differ.      *)
(***************************************************************************)
EXTENDS Integers, FiniteSets, FiniteSetsExt

CONSTANTS
  Procs,            \* worker processes of the machine
  NoProc,           \* no process; the owner of what a dead process left
  Packages,         \* package strings, name and version
  Size,             \* package -> bytes its directory takes
  MaxSize,          \* max_size_bytes
  Low,              \* low_watermark_percentage of MaxSize, in bytes
  MinDuration,      \* min_duration_seconds
  DownloadTimeout,  \* the 5 minutes of _IsAlreadyDownloading
  AgeCap,           \* bound on ages
  MaxDirs           \* bound on the number of downloads begun

ASSUME SizesAssumption ==
  /\ Size \in [Packages -> Nat]
  /\ MaxSize \in Nat /\ Low \in Nat
ASSUME TimesAssumption ==
  /\ MinDuration \in Nat /\ DownloadTimeout \in Nat /\ AgeCap \in Nat
  /\ MinDuration <= AgeCap /\ DownloadTimeout <= AgeCap
ASSUME NoProcAssumption == NoProc \notin Procs
ASSUME MaxDirsAssumption == MaxDirs \in Nat

VARIABLES
  index,        \* package -> set of its .index record, empty or a singleton
  totalSize,    \* total_size of .index
  copying,      \* records of .copying of live processes, <<package, process>>
  downloading,  \* package -> set of its .downloading record, as for index
  disk,         \* directory -> what is on disk: nothing, a part, everything
  begun,        \* number of downloads begun, each in a directory of its own
  lock,         \* process that holds the lock between two steps, or NoProc
  proc,         \* process -> where it is in CopyToDirectory
  torn          \* directories removed by an eviction cut before its .index write

vars == <<index, totalSize, copying, downloading, disk, begun, lock, proc, torn>>

Dirs == 1 .. MaxDirs
Ages == 0 .. AgeCap
Older(age) == IF age < AgeCap THEN age + 1 ELSE age

AtMostOne(S) == \A x, y \in S : x = y

Entry == [dir : Dirs, age : Ages]
Download == [pid : Procs \union {NoProc}, age : Ages]

(* "age": the time since the record of the copy, or the one for .index,    *)
(* was made; "evict": the packages whose directories were removed for the  *)
(* one being added.                                                        *)
Proc == [pc    : {"idle", "lookup", "copy", "copied", "wait", "download",
                  "stage", "evicted", "indexed", "dead"},
         pkg   : {S \in SUBSET Packages : AtMostOne(S)},
         dir   : Dirs \union {0},
         age   : Ages,
         evict : SUBSET Packages]

Idle == [pc |-> "idle", pkg |-> {}, dir |-> 0, age |-> 0, evict |-> {}]
At(pc, pkg, dir) ==
  [pc |-> pc, pkg |-> {pkg}, dir |-> dir, age |-> 0, evict |-> {}]

Indexed(pkg) == index[pkg] # {}
DirsOf(S) == {entry.dir : entry \in UNION {index[pkg] : pkg \in S}}
TotalOf(S) == MapThenSumSet(LAMBDA pkg : Size[pkg], S)

Init ==
  /\ index = [pkg \in Packages |-> {}]
  /\ totalSize = 0
  /\ copying = {}
  /\ downloading = [pkg \in Packages |-> {}]
  /\ disk = [d \in Dirs |-> "none"]
  /\ begun = 0
  /\ lock = NoProc
  /\ proc = [p \in Procs |-> Idle]
  /\ torn = {}

-----------------------------------------------------------------------------
(* The first locked section of CopyToDirectory, by a caller or again after *)
(* a wait.                                                                 *)

Calls(p, pkg) ==
  /\ lock = NoProc
  /\ \/ proc[p].pc = "idle"
     \/ proc[p].pc = "lookup" /\ proc[p].pkg = {pkg}

(* Mutant: a download never times out. *)
_IsAlreadyDownloadingForever(p, pkg) ==
  \E record \in downloading[pkg] : record.pid # p

_IsAlreadyDownloading(p, pkg) ==
  \E record \in downloading[pkg] :
    record.pid # p /\ record.age < DownloadTimeout

(* Mutant: the timestamp is not renewed. *)
_UpdateIndexTimestampNot(pkg) == index
_UpdateIndexTimestamp(pkg) ==
  [index EXCEPT ![pkg] = {[entry EXCEPT !.age = 0] : entry \in @}]

Hit(p, pkg) ==
  /\ Calls(p, pkg)
  /\ \E entry \in index[pkg] :
       proc' = [proc EXCEPT ![p] = At("copy", pkg, entry.dir)]
  /\ index' = _UpdateIndexTimestamp(pkg)
  /\ copying' = copying \union {<<pkg, p>>}
  /\ UNCHANGED <<totalSize, downloading, disk, begun, lock, torn>>

Wait(p, pkg) ==
  /\ Calls(p, pkg)
  /\ ~Indexed(pkg)
  /\ _IsAlreadyDownloading(p, pkg)
  /\ proc' = [proc EXCEPT ![p] = At("wait", pkg, 0)]
  /\ UNCHANGED <<index, totalSize, copying, downloading, disk, begun, lock, torn>>

(* The record replaces an expired one, or one of this process's own.       *)
(* Mutant: records are appended, as those of .copying are.                 *)
_AddToDownloadingAppended(p, pkg) ==
  [downloading EXCEPT ![pkg] = @ \union {[pid |-> p, age |-> 0]}]
_AddToDownloading(p, pkg) ==
  [downloading EXCEPT ![pkg] = {[pid |-> p, age |-> 0]}]

Miss(p, pkg) ==
  /\ Calls(p, pkg)
  /\ ~Indexed(pkg)
  /\ ~_IsAlreadyDownloading(p, pkg)
  /\ begun < MaxDirs
  /\ begun' = begun + 1
  /\ downloading' = _AddToDownloading(p, pkg)
  /\ disk' = [disk EXCEPT ![begun + 1] = "partial"]
  /\ proc' = [proc EXCEPT ![p] = At("download", pkg, begun + 1)]
  /\ UNCHANGED <<index, totalSize, copying, lock, torn>>

(* One turn of the waiting loop: the lock is taken, the record looked at;  *)
(* when it is gone or has expired the call begins anew.                    *)
StopWaiting(p) ==
  /\ lock = NoProc
  /\ proc[p].pc = "wait"
  /\ \E pkg \in proc[p].pkg :
       /\ ~_IsAlreadyDownloading(p, pkg)
       /\ proc' = [proc EXCEPT ![p] = At("lookup", pkg, 0)]
  /\ UNCHANGED <<index, totalSize, copying, downloading, disk, begun, lock, torn>>

-----------------------------------------------------------------------------
(* A hit: copy, then drop the record.                                      *)

_CopyDirectory(p) ==
  /\ proc[p].pc = "copy"
  /\ proc' = [proc EXCEPT ![p].pc = "copied"]
  /\ UNCHANGED <<index, totalSize, copying, downloading, disk, begun, lock, torn>>

OwnRecords(p) == proc[p].pkg \X {p}

_RemoveFromCopying(p) ==
  /\ lock = NoProc
  /\ proc[p].pc = "copied"
  /\ copying' = copying \ OwnRecords(p)
  /\ proc' = [proc EXCEPT ![p] = Idle]
  /\ UNCHANGED <<index, totalSize, downloading, disk, begun, lock, torn>>

-----------------------------------------------------------------------------
(* A miss: download, copy, add to the cache.                               *)

EndDownload(p) ==
  /\ proc[p].pc = "download"
  /\ disk' = [disk EXCEPT ![proc[p].dir] = "full"]
  /\ proc' = [proc EXCEPT ![p].pc = "stage"]
  /\ UNCHANGED <<index, totalSize, copying, downloading, begun, lock, torn>>

(* on_cache_miss raises: the record and the directory stay as they are.    *)
DownloadFails(p) ==
  /\ proc[p].pc = "download"
  /\ proc' = [proc EXCEPT ![p] = Idle]
  /\ UNCHANGED <<index, totalSize, copying, downloading, disk, begun, lock, torn>>

(* What may be deleted: entries that have not been used for MinDuration,   *)
(* oldest first (among equals the order is open), at least one when there  *)
(* is one, and no further one that would bring the total below Low.        *)
_GetDeleteList ==
  LET age(pkg) == CHOOSE a \in Ages : \E entry \in index[pkg] : entry.age = a
      old == {pkg \in Packages : Indexed(pkg) /\ age(pkg) >= MinDuration}
      Oldest(S) == {pkg \in S : \A other \in S : age(other) <= age(pkg)}
      left(S) == totalSize - TotalOf(S)
  IN  {S \in SUBSET old :
         /\ \A pkg \in S, other \in old \ S : age(other) <= age(pkg)
         /\ old # {} => S # {}
         /\ Cardinality(S) > 1 => left(S) >= Low
         /\ S # old => \E next \in Oldest(old \ S) :
                         left(S) - Size[next] < Low}

(* The size of the directory exceeds what is free: the first half of       *)
(* _AddToIndex, up to the removal of directories.                          *)
NeedsRoom(p) == totalSize + TotalOf(proc[p].pkg) > MaxSize

(* Mutant: whatever is not indexed is cleaned up, too. *)
DeletedSwept(S) == Dirs \ DirsOf(Packages \ S)
Deleted(S) == DirsOf(S)

MakeRoom(p, S) ==
  /\ lock = NoProc
  /\ proc[p].pc = "stage"
  /\ IF NeedsRoom(p) THEN totalSize > 0 /\ S \in _GetDeleteList ELSE S = {}
  /\ lock' = p
  /\ disk' = [d \in Dirs |-> IF d \in Deleted(S) THEN "none" ELSE disk[d]]
  /\ proc' = [proc EXCEPT ![p].pc = "evicted", ![p].age = 0, ![p].evict = S]
  /\ UNCHANGED <<index, totalSize, copying, downloading, begun, torn>>

(* The second half: the new .index is written. *)
(* Mutants: the records of removed directories stay; the size of a record  *)
(* that is replaced is taken off, evicted or not.                          *)
NewIndexKept(p) ==
  [pkg \in Packages |->
     IF pkg \in proc[p].pkg THEN {[dir |-> proc[p].dir, age |-> proc[p].age]}
     ELSE index[pkg]]
NewTotalSizeOnce(p) ==
  totalSize - TotalOf(proc[p].evict) + TotalOf(proc[p].pkg)
    - TotalOf({pkg \in proc[p].pkg : Indexed(pkg)})

NewIndex(p) ==
  [pkg \in Packages |->
     IF pkg \in proc[p].pkg THEN {[dir |-> proc[p].dir, age |-> proc[p].age]}
     ELSE IF pkg \in proc[p].evict THEN {} ELSE index[pkg]]
NewTotalSize(p) ==
  totalSize - TotalOf(proc[p].evict) + TotalOf(proc[p].pkg)

_AddToIndex(p) ==
  /\ proc[p].pc = "evicted"
  /\ index' = NewIndex(p)
  /\ totalSize' = NewTotalSize(p)
  /\ proc' = [proc EXCEPT ![p].pc = "indexed"]
  /\ UNCHANGED <<copying, downloading, disk, begun, lock, torn>>

(* Whoever's record it is. *)
_RemoveFromDownloading(p) ==
  /\ proc[p].pc = "indexed"
  /\ downloading' = [pkg \in Packages |->
                       IF pkg \in proc[p].pkg THEN {} ELSE downloading[pkg]]
  /\ lock' = NoProc
  /\ proc' = [proc EXCEPT ![p] = Idle]
  /\ UNCHANGED <<index, totalSize, copying, disk, begun, torn>>

-----------------------------------------------------------------------------
(* The process ends, by a signal or by an exception that the worker does   *)
(* not catch, such as that of the "assert total_size > 0" when a package   *)
(* larger than the cache is the first one.  Its records remain, and its    *)
(* pid does not come back; those in .copying are read by nobody else and   *)
(* are left out.                                                           *)
Die(p) ==
  /\ proc[p].pc # "dead"
  /\ copying' = {c \in copying : c[2] # p}
  /\ downloading' = [pkg \in Packages |->
       {[record EXCEPT !.pid = IF @ = p THEN NoProc ELSE @] :
          record \in downloading[pkg]}]
  /\ lock' = IF lock = p THEN NoProc ELSE lock
  /\ torn' = IF proc[p].pc = "evicted"
             THEN torn \union DirsOf(proc[p].evict) ELSE torn
  /\ proc' = [proc EXCEPT ![p] = [Idle EXCEPT !.pc = "dead"]]
  /\ UNCHANGED <<index, totalSize, disk, begun>>

Restart(p) ==
  /\ proc[p].pc = "dead"
  /\ proc' = [proc EXCEPT ![p] = Idle]
  /\ UNCHANGED <<index, totalSize, copying, downloading, disk, begun, lock, torn>>

Tick ==
  /\ index' = [pkg \in Packages |->
       {[entry EXCEPT !.age = Older(@)] : entry \in index[pkg]}]
  /\ downloading' = [pkg \in Packages |->
       {[record EXCEPT !.age = Older(@)] : record \in downloading[pkg]}]
  /\ proc' = [p \in Procs |->
       IF proc[p].pc \in {"copy", "evicted"}
       THEN [proc[p] EXCEPT !.age = Older(@)] ELSE proc[p]]
  /\ UNCHANGED <<totalSize, copying, disk, begun, lock, torn>>

-----------------------------------------------------------------------------
Next ==
  \/ \E p \in Procs, pkg \in Packages : Hit(p, pkg)
  \/ \E p \in Procs, pkg \in Packages : Wait(p, pkg)
  \/ \E p \in Procs, pkg \in Packages : Miss(p, pkg)
  \/ \E p \in Procs : StopWaiting(p)
  \/ \E p \in Procs : _CopyDirectory(p)
  \/ \E p \in Procs : _RemoveFromCopying(p)
  \/ \E p \in Procs : EndDownload(p)
  \/ \E p \in Procs : DownloadFails(p)
  \/ \E p \in Procs, S \in SUBSET Packages : MakeRoom(p, S)
  \/ \E p \in Procs : _AddToIndex(p)
  \/ \E p \in Procs : _RemoveFromDownloading(p)
  \/ \E p \in Procs : Die(p)
  \/ \E p \in Procs : Restart(p)
  \/ Tick

Spec == Init /\ [][Next]_vars

(* Time passes, a process that holds the lock goes on, and one that wants  *)
(* the lock every 10 seconds gets it now and then, though it is taken by   *)
(* others between its turns.  No download is forced to end.                *)
Fairness ==
  /\ WF_vars(Tick)
  /\ \A p \in Procs : WF_vars(_AddToIndex(p))
  /\ \A p \in Procs : WF_vars(_RemoveFromDownloading(p))
  /\ \A p \in Procs : SF_vars(StopWaiting(p))

FairSpec == Spec /\ Fairness

-----------------------------------------------------------------------------
(* Properties.                                                             *)

(* The files, the directories and the processes' variables are well        *)
(* formed; a package has one record of each kind at most.                  *)
RecordsTypeOK ==
  /\ index \in [Packages -> SUBSET Entry]
  /\ \A pkg \in Packages : AtMostOne(index[pkg])
  /\ copying \subseteq Packages \X Procs
  /\ downloading \in [Packages -> SUBSET Download]
  /\ \A pkg \in Packages : AtMostOne(downloading[pkg])
  /\ disk \in [Dirs -> {"none", "partial", "full"}]
  /\ begun \in 0 .. MaxDirs
  /\ lock \in Procs \union {NoProc}
  /\ proc \in [Procs -> Proc]
  /\ torn \subseteq Dirs

CacheTypeOK == RecordsTypeOK /\ totalSize \in Nat

(* Whoever has the lock finds every package of .index complete on disk,    *)
(* whatever downloads failed or ended late, unless a process died after it *)
(* removed directories and before it wrote .index.                         *)
IndexedIsComplete ==
  \A pkg \in Packages : \A entry \in index[pkg] :
    \/ disk[entry.dir] = "full" \/ entry.dir \in torn
    \/ lock # NoProc /\ pkg \in proc[lock].evict

(* What a process copies is whole.  A package that was just downloaded is  *)
(* removed by nobody before it is indexed.  _GetDeleteList does not look   *)
(* at .copying: what protects an indexed package while it is copied is     *)
(* that its timestamp was renewed first, so that a copy that takes less    *)
(* than min_duration_seconds is never cut short.                           *)
CopiedIsWhole ==
  \A p \in Procs :
    \/ proc[p].pc = "stage"
    \/ proc[p].pc = "copy" /\ proc[p].age < MinDuration /\ proc[p].dir \notin torn
    => disk[proc[p].dir] = "full"

(* total_size never falls below the sizes of the indexed packages, though  *)
(* a package indexed twice is counted twice: the cache may evict too soon, *)
(* never too late.                                                         *)
TotalCoversIndex ==
  totalSize >= TotalOf({pkg \in Packages : Indexed(pkg)})

(* A process waits for another one's download at most until it times out,  *)
(* even if the other one died: it waits forever only if downloads are      *)
(* begun again and again.                                                  *)
WaitEnds ==
  \A p \in Procs :
    <>[](proc[p].pc = "wait") => []<><<begun' # begun>>_begun

-----------------------------------------------------------------------------
(* The inductive invariant that the first three rest on.                   *)

InLock(p) == proc[p].pc \in {"evicted", "indexed"}
HasNewDir(p) == proc[p].pc \in {"download", "stage", "evicted"}

(* The process between the steps of its locked section is the holder. *)
HolderIsInLock == \A p \in Procs : InLock(p) <=> lock = p

(* Directories in use have been begun. *)
DirsBegun ==
  /\ \A pkg \in Packages : \A entry \in index[pkg] : entry.dir <= begun
  /\ \A p \in Procs :
       proc[p].pc \in {"download", "stage", "evicted", "copy"} =>
         proc[p].dir \in 1 .. begun

(* Packages have directories of their own, and a process that fills one is *)
(* alone with it: nobody copies from it, and .index does not have it yet.  *)
DirsApart ==
  /\ \A pkg, other \in Packages : \A e1 \in index[pkg], e2 \in index[other] :
       e1.dir = e2.dir => pkg = other
  /\ \A p \in Procs : HasNewDir(p) =>
       /\ \A pkg \in Packages : \A entry \in index[pkg] : entry.dir # proc[p].dir
       /\ \A q \in Procs \ {p} : HasNewDir(q) \/ proc[q].pc = "copy" =>
                                 proc[q].dir # proc[p].dir

(* What was downloaded stays until it is indexed. *)
NewDirIsFull ==
  \A p \in Procs : proc[p].pc \in {"stage", "evicted"} =>
    disk[proc[p].dir] = "full"

(* An indexed directory is missing only between the halves of _AddToIndex. *)
EntryIsFull ==
  \A pkg \in Packages : \A entry \in index[pkg] :
    \/ disk[entry.dir] = "full" \/ entry.dir \in torn
    \/ \E p \in Procs : proc[p].pc = "evicted" /\ pkg \in proc[p].evict

(* While a young copy runs, the record of what it copies is as young: no   *)
(* eviction takes it.                                                      *)
CopyProtected ==
  \A p \in Procs : proc[p].pc = "copy" /\ proc[p].age < MinDuration =>
    /\ proc[p].dir \in torn \/ disk[proc[p].dir] = "full"
    /\ \A pkg \in Packages : \A entry \in index[pkg] :
         entry.dir = proc[p].dir => entry.age <= proc[p].age

CacheInv ==
  /\ RecordsTypeOK /\ HolderIsInLock /\ DirsBegun /\ DirsApart
  /\ NewDirIsFull /\ EntryIsFull /\ CopyProtected

(* What TotalCoversIndex rests on, too: what was removed for a new package *)
(* is in .index until the new .index is written, so that its size was      *)
(* counted and may be taken off.                                           *)
IndexedPackages == {pkg \in Packages : Indexed(pkg)}

EvictedIsIndexed ==
  \A p \in Procs : proc[p].pc = "evicted" => proc[p].evict \subseteq IndexedPackages

TotalInv ==
  /\ totalSize \in Nat
  /\ IsFiniteSet(IndexedPackages)
  /\ EvictedIsIndexed /\ TotalCoversIndex
=============================================================================
