------------------------ MODULE PackageCacheProofs -------------------------
(***************************************************************************)
(* The invariants of PackageCache, for any processes, packages, sizes and  *)
(* durations.                                                              *)
(*                                                                         *)
(* What the proofs turn on: a directory that is being filled is in nobody  *)
(* else's hands (DirsApart), so that no eviction takes it; the lock keeps  *)
(* everyone else from .index while directories that it names are missing   *)
(* (EntryIsFull, HolderIsInLock); and the record of what is copied is no   *)
(* older than the copy (CopyProtected), so that an eviction, which takes   *)
(* no record younger than min_duration_seconds, spares it.  The last part  *)
(* is about total_size: what it covers, and that it is no less than zero.  *)
(***************************************************************************)
EXTENDS PackageCache, SetFacts, TLAPS

(* The invariant holds at first. *)
LEMMA CacheInvInit == Init => CacheInv
<1> SUFFICES ASSUME Init PROVE CacheInv
  OBVIOUS
<1> USE DEF Init, Idle
<1>1. RecordsTypeOK
  BY TimesAssumption, MaxDirsAssumption DEF RecordsTypeOK, AtMostOne, Proc, Ages
<1>2. HolderIsInLock /\ DirsBegun /\ DirsApart
  BY NoProcAssumption DEF HolderIsInLock, InLock, HasNewDir, DirsBegun, DirsApart
<1>3. NewDirIsFull /\ EntryIsFull /\ CopyProtected
  BY DEF NewDirIsFull, EntryIsFull, CopyProtected
<1> QED
  BY <1>1, <1>2, <1>3 DEF CacheInv

(* With the lock free nobody is within its locked section, and .index is   *)
(* as complete as it gets.                                                 *)
LEMMA LockFree ==
  ASSUME CacheInv, lock = NoProc
  PROVE  /\ \A p \in Procs : ~InLock(p)
         /\ \A pkg \in Packages : \A entry \in index[pkg] :
              disk[entry.dir] = "full" \/ entry.dir \in torn
BY NoProcAssumption DEF CacheInv, HolderIsInLock, EntryIsFull, InLock

(* Records that get older stay records. *)
LEMMA OlderAge ==
  /\ 0 \in Ages
  /\ \A age \in Ages : Older(age) \in Ages
  /\ \A x, y \in Ages : x <= y => Older(x) <= Older(y)
  /\ \A age \in Ages : Older(age) < MinDuration => age < MinDuration
BY TimesAssumption DEF Older, Ages

(* The state of a process that has just begun something. *)
LEMMA AtIsProc ==
  ASSUME NEW pc \in {"copy", "wait", "download", "lookup"},
         NEW pkg \in Packages, NEW dir \in Dirs \union {0}
  PROVE  /\ At(pc, pkg, dir) \in Proc
         /\ At(pc, pkg, dir).pc = pc /\ At(pc, pkg, dir).dir = dir
         /\ At(pc, pkg, dir).age = 0
BY TimesAssumption DEF At, Proc, Ages, AtMostOne

LEMMA IdleIsProc ==
  /\ Idle \in Proc /\ Idle.pc = "idle"
  /\ [Idle EXCEPT !.pc = "dead"] \in Proc
  /\ [Idle EXCEPT !.pc = "dead"].pc = "dead"
BY TimesAssumption DEF Idle, Proc, Ages, AtMostOne

(* A process that turns to something outside the lock that has no          *)
(* directory, or to the next stage with the directory it has.              *)
LEMMA ProcStep ==
  ASSUME NEW p \in Procs, NEW new \in Proc, CacheInv, ~InLock(p),
         new.pc \in {"idle", "lookup", "wait", "copied", "dead"},
         proc' = [proc EXCEPT ![p] = new],
         UNCHANGED <<index, disk, begun, lock, torn>>
  PROVE  /\ HolderIsInLock' /\ DirsBegun' /\ DirsApart'
         /\ NewDirIsFull' /\ EntryIsFull' /\ CopyProtected'
<1> USE DEF CacheInv
<1>1. \A q \in Procs : proc'[q] = IF q = p THEN new ELSE proc[q]
  BY DEF RecordsTypeOK
<1>2. HolderIsInLock' /\ DirsBegun'
  BY <1>1 DEF HolderIsInLock, DirsBegun, InLock
<1>3. DirsApart'
  BY <1>1 DEF DirsApart, HasNewDir
<1>4. NewDirIsFull' /\ EntryIsFull' /\ CopyProtected'
  BY <1>1 DEF NewDirIsFull, EntryIsFull, CopyProtected, InLock
<1> QED
  BY <1>2, <1>3, <1>4

-----------------------------------------------------------------------------
(* The first locked section.                                               *)

LEMMA HitKeeps ==
  ASSUME CacheInv, NEW p \in Procs, NEW pkg \in Packages, Hit(p, pkg)
  PROVE  CacheInv'
<1> USE DEF CacheInv
<1>1. PICK entry \in index[pkg] :
        proc' = [proc EXCEPT ![p] = At("copy", pkg, entry.dir)]
  BY DEF Hit
<1>2. entry \in Entry /\ entry.dir \in Dirs
  BY DEF RecordsTypeOK, Entry
<1>3. /\ At("copy", pkg, entry.dir) \in Proc
      /\ At("copy", pkg, entry.dir).pc = "copy"
      /\ At("copy", pkg, entry.dir).dir = entry.dir
      /\ At("copy", pkg, entry.dir).age = 0
  BY <1>2, AtIsProc
<1>4. \A q \in Procs :
        proc'[q] = IF q = p THEN At("copy", pkg, entry.dir) ELSE proc[q]
  BY <1>1 DEF RecordsTypeOK
<1>5. index' = [index EXCEPT ![pkg] = {[e EXCEPT !.age = 0] : e \in index[pkg]}]
  BY DEF Hit, _UpdateIndexTimestamp, RecordsTypeOK
<1>6. \A e \in Entry : /\ [e EXCEPT !.age = 0] \in Entry
                       /\ [e EXCEPT !.age = 0].dir = e.dir
                       /\ [e EXCEPT !.age = 0].age = 0
  BY OlderAge DEF Entry
<1>7. \A other \in Packages : \A e \in index'[other] :
        /\ e \in Entry
        /\ \E old \in index[other] : old.dir = e.dir /\ e.age \in {0, old.age}
  <2>1. ASSUME NEW other \in Packages \ {pkg} PROVE index'[other] = index[other]
    BY <1>5 DEF RecordsTypeOK
  <2>2. index'[pkg] = {[e EXCEPT !.age = 0] : e \in index[pkg]}
    BY <1>5 DEF RecordsTypeOK
  <2>3. ASSUME NEW e \in index'[pkg]
        PROVE  /\ e \in Entry
               /\ \E old \in index[pkg] : old.dir = e.dir /\ e.age \in {0, old.age}
    <3>1. PICK old \in index[pkg] : e = [old EXCEPT !.age = 0]
      BY <2>2
    <3> QED
      BY <1>6, <3>1 DEF RecordsTypeOK
  <2> QED
    BY <2>1, <2>3 DEF RecordsTypeOK
<1>8. lock = NoProc /\ UNCHANGED <<disk, begun, lock, torn, downloading>>
  BY DEF Hit, Calls
<1>9. RecordsTypeOK'
  <2>1. copying' \subseteq Packages \X Procs
    BY DEF Hit, RecordsTypeOK
  <2>2. index' \in [Packages -> SUBSET Entry]
    BY <1>5, <1>6 DEF RecordsTypeOK
  <2>3. \A other \in Packages : AtMostOne(index'[other])
    BY <1>5 DEF RecordsTypeOK, AtMostOne
  <2>4. proc' \in [Procs -> Proc]
    BY <1>1, <1>3 DEF RecordsTypeOK
  <2> QED
    BY <1>8, <2>1, <2>2, <2>3, <2>4 DEF RecordsTypeOK
<1>10. HolderIsInLock'
  BY <1>3, <1>4, <1>8, LockFree, NoProcAssumption DEF HolderIsInLock, InLock
<1>11. DirsBegun'
  BY <1>2, <1>3, <1>4, <1>7, <1>8 DEF DirsBegun, Dirs
<1>12. DirsApart'
  BY <1>3, <1>4, <1>7, <1>8 DEF DirsApart, HasNewDir
<1>13. NewDirIsFull'
  BY <1>3, <1>4, <1>8 DEF NewDirIsFull
<1>14. EntryIsFull'
  BY <1>7, <1>8, LockFree DEF EntryIsFull
<1>15. CopyProtected'
  <2>1. \A other \in Packages : \A e \in index'[other] :
          e.dir = entry.dir => e.age = 0
    <3>1. \A other \in Packages : \A e \in index'[other] :
            e.dir = entry.dir => other = pkg
      BY <1>7 DEF DirsApart
    <3>2. index'[pkg] = {[e EXCEPT !.age = 0] : e \in index[pkg]}
      BY <1>5 DEF RecordsTypeOK
    <3>3. \A e \in index'[pkg] : e.age = 0
      BY <1>6, <3>2 DEF RecordsTypeOK
    <3> QED
      BY <3>1, <3>3
  <2>2. ASSUME NEW q \in Procs \ {p}, proc[q].pc = "copy",
               proc[q].age < MinDuration, NEW other \in Packages,
               NEW e \in index'[other], e.dir = proc[q].dir
        PROVE  e.age <= proc[q].age
    <3>1. PICK old \in index[other] : old.dir = e.dir /\ e.age \in {0, old.age}
      BY <1>7
    <3>2. old.age <= proc[q].age
      BY <2>2, <3>1 DEF CopyProtected
    <3>3. proc[q].age \in Nat
      BY DEF RecordsTypeOK, Proc, Ages
    <3> QED
      BY <3>1, <3>2, <3>3
  <2>3. entry.dir \in torn \/ disk[entry.dir] = "full"
    BY <1>8, LockFree
  <2> QED
    BY <1>3, <1>4, <1>8, <2>1, <2>2, <2>3 DEF CopyProtected
<1> QED
  BY <1>9, <1>10, <1>11, <1>12, <1>13, <1>14, <1>15

LEMMA WaitKeeps ==
  ASSUME CacheInv, NEW p \in Procs, NEW pkg \in Packages, Wait(p, pkg)
  PROVE  CacheInv'
<1>1. At("wait", pkg, 0) \in Proc /\ At("wait", pkg, 0).pc = "wait"
  BY AtIsProc
<1>2. RecordsTypeOK'
  BY <1>1 DEF CacheInv, RecordsTypeOK, Wait
<1>3. ~InLock(p)
  BY LockFree DEF Wait, Calls
<1>4. /\ proc' = [proc EXCEPT ![p] = At("wait", pkg, 0)]
      /\ UNCHANGED <<index, disk, begun, lock, torn>>
  BY DEF Wait
<1> QED
  BY <1>1, <1>2, <1>3, <1>4, ProcStep DEF CacheInv

LEMMA MissKeeps ==
  ASSUME CacheInv, NEW p \in Procs, NEW pkg \in Packages, Miss(p, pkg)
  PROVE  CacheInv'
<1> USE DEF CacheInv
<1> DEFINE new == At("download", pkg, begun + 1)
<1>1. /\ begun + 1 \in Dirs /\ begun' = begun + 1
      /\ lock = NoProc /\ UNCHANGED <<index, copying, lock, torn>>
      /\ proc' = [proc EXCEPT ![p] = new]
      /\ disk' = [disk EXCEPT ![begun + 1] = "partial"]
  BY MaxDirsAssumption DEF Miss, Calls, RecordsTypeOK, Dirs
<1>2. new \in Proc /\ new.pc = "download" /\ new.dir = begun + 1
  BY <1>1, AtIsProc
<1> HIDE DEF new
<1>3. \A q \in Procs : proc'[q] = IF q = p THEN new ELSE proc[q]
  BY <1>1 DEF RecordsTypeOK
<1>4. begun \in Nat
  BY MaxDirsAssumption DEF RecordsTypeOK
<1>5. \A d \in Dirs : d <= begun => disk'[d] = disk[d]
  BY <1>1, <1>4 DEF RecordsTypeOK, Dirs
<1>6. \A other \in Packages : \A e \in index[other] : e.dir \in Dirs /\ e.dir <= begun
  BY DEF DirsBegun, RecordsTypeOK, Entry
<1>7. \A q \in Procs :
        proc[q].pc \in {"download", "stage", "evicted", "copy"} =>
          proc[q].dir \in Dirs /\ proc[q].dir <= begun
  BY <1>4, MaxDirsAssumption DEF DirsBegun, RecordsTypeOK, Dirs
<1>8. RecordsTypeOK'
  <2>1. downloading' \in [Packages -> SUBSET Download]
    BY OlderAge DEF Miss, _AddToDownloading, RecordsTypeOK, Download
  <2>2. \A other \in Packages : AtMostOne(downloading'[other])
    BY DEF Miss, _AddToDownloading, RecordsTypeOK, AtMostOne
  <2>3. begun' \in 0 .. MaxDirs /\ disk' \in [Dirs -> {"none", "partial", "full"}]
    BY <1>1 DEF RecordsTypeOK, Dirs
  <2>4. proc' \in [Procs -> Proc]
    BY <1>1, <1>2 DEF RecordsTypeOK
  <2> QED
    BY <1>1, <2>1, <2>2, <2>3, <2>4 DEF RecordsTypeOK
<1>9. HolderIsInLock'
  BY <1>1, <1>2, <1>3, LockFree, NoProcAssumption DEF HolderIsInLock, InLock
<1>10. DirsBegun'
  BY <1>1, <1>2, <1>3, <1>4, <1>6, <1>7 DEF DirsBegun, Dirs
<1>11. DirsApart'
  <2>1. \A e \in UNION {index[other] : other \in Packages} : e.dir # begun + 1
    BY <1>4, <1>6 DEF Dirs
  <2>2. \A q \in Procs : HasNewDir(q) \/ proc[q].pc = "copy" =>
                          proc[q].dir # begun + 1
    BY <1>4, <1>7 DEF HasNewDir, Dirs
  <2> QED
    BY <1>1, <1>2, <1>3, <2>1, <2>2 DEF DirsApart, HasNewDir
<1>12. NewDirIsFull'
  BY <1>2, <1>3, <1>5, <1>7 DEF NewDirIsFull
<1>13. EntryIsFull'
  BY <1>1, <1>5, <1>6, LockFree DEF EntryIsFull
<1>14. CopyProtected'
  BY <1>1, <1>2, <1>3, <1>5, <1>7 DEF CopyProtected
<1> QED
  BY <1>8, <1>9, <1>10, <1>11, <1>12, <1>13, <1>14

LEMMA StopWaitingKeeps ==
  ASSUME CacheInv, NEW p \in Procs, StopWaiting(p)
  PROVE  CacheInv'
<1>1. PICK pkg \in proc[p].pkg : proc' = [proc EXCEPT ![p] = At("lookup", pkg, 0)]
  BY DEF StopWaiting
<1>2. pkg \in Packages
  BY DEF CacheInv, RecordsTypeOK, Proc
<1>3. At("lookup", pkg, 0) \in Proc /\ At("lookup", pkg, 0).pc = "lookup"
  BY <1>2, AtIsProc
<1>4. RecordsTypeOK'
  BY <1>1, <1>3 DEF CacheInv, RecordsTypeOK, StopWaiting
<1>5. ~InLock(p) /\ UNCHANGED <<index, disk, begun, lock, torn>>
  BY DEF StopWaiting, InLock
<1> QED
  BY <1>1, <1>3, <1>4, <1>5, ProcStep DEF CacheInv

-----------------------------------------------------------------------------
(* Copies and downloads, outside the lock.                                 *)

LEMMA CopyDirectoryKeeps ==
  ASSUME CacheInv, NEW p \in Procs, _CopyDirectory(p)
  PROVE  CacheInv'
<1> DEFINE new == [proc[p] EXCEPT !.pc = "copied"]
<1>1. new \in Proc /\ new.pc = "copied"
  BY DEF CacheInv, RecordsTypeOK, Proc
<1>2. proc' = [proc EXCEPT ![p] = new]
  BY DEF _CopyDirectory
<1>3. RecordsTypeOK'
  BY <1>1, <1>2 DEF CacheInv, RecordsTypeOK, _CopyDirectory
<1>4. ~InLock(p) /\ UNCHANGED <<index, disk, begun, lock, torn>>
  BY DEF _CopyDirectory, InLock
<1> HIDE DEF new
<1> QED
  BY <1>1, <1>2, <1>3, <1>4, ProcStep DEF CacheInv

LEMMA RemoveFromCopyingKeeps ==
  ASSUME CacheInv, NEW p \in Procs, _RemoveFromCopying(p)
  PROVE  CacheInv'
<1>1. RecordsTypeOK'
  BY IdleIsProc DEF CacheInv, RecordsTypeOK, _RemoveFromCopying
<1>2. /\ ~InLock(p) /\ proc' = [proc EXCEPT ![p] = Idle]
      /\ UNCHANGED <<index, disk, begun, lock, torn>>
  BY DEF _RemoveFromCopying, InLock
<1> QED
  BY <1>1, <1>2, IdleIsProc, ProcStep DEF CacheInv

LEMMA EndDownloadKeeps ==
  ASSUME CacheInv, NEW p \in Procs, EndDownload(p)
  PROVE  CacheInv'
<1> USE DEF CacheInv
<1> DEFINE new == [proc[p] EXCEPT !.pc = "stage"]
<1>1. /\ new \in Proc /\ new.pc = "stage" /\ new.dir = proc[p].dir
      /\ proc[p].pc = "download"
  BY DEF RecordsTypeOK, Proc, EndDownload
<1>2. /\ proc' = [proc EXCEPT ![p] = new]
      /\ disk' = [disk EXCEPT ![proc[p].dir] = "full"]
      /\ UNCHANGED <<index, copying, downloading, begun, lock, torn>>
  BY DEF EndDownload
<1> HIDE DEF new
<1>3. \A q \in Procs : proc'[q] = IF q = p THEN new ELSE proc[q]
  BY <1>2 DEF RecordsTypeOK
<1>4. proc[p].dir \in Dirs
  BY <1>1, MaxDirsAssumption DEF DirsBegun, RecordsTypeOK, Dirs
<1>5. \A d \in Dirs : disk'[d] = IF d = proc[p].dir THEN "full" ELSE disk[d]
  BY <1>2 DEF RecordsTypeOK
<1>6. /\ \A pkg \in Packages : \A entry \in index[pkg] : entry.dir \in Dirs
      /\ \A q \in Procs :
           proc[q].pc \in {"download", "stage", "evicted", "copy"} =>
             proc[q].dir \in Dirs
  BY MaxDirsAssumption DEF RecordsTypeOK, Entry, DirsBegun, Dirs
<1>7. RecordsTypeOK'
  BY <1>1, <1>2 DEF RecordsTypeOK
<1>8. HolderIsInLock' /\ DirsBegun'
  BY <1>1, <1>2, <1>3 DEF HolderIsInLock, InLock, DirsBegun
<1>9. DirsApart'
  BY <1>1, <1>2, <1>3 DEF DirsApart, HasNewDir
<1>10. NewDirIsFull'
  BY <1>1, <1>3, <1>4, <1>5, <1>6 DEF NewDirIsFull
<1>11. EntryIsFull'
  BY <1>1, <1>2, <1>3, <1>5, <1>6 DEF EntryIsFull
<1>12. CopyProtected'
  BY <1>1, <1>2, <1>3, <1>5, <1>6 DEF CopyProtected
<1> QED
  BY <1>7, <1>8, <1>9, <1>10, <1>11, <1>12

LEMMA DownloadFailsKeeps ==
  ASSUME CacheInv, NEW p \in Procs, DownloadFails(p)
  PROVE  CacheInv'
<1>1. RecordsTypeOK'
  BY IdleIsProc DEF CacheInv, RecordsTypeOK, DownloadFails
<1>2. /\ ~InLock(p) /\ proc' = [proc EXCEPT ![p] = Idle]
      /\ UNCHANGED <<index, disk, begun, lock, torn>>
  BY DEF DownloadFails, InLock
<1> QED
  BY <1>1, <1>2, IdleIsProc, ProcStep DEF CacheInv

LEMMA RestartKeeps ==
  ASSUME CacheInv, NEW p \in Procs, Restart(p)
  PROVE  CacheInv'
<1>1. RecordsTypeOK'
  BY IdleIsProc DEF CacheInv, RecordsTypeOK, Restart
<1>2. /\ ~InLock(p) /\ proc' = [proc EXCEPT ![p] = Idle]
      /\ UNCHANGED <<index, disk, begun, lock, torn>>
  BY DEF Restart, InLock
<1> QED
  BY <1>1, <1>2, IdleIsProc, ProcStep DEF CacheInv

-----------------------------------------------------------------------------
(* The last locked section.                                                *)

(* An eviction takes records of .index, none younger than MinDuration. *)
LEMMA DeletesOldOnly ==
  ASSUME RecordsTypeOK, NEW S \in _GetDeleteList
  PROVE  /\ S \subseteq Packages
         /\ S \subseteq IndexedPackages
         /\ \A pkg \in S : \A entry \in index[pkg] : entry.age >= MinDuration
<1> DEFINE age(pkg) == CHOOSE a \in Ages : \E entry \in index[pkg] : entry.age = a
           old == {pkg \in Packages : Indexed(pkg) /\ age(pkg) >= MinDuration}
<1>1. S \subseteq old
  BY DEF _GetDeleteList
<1>2. ASSUME NEW pkg \in S, NEW entry \in index[pkg] PROVE entry.age >= MinDuration
  <2>1. pkg \in Packages /\ age(pkg) >= MinDuration
    BY <1>1
  <2>2. entry.age \in Ages
    BY <2>1 DEF RecordsTypeOK, Entry
  <2>3. PICK e \in index[pkg] : e.age = age(pkg)
    BY <2>2
  <2>4. e = entry
    BY <2>1 DEF RecordsTypeOK, AtMostOne
  <2> QED
    BY <2>1, <2>3, <2>4
<1> QED
  BY <1>1, <1>2 DEF IndexedPackages

LEMMA MakeRoomKeeps ==
  ASSUME CacheInv, NEW p \in Procs, NEW S \in SUBSET Packages, MakeRoom(p, S)
  PROVE  CacheInv'
<1> USE DEF CacheInv
<1> DEFINE new == [proc[p] EXCEPT !.pc = "evicted", !.age = 0, !.evict = S]
<1>1. /\ new \in Proc /\ new.pc = "evicted" /\ new.dir = proc[p].dir
      /\ new.evict = S /\ proc[p].pc = "stage"
  BY OlderAge DEF RecordsTypeOK, Proc, MakeRoom
<1>2. /\ proc' = [proc EXCEPT ![p] = new] /\ lock = NoProc /\ lock' = p
      /\ disk' = [d \in Dirs |-> IF d \in DirsOf(S) THEN "none" ELSE disk[d]]
      /\ UNCHANGED <<index, copying, downloading, begun, torn>>
  BY DEF MakeRoom, Deleted
<1> HIDE DEF new
<1>3. \A q \in Procs : proc'[q] = IF q = p THEN new ELSE proc[q]
  BY <1>2 DEF RecordsTypeOK
<1>4. \A pkg \in S : \A entry \in index[pkg] : entry.age >= MinDuration
  BY DeletesOldOnly DEF MakeRoom
<1>5. \A d \in DirsOf(S) : \E pkg \in S : \E entry \in index[pkg] : entry.dir = d
  BY DEF DirsOf
<1>6. /\ \A pkg \in Packages : \A entry \in index[pkg] : entry.dir \in Dirs
      /\ \A q \in Procs :
           proc[q].pc \in {"download", "stage", "evicted", "copy"} =>
             proc[q].dir \in Dirs
  BY MaxDirsAssumption DEF RecordsTypeOK, Entry, DirsBegun, Dirs
<1>7. RecordsTypeOK'
  BY <1>1, <1>2 DEF RecordsTypeOK
<1>8. HolderIsInLock'
  BY <1>1, <1>2, <1>3, LockFree DEF HolderIsInLock, InLock
<1>9. DirsBegun'
  BY <1>1, <1>2, <1>3 DEF DirsBegun
<1>10. DirsApart'
  BY <1>1, <1>2, <1>3 DEF DirsApart, HasNewDir
<1>11. NewDirIsFull'
  <2>1. \A q \in Procs : HasNewDir(q) => proc[q].dir \notin DirsOf(S)
    BY <1>5 DEF DirsApart
  <2> QED
    BY <1>1, <1>2, <1>3, <1>6, <2>1 DEF NewDirIsFull, HasNewDir
<1>12. EntryIsFull'
  <2>1. ASSUME NEW pkg \in Packages \ S, NEW entry \in index[pkg]
        PROVE  entry.dir \notin DirsOf(S)
    BY <1>5 DEF DirsApart
  <2> QED
    BY <1>1, <1>2, <1>3, <1>6, <2>1, LockFree DEF EntryIsFull
<1>13. CopyProtected'
  <2>1. ASSUME NEW q \in Procs, proc[q].pc = "copy", proc[q].age < MinDuration
        PROVE  proc[q].dir \notin DirsOf(S)
    <3>1. SUFFICES ASSUME NEW pkg \in S, NEW entry \in index[pkg],
                          entry.dir = proc[q].dir
                   PROVE  FALSE
      BY <1>5
    <3>2. entry.age >= MinDuration /\ entry.age <= proc[q].age
      BY <1>4, <2>1, <3>1 DEF CopyProtected
    <3>3. entry.age \in Nat /\ proc[q].age \in Nat
      BY DEF RecordsTypeOK, Entry, Proc, Ages
    <3> QED
      BY <2>1, <3>2, <3>3, TimesAssumption
  <2> QED
    BY <1>1, <1>2, <1>3, <1>6, <2>1 DEF CopyProtected
<1> QED
  BY <1>7, <1>8, <1>9, <1>10, <1>11, <1>12, <1>13

LEMMA AddToIndexKeeps ==
  ASSUME CacheInv, NEW p \in Procs, _AddToIndex(p)
  PROVE  CacheInv'
<1> USE DEF CacheInv
<1> DEFINE new == [proc[p] EXCEPT !.pc = "indexed"]
           entry == [dir |-> proc[p].dir, age |-> proc[p].age]
<1>1. new \in Proc /\ new.pc = "indexed" /\ proc[p].pc = "evicted"
  BY DEF RecordsTypeOK, Proc, _AddToIndex
<1>2. /\ proc' = [proc EXCEPT ![p] = new] /\ index' = NewIndex(p)
      /\ UNCHANGED <<copying, downloading, disk, begun, lock, torn>>
  BY DEF _AddToIndex
<1> HIDE DEF new
<1>3. \A q \in Procs : proc'[q] = IF q = p THEN new ELSE proc[q]
  BY <1>2 DEF RecordsTypeOK
<1>4. entry \in Entry /\ entry.dir = proc[p].dir
  BY <1>1, MaxDirsAssumption DEF DirsBegun, RecordsTypeOK, Entry, Proc, Dirs
<1>5. \A pkg \in Packages :
        \/ index'[pkg] = {entry} /\ pkg \in proc[p].pkg
        \/ index'[pkg] = {}
        \/ index'[pkg] = index[pkg] /\ pkg \notin proc[p].evict
  BY <1>2 DEF NewIndex
<1>6. AtMostOne(proc[p].pkg) /\ \A q \in Procs : q # p => proc[q].pc # "evicted"
  BY <1>1 DEF RecordsTypeOK, Proc, HolderIsInLock, InLock
<1>7. RecordsTypeOK'
  <2>1. index' \in [Packages -> SUBSET Entry]
    BY <1>2, <1>4, <1>5 DEF NewIndex, RecordsTypeOK
  <2>2. \A pkg \in Packages : AtMostOne(index'[pkg])
    BY <1>5 DEF RecordsTypeOK, AtMostOne
  <2>3. proc' \in [Procs -> Proc]
    BY <1>1, <1>2 DEF RecordsTypeOK
  <2> QED
    BY <1>2, <2>1, <2>2, <2>3 DEF RecordsTypeOK
<1>8. HolderIsInLock'
  BY <1>1, <1>2, <1>3 DEF HolderIsInLock, InLock
<1>9. DirsBegun'
  <2>1. entry.dir <= begun
    BY <1>1, MaxDirsAssumption DEF DirsBegun, RecordsTypeOK
  <2> QED
    BY <1>1, <1>2, <1>3, <1>5, <2>1 DEF DirsBegun
<1>10. DirsApart'
  <2>1. ASSUME NEW pkg \in Packages, NEW other \in Packages,
               NEW e1 \in index'[pkg], NEW e2 \in index'[other], e1.dir = e2.dir
        PROVE  pkg = other
    <3>1. HasNewDir(p)
      BY <1>1 DEF HasNewDir
    <3>2. CASE index'[pkg] = index[pkg] /\ index'[other] = index[other]
      BY <2>1, <3>2 DEF DirsApart
    <3>3. CASE index'[pkg] = {entry} /\ pkg \in proc[p].pkg
      BY <1>4, <1>5, <1>6, <2>1, <3>1, <3>3 DEF DirsApart, AtMostOne
    <3>4. CASE index'[other] = {entry} /\ other \in proc[p].pkg
      BY <1>4, <1>5, <1>6, <2>1, <3>1, <3>4 DEF DirsApart, AtMostOne
    <3> QED
      BY <1>5, <3>2, <3>3, <3>4
  <2>2. ASSUME NEW q \in Procs, HasNewDir(q)'
        PROVE  /\ \A pkg \in Packages : \A e \in index'[pkg] : e.dir # proc'[q].dir
               /\ \A r \in Procs \ {q} :
                    HasNewDir(r)' \/ proc'[r].pc = "copy" =>
                      proc'[r].dir # proc'[q].dir
    <3>1. q # p /\ proc'[q] = proc[q] /\ HasNewDir(q) /\ HasNewDir(p)
      BY <1>1, <1>3, <2>2 DEF HasNewDir
    <3>2. proc[q].dir # proc[p].dir
      BY <3>1 DEF DirsApart
    <3>3. \A r \in Procs \ {q} : HasNewDir(r)' \/ proc'[r].pc = "copy" =>
            r # p /\ proc'[r] = proc[r]
      BY <1>1, <1>3 DEF HasNewDir
    <3> QED
      BY <1>4, <1>5, <3>1, <3>2, <3>3 DEF DirsApart, HasNewDir
  <2> QED
    BY <2>1, <2>2 DEF DirsApart
<1>11. NewDirIsFull'
  BY <1>1, <1>2, <1>3 DEF NewDirIsFull
<1>12. EntryIsFull'
  <2>1. disk[entry.dir] = "full"
    BY <1>1, <1>4 DEF NewDirIsFull
  <2> QED
    BY <1>2, <1>5, <1>6, <2>1 DEF EntryIsFull
<1>13. CopyProtected'
  <2>1. \A q \in Procs : proc[q].pc = "copy" => proc[q].dir # entry.dir
    BY <1>1, <1>4 DEF DirsApart, HasNewDir
  <2> QED
    BY <1>1, <1>2, <1>3, <1>5, <2>1 DEF CopyProtected
<1> QED
  BY <1>7, <1>8, <1>9, <1>10, <1>11, <1>12, <1>13

LEMMA RemoveFromDownloadingKeeps ==
  ASSUME CacheInv, NEW p \in Procs, _RemoveFromDownloading(p)
  PROVE  CacheInv'
<1> USE DEF CacheInv
<1>1. /\ proc[p].pc = "indexed" /\ proc' = [proc EXCEPT ![p] = Idle]
      /\ lock' = NoProc /\ UNCHANGED <<index, copying, disk, begun, torn>>
  BY DEF _RemoveFromDownloading
<1>2. \A q \in Procs : proc'[q] = IF q = p THEN Idle ELSE proc[q]
  BY <1>1 DEF RecordsTypeOK
<1>3. RecordsTypeOK'
  <2>1. downloading' \in [Packages -> SUBSET Download]
    BY DEF _RemoveFromDownloading, RecordsTypeOK
  <2>2. \A pkg \in Packages : AtMostOne(downloading'[pkg])
    BY DEF _RemoveFromDownloading, RecordsTypeOK, AtMostOne
  <2> QED
    BY <1>1, <2>1, <2>2, IdleIsProc DEF RecordsTypeOK
<1>4. HolderIsInLock'
  BY <1>1, <1>2, IdleIsProc, NoProcAssumption DEF HolderIsInLock, InLock
<1>5. DirsBegun' /\ DirsApart' /\ NewDirIsFull'
  BY <1>1, <1>2, IdleIsProc DEF DirsBegun, DirsApart, NewDirIsFull, HasNewDir
<1>6. EntryIsFull' /\ CopyProtected'
  BY <1>1, <1>2, IdleIsProc DEF EntryIsFull, CopyProtected
<1> QED
  BY <1>3, <1>4, <1>5, <1>6

-----------------------------------------------------------------------------
(* Crashes, and time.                                                      *)

LEMMA DieKeeps ==
  ASSUME CacheInv, NEW p \in Procs, Die(p)
  PROVE  CacheInv'
<1> USE DEF CacheInv
<1> DEFINE new == [Idle EXCEPT !.pc = "dead"]
           After(record) == [record EXCEPT !.pid = IF @ = p THEN NoProc ELSE @]
<1>1. /\ proc' = [proc EXCEPT ![p] = new]
      /\ lock' = IF lock = p THEN NoProc ELSE lock
      /\ torn' = IF proc[p].pc = "evicted"
                 THEN torn \union DirsOf(proc[p].evict) ELSE torn
      /\ UNCHANGED <<index, disk, begun>>
  BY DEF Die
<1>2. new \in Proc /\ new.pc = "dead"
  BY IdleIsProc
<1> HIDE DEF new
<1>3. \A q \in Procs : proc'[q] = IF q = p THEN new ELSE proc[q]
  BY <1>1 DEF RecordsTypeOK
<1>4. \A pkg \in proc[p].evict : \A entry \in index[pkg] :
        entry.dir \in DirsOf(proc[p].evict)
  BY DEF DirsOf
<1>5. RecordsTypeOK'
  <2>1. \A record \in Download : After(record) \in Download
    BY DEF Download
  <2>2. downloading' = [pkg \in Packages |-> {After(r) : r \in downloading[pkg]}]
    BY DEF Die
  <2>3. downloading' \in [Packages -> SUBSET Download]
    BY <2>1, <2>2 DEF RecordsTypeOK
  <2>4. \A pkg \in Packages : AtMostOne(downloading'[pkg])
    BY <2>2 DEF RecordsTypeOK, AtMostOne
  <2>5. DirsOf(proc[p].evict) \subseteq Dirs
    BY DEF DirsOf, RecordsTypeOK, Proc, Entry
  <2>6. torn' \subseteq Dirs
    BY <1>1, <2>5 DEF RecordsTypeOK
  <2>7. lock' \in Procs \union {NoProc}
    BY <1>1 DEF RecordsTypeOK
  <2>8. copying' \subseteq Packages \X Procs
    BY DEF Die, RecordsTypeOK
  <2>9. proc' \in [Procs -> Proc]
    BY <1>1, <1>2 DEF RecordsTypeOK
  <2> QED
    BY <1>1, <2>3, <2>4, <2>6, <2>7, <2>8, <2>9 DEF RecordsTypeOK
<1>6. HolderIsInLock'
  BY <1>1, <1>2, <1>3, NoProcAssumption DEF HolderIsInLock, InLock
<1>7. DirsBegun' /\ DirsApart' /\ NewDirIsFull'
  BY <1>1, <1>2, <1>3 DEF DirsBegun, DirsApart, NewDirIsFull, HasNewDir
<1>8. EntryIsFull'
  BY <1>1, <1>3, <1>4 DEF EntryIsFull
<1>9. CopyProtected'
  BY <1>1, <1>2, <1>3 DEF CopyProtected
<1> QED
  BY <1>5, <1>6, <1>7, <1>8, <1>9

LEMMA TickKeeps ==
  ASSUME CacheInv, Tick
  PROVE  CacheInv'
<1> USE DEF CacheInv
<1> DEFINE Later(record) == [record EXCEPT !.age = Older(@)]
<1>1. /\ \A e \in Entry : /\ Later(e) \in Entry /\ Later(e).dir = e.dir
                          /\ Later(e).age = Older(e.age)
      /\ \A r \in Download : Later(r) \in Download
      /\ \A t \in Proc : /\ Later(t) \in Proc /\ Later(t).pc = t.pc
                         /\ Later(t).dir = t.dir /\ Later(t).evict = t.evict
                         /\ Later(t).age = Older(t.age)
  BY OlderAge DEF Entry, Download, Proc
<1>2. /\ index' = [pkg \in Packages |-> {Later(e) : e \in index[pkg]}]
      /\ downloading' = [pkg \in Packages |-> {Later(r) : r \in downloading[pkg]}]
      /\ proc' = [q \in Procs |-> IF proc[q].pc \in {"copy", "evicted"}
                                  THEN Later(proc[q]) ELSE proc[q]]
      /\ UNCHANGED <<copying, disk, begun, lock, torn>>
  BY DEF Tick
<1> HIDE DEF Later
<1>3. \A q \in Procs :
        /\ proc'[q] \in Proc /\ proc'[q].pc = proc[q].pc
        /\ proc'[q].dir = proc[q].dir /\ proc'[q].evict = proc[q].evict
        /\ proc[q].pc = "copy" => proc'[q].age = Older(proc[q].age)
  BY <1>1, <1>2 DEF RecordsTypeOK
<1>4. \A pkg \in Packages : \A e \in index'[pkg] :
        /\ e \in Entry
        /\ \E before \in index[pkg] :
             e.dir = before.dir /\ e.age = Older(before.age)
  BY <1>1, <1>2 DEF RecordsTypeOK
<1>5. RecordsTypeOK'
  <2>1. index' \in [Packages -> SUBSET Entry]
    BY <1>2, <1>4
  <2>2. downloading' \in [Packages -> SUBSET Download]
    BY <1>1, <1>2 DEF RecordsTypeOK
  <2>3. \A pkg \in Packages : AtMostOne(index'[pkg]) /\ AtMostOne(downloading'[pkg])
    BY <1>2 DEF RecordsTypeOK, AtMostOne
  <2>4. proc' \in [Procs -> Proc]
    BY <1>2, <1>3
  <2> QED
    BY <1>2, <2>1, <2>2, <2>3, <2>4 DEF RecordsTypeOK
<1>6. HolderIsInLock'
  BY <1>2, <1>3 DEF HolderIsInLock, InLock
<1>7. DirsBegun'
  BY <1>2, <1>3, <1>4 DEF DirsBegun
<1>8. DirsApart'
  BY <1>3, <1>4 DEF DirsApart, HasNewDir
<1>9. NewDirIsFull'
  BY <1>2, <1>3 DEF NewDirIsFull
<1>10. EntryIsFull'
  BY <1>2, <1>3, <1>4 DEF EntryIsFull
<1>11. CopyProtected'
  <2>1. SUFFICES ASSUME NEW p \in Procs, proc[p].pc = "copy",
                        Older(proc[p].age) < MinDuration
                 PROVE  /\ proc[p].dir \in torn \/ disk[proc[p].dir] = "full"
                        /\ \A pkg \in Packages : \A e \in index'[pkg] :
                             e.dir = proc[p].dir => e.age <= Older(proc[p].age)
    BY <1>2, <1>3 DEF CopyProtected
  <2>2. proc[p].age \in Ages /\ proc[p].age < MinDuration
    BY <2>1, OlderAge DEF RecordsTypeOK, Proc
  <2>3. ASSUME NEW pkg \in Packages, NEW e \in index'[pkg], e.dir = proc[p].dir
        PROVE  e.age <= Older(proc[p].age)
    <3>1. PICK before \in index[pkg] :
            e.dir = before.dir /\ e.age = Older(before.age)
      BY <1>4
    <3>2. before \in Entry
      BY DEF RecordsTypeOK
    <3>3. before.age \in Ages
      BY <3>2 DEF Entry
    <3>4. before.dir = proc[p].dir
      BY <2>3, <3>1
    <3>5. before.age <= proc[p].age
      BY <2>1, <2>2, <3>4 DEF CopyProtected
    <3> QED
      BY <2>2, <3>1, <3>3, <3>5, OlderAge
  <2> QED
    BY <2>1, <2>2, <2>3 DEF CopyProtected
<1> QED
  BY <1>5, <1>6, <1>7, <1>8, <1>9, <1>10, <1>11

-----------------------------------------------------------------------------
(* CacheInv is inductive: the lock, the directories and the records of the *)
(* cache agree, whatever processes die in between.                         *)
THEOREM CacheInvariance == Spec => []CacheInv
<1>1. CacheInv /\ [Next]_vars => CacheInv'
  <2> SUFFICES ASSUME CacheInv, [Next]_vars PROVE CacheInv'
    OBVIOUS
  <2>1. ASSUME NEW p \in Procs, NEW pkg \in Packages,
               Hit(p, pkg) \/ Wait(p, pkg) \/ Miss(p, pkg)
        PROVE  CacheInv'
    BY <2>1, HitKeeps, WaitKeeps, MissKeeps
  <2>2. ASSUME NEW p \in Procs,
               StopWaiting(p) \/ _CopyDirectory(p) \/ _RemoveFromCopying(p)
        PROVE  CacheInv'
    BY <2>2, StopWaitingKeeps, CopyDirectoryKeeps, RemoveFromCopyingKeeps
  <2>3. ASSUME NEW p \in Procs, EndDownload(p) \/ DownloadFails(p)
        PROVE  CacheInv'
    BY <2>3, EndDownloadKeeps, DownloadFailsKeeps
  <2>4. ASSUME NEW p \in Procs, NEW S \in SUBSET Packages, MakeRoom(p, S)
        PROVE  CacheInv'
    BY <2>4, MakeRoomKeeps
  <2>5. ASSUME NEW p \in Procs, _AddToIndex(p) \/ _RemoveFromDownloading(p)
        PROVE  CacheInv'
    BY <2>5, AddToIndexKeeps, RemoveFromDownloadingKeeps
  <2>6. ASSUME NEW p \in Procs, Die(p) \/ Restart(p) PROVE CacheInv'
    BY <2>6, DieKeeps, RestartKeeps
  <2>7. CASE Tick
    BY <2>7, TickKeeps
  <2>8. CASE UNCHANGED vars
    BY <2>8 DEF vars, CacheInv, RecordsTypeOK, HolderIsInLock, DirsBegun,
       DirsApart, NewDirIsFull, EntryIsFull, CopyProtected, InLock, HasNewDir
  <2> QED
    BY <2>1, <2>2, <2>3, <2>4, <2>5, <2>6, <2>7, <2>8 DEF Next
<1> QED
  BY CacheInvInit, <1>1, PTL DEF Spec

(* The files, the directories and the processes' variables stay well       *)
(* formed, and no package has two records in .index or .downloading.       *)
THEOREM RecordsTypeCorrect == Spec => []RecordsTypeOK
<1>1. CacheInv => RecordsTypeOK
  BY DEF CacheInv
<1> QED
  BY <1>1, CacheInvariance, PTL

(* A package of .index is complete on disk for whoever has the lock, but   *)
(* for what a process that died in an eviction removed.                    *)
THEOREM IndexComplete == Spec => []IndexedIsComplete
<1>1. CacheInv => IndexedIsComplete
  BY NoProcAssumption
     DEF CacheInv, IndexedIsComplete, EntryIsFull, HolderIsInLock, InLock
<1> QED
  BY <1>1, CacheInvariance, PTL

(* What a process copies out of the cache is whole: no eviction takes a    *)
(* new download, nor what was copied for less than min_duration_seconds.   *)
THEOREM CopiesAreWhole == Spec => []CopiedIsWhole
<1>1. CacheInv => CopiedIsWhole
  BY DEF CacheInv, CopiedIsWhole, NewDirIsFull, CopyProtected
<1> QED
  BY <1>1, CacheInvariance, PTL

-----------------------------------------------------------------------------
(* total_size.                                                             *)

LEMMA TotalIsSum == \A S : TotalOf(S) = SumOf(Size, S)
  BY Zenon DEF TotalOf, SumOf

LEMMA TotalOfPart ==
  ASSUME NEW A \in SUBSET Packages, IsFiniteSet(A), NEW B \in SUBSET A
  PROVE  /\ TotalOf(A) \in Nat /\ TotalOf(B) \in Nat /\ TotalOf(A \ B) \in Nat
         /\ TotalOf(A) = TotalOf(B) + TotalOf(A \ B)
<1>1. \A pkg \in A : Size[pkg] \in Nat
  BY SizesAssumption
<1>2. /\ SumOf(Size, A) \in Nat /\ SumOf(Size, B) \in Nat
      /\ SumOf(Size, A \ B) \in Nat
      /\ SumOf(Size, A) = SumOf(Size, B) + SumOf(Size, A \ B)
  BY <1>1, SumPart
<1> QED
  BY <1>2, TotalIsSum

LEMMA TotalOfBoth ==
  ASSUME NEW A \in SUBSET Packages, IsFiniteSet(A),
         NEW B \in SUBSET Packages, IsFiniteSet(B)
  PROVE  TotalOf(A \union B) <= TotalOf(A) + TotalOf(B)
<1> DEFINE both == A \union B
           rest == A \ B
<1>1. IsFiniteSet(both)
  BY FS_Union
<1>2. \A pkg \in both : Size[pkg] \in Int
  BY SizesAssumption
<1>3. SumOf(Size, rest \union B) = SumOf(Size, rest) + SumOf(Size, B)
  <2>1. rest \in SUBSET both /\ B \in SUBSET both /\ rest \intersect B = {}
    OBVIOUS
  <2> HIDE DEF both, rest
  <2> QED
    BY <1>1, <1>2, <2>1, SumUnion
<1>4. rest \union B = both
  OBVIOUS
<1>5. TotalOf(both) = TotalOf(rest) + TotalOf(B)
  BY <1>3, <1>4, TotalIsSum
<1>6. TotalOf(rest) \in Nat /\ TotalOf(A) \in Nat /\ TotalOf(rest) <= TotalOf(A)
  <2> DEFINE common == A \intersect B
  <2>1. common \in SUBSET A /\ A \ common = rest
    OBVIOUS
  <2> HIDE DEF common, rest
  <2>2. /\ TotalOf(A) \in Nat /\ TotalOf(common) \in Nat /\ TotalOf(rest) \in Nat
        /\ TotalOf(A) = TotalOf(common) + TotalOf(rest)
    BY <2>1, TotalOfPart
  <2> QED
    BY <2>2
<1>7. TotalOf(B) \in Nat
  BY TotalOfPart
<1> HIDE DEF both, rest
<1>8. TotalOf(both) <= TotalOf(A) + TotalOf(B)
  BY <1>5, <1>6, <1>7
<1> QED
  BY <1>8 DEF both

LEMMA TotalInvInit == Init => TotalInv
<1> SUFFICES ASSUME Init PROVE TotalInv
  OBVIOUS
<1>1. IndexedPackages = {} /\ {pkg \in Packages : Indexed(pkg)} = {}
  BY DEF Init, IndexedPackages, Indexed
<1>2. TotalOf({}) = 0
  BY TotalIsSum, SumEmpty
<1>3. EvictedIsIndexed
  BY DEF Init, Idle, EvictedIsIndexed
<1>4. totalSize = 0
  BY DEF Init
<1> QED
  BY SMTT(30), <1>1, <1>2, <1>3, <1>4, FS_EmptySet DEF TotalInv, TotalCoversIndex

(* What neither adds to .index nor removes from it leaves its size alone.  *)
LEMMA SameIndexed ==
  ASSUME TotalInv, IndexedPackages' = IndexedPackages, totalSize' = totalSize,
         EvictedIsIndexed'
  PROVE  TotalInv'
<1>1. {pkg \in Packages : Indexed(pkg)}' = {pkg \in Packages : Indexed(pkg)}
  BY DEF IndexedPackages
<1>3. TotalCoversIndex'
  BY <1>1 DEF TotalInv, TotalCoversIndex
<1> QED
  BY <1>3 DEF TotalInv

LEMMA AddToIndexCounts ==
  ASSUME CacheInv, TotalInv, NEW p \in Procs, _AddToIndex(p)
  PROVE  TotalInv'
<1> DEFINE before == IndexedPackages
           evict == proc[p].evict
           rest == before \ evict
           pkgs == proc[p].pkg
           added == rest \union pkgs
<1>1. /\ proc[p] \in Proc /\ proc[p].pc = "evicted"
      /\ proc' = [proc EXCEPT ![p].pc = "indexed"]
      /\ index' = NewIndex(p) /\ totalSize' = NewTotalSize(p)
  BY DEF _AddToIndex, CacheInv, RecordsTypeOK
<1>2. pkgs \in SUBSET Packages /\ AtMostOne(pkgs) /\ evict \in SUBSET before
  BY <1>1 DEF Proc, TotalInv, EvictedIsIndexed
<1>3. before \in SUBSET Packages /\ IsFiniteSet(before)
  BY DEF TotalInv, IndexedPackages
<1>4. IsFiniteSet(pkgs)
  <2>1. CASE pkgs = {}
    BY <2>1, FS_EmptySet
  <2>2. CASE \E pkg \in pkgs : pkgs = {pkg}
    BY <2>2, FS_Singleton
  <2> QED
    BY <1>2, <2>1, <2>2 DEF AtMostOne
<1>5. IndexedPackages' = added
  <2>1. \A pkg \in Packages :
          index'[pkg] # {} <=> pkg \in pkgs \/ (pkg \notin evict /\ index[pkg] # {})
    BY <1>1 DEF NewIndex
  <2>2. \A pkg \in Packages : index'[pkg] # {} <=> pkg \in added
    BY <1>2, <2>1 DEF IndexedPackages, Indexed
  <2> QED
    BY <1>2, <2>2 DEF IndexedPackages, Indexed
<1>6. {pkg \in Packages : Indexed(pkg)}' = added
  BY <1>5 DEF IndexedPackages
<1>7. totalSize >= TotalOf(before)
  BY DEF TotalInv, TotalCoversIndex, IndexedPackages
<1>8. totalSize \in Nat
  BY DEF TotalInv
<1>9. totalSize' = totalSize - TotalOf(evict) + TotalOf(pkgs)
  BY <1>1 DEF NewTotalSize
<1>10. EvictedIsIndexed'
  BY <1>1 DEF EvictedIsIndexed, CacheInv, HolderIsInLock, InLock, RecordsTypeOK
<1> HIDE DEF before, evict, pkgs
<1>11. /\ TotalOf(before) \in Nat /\ TotalOf(evict) \in Nat /\ TotalOf(rest) \in Nat
       /\ TotalOf(before) = TotalOf(evict) + TotalOf(rest)
  BY <1>2, <1>3, TotalOfPart
<1>12. rest \in SUBSET Packages /\ IsFiniteSet(rest)
  BY <1>3, FS_Subset
<1> HIDE DEF rest
<1>13. TotalOf(added) <= TotalOf(rest) + TotalOf(pkgs)
  BY <1>2, <1>4, <1>12, TotalOfBoth
<1>14. TotalOf(pkgs) \in Nat
  BY <1>2, <1>4, TotalOfPart
<1>15. added \in SUBSET Packages /\ IsFiniteSet(added)
  BY <1>2, <1>4, <1>12, FS_Union
<1> HIDE DEF added
<1>16. TotalOf(added) \in Nat
  BY <1>15, TotalOfPart
<1>17. totalSize' \in Nat /\ totalSize' >= TotalOf(added)
  BY <1>7, <1>8, <1>9, <1>11, <1>13, <1>14, <1>16
<1>18. TotalCoversIndex'
  BY <1>6, <1>17 DEF TotalCoversIndex
<1> QED
  BY <1>5, <1>10, <1>15, <1>17, <1>18 DEF TotalInv

(* Every other step leaves alone which packages are indexed; what a        *)
(* process has evicted stays as long as it holds the lock.                 *)
LEMMA NextCounts ==
  ASSUME CacheInv, TotalInv, [Next]_vars
  PROVE  TotalInv'
<1>1. ASSUME NEW p \in Procs, NEW pkg \in Packages, Hit(p, pkg)
      PROVE  TotalInv'
  <2>1. index' = [index EXCEPT ![pkg] = {[e EXCEPT !.age = 0] : e \in index[pkg]}]
    BY <1>1 DEF Hit, _UpdateIndexTimestamp
  <2>2. \A other \in Packages : index'[other] # {} <=> index[other] # {}
    <3> DEFINE renewed == {[e EXCEPT !.age = 0] : e \in index[pkg]}
    <3>1. renewed # {} <=> index[pkg] # {}
      OBVIOUS
    <3> HIDE DEF renewed
    <3>2. index \in [Packages -> SUBSET Entry] /\ index' = [index EXCEPT ![pkg] = renewed]
      BY <2>1 DEF CacheInv, RecordsTypeOK, renewed
    <3> QED
      BY <3>1, <3>2
  <2>3. IndexedPackages' = IndexedPackages
    BY <2>2 DEF IndexedPackages, Indexed
  <2>4. PICK entry \in index[pkg] :
          proc' = [proc EXCEPT ![p] = At("copy", pkg, entry.dir)]
    BY <1>1 DEF Hit
  <2>5. At("copy", pkg, entry.dir).pc = "copy"
    BY DEF At
  <2>6. EvictedIsIndexed'
    BY <2>3, <2>4, <2>5 DEF TotalInv, EvictedIsIndexed, CacheInv, RecordsTypeOK
  <2> QED
    BY <1>1, <2>3, <2>6, SameIndexed DEF Hit
<1>2. ASSUME NEW p \in Procs, NEW new, proc' = [proc EXCEPT ![p] = new],
             new.pc # "evicted", UNCHANGED <<index, totalSize>>
      PROVE  TotalInv'
  <2>1. IndexedPackages' = IndexedPackages
    BY <1>2 DEF IndexedPackages, Indexed
  <2>2. EvictedIsIndexed'
    BY <1>2, <2>1 DEF TotalInv, EvictedIsIndexed, CacheInv, RecordsTypeOK
  <2> QED
    BY <1>2, <2>1, <2>2, SameIndexed
<1>3. ASSUME NEW p \in Procs, NEW S \in SUBSET Packages, MakeRoom(p, S)
      PROVE  TotalInv'
  <2>1. S \subseteq IndexedPackages
    BY <1>3, DeletesOldOnly DEF MakeRoom, CacheInv
  <2>2. IndexedPackages' = IndexedPackages
    BY <1>3 DEF MakeRoom, IndexedPackages, Indexed
  <2>3. EvictedIsIndexed'
    BY <1>3, <2>1, <2>2
       DEF MakeRoom, TotalInv, EvictedIsIndexed, CacheInv, RecordsTypeOK, Proc
  <2>4. totalSize' = totalSize
    BY <1>3 DEF MakeRoom
  <2> QED
    BY <2>2, <2>3, <2>4, SameIndexed
<1>4. ASSUME NEW p \in Procs, NEW pkg \in Packages, Wait(p, pkg) \/ Miss(p, pkg)
      PROVE  TotalInv'
  <2>1. /\ \/ proc' = [proc EXCEPT ![p] = At("wait", pkg, 0)]
           \/ proc' = [proc EXCEPT ![p] = At("download", pkg, begun + 1)]
        /\ UNCHANGED <<index, totalSize>>
    BY <1>4 DEF Wait, Miss
  <2>2. At("wait", pkg, 0).pc = "wait" /\ At("download", pkg, begun + 1).pc = "download"
    BY DEF At
  <2> QED
    BY <1>2, <2>1, <2>2
<1>5. ASSUME NEW p \in Procs,
             \/ StopWaiting(p) \/ _CopyDirectory(p) \/ _RemoveFromCopying(p)
             \/ EndDownload(p) \/ DownloadFails(p) \/ Restart(p)
             \/ _RemoveFromDownloading(p) \/ Die(p)
      PROVE  TotalInv'
  <2>1. UNCHANGED <<index, totalSize>>
    BY <1>5 DEF StopWaiting, _CopyDirectory, _RemoveFromCopying, EndDownload,
       DownloadFails, Restart, _RemoveFromDownloading, Die
  <2>2. \E new : proc' = [proc EXCEPT ![p] = new] /\ new.pc # "evicted"
    <3>1. CASE StopWaiting(p)
      BY <3>1 DEF StopWaiting, At
    <3>2. CASE _CopyDirectory(p)
      <4>1. [proc[p] EXCEPT !.pc = "copied"].pc = "copied"
        BY DEF CacheInv, RecordsTypeOK, Proc
      <4> QED
        BY <3>2, <4>1 DEF _CopyDirectory
    <3>3. CASE EndDownload(p)
      <4>1. [proc[p] EXCEPT !.pc = "stage"].pc = "stage"
        BY DEF CacheInv, RecordsTypeOK, Proc
      <4> QED
        BY <3>3, <4>1 DEF EndDownload
    <3>4. CASE _RemoveFromCopying(p) \/ DownloadFails(p) \/ Restart(p)
                 \/ _RemoveFromDownloading(p)
      BY <3>4, IdleIsProc
         DEF _RemoveFromCopying, DownloadFails, Restart, _RemoveFromDownloading
    <3>5. CASE Die(p)
      BY <3>5, IdleIsProc DEF Die
    <3> QED
      BY <1>5, <3>1, <3>2, <3>3, <3>4, <3>5
  <2> QED
    BY <1>2, <2>1, <2>2
<1>6. ASSUME NEW p \in Procs, _AddToIndex(p) PROVE TotalInv'
  BY <1>6, AddToIndexCounts
<1>7. CASE Tick
  <2>1. IndexedPackages' = IndexedPackages
    BY <1>7 DEF Tick, IndexedPackages, Indexed
  <2>2. \A p \in Procs : proc'[p].pc = proc[p].pc /\ proc'[p].evict = proc[p].evict
    BY <1>7 DEF Tick, CacheInv, RecordsTypeOK, Proc
  <2>3. EvictedIsIndexed'
    BY <2>1, <2>2 DEF TotalInv, EvictedIsIndexed
  <2>4. totalSize' = totalSize
    BY <1>7 DEF Tick
  <2> QED
    BY <2>1, <2>3, <2>4, SameIndexed
<1>8. CASE UNCHANGED vars
  <2>1. IndexedPackages' = IndexedPackages /\ totalSize' = totalSize
    BY <1>8 DEF vars, IndexedPackages, Indexed
  <2>2. EvictedIsIndexed'
    BY <1>8, <2>1 DEF vars, TotalInv, EvictedIsIndexed
  <2> QED
    BY <2>1, <2>2, SameIndexed
<1> QED
  BY <1>1, <1>3, <1>4, <1>5, <1>6, <1>7, <1>8 DEF Next

(* TotalInv is inductive, together with CacheInv: what an eviction takes   *)
(* off total_size had been counted, and what it takes off it no longer     *)
(* keeps, so that total_size never falls below what .index holds.          *)
THEOREM TotalInvariance == Spec => []TotalInv
<1>1. CacheInv /\ TotalInv /\ [Next]_vars => TotalInv'
  BY NextCounts
<1> QED
  BY TotalInvInit, CacheInvariance, <1>1, PTL DEF Spec

(* total_size covers the sizes of the indexed packages, whatever processes *)
(* die in an eviction and however often a package is indexed: the cache    *)
(* never takes itself to be smaller than it is.                            *)
THEOREM TotalCovers == Spec => []TotalCoversIndex
<1>1. TotalInv => TotalCoversIndex
  BY DEF TotalInv
<1> QED
  BY <1>1, TotalInvariance, PTL

(* The files stay well formed, and total_size does not become negative     *)
(* though sizes are subtracted from it.                                    *)
THEOREM CacheTypeCorrect == Spec => []CacheTypeOK
<1>1. CacheInv /\ TotalInv => CacheTypeOK
  BY DEF CacheInv, TotalInv, CacheTypeOK
<1> QED
  BY <1>1, CacheInvariance, TotalInvariance, PTL
=============================================================================
