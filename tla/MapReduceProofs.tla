-------------------------- MODULE MapReduceProofs ---------------------------
(***************************************************************************)
(* Theorems about MapReduce, for any number of shards, items, instances,   *)
(* slices, polls and faults.                                               *)
(***************************************************************************)
EXTENDS MapReduce, TLAPS

-----------------------------------------------------------------------------
(* What every step has to show.                                            *)

(* An entity that is not there, and one just made, are well typed.         *)
LEMMA EntitiesOK == EntityOK(NoEntity) /\ EntityOK(NewEntity)
  BY DEF EntityOK, NoEntity, NewEntity, Entity, Results

(* An instance without a handler knows nothing that could be wrong.        *)
LEMMA IdleOK == HandlerOK(Idle) /\ SliceIsFlushed(Idle)' /\ CopyIsFlushed(Idle)'
  BY EntitiesOK, JobAssumption
     DEF Idle, Handler, NoTask, Task, HandlerOK, TaskOK, SliceIsFlushed, CopyIsFlushed

(* A step of instance i leaves the other handlers alone, and flushes more. *)
LEMMA OtherHandlers ==
  ASSUME MRInv, NEW i \in Instances, NEW h,
         run' = [run EXCEPT ![i] = h],
         \A s \in Shards : flushed[s] \subseteq flushed'[s] /\ flushed'[s] \subseteq Items,
         HandlerOK(h), SliceIsFlushed(h)', CopyIsFlushed(h)'
  PROVE  HandlersInv' /\ (\A j \in Instances : HandlerOK(run[j]))' /\ DOMAIN run' = Instances
<1>1. DOMAIN run' = Instances /\ run'[i] = h /\ \A j \in Instances : j # i => run'[j] = run[j]
  BY DEF MRInv, MRTypeOK
<1>2. AllFlushed => AllFlushed'
  BY DEF AllFlushed
<1>3. ASSUME NEW j \in Instances, j # i
      PROVE  HandlerOK(run[j]) /\ SliceIsFlushed(run[j])' /\ CopyIsFlushed(run[j])'
  <2>1. HandlerOK(run[j]) /\ SliceIsFlushed(run[j]) /\ CopyIsFlushed(run[j])
    BY DEF MRInv, HandlersInv
  <2>2. run'[j] = run[j]
    BY <1>1, <1>3
  <2> QED
    BY <2>1, <2>2, <1>2 DEF HandlerOK, TaskOK, SliceIsFlushed, CopyIsFlushed
<1> QED BY <1>1, <1>3 DEF HandlersInv

(* The entities, tasks and flushed items, and what is said of them. *)
EntitiesInv ==
  /\ EntityOK(job) /\ EntityOK(told)
  /\ DOMAIN shard = Shards /\ DOMAIN flushed = Shards
  /\ \A s \in Shards : /\ EntityOK(shard[s])
                       /\ shard[s].calls \in 0..MaxCalls
                       /\ flushed[s] \subseteq Items
  /\ control \in BOOLEAN /\ ended \in BOOLEAN /\ late \in BOOLEAN
  /\ faults \in 0..MaxFaults
  /\ \A t \in queue : TaskOK(t)
  /\ QueuedIsFlushed /\ ShardSuccessIsFlushed /\ JobSuccessIsFlushed

(* The invariant speaks of the entities and of the handlers, apart.        *)
LEMMA SplitInv == MRInv <=> EntitiesInv /\ HandlersInv /\ DOMAIN run = Instances
  BY DEF MRInv, MRTypeOK, HandlersInv, EntitiesInv

(* A step of instance i keeps the invariant if its handler and the         *)
(* entities do.                                                            *)
LEMMA StepKeeps ==
  ASSUME MRInv, NEW i \in Instances, NEW h, run' = [run EXCEPT ![i] = h],
         \A s \in Shards : flushed[s] \subseteq flushed'[s],
         HandlerOK(h), SliceIsFlushed(h)', CopyIsFlushed(h)', EntitiesInv'
  PROVE  MRInv'
<1>1. \A s \in Shards : flushed'[s] \subseteq Items
  BY DEF EntitiesInv
<1>2. HandlersInv' /\ DOMAIN run' = Instances
  BY <1>1, OtherHandlers
<1> QED
  BY <1>2 DEF MRInv, MRTypeOK, HandlersInv, EntitiesInv

(* Adding a named task whose items are flushed keeps the queue in order. *)
LEMMA AddNamedKeeps ==
  ASSUME MRInv, NEW t, AddNamed(t), TaskOK(t), UNCHANGED flushed,
         t.kind = "slice" => 1..t.pos \subseteq flushed[t.shard]
  PROVE  (\A q \in queue : TaskOK(q))' /\ QueuedIsFlushed'
<1>1. queue' \subseteq queue \union {t}
  BY DEF AddNamed
<1>2. \A q \in queue' : TaskOK(q)
  BY <1>1 DEF MRInv, MRTypeOK
<1> QED
  BY <1>1, <1>2 DEF MRInv, QueuedIsFlushed, TaskOK

(* A handler that only goes on keeps what it knows. *)
LEMMA GotoKeeps ==
  ASSUME MRInv, NEW i \in Instances, NEW step, Goto(i, step), UNCHANGED flushed,
         run[i].task.kind = "slice" =>
           step # "commit" /\ (step = "next" => run[i].step = "commit"),
         run[i].task.kind = "controller" =>
           step = "done" \/ run[i].step # "done",
         EntitiesInv'
  PROVE  MRInv'
<1> PICK h : h = Handler(run[i].task, step, run[i].state, run[i].todo,
                         run[i].upto, run[i].abort)
  OBVIOUS
<1>1. run' = [run EXCEPT ![i] = h]
  BY DEF Goto, Become
<1>2. HandlerOK(run[i]) /\ SliceIsFlushed(run[i]) /\ CopyIsFlushed(run[i])
  BY DEF MRInv, HandlersInv
<1>3. HandlerOK(h)
  BY <1>2 DEF HandlerOK, Handler
<1>4. SliceIsFlushed(h)'
  BY <1>2 DEF SliceIsFlushed, Handler
<1>5. CopyIsFlushed(h)'
  BY <1>2 DEF CopyIsFlushed, Handler, AllFlushed
<1> QED
  BY <1>1, <1>3, <1>4, <1>5, StepKeeps

(* The same for a handler that turns to other shards, or to none. *)
LEMMA KickoffBecomes ==
  ASSUME MRInv, NEW i \in Instances, run[i].task.kind = "kickoff",
         NEW step, NEW todo \in SUBSET Shards,
         Become(i, step, NoEntity, todo, 0), UNCHANGED flushed, EntitiesInv'
  PROVE  MRInv'
<1> PICK h : h = Handler(run[i].task, step, NoEntity, todo, 0, run[i].abort)
  OBVIOUS
<1>1. run' = [run EXCEPT ![i] = h]
  BY DEF Become
<1>2. HandlerOK(run[i])
  BY DEF MRInv, HandlersInv
<1>3. HandlerOK(h)
  BY <1>2, EntitiesOK, JobAssumption DEF HandlerOK, Handler
<1>4. SliceIsFlushed(h)' /\ CopyIsFlushed(h)'
  BY DEF SliceIsFlushed, CopyIsFlushed, Handler
<1> QED
  BY <1>1, <1>3, <1>4, StepKeeps

(* A handler that is given up leaves its instance idle. *)
LEMMA IdleKeeps ==
  ASSUME MRInv, NEW i \in Instances, run' = [run EXCEPT ![i] = Idle],
         UNCHANGED flushed, EntitiesInv'
  PROVE  MRInv'
  BY IdleOK, StepKeeps

(* The entities are as before. *)
LEMMA SameEntities ==
  ASSUME MRInv, UNCHANGED <<job, shard, control, queue, flushed, told, ended, late>>,
         faults' \in 0..MaxFaults
  PROVE  EntitiesInv'
  BY DEF MRInv, MRTypeOK, EntitiesInv, QueuedIsFlushed, ShardSuccessIsFlushed,
         JobSuccessIsFlushed

(* A handler that begins. *)
LEMMA ServeKeeps ==
  ASSUME MRInv, NEW i \in Instances, NEW t, NEW h, Serve(i, t, h),
         UNCHANGED flushed,
         HandlerOK(h), SliceIsFlushed(h)', CopyIsFlushed(h)',
         faults' \in 0..MaxFaults => EntitiesInv'
  PROVE  MRInv'
<1>1. run' = [run EXCEPT ![i] = h]
  BY DEF Serve
<1>2. faults' \in 0..MaxFaults
  BY JobAssumption DEF Serve, MRInv, MRTypeOK
<1> QED
  BY <1>1, <1>2, StepKeeps

-----------------------------------------------------------------------------
(* The steps of the handlers.                                              *)

(* It holds of a job that has been started and has no shards yet.          *)
LEMMA InitHolds == Init => MRInv
<1> SUFFICES ASSUME Init PROVE MRInv
  OBVIOUS
<1>1. \A t \in queue : TaskOK(t)
  BY JobAssumption DEF Init, Kickoff, Task, TaskOK
<1>2. QueuedIsFlushed /\ ShardSuccessIsFlushed /\ JobSuccessIsFlushed
  BY DEF Init, Kickoff, Task, QueuedIsFlushed, ShardSuccessIsFlushed,
         JobSuccessIsFlushed, NoEntity, NewEntity, Entity
<1>3. \A s \in Shards : /\ EntityOK(shard[s])
                        /\ shard[s].calls \in 0..MaxCalls
                        /\ flushed[s] \subseteq Items
  BY EntitiesOK, JobAssumption DEF Init, NoEntity, Entity
<1>a. EntityOK(job) /\ EntityOK(told)
  BY EntitiesOK DEF Init
<1>b. DOMAIN shard = Shards /\ DOMAIN flushed = Shards
  BY DEF Init
<1>c. control \in BOOLEAN /\ ended \in BOOLEAN /\ late \in BOOLEAN
  BY Zenon DEF Init
<1>d. faults \in 0..MaxFaults
  BY JobAssumption DEF Init
<1>4. EntitiesInv
  BY <1>1, <1>2, <1>3, <1>a, <1>b, <1>c, <1>d DEF EntitiesInv
<1>5. HandlerOK(Idle) /\ SliceIsFlushed(Idle) /\ CopyIsFlushed(Idle)
  BY EntitiesOK, JobAssumption
     DEF Idle, Handler, NoTask, Task, HandlerOK, TaskOK, SliceIsFlushed, CopyIsFlushed
<1> QED
  BY <1>4, <1>5, SplitInv DEF Init, HandlersInv

(* Every step of a kickoff keeps the invariant.                            *)
LEMMA KickoffKeeps ==
  ASSUME MRInv, NEW i \in Instances, KickoffStep(i)
  PROVE  MRInv'
<1>1. CASE CreateJob(i)
  <2> PICK h : h = Handler(Kickoff, "find", NoEntity, {}, 0, FALSE)
    OBVIOUS
  <2>1. HandlerOK(h) /\ SliceIsFlushed(h)' /\ CopyIsFlushed(h)'
    BY EntitiesOK, JobAssumption
       DEF Handler, Kickoff, Task, HandlerOK, TaskOK, SliceIsFlushed, CopyIsFlushed
  <2>2. faults' \in 0..MaxFaults => EntitiesInv'
    BY <1>1, EntitiesOK
       DEF CreateJob, MRInv, MRTypeOK, EntitiesInv, QueuedIsFlushed,
           ShardSuccessIsFlushed, JobSuccessIsFlushed, NewEntity, Entity
  <2> QED
    BY <1>1, <2>1, <2>2, ServeKeeps DEF CreateJob
<1>2. CASE FindShards(i)
  <2>1. EntitiesInv'
    BY <1>2, SameEntities DEF FindShards, MRInv, MRTypeOK
  <2> QED
    BY <1>2, <2>1, KickoffBecomes DEF FindShards, At
<1>3. CASE PutShards(i)
  <2>1. EntitiesInv'
    BY <1>3, EntitiesOK, JobAssumption
       DEF PutShards, MRInv, MRTypeOK, EntitiesInv, QueuedIsFlushed,
           ShardSuccessIsFlushed, JobSuccessIsFlushed, NewEntity, Entity
  <2> QED
    BY <1>3, <2>1, KickoffBecomes DEF PutShards, At
<1>4. CASE ScheduleShard(i)
  <2> PICK s \in run[i].todo :
         AddNamed(Slice(s, 0, 0)) /\ Become(i, "schedule", NoEntity, run[i].todo \ {s}, 0)
    BY <1>4 DEF ScheduleShard
  <2>1. run[i].todo \subseteq Shards
    BY DEF MRInv, HandlersInv, HandlerOK
  <2>2. (\A q \in queue : TaskOK(q))' /\ QueuedIsFlushed'
    BY <1>4, <2>1, AddNamedKeeps, JobAssumption
       DEF Slice, Task, TaskOK, ScheduleShard
  <2>3. EntitiesInv'
    BY <1>4, <2>2 DEF ScheduleShard, MRInv, MRTypeOK, EntitiesInv,
                      ShardSuccessIsFlushed, JobSuccessIsFlushed
  <2> QED
    BY <1>4, <2>1, <2>3, KickoffBecomes DEF ScheduleShard, At
<1>5. CASE ScheduleController(i)
  <2>1. (\A q \in queue : TaskOK(q))' /\ QueuedIsFlushed'
    BY <1>5, AddNamedKeeps, JobAssumption
       DEF Controller, Task, TaskOK, ScheduleController
  <2>2. EntitiesInv'
    BY <1>5, <2>1 DEF ScheduleController, MRInv, MRTypeOK, EntitiesInv,
                      ShardSuccessIsFlushed, JobSuccessIsFlushed
  <2> QED
    BY <1>5, <2>2, GotoKeeps DEF ScheduleController, At
<1> QED
  BY <1>1, <1>2, <1>3, <1>4, <1>5 DEF KickoffStep

(* Every step of a slice does: it commits what it has flushed before.      *)
LEMMA SliceKeeps ==
  ASSUME MRInv, NEW i \in Instances, SliceStep(i)
  PROVE  MRInv'
<1>0. /\ HandlerOK(run[i]) /\ SliceIsFlushed(run[i])
      /\ \A s \in Shards : EntityOK(shard[s]) /\ shard[s].calls \in 0..MaxCalls
  BY DEF MRInv, HandlersInv, MRTypeOK
<1>1. CASE ReadShard(i)
  <2> PICK t \in queue, step \in {"done", "abort", "scan"} :
         /\ t.kind = "slice"
         /\ Serve(i, t, Handler(t, step, shard[t.shard], {}, t.pos, FALSE))
         /\ UNCHANGED <<job, shard, control, queue, names, flushed, told, ended, late>>
    BY <1>1 DEF ReadShard
  <2> PICK h : h = Handler(t, step, shard[t.shard], {}, t.pos, FALSE)
    OBVIOUS
  <2>1. TaskOK(t) /\ 1..t.pos \subseteq flushed[t.shard]
    BY DEF MRInv, MRTypeOK, QueuedIsFlushed
  <2>2. HandlerOK(h)
    BY <1>0, <2>1 DEF HandlerOK, Handler, TaskOK
  <2>3. SliceIsFlushed(h)' /\ CopyIsFlushed(h)'
    BY <2>1 DEF Handler, SliceIsFlushed, CopyIsFlushed
  <2>4. faults' \in 0..MaxFaults => EntitiesInv'
    BY SameEntities
  <2> QED
    BY <2>2, <2>3, <2>4, ServeKeeps
<1>2. CASE AbortShard(i)
  <2> DEFINE s == run[i].task.shard
  <2>1. s \in Shards
    BY <1>0, <1>2 DEF AbortShard, At, HandlerOK, TaskOK
  <2>2. run[i].state.calls \in 0..MaxCalls
    BY <1>0, <1>2 DEF AbortShard, At, HandlerOK
  <2>3. EntitiesInv'
    BY <1>2, <2>1, <2>2
       DEF AbortShard, MRInv, MRTypeOK, EntitiesInv, QueuedIsFlushed, Results,
           ShardSuccessIsFlushed, JobSuccessIsFlushed, EntityOK, Entity
  <2> QED
    BY <1>2, <2>3, GotoKeeps DEF AbortShard, At
<1>3. CASE RepeatAbort(i)
  <2>1. EntitiesInv'
    BY <1>3 DEF RepeatAbort, MRInv, MRTypeOK, EntitiesInv, QueuedIsFlushed,
                ShardSuccessIsFlushed, JobSuccessIsFlushed
  <2> QED
    BY <1>3, <2>1, GotoKeeps DEF RepeatAbort, At
<1>4. CASE Scan(i)
  <2> PICK upto \in run[i].task.pos .. Size, finished \in BOOLEAN :
         /\ At(i, "slice", "scan")
         /\ finished => upto = Size
         /\ flushed' = [flushed EXCEPT ![run[i].task.shard] =
                          @ \union run[i].task.pos + 1 .. upto]
         /\ Become(i, "commit", Scanned(i, upto, finished), {}, upto)
         /\ UNCHANGED <<job, shard, control, queue, names, told, ended, late, faults>>
    BY <1>4 DEF Scan
  <2> PICK h : h = Handler(run[i].task, "commit", Scanned(i, upto, finished), {},
                           upto, run[i].abort)
    OBVIOUS
  <2>1. /\ run[i].task.shard \in Shards /\ run[i].task.pos \in 0..Size
        /\ run[i].state.calls \in 0..MaxCalls
        /\ upto \in 0..Size
    BY <1>0, JobAssumption DEF At, HandlerOK, TaskOK
  <2>2. /\ EntityOK(Scanned(i, upto, finished))
        /\ Scanned(i, upto, finished).calls \in 0..MaxCalls
        /\ Scanned(i, upto, finished).stored
        /\ Scanned(i, upto, finished).result = "success" => finished
    <3> DEFINE calls == run[i].state.calls + (upto - run[i].task.pos)
               c == IF calls > MaxCalls THEN MaxCalls ELSE calls
               r == IF finished THEN "success" ELSE "none"
    <3>1. c \in 0..MaxCalls
      BY <2>1, JobAssumption
    <3>2. Scanned(i, upto, finished) = Entity(TRUE, ~finished, r, c)
      BY DEF Scanned
    <3>3. /\ r \in Results /\ (r = "success" => finished)
          /\ (~finished => r = "none") /\ (finished => r # "none")
      BY DEF Results
    <3> HIDE DEF c, r
    <3>4. /\ Scanned(i, upto, finished).stored = TRUE
          /\ Scanned(i, upto, finished).active = ~finished
          /\ Scanned(i, upto, finished).result = r
          /\ Scanned(i, upto, finished).calls = c
      BY <3>2 DEF Entity
    <3> QED
      BY <3>1, <3>3, <3>4 DEF EntityOK
  <2>3. HandlerOK(h)
    BY <1>0, <2>1, <2>2 DEF HandlerOK, Handler
  <2>4. /\ \A s \in Shards : flushed[s] \subseteq flushed'[s] /\ flushed'[s] \subseteq Items
        /\ DOMAIN flushed' = Shards
    BY <2>1, JobAssumption DEF MRInv, MRTypeOK, Items
  <2>5. 1..run[i].task.pos \subseteq flushed[run[i].task.shard]
    BY <1>0 DEF SliceIsFlushed, At
  <2>6. flushed'[run[i].task.shard]
          = flushed[run[i].task.shard] \union run[i].task.pos + 1 .. upto
    BY <2>1 DEF MRInv, MRTypeOK
  <2>7. 1..upto \subseteq flushed'[run[i].task.shard]
    BY <2>1, <2>5, <2>6, JobAssumption
  <2>8. 1..run[i].task.pos \subseteq flushed'[run[i].task.shard]
    BY <2>5, <2>6
  <2>9. SliceIsFlushed(h)' /\ CopyIsFlushed(h)'
    BY <2>2, <2>7, <2>8 DEF SliceIsFlushed, CopyIsFlushed, Handler, At
  <2>10. EntitiesInv'
    <3>1. QueuedIsFlushed'
      BY <2>4 DEF MRInv, MRTypeOK, TaskOK, QueuedIsFlushed
    <3>2. ShardSuccessIsFlushed' /\ JobSuccessIsFlushed'
      BY <2>4 DEF MRInv, ShardSuccessIsFlushed, JobSuccessIsFlushed
    <3> QED
      BY <3>1, <3>2, <2>4 DEF MRInv, MRTypeOK, EntitiesInv
  <2> QED
    BY <2>3, <2>4, <2>9, <2>10, StepKeeps DEF Become
<1>5. CASE CommitSlice(i)
  <2> DEFINE s == run[i].task.shard
  <2>1. /\ s \in Shards /\ At(i, "slice", "commit")
        /\ run[i].state.calls \in 0..MaxCalls /\ EntityOK(run[i].state)
    BY <1>0, <1>5 DEF CommitSlice, At, HandlerOK, TaskOK
  <2>2. run[i].state.result = "success" => flushed[s] = Items
    BY <1>0, <2>1 DEF SliceIsFlushed, At, Items, MRInv, MRTypeOK
  <2>3. CASE UNCHANGED shard
    <3>1. EntitiesInv'
      BY <1>5, <2>3, SameEntities DEF CommitSlice, MRInv, MRTypeOK
    <3> QED
      BY <1>5, <2>1, <3>1, IdleKeeps, GotoKeeps DEF CommitSlice, At
  <2>4. CASE shard' = [shard EXCEPT ![s] = run[i].state]
    <3>1. EntitiesInv'
      BY <1>5, <2>1, <2>2, <2>4
         DEF CommitSlice, MRInv, MRTypeOK, EntitiesInv, QueuedIsFlushed,
             ShardSuccessIsFlushed, JobSuccessIsFlushed
    <3> QED
      BY <1>5, <2>1, <3>1, IdleKeeps, GotoKeeps DEF CommitSlice, At
  <2> QED
    BY <1>5, <2>3, <2>4 DEF CommitSlice
<1>6. CASE NextSlice(i)
  <2> PICK t : t = Slice(run[i].task.shard, run[i].task.id + 1, run[i].upto)
    OBVIOUS
  <2>1. TaskOK(t) /\ 1..t.pos \subseteq flushed[t.shard] /\ AddNamed(t)
    BY <1>0, <1>6 DEF NextSlice, At, HandlerOK, TaskOK, SliceIsFlushed, Slice, Task
  <2>2. (\A q \in queue : TaskOK(q))' /\ QueuedIsFlushed'
    BY <1>6, <2>1, AddNamedKeeps DEF NextSlice
  <2>3. EntitiesInv'
    BY <1>6, <2>2 DEF NextSlice, MRInv, MRTypeOK, EntitiesInv,
                      ShardSuccessIsFlushed, JobSuccessIsFlushed
  <2> QED
    BY <1>6, <2>3, GotoKeeps DEF NextSlice, At
<1> QED
  BY <1>1, <1>2, <1>3, <1>4, <1>5, <1>6 DEF SliceStep

(* What a controller makes of a job that it found is as good as the shards. *)
LEMMA OutcomeOK ==
  ASSUME MRInv, NEW state, EntityOK(state), state.stored,
         state.result = "success" => AllFlushed, NEW abort
  PROVE  /\ EntityOK(Outcome(state, abort)) /\ Outcome(state, abort).stored
         /\ Outcome(state, abort).result = "success" => AllFlushed
<1> DEFINE active == /\ state.active /\ ~Lost(state)
                     /\ \E s \in Found : shard[s].active
           result == IF active THEN state.result
                     ELSE IF abort THEN "aborted"
                     ELSE IF Lost(state) THEN "failed"
                     ELSE IF state.result # "none" THEN state.result
                     ELSE IF \E s \in Found : shard[s].result # "success"
                          THEN "failed" ELSE "success"
           calls == MapThenSumSet(LAMBDA s : shard[s].calls, Found)
<1>1. Outcome(state, abort) = Entity(TRUE, active, result, calls)
  BY DEF Outcome
<1>2. result \in Results /\ (active => result = "none") /\ (~active => result # "none")
  BY DEF EntityOK, Results
<1>3. ASSUME result = "success" PROVE AllFlushed
  <2>1. CASE state.result = "success"
    BY <2>1
  <2>2. CASE state.result # "success"
    <3>1. ~active /\ ~Lost(state) /\ state.result = "none"
      BY <1>3, <2>2
    <3>2. \A s \in Found : shard[s].result = "success"
      BY <1>3, <3>1
    <3>3. Found = Shards
      BY <3>1 DEF Lost, EntityOK
    <3> QED
      BY <3>2, <3>3 DEF MRInv, ShardSuccessIsFlushed, AllFlushed
  <2> QED
    BY <2>1, <2>2
<1>4. active \in BOOLEAN
  BY DEF EntityOK
<1> HIDE DEF active, result, calls
<1>5. /\ Outcome(state, abort).stored = TRUE
      /\ Outcome(state, abort).active = active
      /\ Outcome(state, abort).result = result
  BY <1>1 DEF Entity
<1> QED
  BY <1>2, <1>3, <1>4, <1>5 DEF EntityOK

(* Every step of a controller does, with what it read some steps ago.      *)
LEMMA ControllerKeeps ==
  ASSUME MRInv, NEW i \in Instances, ControllerStep(i)
  PROVE  MRInv'
<1>0. HandlerOK(run[i]) /\ CopyIsFlushed(run[i])
  BY DEF MRInv, HandlersInv
<1>1. CASE ReadJob(i)
  <2> PICK t \in queue, step \in {"done", "gather"} :
         /\ t.kind = "controller"
         /\ step = "gather" => job.stored
         /\ Serve(i, t, Handler(t, step, job, {}, 0, control))
         /\ UNCHANGED <<job, shard, control, queue, names, flushed, told, ended, late>>
    BY <1>1 DEF ReadJob
  <2> PICK h : h = Handler(t, step, job, {}, 0, control)
    OBVIOUS
  <2>1. TaskOK(t) /\ EntityOK(job) /\ control \in BOOLEAN
    BY DEF MRInv, MRTypeOK
  <2>2. HandlerOK(h)
    BY <2>1, JobAssumption DEF HandlerOK, Handler
  <2>3. job.result = "success" => AllFlushed
    BY DEF MRInv, JobSuccessIsFlushed, AllFlushed
  <2>4. SliceIsFlushed(h)' /\ CopyIsFlushed(h)'
    BY <2>1, <2>3 DEF Handler, SliceIsFlushed, CopyIsFlushed, AllFlushed
  <2>5. faults' \in 0..MaxFaults => EntitiesInv'
    BY SameEntities
  <2> QED
    BY <2>2, <2>4, <2>5, ServeKeeps
<1>2. CASE Gather(i)
  <2> PICK step \in {"lost", "put", "finalize"} :
         Become(i, step, Outcome(run[i].state, run[i].abort), {}, 0)
    BY <1>2 DEF Gather
  <2> PICK h : h = Handler(run[i].task, step, Outcome(run[i].state, run[i].abort),
                           {}, 0, run[i].abort)
    OBVIOUS
  <2>1. run[i].task.kind = "controller" /\ UNCHANGED flushed
    BY <1>2 DEF Gather, At
  <2>2. /\ EntityOK(run[i].state) /\ run[i].state.stored
        /\ run[i].state.result = "success" => AllFlushed
    BY <1>0, <1>2 DEF HandlerOK, CopyIsFlushed, Gather, At
  <2>3. /\ EntityOK(Outcome(run[i].state, run[i].abort))
        /\ Outcome(run[i].state, run[i].abort).stored
        /\ Outcome(run[i].state, run[i].abort).result = "success" => AllFlushed
    BY <2>2, OutcomeOK
  <2>4. HandlerOK(h)
    BY <1>0, <2>1, <2>3, JobAssumption DEF HandlerOK, Handler
  <2>5. SliceIsFlushed(h)' /\ CopyIsFlushed(h)'
    BY <2>1, <2>3 DEF Handler, SliceIsFlushed, CopyIsFlushed, AllFlushed
  <2>6. EntitiesInv'
    BY <1>2, SameEntities DEF Gather, MRInv, MRTypeOK
  <2> QED
    BY <2>1, <2>4, <2>5, <2>6, StepKeeps DEF Become
<1>3. CASE AbortLost(i)
  <2>1. EntitiesInv'
    BY <1>3 DEF AbortLost, MRInv, MRTypeOK, EntitiesInv, QueuedIsFlushed,
                ShardSuccessIsFlushed, JobSuccessIsFlushed
  <2> QED
    BY <1>3, <2>1, GotoKeeps DEF AbortLost, At
<1>4. CASE PutJob(i)
  <2>1. /\ EntityOK(run[i].state)
        /\ run[i].state.result = "success" => AllFlushed
    BY <1>0, <1>4 DEF HandlerOK, CopyIsFlushed, PutJob, At
  <2>2. late' \in BOOLEAN
    BY <1>4 DEF PutJob, MRInv, MRTypeOK
  <2>3. EntitiesInv'
    BY <1>4, <2>1, <2>2
       DEF PutJob, MRInv, MRTypeOK, EntitiesInv, QueuedIsFlushed, AllFlushed,
           ShardSuccessIsFlushed, JobSuccessIsFlushed
  <2> QED
    BY <1>4, <2>3, GotoKeeps DEF PutJob, At
<1>5. CASE NextPoll(i)
  <2>1. (\A q \in queue : TaskOK(q))' /\ QueuedIsFlushed'
    BY <1>0, <1>5, AddNamedKeeps, JobAssumption
       DEF Controller, Task, TaskOK, HandlerOK, NextPoll
  <2>2. EntitiesInv'
    BY <1>5, <2>1 DEF NextPoll, MRInv, MRTypeOK, EntitiesInv,
                      ShardSuccessIsFlushed, JobSuccessIsFlushed
  <2> QED
    BY <1>5, <2>2, GotoKeeps DEF NextPoll, At
<1>6. CASE ScheduleFinalize(i)
  <2>1. (\A q \in queue : TaskOK(q))' /\ QueuedIsFlushed'
    BY <1>6, AddNamedKeeps, JobAssumption
       DEF Finalize, Task, TaskOK, ScheduleFinalize
  <2>2. EntitiesInv'
    BY <1>6, <2>1 DEF ScheduleFinalize, MRInv, MRTypeOK, EntitiesInv,
                      ShardSuccessIsFlushed, JobSuccessIsFlushed
  <2> QED
    BY <1>6, <2>2, GotoKeeps DEF ScheduleFinalize, At
<1>7. CASE CommitJob(i)
  <2>1. /\ EntityOK(run[i].state)
        /\ run[i].state.result = "success" => AllFlushed
    BY <1>0, <1>7 DEF HandlerOK, CopyIsFlushed, CommitJob, At
  <2>2. (\A q \in queue : TaskOK(q))' /\ QueuedIsFlushed'
    BY <1>7, JobAssumption
       DEF CommitJob, MRInv, MRTypeOK, QueuedIsFlushed, Done, Task, TaskOK
  <2>3. EntitiesInv'
    BY <1>7, <2>1, <2>2
       DEF CommitJob, MRInv, MRTypeOK, EntitiesInv, AllFlushed,
           ShardSuccessIsFlushed, JobSuccessIsFlushed
  <2> QED
    BY <1>7, <2>3, GotoKeeps DEF CommitJob, At
<1> QED
  BY <1>1, <1>2, <1>3, <1>4, <1>5, <1>6, <1>7 DEF ControllerStep

(* Every step of the clean-up does.                                        *)
LEMMA FinalizeKeeps ==
  ASSUME MRInv, NEW i \in Instances, FinalizeStep(i)
  PROVE  MRInv'
<1>1. CASE ReadFinalJob(i)
  <2> PICK step \in {"control", "done"} :
         /\ Serve(i, Finalize, Handler(Finalize, step, NoEntity, {}, 0, FALSE))
         /\ UNCHANGED <<job, shard, control, queue, names, flushed, told, ended, late>>
    BY <1>1 DEF ReadFinalJob
  <2> PICK h : h = Handler(Finalize, step, NoEntity, {}, 0, FALSE)
    OBVIOUS
  <2>1. HandlerOK(h) /\ SliceIsFlushed(h)' /\ CopyIsFlushed(h)'
    BY EntitiesOK, JobAssumption
       DEF Handler, Finalize, Task, HandlerOK, TaskOK, SliceIsFlushed, CopyIsFlushed
  <2>2. faults' \in 0..MaxFaults => EntitiesInv'
    BY SameEntities
  <2> QED
    BY <2>1, <2>2, ServeKeeps
<1>2. CASE DeleteControl(i)
  <2>1. EntitiesInv'
    BY <1>2 DEF DeleteControl, MRInv, MRTypeOK, EntitiesInv, QueuedIsFlushed,
                ShardSuccessIsFlushed, JobSuccessIsFlushed
  <2> QED
    BY <1>2, <2>1, GotoKeeps DEF DeleteControl, At
<1>3. CASE DeleteShards(i)
  <2>1. EntitiesInv'
    BY <1>3, EntitiesOK, JobAssumption
       DEF DeleteShards, MRInv, MRTypeOK, EntitiesInv, QueuedIsFlushed,
           ShardSuccessIsFlushed, JobSuccessIsFlushed, NoEntity, Entity
  <2> QED
    BY <1>3, <2>1, GotoKeeps DEF DeleteShards, At
<1> QED
  BY <1>1, <1>2, <1>3 DEF FinalizeStep

(* What happens to the entities while the handlers stand still. *)
LEMMA OutsideKeeps ==
  ASSUME MRInv, Callback \/ Abort \/ CleanUp
  PROVE  MRInv'
<1>1. UNCHANGED <<run, flushed>>
  BY DEF Callback, Abort, CleanUp
<1>2. HandlersInv' /\ DOMAIN run' = Instances
  BY <1>1 DEF MRInv, MRTypeOK, HandlersInv, HandlerOK, TaskOK, SliceIsFlushed,
              CopyIsFlushed, AllFlushed
<1>3. EntitiesInv'
  <2>1. CASE Callback
    BY <2>1 DEF Callback, MRInv, MRTypeOK, EntitiesInv, QueuedIsFlushed,
                ShardSuccessIsFlushed, JobSuccessIsFlushed
  <2>2. CASE Abort
    BY <2>2 DEF Abort, MRInv, MRTypeOK, EntitiesInv, QueuedIsFlushed,
                ShardSuccessIsFlushed, JobSuccessIsFlushed
  <2>3. CASE CleanUp
    BY <2>3, EntitiesOK
       DEF CleanUp, MRInv, MRTypeOK, EntitiesInv, QueuedIsFlushed,
           ShardSuccessIsFlushed, JobSuccessIsFlushed, NoEntity, Entity
  <2> QED
    BY <2>1, <2>2, <2>3
<1> QED
  BY <1>2, <1>3 DEF MRInv, MRTypeOK, HandlersInv, EntitiesInv

(* The invariant is inductive.                                             *)
LEMMA NextKeeps == MRInv /\ [Next]_vars => MRInv'
<1> SUFFICES ASSUME MRInv, [Next]_vars PROVE MRInv'
  OBVIOUS
<1>1. CASE \E i \in Instances : Progress(i)
  <2> PICK i \in Instances : Progress(i)
    BY <1>1
  <2>1. CASE Acknowledge(i)
    <3>1. EntitiesInv'
      BY <2>1 DEF Acknowledge, MRInv, MRTypeOK, EntitiesInv, QueuedIsFlushed,
                  ShardSuccessIsFlushed, JobSuccessIsFlushed
    <3> QED
      BY <2>1, <3>1, IdleKeeps DEF Acknowledge
  <2> QED
    BY <2>1, KickoffKeeps, SliceKeeps, ControllerKeeps, FinalizeKeeps DEF Progress
<1>2. CASE \E i \in Instances : Crash(i)
  <2> PICK i \in Instances : Crash(i)
    BY <1>2
  <2>1. faults' \in 0..MaxFaults
    BY JobAssumption DEF Crash, MRInv, MRTypeOK
  <2>2. EntitiesInv'
    BY <2>1, SameEntities DEF Crash
  <2> QED
    BY <2>2, IdleKeeps DEF Crash
<1>3. CASE Callback \/ Abort \/ CleanUp
  BY <1>3, OutsideKeeps
<1>4. CASE UNCHANGED vars
  <2>1. EntitiesInv'
    BY <1>4, SameEntities DEF vars, MRInv, MRTypeOK
  <2>2. HandlersInv' /\ DOMAIN run' = Instances
    BY <1>4 DEF vars, MRInv, MRTypeOK, HandlersInv, HandlerOK, TaskOK,
                SliceIsFlushed, CopyIsFlushed, AllFlushed
  <2> QED
    BY <2>1, <2>2 DEF MRInv, MRTypeOK, HandlersInv, EntitiesInv
<1> QED
  BY <1>1, <1>2, <1>3, <1>4 DEF Next

-----------------------------------------------------------------------------
(* The chains of tasks.                                                    *)

(* A step that adds no tasks and takes none away keeps the order of names, *)
(* and the last task of each chain.                                        *)
LEMMA SameTasks ==
  ASSUME TasksInv, UNCHANGED <<names, queue>>
  PROVE  /\ (\A t \in queue : TaskForm(t))' /\ NamesInOrder' /\ KickoffInv'
         /\ AllStarted' = AllStarted
         /\ \A s \in Shards : SliceLives(s)' = SliceLives(s)
         /\ PollLives' = PollLives
  BY DEF TasksInv, TaskForm, NamesInOrder, KickoffInv, AllStarted, SliceLives,
         SliceWaits, PollLives, PollWaits, Named, Chained

(* Nor does adding a task to the end of its chain take a last task away.   *)
LEMMA AddedTask ==
  ASSUME TasksInv, NEW t, AddNamed(t),
         t.kind = "kickoff" => t = Kickoff,
         t.kind = "controller" => t = Controller(t.id),
         t.id \in Nat,
         t.id # 0 => /\ <<t.kind, t.shard, t.id - 1>> \in names
                     /\ <<t.kind, t.shard, 0>> \in names
  PROVE  /\ (\A q \in queue : TaskForm(q))' /\ NamesInOrder' /\ KickoffInv'
         /\ names \subseteq names' /\ Named(t)'
         /\ \A s \in Shards : SliceLives(s) => SliceLives(s)'
         /\ PollLives => PollLives'
<1>1. /\ names' = names \union {Name(t)}
      /\ queue \subseteq queue' /\ queue' \subseteq queue \union {t}
  BY DEF AddNamed
<1>2. names \subseteq names' /\ Named(t)'
  BY <1>1 DEF Named
<1>3. (\A q \in queue : TaskForm(q))'
  BY <1>1, <1>2 DEF TasksInv, TaskForm, Named, Chained
<1>4. NamesInOrder'
  <2> SUFFICES ASSUME NEW n \in names', n[3] # 0
               PROVE  /\ n[3] - 1 \in Nat
                      /\ <<n[1], n[2], n[3] - 1>> \in names'
                      /\ <<n[1], n[2], 0>> \in names'
    BY DEF NamesInOrder
  <2>1. CASE n \in names
    BY <2>1, <1>1 DEF TasksInv, NamesInOrder
  <2>2. CASE n = Name(t)
    <3>1. n[1] = t.kind /\ n[2] = t.shard /\ n[3] = t.id
      BY <2>2 DEF Name
    <3> QED
      BY <3>1, <1>1
  <2> QED
    BY <2>1, <2>2, <1>1
<1>5. KickoffInv'
  BY <1>1 DEF TasksInv, KickoffInv, AllStarted, Named
<1>6. CASE Name(t) \in names
  <2>1. UNCHANGED <<names, queue>>
    BY <1>1, <1>6 DEF AddNamed
  <2> QED
    BY <2>1, <1>2, <1>3, <1>4, <1>5, SameTasks
<1>7. CASE Name(t) \notin names
  <2>1. t \in queue' /\ Name(t) = <<t.kind, t.shard, t.id>>
    BY <1>7 DEF AddNamed, Name
  <2>2. <<t.kind, t.shard, t.id + 1>> \notin names'
    <3>1. <<t.kind, t.shard, t.id + 1>> # Name(t)
      BY <2>1
    <3>2. ASSUME <<t.kind, t.shard, t.id + 1>> \in names PROVE FALSE
      <4> DEFINE n == <<t.kind, t.shard, t.id + 1>>
      <4>1. n[1] = t.kind /\ n[2] = t.shard /\ n[3] = t.id + 1 /\ n \in names
        BY <3>2
      <4>2. n[3] # 0 /\ n[3] - 1 = t.id
        BY <4>1
      <4> HIDE DEF n
      <4>3. <<t.kind, t.shard, t.id>> \in names
        BY <4>1, <4>2 DEF TasksInv, NamesInOrder
      <4> QED
        BY <4>3, <1>7, <2>1
    <3> QED
      BY <3>1, <3>2, <1>1
  <2>3. ASSUME NEW s \in Shards, SliceLives(s) PROVE SliceLives(s)'
    <3>1. CASE t.kind = "slice" /\ t.shard = s
      <4>1. ~Named(Slice(s, t.id + 1, 0))'
        BY <2>2, <3>1 DEF Named, Name, Slice, Task
      <4>2. SliceWaits(s)'
        BY <4>1, <2>1, <3>1 DEF SliceWaits
      <4> QED
        BY <4>2 DEF SliceLives
    <3>2. CASE ~(t.kind = "slice" /\ t.shard = s)
      <4>1. \A id : Name(Slice(s, id, 0)) # Name(t)
        BY <3>2 DEF Name, Slice, Task
      <4>2. \A id : Named(Slice(s, id, 0))' = Named(Slice(s, id, 0))
        BY <4>1, <1>1 DEF Named
      <4> QED
        BY <4>2, <2>3, <1>1 DEF SliceLives, SliceWaits
    <3> QED
      BY <3>1, <3>2
  <2>4. ASSUME PollLives PROVE PollLives'
    <3>1. CASE t.kind = "controller"
      <4>1. t.shard = 0
        BY <3>1 DEF Controller, Task
      <4>2. ~Named(Controller(t.id + 1))'
        BY <2>2, <3>1, <4>1 DEF Named, Name, Controller, Task
      <4>3. PollWaits'
        BY <4>2, <2>1, <3>1 DEF PollWaits
      <4> QED
        BY <4>3 DEF PollLives
    <3>2. CASE t.kind # "controller"
      <4>1. \A id : Name(Controller(id)) # Name(t)
        BY <3>2 DEF Name, Controller, Task
      <4>2. \A id : Named(Controller(id))' = Named(Controller(id))
        BY <4>1, <1>1 DEF Named
      <4> QED
        BY <4>2, <2>4, <1>1 DEF PollLives, PollWaits
    <3> QED
      BY <3>1, <3>2
  <2> QED
    BY <2>3, <2>4, <1>2, <1>3, <1>4, <1>5
<1> QED
  BY <1>6, <1>7

(* The named tasks of a shard begin with its first. *)
LEMMA FirstIsNamed ==
  ASSUME TasksInv, NEW s, NEW id \in Nat, Named(Slice(s, id, 0))
  PROVE  Named(Slice(s, 0, 0))
<1> DEFINE n == <<"slice", s, id>>
<1>1. n \in names /\ n[1] = "slice" /\ n[2] = s /\ n[3] = id
  BY DEF Named, Name, Slice, Task
<1> HIDE DEF n
<1>2. id # 0 => <<"slice", s, 0>> \in names
  BY <1>1 DEF TasksInv, NamesInOrder
<1>3. Name(Slice(s, 0, 0)) = <<"slice", s, 0>>
  BY DEF Name, Slice, Task
<1> QED
  BY <1>2, <1>3 DEF Named

(* No shard whose chain has begun becomes active again, or the job is late. *)
Shut(s) == Named(Slice(s, 0, 0)) /\ ~shard[s].active
StaysShut == \A s \in Shards : ~late' /\ Shut(s) => ~shard'[s].active

(* What a handler knows of its chain stays true while others go on. *)
LEMMA ChainsLast ==
  ASSUME TasksInv, NEW h, HandlerChains(h), TaskOK(h.task),
         names \subseteq names', late => late', ended => ended', StaysShut
  PROVE  HandlerChains(h)'
<1>1. \A t : Named(t) => Named(t)'
  BY DEF Named
<1>2. TaskForm(h.task)' /\ KickoffChains(h)'
  BY <1>1 DEF HandlerChains, TaskForm, KickoffChains, AllStarted
<1>3. ASSUME ~late' PROVE SliceChains(h)'
  <2> SUFFICES ASSUME h.task.kind = "slice" PROVE SliceChains(h)'
    BY DEF SliceChains
  <2>1. ~late /\ SliceChains(h) /\ TaskForm(h.task) /\ h.task.shard \in Shards
    BY <1>3 DEF HandlerChains, TaskOK
  <2>2. Named(Slice(h.task.shard, h.task.id, 0)) /\ h.task.id \in Nat
    BY <2>1 DEF TaskForm, Chained, Named, Name, Slice, Task
  <2>3. Named(Slice(h.task.shard, 0, 0))
    BY <2>2, FirstIsNamed
  <2>4. ~shard[h.task.shard].active => ~shard'[h.task.shard].active
    BY <1>3, <2>1, <2>3 DEF StaysShut, Shut
  <2> QED
    BY <2>1, <2>4, <1>1 DEF SliceChains
<1>4. ~late' => PollChains(h)'
  BY <1>1 DEF HandlerChains, PollChains
<1> QED
  BY <1>2, <1>3, <1>4 DEF HandlerChains

(* A step of instance i keeps what the handlers know, if its own does.     *)
LEMMA StepChains ==
  ASSUME MRInv, TasksInv, NEW i \in Instances, NEW h, run' = [run EXCEPT ![i] = h],
         names \subseteq names', late => late', ended => ended', StaysShut,
         HandlerChains(h)'
  PROVE  (\A j \in Instances : HandlerChains(run[j]))'
<1>1. DOMAIN run = Instances /\ \A j \in Instances : HandlerOK(run[j])
  BY DEF MRInv, MRTypeOK
<1>2. \A j \in Instances : run'[j] = IF j = i THEN h ELSE run[j]
  BY <1>1
<1>3. ASSUME NEW j \in Instances PROVE HandlerChains(run[j])'
  <2>1. CASE j = i
    <3>1. run'[j] = h
      BY <1>2, <2>1
    <3> QED
      BY <3>1 DEF HandlerChains, KickoffChains, SliceChains, PollChains, TaskForm
  <2>2. CASE j # i
    <3>1. run'[j] = run[j]
      BY <1>2, <2>2
    <3>2. HandlerChains(run[j]) /\ TaskOK(run[j].task)
      BY <1>1 DEF TasksInv, HandlerOK
    <3> PICK g : g = run[j]
      OBVIOUS
    <3>3. HandlerChains(g)'
      BY <3>2, ChainsLast
    <3> QED
      BY <3>1, <3>3 DEF HandlerChains, KickoffChains, SliceChains, PollChains, TaskForm
  <2> QED
    BY <2>1, <2>2
<1> QED
  BY <1>3

(* An instance without a handler knows nothing of the chains. *)
LEMMA IdleChains == HandlerChains(Idle) /\ HandlerChains(Idle)'
  BY DEF Idle, Handler, NoTask, Task, HandlerChains, TaskForm, Chained,
         KickoffChains, SliceChains, PollChains

(* When the job starts, the kickoff is queued and nothing else is known. *)
LEMMA TasksInit == Init => TasksInv
<1> SUFFICES ASSUME Init PROVE TasksInv
  OBVIOUS
<1>1. (\A t \in queue : TaskForm(t)) /\ NamesInOrder /\ KickoffInv
  BY DEF Init, TaskForm, Chained, Kickoff, Task, NamesInOrder, KickoffInv
<1>2. ChainsInv
  BY DEF Init, ChainsInv, NoEntity, NewEntity, Entity, PollLives, Named
<1>3. \A i \in Instances : HandlerChains(run[i])
  BY IdleChains DEF Init
<1> QED
  BY <1>1, <1>2, <1>3 DEF TasksInv

(* What a step has to show when it leaves the tasks alone. *)
LEMMA QuietStep ==
  ASSUME MRInv, TasksInv, UNCHANGED <<names, queue>>,
         NEW i \in Instances, NEW h, run' = [run EXCEPT ![i] = h],
         late => late', ended => ended', HandlerChains(h)',
         \A s \in Shards : ~late' /\ shard'[s].active =>
           shard[s].active \/ ~Named(Slice(s, 0, 0)),
         ~late' => /\ ended' => ended /\ (job'.active => job.active)
                   /\ ended \/ job'.stored
  PROVE  TasksInv'
<1>1. StaysShut
  BY DEF StaysShut, Shut
<1>2. (\A j \in Instances : HandlerChains(run[j]))'
  BY <1>1, StepChains
<1>3. /\ (\A t \in queue : TaskForm(t))' /\ NamesInOrder' /\ KickoffInv'
      /\ \A s \in Shards : SliceLives(s)' = SliceLives(s)
      /\ PollLives' = PollLives
  BY SameTasks
<1>4. ChainsInv'
  <2> SUFFICES ASSUME ~late'
               PROVE  /\ \A s \in Shards : shard'[s].active => SliceLives(s)'
                      /\ ended' \/ (PollLives' /\ job'.stored)
                      /\ ended' => ~job'.active
    BY DEF ChainsInv
  <2>1. /\ \A s \in Shards : shard[s].active => SliceLives(s)
        /\ ended \/ (PollLives /\ job.stored)
        /\ ended => ~job.active
    BY DEF TasksInv, ChainsInv
  <2>2. ASSUME NEW s \in Shards, shard'[s].active PROVE SliceLives(s)'
    <3>1. ~Named(Slice(s, 0, 0)) => SliceLives(s)
      BY DEF SliceLives
    <3> QED
      BY <2>1, <2>2, <3>1, <1>3
  <2> QED
    BY <2>1, <2>2, <1>3
<1> QED
  BY <1>2, <1>3, <1>4 DEF TasksInv

(* And when it adds a named task and changes no entity. *)
LEMMA AddingStep ==
  ASSUME MRInv, TasksInv, NEW t, AddNamed(t),
         t.kind = "kickoff" => t = Kickoff,
         t.kind = "controller" => t = Controller(t.id),
         t.id \in Nat,
         t.id # 0 => /\ <<t.kind, t.shard, t.id - 1>> \in names
                     /\ <<t.kind, t.shard, 0>> \in names,
         NEW i \in Instances, NEW h, run' = [run EXCEPT ![i] = h],
         UNCHANGED <<job, shard, late, ended>>, HandlerChains(h)'
  PROVE  TasksInv'
<1>1. /\ (\A q \in queue : TaskForm(q))' /\ NamesInOrder' /\ KickoffInv'
      /\ names \subseteq names'
      /\ \A s \in Shards : SliceLives(s) => SliceLives(s)'
      /\ PollLives => PollLives'
  BY AddedTask
<1>2. StaysShut
  BY DEF StaysShut, Shut
<1>3. (\A j \in Instances : HandlerChains(run[j]))'
  BY <1>1, <1>2, StepChains
<1>4. ChainsInv'
  BY <1>1 DEF TasksInv, ChainsInv
<1> QED
  BY <1>1, <1>3, <1>4 DEF TasksInv

(* The steps of a kickoff: it is done when it has begun every chain.       *)
LEMMA KickoffChainsKept ==
  ASSUME MRInv, TasksInv, NEW i \in Instances, KickoffStep(i)
  PROVE  TasksInv'
<1>0. HandlerOK(run[i]) /\ HandlerChains(run[i])
  BY DEF MRInv, MRTypeOK, TasksInv
<1>1. CASE CreateJob(i)
  <2> PICK h : h = Handler(Kickoff, "find", NoEntity, {}, 0, FALSE)
    OBVIOUS
  <2>1. run' = [run EXCEPT ![i] = h] /\ UNCHANGED <<names, queue, shard, ended>>
    BY <1>1 DEF CreateJob, Serve
  <2>2. HandlerChains(h)'
    BY DEF Handler, Kickoff, Task, HandlerChains, TaskForm, Chained, KickoffChains,
           SliceChains, PollChains
  <2>3. late' = (late \/ ended) /\ job' = NewEntity /\ job'.stored
    BY <1>1 DEF CreateJob, NewEntity, Entity
  <2>4. ~late' => (job'.active => job.active) \/ ~ended
    BY <2>3
  <2>5. ChainsInv'
    BY <2>1, <2>3, SameTasks DEF TasksInv, ChainsInv
  <2>6. StaysShut
    BY <2>1 DEF StaysShut, Shut
  <2> QED
    BY <2>1, <2>2, <2>3, <2>5, <2>6, SameTasks, StepChains DEF TasksInv
<1>2. CASE FindShards(i)
  <2> PICK h : h = Handler(run[i].task, "put", NoEntity, {s \in Shards : ~shard[s].stored},
                           0, run[i].abort)
    OBVIOUS
  <2>1. /\ run' = [run EXCEPT ![i] = h]
        /\ UNCHANGED <<names, queue, shard, ended, late, job>>
    BY <1>2 DEF FindShards, Become
  <2>2. HandlerChains(h)'
    BY <1>0, <1>2, <2>1 DEF Handler, HandlerChains, TaskForm, Chained, Named,
       KickoffChains, SliceChains, PollChains, FindShards, At
  <2> QED
    BY <2>1, <2>2, QuietStep DEF TasksInv, ChainsInv
<1>3. CASE PutShards(i)
  <2> PICK h : h = Handler(run[i].task, "schedule", NoEntity, Shards, 0, run[i].abort)
    OBVIOUS
  <2>1. /\ run' = [run EXCEPT ![i] = h]
        /\ UNCHANGED <<names, queue, ended, job>>
        /\ late' = (late \/ \E s \in run[i].todo : Named(Slice(s, 0, 0)))
    BY <1>3 DEF PutShards, Become, Named
  <2>2. HandlerChains(h)'
    BY <1>0, <1>3, <2>1 DEF Handler, HandlerChains, TaskForm, Chained, Named,
       KickoffChains, SliceChains, PollChains, PutShards, At
  <2>3. \A s \in Shards : ~late' /\ shard'[s].active =>
          shard[s].active \/ ~Named(Slice(s, 0, 0))
    BY <1>3, <2>1 DEF PutShards
  <2> QED
    BY <2>1, <2>2, <2>3, QuietStep DEF TasksInv, ChainsInv
<1>4. CASE ScheduleShard(i)
  <2> PICK s \in run[i].todo :
         AddNamed(Slice(s, 0, 0)) /\ Become(i, "schedule", NoEntity, run[i].todo \ {s}, 0)
    BY <1>4 DEF ScheduleShard
  <2> PICK h : h = Handler(run[i].task, "schedule", NoEntity, run[i].todo \ {s}, 0,
                           run[i].abort)
    OBVIOUS
  <2>1. run' = [run EXCEPT ![i] = h] /\ UNCHANGED <<job, shard, late, ended>>
    BY <1>4 DEF ScheduleShard, Become
  <2> PICK t : t = Slice(s, 0, 0)
    OBVIOUS
  <2>2. /\ t.kind = "slice" /\ t.id = 0 /\ t.id \in Nat /\ AddNamed(t)
        /\ t.kind # "kickoff" /\ t.kind # "controller"
    BY DEF Slice, Task
  <2>3. names \subseteq names' /\ Named(t)'
    BY <2>2 DEF AddNamed, Named
  <2>4. \A r \in Shards \ h.todo : Named(Slice(r, 0, 0))'
    BY <1>0, <1>4, <2>3 DEF HandlerChains, KickoffChains, ScheduleShard, At, Handler, Named
  <2>5. HandlerChains(h)'
    BY <1>0, <1>4, <2>3, <2>4 DEF Handler, HandlerChains, TaskForm, Chained, Named,
       KickoffChains, SliceChains, PollChains, ScheduleShard, At
  <2> QED
    BY <2>1, <2>2, <2>5, AddingStep
<1>5. CASE ScheduleController(i)
  <2> PICK h : h = Handler(run[i].task, "done", run[i].state, run[i].todo,
                           run[i].upto, run[i].abort)
    OBVIOUS
  <2>1. run' = [run EXCEPT ![i] = h] /\ UNCHANGED <<job, shard, late, ended>>
    BY <1>5 DEF ScheduleController, Goto, Become
  <2> PICK t : t = Controller(0)
    OBVIOUS
  <2>2. /\ t.kind # "kickoff" /\ t.id = 0 /\ t.id \in Nat
        /\ t = Controller(t.id) /\ AddNamed(t)
    BY <1>5 DEF Controller, Task, ScheduleController
  <2>3. names \subseteq names' /\ Named(t)'
    BY <2>2 DEF AddNamed, Named
  <2>4. AllStarted'
    BY <1>0, <1>5, <2>3 DEF HandlerChains, KickoffChains, ScheduleController, At,
       AllStarted, Named
  <2>5. HandlerChains(h)'
    BY <1>0, <1>5, <2>3, <2>4 DEF Handler, HandlerChains, TaskForm, Chained, Named,
       KickoffChains, SliceChains, PollChains, ScheduleController, At
  <2> QED
    BY <2>1, <2>2, <2>5, AddingStep
<1> QED
  BY <1>1, <1>2, <1>3, <1>4, <1>5 DEF KickoffStep

(* The steps of a slice: it is done when the next one is queued, or the    *)
(* shard is not active.                                                    *)
LEMMA SliceChainsKept ==
  ASSUME MRInv, TasksInv, NEW i \in Instances, SliceStep(i)
  PROVE  TasksInv'
<1>0. HandlerOK(run[i]) /\ HandlerChains(run[i]) /\ DOMAIN shard = Shards
  BY DEF MRInv, MRTypeOK, TasksInv
<1>a. ASSUME NEW step, Goto(i, step), At(i, "slice", run[i].step),
             UNCHANGED <<names, queue, job, late, ended>>,
             \A s \in Shards : ~late' /\ shard'[s].active => shard[s].active,
             ~late' /\ step \in {"done", "repeat"} => ~shard'[run[i].task.shard].active
      PROVE  TasksInv'
  <2> PICK h : h = Handler(run[i].task, step, run[i].state, run[i].todo,
                           run[i].upto, run[i].abort)
    OBVIOUS
  <2>1. run' = [run EXCEPT ![i] = h]
    BY <1>a DEF Goto, Become
  <2>2. HandlerChains(h)'
    BY <1>0, <1>a DEF Handler, HandlerChains, TaskForm, Chained, Named,
       KickoffChains, SliceChains, PollChains, At
  <2> QED
    BY <1>a, <2>1, <2>2, QuietStep DEF TasksInv, ChainsInv
<1>1. CASE ReadShard(i)
  <2> PICK t \in queue :
         LET state == shard[t.shard]
             step == IF ~state.stored \/ ~state.active THEN "done"
                     ELSE IF control THEN "abort" ELSE "scan"
         IN  t.kind = "slice" /\ Serve(i, t, Handler(t, step, state, {}, t.pos, FALSE))
    BY <1>1 DEF ReadShard
  <2> PICK step \in {"done", "abort", "scan"} :
         /\ step = "done" => ~shard[t.shard].stored \/ ~shard[t.shard].active
         /\ t.kind = "slice"
         /\ Serve(i, t, Handler(t, step, shard[t.shard], {}, t.pos, FALSE))
    OBVIOUS
  <2> PICK h : h = Handler(t, step, shard[t.shard], {}, t.pos, FALSE)
    OBVIOUS
  <2>1. /\ run' = [run EXCEPT ![i] = h]
        /\ UNCHANGED <<job, shard, late, ended, names, queue>>
    BY <1>1 DEF ReadShard, Serve
  <2>2. TaskForm(t) /\ t.shard \in Shards
    BY DEF TasksInv, MRInv, MRTypeOK, TaskOK
  <2>3. step = "done" => ~shard[t.shard].active
    BY <2>2 DEF MRInv, MRTypeOK, EntityOK
  <2>4. HandlerChains(h)'
    BY <2>1, <2>2, <2>3 DEF Handler, HandlerChains, TaskForm, Chained, Named,
       KickoffChains, SliceChains, PollChains
  <2> QED
    BY <2>1, <2>4, QuietStep DEF TasksInv, ChainsInv
<1>2. CASE AbortShard(i)
  <2>1. run[i].task.shard \in Shards
    BY <1>0, <1>2 DEF AbortShard, At, HandlerOK, TaskOK
  <2>2. ~shard'[run[i].task.shard].active
    BY <1>0, <1>2, <2>1 DEF AbortShard, Entity
  <2>3. \A s \in Shards : shard'[s].active => shard[s].active
    BY <1>0, <1>2, <2>1, <2>2 DEF AbortShard
  <2> QED
    BY <1>2, <2>2, <2>3, <1>a DEF AbortShard, At
<1>3. CASE RepeatAbort(i)
  <2>1. ~late => ~shard[run[i].task.shard].active
    BY <1>0, <1>3 DEF RepeatAbort, At, HandlerChains, SliceChains
  <2> QED
    BY <1>3, <2>1, <1>a DEF RepeatAbort, At
<1>4. CASE Scan(i)
  <2> PICK upto, state : Become(i, "commit", state, {}, upto)
    BY <1>4 DEF Scan
  <2> PICK h : h = Handler(run[i].task, "commit", state, {}, upto, run[i].abort)
    OBVIOUS
  <2>1. /\ run' = [run EXCEPT ![i] = h] /\ At(i, "slice", "scan")
        /\ UNCHANGED <<job, shard, late, ended, names, queue>>
    BY <1>4 DEF Scan, Become
  <2>2. HandlerChains(h)'
    BY <1>0, <2>1 DEF Handler, HandlerChains, TaskForm, Chained, Named,
       KickoffChains, SliceChains, PollChains, At
  <2> QED
    BY <2>1, <2>2, QuietStep DEF TasksInv, ChainsInv
<1>5. CASE CommitSlice(i)
  <2> DEFINE s == run[i].task.shard
  <2>1. /\ s \in Shards /\ At(i, "slice", "commit")
        /\ UNCHANGED <<job, late, ended, names, queue>>
    BY <1>0, <1>5 DEF CommitSlice, At, HandlerOK, TaskOK
  <2>2. CASE ~shard[s].stored
    <3>1. run' = [run EXCEPT ![i] = Idle] /\ UNCHANGED shard
      BY <1>5, <2>2 DEF CommitSlice
    <3> QED
      BY <2>1, <3>1, IdleChains, QuietStep DEF TasksInv, ChainsInv
  <2>3. CASE shard[s].stored /\ ~shard[s].active
    <3>1. Goto(i, "done") /\ UNCHANGED shard
      BY <1>5, <2>3 DEF CommitSlice
    <3> QED
      BY <2>1, <2>3, <3>1, <1>a DEF At
  <2>4. CASE shard[s].stored /\ shard[s].active
    <3>1. /\ shard' = [shard EXCEPT ![s] = run[i].state]
          /\ Goto(i, IF run[i].state.active THEN "next" ELSE "done")
      BY <1>5, <2>4 DEF CommitSlice
    <3>2. /\ shard'[s] = run[i].state
          /\ \A r \in Shards : shard'[r].active => shard[r].active
      BY <1>0, <2>1, <2>4, <3>1
    <3>3. PICK step : /\ Goto(i, step)
                      /\ step \in {"done", "repeat"} => ~run[i].state.active
      BY <3>1
    <3> QED
      BY <2>1, <3>2, <3>3, <1>a DEF At
  <2> QED
    BY <2>2, <2>3, <2>4
<1>6. CASE NextSlice(i)
  <2> PICK t : t = Slice(run[i].task.shard, run[i].task.id + 1, run[i].upto)
    OBVIOUS
  <2> PICK h : h = Handler(run[i].task, "done", run[i].state, run[i].todo,
                           run[i].upto, run[i].abort)
    OBVIOUS
  <2>1. /\ run' = [run EXCEPT ![i] = h] /\ UNCHANGED <<job, shard, late, ended>>
        /\ AddNamed(t) /\ run[i].task.kind = "slice"
    BY <1>6 DEF NextSlice, Goto, Become, At
  <2>2. /\ run[i].task.id \in Nat /\ <<"slice", run[i].task.shard, run[i].task.id>> \in names
    BY <1>0, <2>1 DEF HandlerChains, TaskForm, Chained, Named, Name
  <2>3. /\ t.kind = "slice" /\ t.id = run[i].task.id + 1 /\ t.shard = run[i].task.shard
    BY DEF Slice, Task
  <2>4. <<"slice", run[i].task.shard, 0>> \in names
    <3>1. Named(Slice(run[i].task.shard, run[i].task.id, 0))
      BY <2>2 DEF Named, Name, Slice, Task
    <3> QED
      BY <2>2, <3>1, FirstIsNamed DEF Named, Name, Slice, Task
  <2>5. t.id \in Nat /\ t.id - 1 = run[i].task.id
    BY <2>2, <2>3
  <2>6. names \subseteq names' /\ Name(t) \in names'
    BY <2>1 DEF AddNamed
  <2>7. Name(Slice(run[i].task.shard, run[i].task.id + 1, 0)) = Name(t)
    BY <2>3 DEF Name, Slice, Task
  <2>8. HandlerChains(h)'
    BY <1>0, <2>1, <2>6, <2>7 DEF Handler, HandlerChains, TaskForm, Chained, Named,
       KickoffChains, SliceChains, PollChains
  <2> QED
    BY <2>1, <2>2, <2>3, <2>4, <2>5, <2>8, AddingStep
<1> QED
  BY <1>1, <1>2, <1>3, <1>4, <1>5, <1>6 DEF SliceStep

(* The steps of a controller: it is done when the next poll is queued, or  *)
(* the job has ended, and it ends the job only as an inactive one.         *)
LEMMA PollChainsKept ==
  ASSUME MRInv, TasksInv, NEW i \in Instances, ControllerStep(i)
  PROVE  TasksInv'
<1>0. HandlerOK(run[i]) /\ HandlerChains(run[i]) /\ CopyIsFlushed(run[i])
  BY DEF MRInv, HandlersInv, TasksInv
<1>1. CASE ReadJob(i)
  <2> PICK t \in queue, step \in {"done", "gather"} :
         /\ t.kind = "controller"
         /\ step = "done" => ~job.stored
         /\ Serve(i, t, Handler(t, step, job, {}, 0, control))
    BY <1>1 DEF ReadJob
  <2> PICK h : h = Handler(t, step, job, {}, 0, control)
    OBVIOUS
  <2>1. /\ run' = [run EXCEPT ![i] = h]
        /\ UNCHANGED <<job, shard, late, ended, names, queue>>
    BY <1>1 DEF ReadJob, Serve
  <2>2. TaskForm(t) /\ (~late => ended \/ job.stored)
    BY DEF TasksInv, ChainsInv
  <2>3. HandlerChains(h)'
    BY <2>1, <2>2 DEF Handler, HandlerChains, TaskForm, Chained, Named,
       KickoffChains, SliceChains, PollChains
  <2> QED
    BY <2>1, <2>3, QuietStep DEF TasksInv, ChainsInv
<1>2. CASE Gather(i)
  <2> DEFINE outcome == Outcome(run[i].state, run[i].abort)
  <2>1. Lost(run[i].state) => ~outcome.active
    BY DEF Outcome, Entity
  <2> PICK step \in {"lost", "put", "finalize"} :
         /\ Become(i, step, outcome, {}, 0)
         /\ step \in {"lost", "finalize"} => ~outcome.active
    BY <1>2, <2>1 DEF Gather
  <2> PICK h : h = Handler(run[i].task, step, outcome, {}, 0, run[i].abort)
    OBVIOUS
  <2>2. /\ run' = [run EXCEPT ![i] = h] /\ run[i].task.kind = "controller"
        /\ UNCHANGED <<job, shard, late, ended, names, queue>>
    BY <1>2 DEF Gather, Become, At
  <2>3. /\ h.task = run[i].task /\ h.step = step
        /\ step \in {"lost", "finalize"} => ~h.state.active
    BY DEF Handler
  <2>4. HandlerChains(h)'
    BY <1>0, <2>2, <2>3 DEF HandlerChains, TaskForm, Chained, Named,
       KickoffChains, SliceChains, PollChains
  <2> QED
    BY <2>2, <2>4, QuietStep DEF TasksInv, ChainsInv
<1>a. ASSUME NEW from, At(i, "controller", from), from \in {"lost", "finalize", "commit"}
      PROVE  ~late => ~run[i].state.active
  BY <1>0, <1>a DEF At, HandlerChains, PollChains
<1>3. CASE AbortLost(i)
  <2> PICK h : h = Handler(run[i].task, "finalize", run[i].state, run[i].todo,
                           run[i].upto, run[i].abort)
    OBVIOUS
  <2>1. /\ run' = [run EXCEPT ![i] = h] /\ At(i, "controller", "lost")
        /\ UNCHANGED <<job, shard, late, ended, names, queue>>
    BY <1>3 DEF AbortLost, Goto, Become
  <2>2. HandlerChains(h)'
    BY <1>0, <1>a, <2>1 DEF Handler, HandlerChains, TaskForm, Chained, Named,
       KickoffChains, SliceChains, PollChains, At
  <2> QED
    BY <2>1, <2>2, QuietStep DEF TasksInv, ChainsInv
<1>4. CASE PutJob(i)
  <2> PICK h : h = Handler(run[i].task, "next", run[i].state, run[i].todo,
                           run[i].upto, run[i].abort)
    OBVIOUS
  <2>1. /\ run' = [run EXCEPT ![i] = h] /\ At(i, "controller", "put")
        /\ job' = run[i].state /\ late' = (late \/ ended)
        /\ UNCHANGED <<shard, ended, names, queue>>
    BY <1>4 DEF PutJob, Goto, Become
  <2>2. HandlerChains(h)'
    BY <1>0, <2>1 DEF Handler, HandlerChains, TaskForm, Chained, Named,
       KickoffChains, SliceChains, PollChains, At
  <2>3. job'.stored
    BY <1>0, <2>1 DEF CopyIsFlushed, At
  <2>4. StaysShut
    BY <2>1 DEF StaysShut, Shut
  <2>5. (\A j \in Instances : HandlerChains(run[j]))'
    BY <2>1, <2>2, <2>4, StepChains
  <2>6. ChainsInv'
    BY <2>1, <2>3, SameTasks DEF TasksInv, ChainsInv
  <2> QED
    BY <2>1, <2>5, <2>6, SameTasks DEF TasksInv
<1>5. CASE NextPoll(i)
  <2> PICK t : t = Controller(run[i].task.id + 1)
    OBVIOUS
  <2> PICK h : h = Handler(run[i].task, "done", run[i].state, run[i].todo,
                           run[i].upto, run[i].abort)
    OBVIOUS
  <2>1. /\ run' = [run EXCEPT ![i] = h] /\ UNCHANGED <<job, shard, late, ended>>
        /\ AddNamed(t) /\ run[i].task.kind = "controller"
    BY <1>5 DEF NextPoll, Goto, Become, At
  <2>2. /\ run[i].task.id \in Nat /\ run[i].task = Controller(run[i].task.id)
        /\ Name(run[i].task) \in names
    BY <1>0, <2>1 DEF HandlerChains, TaskForm, Chained, Named
  <2>3. /\ t.kind = "controller" /\ t.kind # "kickoff" /\ t.shard = 0
        /\ t.id = run[i].task.id + 1 /\ t = Controller(t.id)
    BY DEF Controller, Task
  <2>4. t.id \in Nat /\ t.id - 1 = run[i].task.id
    BY <2>2, <2>3
  <2> DEFINE n == <<"controller", 0, run[i].task.id>>
  <2>5. n \in names
    BY <2>2 DEF Name, Controller, Task
  <2>6. n[1] = "controller" /\ n[2] = 0 /\ n[3] = run[i].task.id
    OBVIOUS
  <2> HIDE DEF n
  <2>7. <<"controller", 0, 0>> \in names
    <3>1. CASE run[i].task.id = 0
      BY <2>5, <3>1 DEF n
    <3>2. CASE run[i].task.id # 0
      BY <2>5, <2>6, <3>2 DEF TasksInv, NamesInOrder
    <3> QED
      BY <3>1, <3>2
  <2>8. names \subseteq names' /\ Named(t)'
    BY <2>1 DEF AddNamed, Named
  <2>9. HandlerChains(h)'
    BY <1>0, <2>1, <2>8 DEF Handler, HandlerChains, TaskForm, Chained, Named,
       KickoffChains, SliceChains, PollChains
  <2>10. <<t.kind, t.shard, t.id - 1>> \in names /\ <<t.kind, t.shard, 0>> \in names
    BY <2>3, <2>4, <2>5, <2>7 DEF n
  <2> QED
    BY <2>1, <2>3, <2>4, <2>9, <2>10, AddingStep
<1>6. CASE ScheduleFinalize(i)
  <2> PICK h : h = Handler(run[i].task, "commit", run[i].state, run[i].todo,
                           run[i].upto, run[i].abort)
    OBVIOUS
  <2>1. /\ run' = [run EXCEPT ![i] = h] /\ At(i, "controller", "finalize")
        /\ UNCHANGED <<job, shard, late, ended>>
    BY <1>6 DEF ScheduleFinalize, Goto, Become
  <2> PICK t : t = Finalize
    OBVIOUS
  <2>2. /\ t.kind # "kickoff" /\ t.kind # "controller" /\ t.id = 0 /\ t.id \in Nat
        /\ AddNamed(t)
    BY <1>6 DEF Finalize, Task, ScheduleFinalize
  <2>3. names \subseteq names'
    BY <2>2 DEF AddNamed
  <2>4. HandlerChains(h)'
    BY <1>0, <1>a, <2>1, <2>3 DEF Handler, HandlerChains, TaskForm, Chained, Named,
       KickoffChains, SliceChains, PollChains, At
  <2> QED
    BY <2>1, <2>2, <2>4, AddingStep
<1>7. CASE CommitJob(i)
  <2> PICK h : h = Handler(run[i].task, "done", run[i].state, run[i].todo,
                           run[i].upto, run[i].abort)
    OBVIOUS
  <2>1. /\ run' = [run EXCEPT ![i] = h] /\ At(i, "controller", "commit")
        /\ job' = run[i].state /\ queue' = queue \union {Done} /\ ended' = TRUE
        /\ UNCHANGED <<shard, late, names>>
    BY <1>7 DEF CommitJob, Goto, Become
  <2>2. HandlerChains(h)'
    BY <1>0, <2>1 DEF Handler, HandlerChains, TaskForm, Chained, Named,
       KickoffChains, SliceChains, PollChains, At
  <2>3. StaysShut
    BY <2>1 DEF StaysShut, Shut
  <2>4. (\A j \in Instances : HandlerChains(run[j]))'
    BY <2>1, <2>2, <2>3, StepChains
  <2>5. (\A t \in queue : TaskForm(t))' /\ NamesInOrder' /\ KickoffInv'
    BY <2>1 DEF TasksInv, TaskForm, Chained, Done, Task, Named, NamesInOrder,
                KickoffInv, AllStarted
  <2>6. \A s \in Shards : SliceLives(s) => SliceLives(s)'
    BY <2>1 DEF SliceLives, SliceWaits, Named
  <2>7. ChainsInv'
    BY <1>a, <2>1, <2>6 DEF TasksInv, ChainsInv
  <2> QED
    BY <2>4, <2>5, <2>7 DEF TasksInv
<1> QED
  BY <1>1, <1>2, <1>3, <1>4, <1>5, <1>6, <1>7 DEF ControllerStep

(* The clean-up takes the shards away, and no task.                        *)
LEMMA FinalizeChainsKept ==
  ASSUME MRInv, TasksInv, NEW i \in Instances, FinalizeStep(i)
  PROVE  TasksInv'
<1>1. ASSUME NEW h, run' = [run EXCEPT ![i] = h], h.task.kind = "finalize",
             UNCHANGED <<job, late, ended, names, queue>>,
             \A s \in Shards : shard'[s].active => shard[s].active
      PROVE  TasksInv'
  <2>1. HandlerChains(h)'
    BY <1>1 DEF HandlerChains, TaskForm, Chained, KickoffChains, SliceChains, PollChains
  <2> QED
    BY <1>1, <2>1, QuietStep DEF TasksInv, ChainsInv
<1>2. CASE ReadFinalJob(i)
  <2> PICK h : Serve(i, Finalize, h) /\ h.task = Finalize
    BY <1>2 DEF ReadFinalJob, Handler
  <2>1. run' = [run EXCEPT ![i] = h] /\ h.task.kind = "finalize"
    BY DEF Serve, Finalize, Task
  <2> QED
    BY <1>1, <1>2, <2>1 DEF ReadFinalJob
<1>3. CASE DeleteControl(i)
  <2> PICK h : h = Handler(run[i].task, "shards", run[i].state, run[i].todo,
                           run[i].upto, run[i].abort)
    OBVIOUS
  <2>0. run' = [run EXCEPT ![i] = h] /\ h.task = run[i].task
    BY <1>3 DEF DeleteControl, Goto, Become, Handler
  <2>1. /\ h.task.kind = "finalize"
        /\ UNCHANGED <<shard, job, late, ended, names, queue>>
    BY <1>3, <2>0 DEF DeleteControl, At
  <2> QED
    BY <1>1, <2>0, <2>1
<1>4. CASE DeleteShards(i)
  <2> PICK h : h = Handler(run[i].task, "done", run[i].state, run[i].todo,
                           run[i].upto, run[i].abort)
    OBVIOUS
  <2>0. run' = [run EXCEPT ![i] = h] /\ h.task = run[i].task
    BY <1>4 DEF DeleteShards, Goto, Become, Handler
  <2>1. \A s \in Shards : ~shard'[s].active
    BY <1>4 DEF DeleteShards, NoEntity, Entity
  <2>2. /\ h.task.kind = "finalize"
        /\ UNCHANGED <<job, late, ended, names, queue>>
    BY <1>4, <2>0 DEF DeleteShards, At
  <2> QED
    BY <1>1, <2>0, <2>1, <2>2
<1> QED
  BY <1>2, <1>3, <1>4 DEF FinalizeStep

(* A task is acknowledged only when its chain goes on without it, or ends. *)
LEMMA AcknowledgeKeeps ==
  ASSUME MRInv, TasksInv, NEW i \in Instances, Acknowledge(i)
  PROVE  TasksInv'
<1>1. /\ run[i].step = "done" /\ queue' = queue \ {run[i].task}
      /\ run' = [run EXCEPT ![i] = Idle]
      /\ UNCHANGED <<job, shard, names, late, ended>>
  BY DEF Acknowledge
<1>2. HandlerChains(run[i])
  BY DEF TasksInv
<1>3. StaysShut
  BY <1>1 DEF StaysShut, Shut
<1>4. (\A j \in Instances : HandlerChains(run[j]))'
  BY <1>1, <1>3, IdleChains, StepChains
<1>5. (\A t \in queue : TaskForm(t))' /\ NamesInOrder'
  BY <1>1 DEF TasksInv, TaskForm, Chained, Named, NamesInOrder
<1>6. KickoffInv'
  <2>1. run[i].task = Kickoff => AllStarted
    BY <1>1, <1>2 DEF HandlerChains, KickoffChains, Kickoff, Task
  <2> QED
    BY <1>1, <2>1 DEF TasksInv, KickoffInv, AllStarted, Named
<1>7. ChainsInv'
  <2> SUFFICES ASSUME ~late
               PROVE  /\ \A s \in Shards : shard[s].active => SliceLives(s)'
                      /\ ended \/ (PollLives' /\ job.stored)
                      /\ ended => ~job.active
    BY <1>1 DEF ChainsInv
  <2>1. /\ \A s \in Shards : shard[s].active => SliceLives(s)
        /\ ended \/ (PollLives /\ job.stored)
        /\ ended => ~job.active
        /\ SliceChains(run[i]) /\ PollChains(run[i])
    BY <1>2 DEF TasksInv, ChainsInv, HandlerChains
  <2>2. \A t : Named(t)' = Named(t)
    BY <1>1 DEF Named
  <2>3. ASSUME NEW s \in Shards, shard[s].active PROVE SliceLives(s)'
    <3> SUFFICES ASSUME Named(Slice(s, 0, 0)) PROVE SliceWaits(s)'
      BY <2>2 DEF SliceLives
    <3>1. PICK t \in queue : t.kind = "slice" /\ t.shard = s /\ ~Named(Slice(s, t.id + 1, 0))
      BY <2>1, <2>3 DEF SliceLives, SliceWaits
    <3>2. t # run[i].task
      BY <1>1, <2>1, <2>3, <3>1 DEF SliceChains
    <3>3. t \in queue'
      BY <1>1, <3>1, <3>2
    <3> QED
      BY <2>2, <3>1, <3>3 DEF SliceWaits
  <2>4. ASSUME ~ended, PollLives PROVE PollLives'
    <3> SUFFICES ASSUME Named(Controller(0)) PROVE PollWaits'
      BY <2>2 DEF PollLives
    <3>1. PICK t \in queue : t.kind = "controller" /\ ~Named(Controller(t.id + 1))
      BY <2>4 DEF PollLives, PollWaits
    <3>2. t # run[i].task
      BY <1>1, <2>1, <2>4, <3>1 DEF PollChains
    <3>3. t \in queue'
      BY <1>1, <3>1, <3>2
    <3> QED
      BY <2>2, <3>1, <3>3 DEF PollWaits
  <2> QED
    BY <2>1, <2>3, <2>4
<1> QED
  BY <1>4, <1>5, <1>6, <1>7 DEF TasksInv

(* Nothing that happens while the handlers stand still takes a last task   *)
(* away, and the job is cleaned up only when it has ended.                 *)
LEMMA OutsideChainsKept ==
  ASSUME MRInv, TasksInv, Callback \/ Abort \/ CleanUp \/ UNCHANGED vars
  PROVE  TasksInv'
<1>1. /\ UNCHANGED <<run, shard, names, late, ended>>
      /\ queue' = queue \/ queue' = queue \ {Done}
      /\ job' = job \/ (ended /\ job' = NoEntity)
  BY DEF Callback, Abort, CleanUp, vars
<1>2. (\A j \in Instances : HandlerChains(run[j]))'
  BY <1>1 DEF TasksInv, HandlerChains, TaskForm, Named, KickoffChains, AllStarted,
              SliceChains, PollChains
<1>3. Done.kind = "done" /\ NoEntity.active = FALSE
  BY DEF Done, Task, NoEntity, Entity
<1>4. \A t \in queue : t.kind # "done" => t \in queue'
  BY <1>1, <1>3
<1>5. (\A t \in queue : TaskForm(t))' /\ NamesInOrder'
  BY <1>1 DEF TasksInv, TaskForm, Chained, Named, NamesInOrder
<1>6. KickoffInv'
  BY <1>1, <1>4 DEF TasksInv, KickoffInv, AllStarted, Named, Kickoff, Task
<1>7. (\A s \in Shards : SliceLives(s) => SliceLives(s)') /\ (PollLives => PollLives')
  BY <1>1, <1>4 DEF SliceLives, SliceWaits, PollLives, PollWaits, Named
<1>8. ChainsInv'
  BY <1>1, <1>3, <1>7 DEF TasksInv, ChainsInv
<1> QED
  BY <1>2, <1>5, <1>6, <1>8 DEF TasksInv

(* The invariant of the chains is inductive, given that of the entities.   *)
LEMMA NextKeepsTasks == MRInv /\ TasksInv /\ [Next]_vars => TasksInv'
<1> SUFFICES ASSUME MRInv, TasksInv, [Next]_vars PROVE TasksInv'
  OBVIOUS
<1>1. ASSUME NEW i \in Instances, Progress(i) PROVE TasksInv'
  BY <1>1, KickoffChainsKept, SliceChainsKept, PollChainsKept, FinalizeChainsKept,
     AcknowledgeKeeps DEF Progress
<1>2. ASSUME NEW i \in Instances, Crash(i) PROVE TasksInv'
  BY <1>2, IdleChains, QuietStep DEF Crash, TasksInv, ChainsInv
<1> QED
  BY <1>1, <1>2, OutsideChainsKept DEF Next

-----------------------------------------------------------------------------
(* The theorems.                                                           *)

(* The inductive invariant holds in every behaviour. *)
THEOREM Invariance == Spec => []MRInv
  BY InitHolds, NextKeeps, PTL DEF Spec

(* Entities, tasks and handlers are well typed. *)
THEOREM JobTypes == Spec => []MRTypeOK
<1>1. MRInv => MRTypeOK
  BY DEF MRInv
<1> QED
  BY <1>1, Invariance, PTL

(* A shard ends in success only if every item was mapped and flushed. *)
THEOREM ShardSuccess == Spec => []ShardSuccessIsFlushed
<1>1. MRInv => ShardSuccessIsFlushed
  BY DEF MRInv
<1> QED
  BY <1>1, Invariance, PTL

(* A job ends in success only if every item of every shard was. *)
THEOREM JobSuccess == Spec => []JobSuccessIsFlushed
<1>1. MRInv => JobSuccessIsFlushed
  BY DEF MRInv
<1> QED
  BY <1>1, Invariance, PTL

(* Each chain of tasks goes on while its shard, or the job, is active.     *)
THEOREM ChainsInvariance == Spec => []TasksInv
  BY TasksInit, NextKeepsTasks, Invariance, PTL DEF Spec

(* An active shard always has a task that will go on with it, and an       *)
(* active job one that will poll it, however tasks are served again, unless *)
(* a handler served again wrote over what had moved on.                    *)
THEOREM ActiveShardsHaveTasks == Spec => []ActiveHasTask
<1>1. TasksInv => ActiveHasTask
  <2> SUFFICES ASSUME TasksInv, ~late
               PROVE  /\ \A s \in Shards : shard[s].active => HasSlice(s)
                      /\ job.active => \E t \in queue : t.kind \in {"kickoff", "controller"}
    BY DEF ActiveHasTask
  <2>1. CASE Kickoff \in queue
    <3>1. Kickoff.kind = "kickoff"
      BY DEF Kickoff, Task
    <3> QED
      BY <2>1, <3>1 DEF HasSlice
  <2>2. CASE AllStarted
    <3>1. ASSUME NEW s \in Shards, shard[s].active PROVE HasSlice(s)
      BY <2>2, <3>1 DEF AllStarted, TasksInv, ChainsInv, SliceLives, SliceWaits, HasSlice
    <3>2. ASSUME job.active PROVE \E t \in queue : t.kind \in {"kickoff", "controller"}
      BY <2>2, <3>2 DEF AllStarted, TasksInv, ChainsInv, PollLives, PollWaits
    <3> QED
      BY <3>1, <3>2
  <2> QED
    BY <2>1, <2>2 DEF TasksInv, KickoffInv
<1> QED
  BY <1>1, ChainsInvariance, PTL
=============================================================================
