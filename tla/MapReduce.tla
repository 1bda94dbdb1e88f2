----------------------------- MODULE MapReduce ------------------------------
(***************************************************************************)
(* One job of the MapReduce library that the server embeds to migrate and  *)
(* export its tasks (server/mapreduce: handlers.py, model.py, context.py,  *)
(* control.py, util.py, mapper_pipeline.py).                               *)
(*                                                                         *)
(* A job is a chain of tasks: a kickoff makes the shards and their first   *)
(* slices; a slice maps some items of its shard and schedules the next; a  *)
(* controller polls the shards, schedules its successor, and in the end    *)
(* calls back and has the temporary entities deleted.  The task queue      *)
(* delivers a task again until it is acknowledged, and sometimes more      *)
(* often: to a second instance while a first one runs it, or again after   *)
(* it was served.  It refuses a name that it has seen before.              *)
(*                                                                         *)
(* A step is one datastore or task queue call.  An item is a number, its   *)
(* place in the shard's input; the effect of mapping it is that it is      *)
(* "flushed".  Output writers, hooks and quotas are left out: a slice may  *)
(* stop after any item, as it does when its time or quota is used up.      *)
(***************************************************************************)
EXTENDS Integers, FiniteSetsExt

CONSTANTS
  NumShards,   \* shards that split_input makes
  Size,        \* items of a shard
  Instances,   \* server instances, each serving one task at a time
  MaxSlice,    \* bound: the slice of this number maps all that is left
  MaxPolls,    \* bound: the controller of this number finds no active shard
  MaxFaults,   \* bound: tasks served in part, again, or twice at a time
  MaxCalls     \* bound: a shard's counter of mapper calls stops here

ASSUME JobAssumption ==
  /\ NumShards \in Nat \ {0} /\ Size \in Nat
  /\ MaxSlice \in Nat /\ MaxPolls \in Nat /\ MaxFaults \in Nat
  /\ MaxCalls \in Nat

Shards == 1..NumShards

VARIABLES
  job,      \* MapreduceState entity
  shard,    \* Shards -> ShardState entity
  control,  \* whether the MapreduceControl entity exists: it says ABORT
  queue,    \* tasks not yet acknowledged
  names,    \* names of named tasks that were ever added
  run,      \* Instances -> the handler it runs
  flushed,  \* Shards -> items whose effects are in the datastore
  told,     \* the job as the done callback reported it, if it did
  ended,    \* history: the job was put as inactive
  late,     \* history: a handler served again wrote over what had moved on
  faults    \* number of faults so far

vars == <<job, shard, control, queue, names, run, flushed, told, ended, late, faults>>

Entity(stored, active, result, calls) ==
  [stored |-> stored, active |-> active, result |-> result, calls |-> calls]
NoEntity == Entity(FALSE, FALSE, "none", 0)
NewEntity == Entity(TRUE, TRUE, "none", 0)

(* "id": slice or serial number; "pos": items that the reader has passed.  *)
Task(kind, s, id, pos) == [kind |-> kind, shard |-> s, id |-> id, pos |-> pos]
Kickoff == Task("kickoff", 0, 0, 0)
Slice(s, id, pos) == Task("slice", s, id, pos)
Controller(serial) == Task("controller", 0, serial, 0)
Finalize == Task("finalize", 0, 0, 0)
Done == Task("done", 0, 0, 0)
NoTask == Task("none", 0, 0, 0)

Name(t) == <<t.kind, t.shard, t.id>>

(* "state": the handler's copy of the job or of the shard; "todo": shards  *)
(* that the kickoff has yet to make or schedule; "upto": the reader's      *)
(* position; "abort": the control entity as the controller read it.        *)
Handler(t, step, state, todo, upto, abort) ==
  [task |-> t, step |-> step, state |-> state, todo |-> todo, upto |-> upto,
   abort |-> abort]
Idle == Handler(NoTask, "idle", NoEntity, {}, 0, FALSE)

(* start_mapreduce stores the state and adds the kickoff in a transaction. *)
Init ==
  /\ job = NewEntity
  /\ shard = [s \in Shards |-> NoEntity]
  /\ control = FALSE
  /\ queue = {Kickoff}
  /\ names = {}
  /\ run = [i \in Instances |-> Idle]
  /\ flushed = [s \in Shards |-> {}]
  /\ told = NoEntity
  /\ ended = FALSE
  /\ late = FALSE
  /\ faults = 0

At(i, kind, step) == run[i].task.kind = kind /\ run[i].step = step

Become(i, step, state, todo, upto) ==
  run' = [run EXCEPT ![i] =
            Handler(run[i].task, step, state, todo, upto, run[i].abort)]
Goto(i, step) == Become(i, step, run[i].state, run[i].todo, run[i].upto)

(* A task that another instance runs already is served twice at a time.    *)
Serve(i, t, handler) ==
  LET twice == IF \E j \in Instances : run[j].task = t THEN 1 ELSE 0
  IN  /\ t \in queue
      /\ run[i] = Idle
      /\ faults + twice <= MaxFaults
      /\ faults' = faults + twice
      /\ run' = [run EXCEPT ![i] = handler]

AddNamed(t) ==
  /\ queue' = IF Name(t) \in names THEN queue ELSE queue \union {t}
  /\ names' = names \union {Name(t)}

(* The handler returns: the queue drops the task.                          *)
Acknowledge(i) ==
  /\ run[i].step = "done"
  /\ queue' = queue \ {run[i].task}
  /\ run' = [run EXCEPT ![i] = Idle]
  /\ UNCHANGED <<job, shard, control, names, flushed, told, ended, late, faults>>

(* The handler fails or its answer is lost: the task stays in the queue.   *)
Crash(i) ==
  /\ run[i] # Idle
  /\ faults < MaxFaults
  /\ faults' = faults + 1
  /\ run' = [run EXCEPT ![i] = Idle]
  /\ UNCHANGED <<job, shard, control, queue, names, flushed, told, ended, late>>

-----------------------------------------------------------------------------
(* KickOffJobHandler.                                                      *)

CreateJob(i) ==
  /\ Serve(i, Kickoff, Handler(Kickoff, "find", NoEntity, {}, 0, FALSE))
  /\ job' = NewEntity
  /\ late' = (late \/ ended)
  /\ UNCHANGED <<shard, control, queue, names, flushed, told, ended>>

FindShards(i) ==
  /\ At(i, "kickoff", "find")
  /\ Become(i, "put", NoEntity, {s \in Shards : ~shard[s].stored}, 0)
  /\ UNCHANGED <<job, shard, control, queue, names, flushed, told, ended, late,
                 faults>>

PutShards(i) ==
  /\ At(i, "kickoff", "put")
  /\ shard' = [s \in Shards |-> IF s \in run[i].todo THEN NewEntity
                                ELSE shard[s]]
  /\ late' = (late \/ \E s \in run[i].todo : Name(Slice(s, 0, 0)) \in names)
  /\ Become(i, "schedule", NoEntity, Shards, 0)
  /\ UNCHANGED <<job, control, queue, names, flushed, told, ended, faults>>

ScheduleShard(i) ==
  /\ At(i, "kickoff", "schedule")
  /\ \E s \in run[i].todo :
       /\ \A r \in run[i].todo : s <= r
       /\ AddNamed(Slice(s, 0, 0))
       /\ Become(i, "schedule", NoEntity, run[i].todo \ {s}, 0)
  /\ UNCHANGED <<job, shard, control, flushed, told, ended, late, faults>>

ScheduleController(i) ==
  /\ At(i, "kickoff", "schedule")
  /\ run[i].todo = {}
  /\ AddNamed(Controller(0))
  /\ Goto(i, "done")
  /\ UNCHANGED <<job, shard, control, flushed, told, ended, late, faults>>

-----------------------------------------------------------------------------
(* MapperWorkerCallbackHandler.                                            *)

ReadShard(i) ==
  \E t \in queue :
    LET state == shard[t.shard]
        step == IF ~state.stored \/ ~state.active THEN "done"
                ELSE IF control THEN "abort" ELSE "scan"
    IN  /\ t.kind = "slice"
        /\ Serve(i, t, Handler(t, step, state, {}, t.pos, FALSE))
        /\ UNCHANGED <<job, shard, control, queue, names, flushed, told, ended, late>>

(* The shard is put without a look at what is stored by then.              *)
AbortShard(i) ==
  /\ At(i, "slice", "abort")
  /\ shard' = [shard EXCEPT ![run[i].task.shard] =
                 Entity(TRUE, FALSE, "aborted", run[i].state.calls)]
  /\ Goto(i, "repeat")
  /\ UNCHANGED <<job, control, queue, names, flushed, told, ended, late, faults>>

RepeatAbort(i) ==
  /\ At(i, "slice", "repeat")
  /\ control' = TRUE
  /\ Goto(i, "done")
  /\ UNCHANGED <<job, shard, queue, names, flushed, told, ended, late, faults>>

Scanned(i, upto, finished) ==
  LET calls == run[i].state.calls + (upto - run[i].task.pos)
  IN  Entity(TRUE, ~finished, IF finished THEN "success" ELSE "none",
             IF calls > MaxCalls THEN MaxCalls ELSE calls)

(* Mutant: the effects of the last item are not flushed.                   *)
ScanAhead(i) ==
  \E upto \in run[i].task.pos .. Size : \E finished \in BOOLEAN :
    /\ At(i, "slice", "scan")
    /\ run[i].task.id = MaxSlice => finished
    /\ finished => upto = Size
    /\ flushed' = [flushed EXCEPT ![run[i].task.shard] =
                     @ \union run[i].task.pos + 1 .. upto - 1]
    /\ Become(i, "commit", Scanned(i, upto, finished), {}, upto)
    /\ UNCHANGED <<job, shard, control, queue, names, told, ended, late, faults>>

(* It may stop after the last item without having seen that it was it.     *)
Scan(i) ==
  \E upto \in run[i].task.pos .. Size : \E finished \in BOOLEAN :
    /\ At(i, "slice", "scan")
    /\ run[i].task.id = MaxSlice => finished
    /\ finished => upto = Size
    /\ flushed' = [flushed EXCEPT ![run[i].task.shard] =
                     @ \union run[i].task.pos + 1 .. upto]
    /\ Become(i, "commit", Scanned(i, upto, finished), {}, upto)
    /\ UNCHANGED <<job, shard, control, queue, names, told, ended, late, faults>>

(* Mutant: the state is put as in AbortShard, without the transaction.     *)
CommitSliceBlindly(i) ==
  /\ At(i, "slice", "commit")
  /\ shard' = [shard EXCEPT ![run[i].task.shard] = run[i].state]
  /\ Goto(i, IF run[i].state.active THEN "next" ELSE "done")
  /\ UNCHANGED <<job, control, queue, names, flushed, told, ended, late, faults>>

(* The transaction tx: it fails if the shard is gone, gives up if it is no *)
(* longer active, and else copies the handler's state over it.             *)
CommitSlice(i) ==
  LET s == run[i].task.shard
  IN  /\ At(i, "slice", "commit")
      /\ \/ ~shard[s].stored
            /\ run' = [run EXCEPT ![i] = Idle]
            /\ UNCHANGED shard
         \/ shard[s].stored /\ ~shard[s].active
            /\ Goto(i, "done")
            /\ UNCHANGED shard
         \/ shard[s].stored /\ shard[s].active
            /\ shard' = [shard EXCEPT ![s] = run[i].state]
            /\ Goto(i, IF run[i].state.active THEN "next" ELSE "done")
      /\ UNCHANGED <<job, control, queue, names, flushed, told, ended, late, faults>>

(* Mutant: the slice's number stays, and with it the name.                 *)
NextSliceSameName(i) ==
  /\ At(i, "slice", "next")
  /\ LET t == run[i].task
     IN  AddNamed(Slice(t.shard, t.id, run[i].upto))
  /\ Goto(i, "done")
  /\ UNCHANGED <<job, shard, control, flushed, told, ended, late, faults>>

NextSlice(i) ==
  /\ At(i, "slice", "next")
  /\ LET t == run[i].task
     IN  AddNamed(Slice(t.shard, t.id + 1, run[i].upto))
  /\ Goto(i, "done")
  /\ UNCHANGED <<job, shard, control, flushed, told, ended, late, faults>>

-----------------------------------------------------------------------------
(* ControllerCallbackHandler.                                              *)

NoActiveShard == \A s \in Shards : ~shard[s].active

ReadJob(i) ==
  \E t \in queue :
    /\ t.kind = "controller"
    /\ t.id = MaxPolls => NoActiveShard
    /\ Serve(i, t, Handler(t, IF job.stored THEN "gather" ELSE "done", job,
                           {}, 0, control))
    /\ UNCHANGED <<job, shard, control, queue, names, flushed, told, ended, late>>

Found == {s \in Shards : shard[s].stored}

(* Mutant: a lost shard counts as one that has ended. *)
OutcomeOfFound(state, abort) ==
  LET active == state.active /\ \E s \in Found : shard[s].active
      result == IF active THEN state.result
                ELSE IF abort THEN "aborted"
                ELSE IF state.result # "none" THEN state.result
                ELSE IF \E s \in Found : shard[s].result # "success"
                     THEN "failed" ELSE "success"
  IN  Entity(TRUE, active, result, MapThenSumSet(LAMBDA s : shard[s].calls, Found))

Lost(state) == state.active /\ Found # Shards

(* The job as the controller makes it from the shards.                     *)
Outcome(state, abort) ==
  LET active == /\ state.active /\ ~Lost(state)
                /\ \E s \in Found : shard[s].active
      result == IF active THEN state.result
                ELSE IF abort THEN "aborted"
                ELSE IF Lost(state) THEN "failed"
                ELSE IF state.result # "none" THEN state.result
                ELSE IF \E s \in Found : shard[s].result # "success"
                     THEN "failed" ELSE "success"
  IN  Entity(TRUE, active, result,
             MapThenSumSet(LAMBDA s : shard[s].calls, Found))

Gather(i) ==
  LET state == run[i].state
      outcome == Outcome(state, run[i].abort)
  IN  /\ At(i, "controller", "gather")
      /\ run[i].task.id = MaxPolls => NoActiveShard
      /\ Become(i, IF Lost(state) THEN "lost"
                   ELSE IF outcome.active THEN "put" ELSE "finalize",
                outcome, {}, 0)
      /\ UNCHANGED <<job, shard, control, queue, names, flushed, told, ended, late,
                     faults>>

AbortLost(i) ==
  /\ At(i, "controller", "lost")
  /\ control' = TRUE
  /\ Goto(i, "finalize")
  /\ UNCHANGED <<job, shard, queue, names, flushed, told, ended, late, faults>>

(* "We don't care if it gets overwritten": no transaction.                 *)
PutJob(i) ==
  /\ At(i, "controller", "put")
  /\ job' = run[i].state
  /\ late' = (late \/ ended)
  /\ Goto(i, "next")
  /\ UNCHANGED <<shard, control, queue, names, flushed, told, ended, faults>>

(* Mutant: the serial number stays, and with it the name.                  *)
NextPollSameName(i) ==
  /\ At(i, "controller", "next")
  /\ AddNamed(Controller(run[i].task.id))
  /\ Goto(i, "done")
  /\ UNCHANGED <<job, shard, control, flushed, told, ended, late, faults>>

NextPoll(i) ==
  /\ At(i, "controller", "next")
  /\ AddNamed(Controller(run[i].task.id + 1))
  /\ Goto(i, "done")
  /\ UNCHANGED <<job, shard, control, flushed, told, ended, late, faults>>

(* The finalize task has a name: it is added at once, not by the commit.   *)
ScheduleFinalize(i) ==
  /\ At(i, "controller", "finalize")
  /\ AddNamed(Finalize)
  /\ Goto(i, "commit")
  /\ UNCHANGED <<job, shard, control, flushed, told, ended, late, faults>>

CommitJob(i) ==
  /\ At(i, "controller", "commit")
  /\ job' = run[i].state
  /\ queue' = queue \union {Done}
  /\ ended' = TRUE
  /\ Goto(i, "done")
  /\ UNCHANGED <<shard, control, names, flushed, told, late, faults>>

-----------------------------------------------------------------------------
(* FinalizeJobHandler, the done callback, and the commands of the UI.      *)

ReadFinalJob(i) ==
  /\ Serve(i, Finalize, Handler(Finalize, IF job.stored THEN "control" ELSE "done",
                                NoEntity, {}, 0, FALSE))
  /\ UNCHANGED <<job, shard, control, queue, names, flushed, told, ended, late>>

DeleteControl(i) ==
  /\ At(i, "finalize", "control")
  /\ control' = FALSE
  /\ Goto(i, "shards")
  /\ UNCHANGED <<job, shard, queue, names, flushed, told, ended, late, faults>>

DeleteShards(i) ==
  /\ At(i, "finalize", "shards")
  /\ shard' = [s \in Shards |-> NoEntity]
  /\ Goto(i, "done")
  /\ UNCHANGED <<job, control, queue, names, flushed, told, ended, late, faults>>

(* MapperPipeline.callback: later calls find the pipeline completed.  It   *)
(* fails, and is repeated, when the job has been cleaned up.               *)
Callback ==
  /\ Done \in queue
  /\ job.stored
  /\ told' = IF told.stored THEN told ELSE job
  /\ queue' = queue \ {Done}
  /\ UNCHANGED <<job, shard, control, names, run, flushed, ended, late, faults>>

Abort ==
  /\ ~control
  /\ control' = TRUE
  /\ UNCHANGED <<job, shard, queue, names, run, flushed, told, ended, late, faults>>

(* The status page offers this for a job that it has seen inactive.        *)
CleanUp ==
  /\ job.stored /\ ended
  /\ job' = NoEntity
  /\ UNCHANGED <<shard, control, queue, names, run, flushed, told, ended, late, faults>>

-----------------------------------------------------------------------------
KickoffStep(i) ==
  CreateJob(i) \/ FindShards(i) \/ PutShards(i) \/ ScheduleShard(i)
    \/ ScheduleController(i)
SliceStep(i) ==
  ReadShard(i) \/ AbortShard(i) \/ RepeatAbort(i) \/ Scan(i) \/ CommitSlice(i)
    \/ NextSlice(i)
ControllerStep(i) ==
  ReadJob(i) \/ Gather(i) \/ AbortLost(i) \/ PutJob(i) \/ NextPoll(i)
    \/ ScheduleFinalize(i) \/ CommitJob(i)
FinalizeStep(i) == ReadFinalJob(i) \/ DeleteControl(i) \/ DeleteShards(i)

Progress(i) ==
  KickoffStep(i) \/ SliceStep(i) \/ ControllerStep(i) \/ FinalizeStep(i)
    \/ Acknowledge(i)

Next ==
  \/ \E i \in Instances : Progress(i) \/ Crash(i)
  \/ Callback \/ Abort \/ CleanUp

Spec == Init /\ [][Next]_vars

(* The queue delivers what is not acknowledged, and handlers return.       *)
Fairness == WF_vars(\E i \in Instances : Progress(i)) /\ WF_vars(Callback)
FairSpec == Spec /\ Fairness

-----------------------------------------------------------------------------
Items == 1..Size

Results == {"none", "success", "failed", "aborted"}

(* An entity is active until it has a result.                              *)
EntityOK(e) ==
  /\ e.stored \in BOOLEAN /\ e.active \in BOOLEAN /\ e.result \in Results
  /\ e.active => e.stored /\ e.result = "none"
  /\ e.stored /\ ~e.active => e.result # "none"
  /\ e.result # "none" => e.stored

TaskOK(t) ==
  /\ t.id \in Nat /\ t.pos \in 0..Size
  /\ t.kind = "slice" => t.shard \in Shards

HandlerOK(h) ==
  /\ TaskOK(h.task) /\ EntityOK(h.state)
  /\ h.todo \subseteq Shards /\ h.upto \in 0..Size /\ h.abort \in BOOLEAN
  /\ h.task.kind = "slice" => h.state.calls \in 0..MaxCalls

(* Type invariant.                                                         *)
MRTypeOK ==
  /\ EntityOK(job) /\ EntityOK(told)
  /\ DOMAIN shard = Shards /\ DOMAIN flushed = Shards /\ DOMAIN run = Instances
  /\ \A s \in Shards : /\ EntityOK(shard[s])
                       /\ shard[s].calls \in 0..MaxCalls
                       /\ flushed[s] \subseteq Items
  /\ control \in BOOLEAN /\ ended \in BOOLEAN /\ late \in BOOLEAN
  /\ faults \in 0..MaxFaults
  /\ \A t \in queue : TaskOK(t)
  /\ \A i \in Instances : HandlerOK(run[i])

(* A shard that ended in success has had every item mapped and flushed,    *)
(* however often its slices were served, and in whatever order.            *)
ShardSuccessIsFlushed ==
  \A s \in Shards : shard[s].result = "success" => flushed[s] = Items

(* So has every shard of a job whose result is success, though the         *)
(* controller reads shards that are deleted, made again or put meanwhile.  *)
JobSuccessIsFlushed ==
  job.result = "success" => \A s \in Shards : flushed[s] = Items

HasSlice(s) ==
  \/ \E t \in queue : t.kind = "kickoff" \/ (t.kind = "slice" /\ t.shard = s)
  \/ \E i \in Instances : run[i].task.kind = "kickoff"

(* An active shard has a task that will go on with it, and an active job   *)
(* one that will poll it, as long as no handler wrote over what had moved  *)
(* on.                                                                     *)
ActiveHasTask ==
  ~late =>
    /\ \A s \in Shards : shard[s].active => HasSlice(s)
    /\ job.active =>
         \/ \E t \in queue : t.kind \in {"kickoff", "controller"}
         \/ \E i \in Instances : run[i].task.kind = "kickoff"

(* The job ends, whatever was served again, in part or twice at a time,    *)
(* unless the kickoff or a controller wrote over what had moved on.        *)
JobEnds == <>(late \/ ended)

-----------------------------------------------------------------------------
(* The inductive invariant of the proofs.                                  *)

(* What a reader has passed is flushed.                                    *)
QueuedIsFlushed ==
  \A t \in queue : t.kind = "slice" => 1..t.pos \subseteq flushed[t.shard]

SliceIsFlushed(h) ==
  h.task.kind = "slice" =>
    /\ 1..h.task.pos \subseteq flushed[h.task.shard]
    /\ h.step \in {"commit", "next"} => 1..h.upto \subseteq flushed[h.task.shard]
    /\ h.step = "commit" =>
         /\ h.state.stored
         /\ h.state.result = "success" => h.upto = Size

AllFlushed == \A s \in Shards : flushed[s] = Items

(* A controller that goes on has found the job, and what it makes of it is *)
(* as good as the job.                                                     *)
CopyIsFlushed(h) ==
  h.task.kind = "controller" =>
    /\ h.state.stored \/ h.step = "done"
    /\ h.state.result = "success" => AllFlushed

HandlersInv ==
  \A i \in Instances :
    HandlerOK(run[i]) /\ SliceIsFlushed(run[i]) /\ CopyIsFlushed(run[i])

MRInv ==
  /\ MRTypeOK /\ HandlersInv /\ QueuedIsFlushed
  /\ ShardSuccessIsFlushed /\ JobSuccessIsFlushed

(* The chains of tasks: the names that were ever added tell how far each   *)
(* of them has come.                                                       *)
Named(t) == Name(t) \in names
Chained(t) == t.kind \in {"slice", "controller"}

(* A task stays as it was added. *)
TaskForm(t) ==
  /\ t.kind = "kickoff" => t = Kickoff
  /\ t.kind = "controller" => t = Controller(t.id)
  /\ Chained(t) => t.id \in Nat /\ Named(t)

(* A chain has no gaps: the tasks of a chain are added one after the other. *)
NamesInOrder ==
  \A n \in names : n[3] # 0 => /\ n[3] - 1 \in Nat
                               /\ <<n[1], n[2], n[3] - 1>> \in names
                               /\ <<n[1], n[2], 0>> \in names

(* The kickoff is acknowledged when every chain has its first task. *)
AllStarted == Named(Controller(0)) /\ \A s \in Shards : Named(Slice(s, 0, 0))
KickoffInv == Kickoff \in queue \/ AllStarted

(* The last task of a chain stays in the queue while the shard, or the job, *)
(* is active.                                                              *)
SliceWaits(s) ==
  \E t \in queue : t.kind = "slice" /\ t.shard = s /\ ~Named(Slice(s, t.id + 1, 0))
PollWaits ==
  \E t \in queue : t.kind = "controller" /\ ~Named(Controller(t.id + 1))

SliceLives(s) == Named(Slice(s, 0, 0)) => SliceWaits(s)
PollLives == Named(Controller(0)) => PollWaits

ChainsInv ==
  ~late =>
    /\ \A s \in Shards : shard[s].active => SliceLives(s)
    /\ ended \/ (PollLives /\ job.stored)
    /\ ended => ~job.active

(* A handler that is done has added the next task of its chain, or found   *)
(* the chain at its end.                                                   *)
KickoffChains(h) ==
  h.task.kind = "kickoff" =>
    /\ h.step = "schedule" => \A s \in Shards \ h.todo : Named(Slice(s, 0, 0))
    /\ h.step = "done" => AllStarted
SliceChains(h) ==
  h.task.kind = "slice" =>
    /\ h.step = "repeat" => ~shard[h.task.shard].active
    /\ h.step = "done" => \/ ~shard[h.task.shard].active
                          \/ Named(Slice(h.task.shard, h.task.id + 1, 0))
PollChains(h) ==
  h.task.kind = "controller" =>
    /\ h.step \in {"lost", "finalize", "commit"} => ~h.state.active
    /\ h.step = "done" => ended \/ Named(Controller(h.task.id + 1))

HandlerChains(h) ==
  /\ TaskForm(h.task) /\ KickoffChains(h)
  /\ ~late => SliceChains(h) /\ PollChains(h)

TasksInv ==
  /\ \A t \in queue : TaskForm(t)
  /\ NamesInOrder /\ KickoffInv /\ ChainsInv
  /\ \A i \in Instances : HandlerChains(run[i])
=============================================================================

