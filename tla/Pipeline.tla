------------------------------ MODULE Pipeline ------------------------------
(***************************************************************************)
(* One workflow of the pipeline library that the server embeds for its     *)
(* migration and export jobs (server/mapreduce/lib/pipeline: pipeline.py,  *)
(* models.py, util.py; server/mapreduce/mapper_pipeline.py).               *)
(*                                                                         *)
(* The root is a generator: it yields child pipelines, each with an output *)
(* slot; the last child fills the root's own.  A barrier starts a child,   *)
(* or finalizes a pipeline, when the slots that it blocks on are filled.   *)
(* An asynchronous child starts a MapReduce job and is completed by the    *)
(* job's done callback.  Everything runs in tasks that the task queue      *)
(* delivers until they are acknowledged, and sometimes to two instances.   *)
(*                                                                         *)
(* A step is one call to the datastore or the task queue, or one           *)
(* transaction.  Every evaluation of the root allocates its children anew: *)
(* <<g, c>> is the c-th child of the g-th evaluation that got that far.    *)
(* Slots hold no data, and each pipeline has its default output only.      *)
(***************************************************************************)
EXTENDS Integers, FiniteSets

CONSTANTS
  NumChildren,  \* children that the root yields
  Kind,         \* child -> "sync", "async", or "bare": yields nothing
  After,        \* child -> children whose outputs it must wait for
  Args,         \* child -> those of them whose outputs are its arguments
  Instances,    \* server instances, each serving one task at a time
  MaxAttempts,  \* root (0) and children -> max_attempts
  MaxRaises,    \* bound: user code raises this often
  MaxFaults,    \* bound: handlers that stop part way or run twice at a time
  MaxTwice      \* bound: of those, the tasks given to two instances

Children == 1..NumChildren

ASSUME WorkflowAssumption ==
  /\ NumChildren \in Nat \ {0}
  /\ Kind \in [Children -> {"sync", "async", "bare"}]
  /\ After \in [Children -> SUBSET Children]
  /\ Args \in [Children -> SUBSET Children]
  /\ \A c \in Children : Args[c] \subseteq After[c] /\ After[c] \subseteq 1..(c - 1)
  /\ MaxAttempts \in [0..NumChildren -> Nat \ {0}] /\ MaxRaises \in Nat
  /\ MaxFaults \in Nat /\ MaxTwice \in Nat
ASSUME InstancesAssumption == IsFiniteSet(Instances)

(* Only a delivery out of turn can evaluate an attempt of the root again.  *)
MaxGens == 1 + MaxFaults

Root == <<0, 0>>
Pipes == {Root} \union ((1..MaxGens) \X Children)

(* The last child yielded inherits the output of the root.                 *)
Output(p) == IF p = Root \/ p[2] = NumChildren THEN Root ELSE p
Slots == {Output(p) : p \in Pipes}
Outputs(g) == {Output(<<g, c>>) : c \in Children}
KindOf(p) == IF p = Root THEN "generator" ELSE Kind[p[2]]

Needs(p, deps) == IF p = Root THEN {} ELSE {Output(<<p[1], d>>) : d \in deps[p[2]]}

VARIABLES
  pipe,      \* Pipes -> _PipelineRecord
  fanned,    \* the root's fanned_out: which evaluation's children, or 0
  aborting,  \* the root's abort_requested
  slot,      \* Slots -> status of the _SlotRecord, or "none"
  barrier,   \* the root's FINALIZE _BarrierRecord
  job,       \* Pipes -> MapReduce jobs it started, those ended, its job_id
  queue,     \* tasks not yet delivered for good
  names,     \* named tasks that were ever added
  run,       \* Instances -> the handler it runs
  ran,       \* history: pipelines whose user code ran
  report,    \* history: Pipes -> the job that its outputs tell of, or 0
  gens,      \* evaluations of the root that allocated children
  stops,     \* abort fan-outs that were ever added
  raises, crashes, twice  \* how often each of them happened

records == <<pipe, fanned, aborting, slot, barrier, job>>
vars == <<records, queue, names, run, ran, report, gens, stops, raises,
          crashes, twice>>

Record(stored, status, attempt) ==
  [stored |-> stored, status |-> status, attempt |-> attempt]
NoRecord == Record(FALSE, "waiting", 0)
NewRecord == Record(TRUE, "waiting", 0)

Barrier(blocking, fired) == [blocking |-> blocking, fired |-> fired]

(* "do": the handler; "of": the pipeline or slot; "why": the purpose.      *)
Task(do, of, why, n) == [do |-> do, of |-> of, why |-> why, n |-> n]
Attempt(p, n) == Task("evaluate", p, "attempt", n)
Evaluate(p, why) == Task("evaluate", p, why, 0)
Abort(p, n) == Task("evaluate", p, "abort", n)
Notify(s, n) == Task("notify", s, "", n)
FanOut == Task("fanout", Root, "", 0)
FanOutAbort(n) == Task("stop", Root, "", n)
Callback(p, n) == Task("callback", p, "", n)
NoTask == Task("none", Root, "", 0)

(* "at": the next step; "rec", "bar": the root's barrier or the pipeline's *)
(* record as it was read; "found": the barriers to fire; "n": the number   *)
(* of the evaluation or the job that the handler made.                     *)
Handler(t, at, rec, bar, found, n) ==
  [task |-> t, at |-> at, rec |-> rec, bar |-> bar, found |-> found, n |-> n]
Idle == Handler(NoTask, "idle", NoRecord, Barrier({}, FALSE), {}, 0)

(* start() stores the root, its slot and barrier, and adds its first task. *)
Init ==
  /\ pipe = [p \in Pipes |-> IF p = Root THEN NewRecord ELSE NoRecord]
  /\ fanned = 0
  /\ aborting = FALSE
  /\ slot = [s \in Slots |-> IF s = Root THEN "waiting" ELSE "none"]
  /\ barrier = Barrier({Root}, FALSE)
  /\ job = [p \in Pipes |-> [started |-> 0, ended |-> {}, id |-> 0]]
  /\ queue = {Attempt(Root, 0)}
  /\ names = {}
  /\ run = [i \in Instances |-> Idle]
  /\ ran = {}
  /\ report = [p \in Pipes |-> 0]
  /\ gens = 0 /\ stops = 0
  /\ raises = 0 /\ crashes = 0 /\ twice = 0

MayFail == crashes + twice < MaxFaults

(* An idle instance is given a task; the task may be delivered once more.  *)
Deliver(i, t, handler) ==
  /\ run[i] = Idle
  /\ run' = [run EXCEPT ![i] = handler]
  /\ \/ queue' = queue \ {t} /\ UNCHANGED twice
     \/ MayFail /\ twice < MaxTwice /\ twice' = twice + 1 /\ UNCHANGED queue

(* A handler of a single call; the answer may be lost.                     *)
Serve(t, added) ==
  \/ queue' = (queue \ {t}) \union added /\ UNCHANGED crashes
  \/ MayFail /\ crashes' = crashes + 1 /\ queue' = queue \union added

Goto(i, at) == run' = [run EXCEPT ![i].at = at]

(* The last call of a handler: likewise.                                   *)
Finish(i, added) ==
  /\ run' = [run EXCEPT ![i] = Idle]
  /\ \/ queue' = queue \union added /\ UNCHANGED crashes
     \/ /\ MayFail /\ crashes' = crashes + 1
        /\ queue' = queue \union added \union {run[i].task}

(* The handler fails or its instance dies: the task is delivered again.    *)
Crash(i) ==
  /\ run[i] # Idle
  /\ MayFail
  /\ crashes' = crashes + 1
  /\ queue' = queue \union {run[i].task}
  /\ run' = [run EXCEPT ![i] = Idle]
  /\ UNCHANGED <<records, names, ran, report, gens, stops, raises, twice>>

(* Unnamed tasks are all different, even if they say the same.             *)
NewNotify(s) ==
  LET Free == {n \in 1..(Cardinality(queue) + Cardinality(Instances) + 1) :
                 /\ Notify(s, n) \notin queue
                 /\ \A i \in Instances : run[i].task # Notify(s, n)}
  IN  Notify(s, CHOOSE n \in Free : TRUE)

(* A name that was used is refused; the others of the batch are added.     *)
New(tasks) == tasks \ names
Name(tasks) == names' = names \union tasks

(* fill_slot: whatever the slot held is overridden.                        *)
FillSlot(p) == slot' = [slot EXCEPT ![Output(p)] = "filled"]

Blocking(p, why, bar) ==
  CASE why = "start" -> Needs(p, After)
    [] why = "finalize" /\ p = Root -> bar.blocking
    [] OTHER -> {Output(p)}

(* notify_barriers: query the barriers that block on the slot,             *)
NotifyQuery(i) ==
  /\ \E t \in {u \in queue : u.do = "notify"} :
       LET found == {b \in Pipes \X {"start", "finalize"} :
                       /\ pipe[b[1]].stored
                       /\ t.of \in Blocking(b[1], b[2], barrier)}
       IN  Deliver(i, t, Handler(t, "slots", NoRecord, barrier, found, 0))
  /\ UNCHANGED <<records, names, ran, report, gens, stops, raises, crashes>>

(* read the slots that they block on,                                      *)
AllReady(p, why, bar) ==
  \A s \in Blocking(p, why, bar) : slot[s] = "filled"

(* Mutant: a barrier that fired before is left alone.                      *)
NotifySlotsOnce(i) ==
  /\ run[i].at = "slots"
  /\ run' = [run EXCEPT
       ![i].at = "fire",
       ![i].found = {b \in run[i].found :
                       /\ AllReady(b[1], b[2], run[i].bar)
                       /\ b = <<Root, "finalize">> => ~run[i].bar.fired}]
  /\ UNCHANGED <<records, queue, names, ran, report, gens, stops, raises, crashes, twice>>

NotifySlots(i) ==
  /\ run[i].at = "slots"
  /\ run' = [run EXCEPT
       ![i].at = "fire",
       ![i].found = {b \in run[i].found : AllReady(b[1], b[2], run[i].bar)}]
  /\ UNCHANGED <<records, queue, names, ran, report, gens, stops, raises, crashes, twice>>

(* write back those that fire, as they were read,                          *)
NotifyFire(i) ==
  /\ run[i].at = "fire"
  /\ barrier' = IF <<Root, "finalize">> \in run[i].found /\ ~run[i].bar.fired
                THEN Barrier(run[i].bar.blocking, TRUE) ELSE barrier
  /\ Goto(i, "tasks")
  /\ UNCHANGED <<pipe, fanned, aborting, slot, job, queue, names, ran, report,
                 gens, stops, raises, crashes, twice>>

(* and add a task for each, fired before or not.                           *)
BarrierTasks(i) == {Evaluate(b[1], b[2]) : b \in run[i].found}
NotifyAdd(i) ==
  /\ run[i].at = "tasks"
  /\ Name(BarrierTasks(i))
  /\ Finish(i, New(BarrierTasks(i)))
  /\ UNCHANGED <<records, ran, report, gens, stops, raises, twice>>

(* _FanoutHandler: the children the root points to now start at once,      *)
(* unless they wait for others.                                            *)
Immediate(g) == {p \in {<<g, c>> : c \in Children} : Needs(p, After) = {}}

(* Mutant: the children are found by their root, not by what it points to. *)
FanOutStored ==
  /\ FanOut \in queue
  /\ LET tasks == {Evaluate(p, "fanout") :
                     p \in {q \in Pipes \ {Root} : pipe[q].stored /\ Needs(q, After) = {}}}
     IN  Serve(FanOut, New(tasks)) /\ Name(tasks)
  /\ UNCHANGED <<records, run, ran, report, gens, stops, raises, twice>>

FanOutChildren ==
  /\ FanOut \in queue
  /\ LET tasks == {Evaluate(p, "fanout") : p \in Immediate(fanned)}
     IN  Serve(FanOut, New(tasks)) /\ Name(tasks)
  /\ UNCHANGED <<records, run, ran, report, gens, stops, raises, twice>>

(* continue_abort: every pipeline stored so far that has not ended, also   *)
(* one that the root does not point to, is told to abort.                  *)
Ended(p) == pipe[p].status \in {"done", "aborted"}

(* Mutant: only what runs is told.                                         *)
FanOutAbortsToRunning ==
  /\ \E t \in {u \in queue : u.do = "stop"} :
       LET tasks == {Abort(p, t.n) :
                       p \in {q \in Pipes : pipe[q].stored /\ pipe[q].status = "run"}}
       IN  Serve(t, New(tasks)) /\ Name(tasks)
  /\ UNCHANGED <<records, run, ran, report, gens, stops, raises, twice>>

FanOutAborts ==
  /\ \E t \in {u \in queue : u.do = "stop"} :
       LET tasks == {Abort(p, t.n) : p \in {q \in Pipes : pipe[q].stored /\ ~Ended(q)}}
       IN  Serve(t, New(tasks)) /\ Name(tasks)
  /\ UNCHANGED <<records, run, ran, report, gens, stops, raises, twice>>

(* evaluate: read the pipeline's record; one that has ended is left alone. *)
Evaluated(t) == t.do = "evaluate"
ReadRecord(i) ==
  /\ \E t \in {u \in queue : Evaluated(u) /\ ~Ended(u.of)} :
       Deliver(i, t, Handler(t, "choose", pipe[t.of], Barrier({}, FALSE), {}, 0))
  /\ UNCHANGED <<records, names, ran, report, gens, stops, raises, crashes>>
LeaveEnded ==
  /\ \E t \in {u \in queue : Evaluated(u) /\ Ended(u.of)} : queue' = queue \ {t}
  /\ UNCHANGED <<records, names, run, ran, report, gens, stops, raises, crashes, twice>>

(* then the output slot, the root, and the slots of the arguments, and     *)
(* choose what to do.                                                      *)
AttemptOf(t) == IF t.why = "attempt" THEN t.n ELSE 0
Missing(p) == \E s \in Needs(p, Args) : slot[s] # "filled"
Aborted(t) == t.why = "abort" \/ aborting
Complete(t) == t.why = "finalize" /\ slot[Output(t.of)] = "filled"
Stale(t, rec) == rec.attempt # AttemptOf(t) \/ rec.attempt >= MaxAttempts[t.of[2]]

Choice(t, rec) ==
  IF Missing(t.of) THEN "aborted"
  ELSE IF Aborted(t)
  THEN IF KindOf(t.of) = "async" /\ rec.status = "run" THEN "done" ELSE "aborted"
  ELSE IF Complete(t) THEN "complete"
  ELSE IF Stale(t, rec) THEN "done"
  ELSE IF rec.status = "run" /\ KindOf(t.of) \in {"generator", "bare"} THEN "done"
  ELSE IF rec.status = "waiting" /\ KindOf(t.of) = "async" THEN "become run"
  ELSE "user"

Choose(i) ==
  /\ run[i].at = "choose"
  /\ LET choice == Choice(run[i].task, run[i].rec)
     IN  IF choice = "done"
         THEN run' = [run EXCEPT ![i] = Idle]
         ELSE run' = [run EXCEPT ![i].at = choice]
  /\ UNCHANGED <<records, queue, names, ran, report, gens, stops, raises, crashes, twice>>

(* Mutant: the transitions do not look at the status again.                *)
EndBlindly(i, at, status) ==
  LET p == run[i].task.of IN
  /\ run[i].at = at
  /\ pipe' = [pipe EXCEPT ![p].status = status]
  /\ Finish(i, {})
  /\ UNCHANGED <<fanned, aborting, slot, barrier, job, names, ran, report,
                 gens, stops, raises, twice>>

(* transition_complete, transition_aborted: for what has not ended yet.    *)
End(i, at, status) ==
  LET p == run[i].task.of IN
  /\ run[i].at = at
  /\ pipe' = IF Ended(p) THEN pipe ELSE [pipe EXCEPT ![p].status = status]
  /\ Finish(i, {})
  /\ UNCHANGED <<fanned, aborting, slot, barrier, job, names, ran, report,
                 gens, stops, raises, twice>>
TransitionComplete(i) == End(i, "complete", "done")
TransitionAborted(i) == End(i, "aborted", "aborted")

(* transition_run of an asynchronous pipeline; its job starts even if the  *)
(* transaction found that it may not run.                                  *)
MarkRun(p) ==
  pipe' = IF pipe[p].status = "waiting" THEN [pipe EXCEPT ![p].status = "run"] ELSE pipe
BecomeRun(i) ==
  /\ run[i].at = "become run"
  /\ MarkRun(run[i].task.of)
  /\ Goto(i, "user")
  /\ UNCHANGED <<fanned, aborting, slot, barrier, job, queue, names, ran, report,
                 gens, stops, raises, crashes, twice>>

At(i, kinds, at) == run[i].at = at /\ KindOf(run[i].task.of) \in kinds
Ran(i) == ran' = ran \union {run[i].task.of}

(* A synchronous pipeline's run() fills its output.                        *)
RunSync(i) ==
  LET p == run[i].task.of IN
  /\ At(i, {"sync"}, "user")
  /\ Ran(i)
  /\ FillSlot(p)
  /\ Finish(i, {NewNotify(Output(p))})
  /\ UNCHANGED <<pipe, fanned, aborting, barrier, job, names, report, gens, stops,
                 raises, twice>>

(* A generator that yields nothing: its output is filled, and then it is   *)
(* marked as run.  (So one that runs never has to fill it again.)          *)
RunBare(i) ==
  LET p == run[i].task.of IN
  /\ At(i, {"bare"}, "user")
  /\ Ran(i)
  /\ FillSlot(p)
  /\ queue' = queue \union {NewNotify(Output(p))}
  /\ Goto(i, "mark")
  /\ UNCHANGED <<pipe, fanned, aborting, barrier, job, names, report, gens, stops,
                 raises, crashes, twice>>
MarkBare(i) ==
  /\ run[i].at = "mark"
  /\ MarkRun(run[i].task.of)
  /\ Finish(i, {})
  /\ UNCHANGED <<fanned, aborting, slot, barrier, job, names, ran, report, gens,
                 stops, raises, twice>>

(* Mutant: the job id is that of the job after this one.                   *)
StartJobOffByOne(i) ==
  LET p == run[i].task.of IN
  /\ At(i, {"async"}, "user")
  /\ Ran(i)
  /\ job' = [job EXCEPT ![p].started = @ + 1]
  /\ run' = [run EXCEPT ![i].at = "job", ![i].n = job[p].started + 2]
  /\ UNCHANGED <<pipe, fanned, aborting, slot, barrier, queue, names, report,
                 gens, stops, raises, crashes, twice>>

(* MapperPipeline.run: start a job, then fill the slot job_id with it.     *)
StartJob(i) ==
  LET p == run[i].task.of IN
  /\ At(i, {"async"}, "user")
  /\ Ran(i)
  /\ job' = [job EXCEPT ![p].started = @ + 1]
  /\ run' = [run EXCEPT ![i].at = "job", ![i].n = job[p].started + 1]
  /\ UNCHANGED <<pipe, fanned, aborting, slot, barrier, queue, names, report,
                 gens, stops, raises, crashes, twice>>
FillJobId(i) ==
  /\ run[i].at = "job"
  /\ job' = [job EXCEPT ![run[i].task.of].id = run[i].n]
  /\ Finish(i, {})
  /\ UNCHANGED <<pipe, fanned, aborting, slot, barrier, names, ran, report, gens,
                 stops, raises, twice>>

(* The job ends and its done callback is added (module MapReduce).         *)
JobEnds ==
  /\ \E p \in Pipes : \E n \in (1..job[p].started) \ job[p].ended :
       /\ job' = [job EXCEPT ![p].ended = @ \union {n}]
       /\ queue' = queue \union {Callback(p, n)}
  /\ UNCHANGED <<pipe, fanned, aborting, slot, barrier, names, run, ran, report,
                 gens, stops, raises, crashes, twice>>

(* MapperPipeline.callback: the counters are those of the job that job_id  *)
(* names, and the pipeline is complete.  Before job_id is filled it fails  *)
(* and stays in the queue.                                                 *)
JobCallback ==
  /\ \E t \in {u \in queue : u.do = "callback"} :
       /\ job[t.of].id # 0
       /\ report' = [report EXCEPT ![t.of] = job[t.of].id]
       /\ slot' = [slot EXCEPT ![Output(t.of)] = "filled"]
       /\ Serve(t, {NewNotify(Output(t.of))})
  /\ UNCHANGED <<pipe, fanned, aborting, barrier, job, names, run, ran, gens,
                 stops, raises, twice>>

(* The root's generator yields its children; their records, slots and      *)
(* barriers are put,                                                       *)
RunGenerator(i) ==
  LET g == gens + 1 IN
  /\ At(i, {"generator"}, "user")
  /\ g <= MaxGens
  /\ Ran(i)
  /\ gens' = g
  /\ pipe' = [p \in Pipes |-> IF p[1] = g THEN NewRecord ELSE pipe[p]]
  /\ slot' = [s \in Slots |-> IF s[1] = g THEN "waiting" ELSE slot[s]]
  /\ run' = [run EXCEPT ![i].at = "fan out", ![i].n = g]
  /\ UNCHANGED <<fanned, aborting, barrier, job, queue, names, report, stops,
                 raises, crashes, twice>>

(* Mutant: the root's finalization does not wait for its children.         *)
TransitionRunOnly(i) ==
  /\ run[i].at = "fan out"
  /\ IF pipe[Root].status = "waiting"
     THEN MarkRun(Root) /\ fanned' = run[i].n /\ Finish(i, {FanOut})
     ELSE UNCHANGED <<pipe, fanned>> /\ Finish(i, {})
  /\ UNCHANGED <<barrier, aborting, slot, job, names, ran, report, gens, stops, raises, twice>>

(* and transition_run lets the root point to them, unless it runs already, *)
(* and its finalization wait for them.                                     *)
TransitionRun(i) ==
  LET g == run[i].n IN
  /\ run[i].at = "fan out"
  /\ IF pipe[Root].status = "waiting"
     THEN /\ MarkRun(Root)
          /\ fanned' = g
          /\ barrier' = Barrier(barrier.blocking \union Outputs(g), barrier.fired)
          /\ Finish(i, {FanOut})
     ELSE UNCHANGED <<pipe, fanned, barrier>> /\ Finish(i, {})
  /\ UNCHANGED <<aborting, slot, job, names, ran, report, gens, stops, raises, twice>>

(* transition_retry: another attempt, or the whole workflow is given up.   *)
TransitionRetry(i, p) ==
  LET n == pipe[p].attempt + 1 IN
  IF Ended(p)
  THEN UNCHANGED <<pipe, stops>> /\ Finish(i, {})
  ELSE /\ pipe' = [pipe EXCEPT ![p] = Record(TRUE, "waiting", n)]
       /\ IF n >= MaxAttempts[p[2]]
          THEN stops' = stops + 1 /\ Finish(i, {FanOutAbort(stops + 1)})
          ELSE UNCHANGED stops /\ Finish(i, {Attempt(p, n)})

(* handle_run_exception: user code raises, before its effects or, for an   *)
(* asynchronous pipeline, after its job started.                           *)
MayRaise(i) == run[i].at \in {"user", "job"} /\ raises < MaxRaises
RunRaises(i) ==
  /\ MayRaise(i)
  /\ raises' = raises + 1
  /\ Ran(i)
  /\ TransitionRetry(i, run[i].task.of)
  /\ UNCHANGED <<fanned, aborting, slot, barrier, job, names, report, gens, twice>>

(* It raises Abort: begin_abort, once for the workflow.                    *)
RunAborts(i) ==
  /\ MayRaise(i)
  /\ raises' = raises + 1
  /\ Ran(i)
  /\ IF pipe[Root].status = "aborted" \/ aborting
     THEN UNCHANGED <<aborting, stops>> /\ Finish(i, {})
     ELSE /\ aborting' = TRUE
          /\ stops' = stops + 1
          /\ Finish(i, {FanOutAbort(stops + 1)})
  /\ UNCHANGED <<pipe, fanned, slot, barrier, job, names, report, gens, twice>>

Receive == LeaveEnded \/ \E i \in Instances : NotifyQuery(i) \/ ReadRecord(i)
Continue(i) ==
  \/ NotifySlots(i) \/ NotifyFire(i) \/ NotifyAdd(i)
  \/ Choose(i) \/ TransitionComplete(i) \/ TransitionAborted(i)
  \/ BecomeRun(i) \/ RunSync(i) \/ RunBare(i) \/ MarkBare(i)
  \/ StartJob(i) \/ FillJobId(i) \/ RunGenerator(i) \/ TransitionRun(i)
  \/ RunRaises(i) \/ RunAborts(i)

Next ==
  \/ Receive \/ FanOutChildren \/ FanOutAborts \/ JobEnds \/ JobCallback
  \/ \E i \in Instances : Continue(i) \/ Crash(i)

Spec == Init /\ [][Next]_vars

(* Tasks are delivered, handlers go on and jobs end.                       *)
FairSpec ==
  /\ Spec
  /\ WF_vars(Receive) /\ WF_vars(FanOutChildren) /\ WF_vars(FanOutAborts)
  /\ WF_vars(JobEnds) /\ WF_vars(JobCallback)
  /\ \A i \in Instances : WF_vars(Continue(i))

(***************************************************************************)
(* Properties                                                              *)
(***************************************************************************)

Records == [stored : BOOLEAN, status : {"waiting", "run", "done", "aborted"},
            attempt : Nat]
Barriers == [blocking : SUBSET Slots, fired : BOOLEAN]
Tasks == [do : {"none", "evaluate", "notify", "fanout", "stop", "callback"},
          of : Pipes,
          why : {"", "attempt", "fanout", "start", "finalize", "abort"},
          n : Nat]
Handlers == [task : Tasks,
             at : {"idle", "slots", "fire", "tasks", "choose", "complete",
                   "aborted", "become run", "user", "mark", "job", "fan out"},
             rec : Records, bar : Barriers,
             found : SUBSET (Pipes \X {"start", "finalize"}), n : Nat]

(* Records, slots, tasks and handlers are what their types say, and a      *)
(* pipeline knows only of jobs that it started.                            *)
PipeTypeOK ==
  /\ pipe \in [Pipes -> Records]
  /\ gens \in 0..MaxGens /\ fanned \in 0..gens
  /\ aborting \in BOOLEAN
  /\ slot \in [Slots -> {"none", "waiting", "filled"}]
  /\ barrier \in Barriers
  /\ job \in [Pipes -> [started : Nat, ended : SUBSET Nat, id : Nat]]
  /\ report \in [Pipes -> Nat]
  /\ \A p \in Pipes : /\ job[p].ended \subseteq 1..job[p].started
                       /\ job[p].id \in 0..job[p].started
                       /\ report[p] \in 0..job[p].started
  /\ queue \subseteq Tasks /\ IsFiniteSet(queue)
  /\ run \in [Instances -> Handlers]
  /\ ran \subseteq Pipes
  /\ stops \in Nat /\ raises \in Nat /\ crashes \in Nat /\ twice \in Nat

Pointed(p) == p[1] = fanned /\ p # Root

(* The root is done only when all children of one of its evaluations have  *)
(* filled their outputs, though the barrier is overwritten blindly         *)
(* (pipeline.py:1458): of those that it points to (transition_run,         *)
(* pipeline.py:2213), as long as no task is run by two instances at the    *)
(* same time.                                                              *)
FinalizeWaitsForChildren ==
  pipe[Root].status = "done" =>
    /\ \E g \in 1..gens : \A s \in Outputs(g) : slot[s] = "filled"
    /\ twice = 0 => fanned # 0 /\ \A s \in Outputs(fanned) : slot[s] = "filled"

(* Of the children that evaluations allocated, only those that the root    *)
(* points to are run, as long as no task is run twice at the same time.    *)
OnlyPointedRun == twice = 0 => \A p \in ran \ {Root} : Pointed(p)

(* What is done or aborted stays so, whichever of the finalization, the    *)
(* abort and a late attempt comes last (pipeline.py:2247, 2279, 2340).     *)
EndIsFinal == [][\A p \in Pipes : Ended(p) => pipe'[p].status = pipe[p].status]_vars

(* A job that a callback cannot reach goes on: such a pipeline stays as is *)
(* when the workflow is aborted (pipeline.py:1905).                        *)
MidFlight(p) == KindOf(p) = "async" /\ pipe[p].status = "run"

(* The workflow comes to an end with all its children, across crashes      *)
(* between any two calls of any handler.                                   *)
WorkflowEnds ==
  [](twice = 0) =>
    <>(Ended(Root) /\ \A p \in Pipes : Pointed(p) => Ended(p) \/ MidFlight(p))

(* An abort ends every pipeline that was ever stored, also those which the *)
(* root does not point to (continue_abort, pipeline.py:1541).              *)
AbortReachesAll ==
  (pipe[Root].status = "aborted") ~>
    (\A p \in Pipes : pipe[p].stored => Ended(p) \/ MidFlight(p))

(***************************************************************************)
(* The inductive invariant that the first three rest on.                   *)
(***************************************************************************)

(* Evaluations: the one that the root points to, if no task was run by two *)
(* instances; otherwise any.  Pipelines: their children, once the root     *)
(* points to some.                                                         *)
Current == {g \in 1..gens : twice = 0 => g = fanned}
Eligible == {p \in Pipes \ {Root} : fanned # 0 /\ (twice = 0 => Pointed(p))}
Allocated == {p \in Pipes : p = Root \/ p[1] <= gens}

Covering == {S \in SUBSET Slots : \E g \in Current : Outputs(g) \subseteq S}
WholeEvaluation == \E g \in Current : \A s \in Outputs(g) : slot[s] = "filled"
Finalizable ==
  {p \in Allocated : slot[Output(p)] = "filled" /\ (p = Root => WholeEvaluation)}

(* Why there is the task, waiting or running.                              *)
JustifiedTasks ==
  {t \in Tasks :
     /\ t.do = "notify" => fanned # 0 /\ (t.of # Root => t.of \in Eligible)
     /\ t.do = "fanout" => fanned # 0
     /\ t.do = "callback" => t.of \in Eligible
     /\ t.do = "evaluate" =>
          /\ t.why # "" /\ t.of \in Allocated
          /\ t.why \in {"fanout", "start"} => t.of \in Eligible
          /\ t.why = "attempt" =>
               IF t.of = Root THEN t.n <= pipe[Root].attempt ELSE t.of \in Eligible
          /\ t.why = "finalize" => t.of \in Finalizable}

(* What a handler has found out so far.                                    *)
Querying == {"slots", "fire", "tasks"}
Working == {"become run", "user", "mark", "job", "fan out"}
SoundHandlers ==
  {h \in Handlers :
     /\ h.at = "idle" => h.task.do = "none"
     /\ h.at \in Querying =>
          /\ h.task.do = "notify" /\ h.bar.blocking \in Covering
          /\ \A b \in h.found :
               b[1] \in Allocated /\ (b[2] = "start" => b[1] \in Eligible)
     /\ h.at \in {"fire", "tasks"} =>
          \A b \in h.found : b[2] = "finalize" => b[1] \in Finalizable
     /\ h.at \in Working \union {"choose", "complete", "aborted"} =>
          h.task.do = "evaluate"
     /\ h.at = "choose" => h.rec.status \in {"waiting", "run"}
     /\ h.at = "complete" => h.task.why = "finalize"
     /\ h.at \in Working =>
          /\ h.task.why \in {"attempt", "fanout", "start"}
          /\ h.task.of = Root => h.at \in {"user", "fan out"} /\ h.task.n = h.rec.attempt
     /\ h.at = "fan out" => h.task.of = Root /\ h.n \in 1..gens
     /\ h.at = "job" => h.n \in 1..job[h.task.of].started}

(* An attempt of the root is given to one instance at a time,              *)
RootAttempt(t) == t.do = "evaluate" /\ t.of = Root /\ t.why = "attempt"
AttemptsApart ==
  twice = 0 => \A i \in Instances : RootAttempt(run[i].task) =>
    /\ run[i].task \notin queue
    /\ \A j \in Instances \ {i} : run[j].task # run[i].task

(* and one that goes on to evaluate the root is the attempt recorded.      *)
Evaluating(h) ==
  /\ RootAttempt(h.task) /\ h.task.n = h.rec.attempt
  /\ \/ h.at \in {"user", "fan out"}
     \/ h.at = "choose" /\ h.rec.status = "waiting"
EvaluatingIsCurrent ==
  twice = 0 => \A i \in Instances :
    Evaluating(run[i]) => run[i].task.n = pipe[Root].attempt

(* So the root points to one evaluation only, once and for all.            *)
FannedOutOnce ==
  twice = 0 /\ fanned # 0 =>
    /\ pipe[Root].status # "waiting"
    /\ \A i \in Instances : ~Evaluating(run[i])

PipelineInv ==
  /\ PipeTypeOK
  /\ queue \subseteq JustifiedTasks
  /\ \A i \in Instances :
       run[i].task \in JustifiedTasks /\ run[i] \in SoundHandlers
  /\ AttemptsApart /\ EvaluatingIsCurrent /\ FannedOutOnce
  /\ \A p \in Pipes : p \in Allocated \/ pipe[p] = NoRecord
  /\ ran \ {Root} \subseteq Eligible
  /\ \A p \in Pipes : job[p].started > 0 => p \in Eligible
  /\ fanned # 0 => barrier.blocking \in Covering
  /\ pipe[Root].status = "done" => WholeEvaluation
=============================================================================
