--------------------------- MODULE PipelineProofs --------------------------
(***************************************************************************)
(* The safety properties of Pipeline, for any children, dependencies,      *)
(* instances, attempts, exceptions and faults.                             *)
(*                                                                         *)
(* What the proofs turn on: whatever waits or runs has its justification   *)
(* (JustifiedTasks, SoundHandlers), which later steps only make stronger   *)
(* (Grows); and, while no task was given to two instances, one handler at  *)
(* most goes on to evaluate the root (AttemptsApart, EvaluatesAlone), so   *)
(* that the root points to one evaluation once and for all.                *)
(***************************************************************************)
EXTENDS Pipeline, FiniteSetTheorems, TLAPS

-----------------------------------------------------------------------------
(* Pipelines, slots, tasks.                                                *)

LEMMA MaxGensType == MaxGens \in Nat /\ MaxGens >= 1 /\ NumChildren \in Children
  BY WorkflowAssumption DEF MaxGens, Children

LEMMA PipesAre ==
  /\ Root \in Pipes
  /\ \A g \in 1..MaxGens, c \in Children : <<g, c>> \in Pipes /\ <<g, c>> # Root
  /\ \A p \in Pipes \ {Root} :
       p[1] \in 1..MaxGens /\ p[2] \in Children /\ p = <<p[1], p[2]>>
BY MaxGensType DEF Pipes, Root, Children

LEMMA PipesAreFinite == IsFiniteSet(Pipes)
<1>1. IsFiniteSet(1..MaxGens) /\ IsFiniteSet(Children) /\ IsFiniteSet({Root})
  <2>1. MaxGens \in Nat /\ NumChildren \in Nat
    BY MaxGensType, WorkflowAssumption
  <2>2. \A n \in Nat : IsFiniteSet(1..n)
    BY FS_Interval
  <2> QED
    BY <2>1, <2>2, FS_Singleton DEF Children
<1>2. IsFiniteSet((1..MaxGens) \X Children)
  BY <1>1, FS_Product
<1> QED
  BY <1>1, <1>2, FS_Union DEF Pipes

LEMMA RootIndices == Root[1] = 0 /\ Root[2] = 0
  BY DEF Root

(* A child's output is its own, or the root's.                             *)
LEMMA OutputsAre ==
  /\ Output(Root) = Root
  /\ \A p \in Pipes : Output(p) \in Slots /\ Output(p) \in {p, Root}
  /\ \A s \in Slots : s \in Pipes
  /\ Root \in Slots
<1>1. \A p : Output(p) \in {p, Root}
  BY DEF Output
<1>2. Output(Root) = Root
  BY DEF Output
<1> QED
  BY <1>1, <1>2, PipesAre DEF Slots

LEMMA OutputsOf ==
  ASSUME NEW g \in 1..MaxGens
  PROVE  /\ Outputs(g) \subseteq Slots /\ Root \in Outputs(g)
         /\ \A s \in Outputs(g) : s = Root \/ s[1] = g
<1>1. \A c \in Children : Output(<<g, c>>) \in Slots
  BY PipesAre, OutputsAre
<1>2. \A c \in Children : Output(<<g, c>>) = Root \/ Output(<<g, c>>)[1] = g
  BY DEF Output
<1>3. Output(<<g, NumChildren>>) = Root
  BY DEF Output
<1> QED
  BY <1>1, <1>2, <1>3, MaxGensType DEF Outputs

(* What a child waits for is the output of an earlier child of the same    *)
(* evaluation, which is no other pipeline's.                               *)
LEMMA NeedsAre ==
  /\ \A deps : Needs(Root, deps) = {}
  /\ \A p \in Pipes \ {Root} : \A s \in Needs(p, After) :
       s \in Pipes \ {Root} /\ s[1] = p[1]
<1>1. \A deps : Needs(Root, deps) = {}
  BY DEF Needs
<1>2. ASSUME NEW p \in Pipes \ {Root}, NEW s \in Needs(p, After)
      PROVE  s \in Pipes \ {Root} /\ s[1] = p[1]
  <2>1. p[1] \in 1..MaxGens /\ p[2] \in Children
    BY PipesAre
  <2>2. PICK d \in After[p[2]] : s = Output(<<p[1], d>>)
    BY <1>2 DEF Needs
  <2>3. After[p[2]] \subseteq 1..(p[2] - 1)
    BY <2>1, WorkflowAssumption
  <2>4. d \in Children /\ d # NumChildren
    BY <2>1, <2>2, <2>3, WorkflowAssumption DEF Children
  <2>5. <<p[1], d>> # Root
    BY <2>1, <2>4, PipesAre
  <2>6. s = <<p[1], d>>
    BY <2>2, <2>4, <2>5 DEF Output
  <2> QED
    BY <2>1, <2>4, <2>5, <2>6, PipesAre
<1> QED
  BY <1>1, <1>2

LEMMA KindsAre ==
  /\ KindOf(Root) = "generator"
  /\ \A p \in Pipes \ {Root} : KindOf(p) \in {"sync", "async", "bare"}
BY PipesAre, WorkflowAssumption DEF KindOf

(* The constructors of tasks and handlers.                                 *)
LEMMA TasksAre ==
  /\ NoTask \in Tasks /\ NoTask.do = "none" /\ NoTask.of = Root
  /\ FanOut \in Tasks /\ FanOut.do = "fanout" /\ FanOut.of = Root
  /\ \A n \in Nat :
       FanOutAbort(n) \in Tasks /\ FanOutAbort(n).do = "stop"
  /\ \A p \in Pipes, n \in Nat :
       /\ Attempt(p, n) \in Tasks /\ Attempt(p, n).do = "evaluate"
       /\ Attempt(p, n).of = p /\ Attempt(p, n).why = "attempt" /\ Attempt(p, n).n = n
       /\ Abort(p, n) \in Tasks /\ Abort(p, n).do = "evaluate"
       /\ Abort(p, n).of = p /\ Abort(p, n).why = "abort"
       /\ Callback(p, n) \in Tasks /\ Callback(p, n).do = "callback"
       /\ Callback(p, n).of = p
       /\ Notify(p, n) \in Tasks /\ Notify(p, n).do = "notify" /\ Notify(p, n).of = p
       /\ Notify(p, n).n = n
  /\ \A p \in Pipes, why \in {"fanout", "start", "finalize"} :
       /\ Evaluate(p, why) \in Tasks /\ Evaluate(p, why).do = "evaluate"
       /\ Evaluate(p, why).of = p /\ Evaluate(p, why).why = why
BY PipesAre DEF NoTask, FanOut, FanOutAbort, Attempt, Abort, Callback, Notify,
  Evaluate, Task, Tasks

LEMMA RecordsAre ==
  /\ NoRecord \in Records /\ NewRecord \in Records
  /\ NewRecord.status = "waiting" /\ NoRecord.status = "waiting"
  /\ NewRecord.attempt = 0 /\ NoRecord.attempt = 0
BY DEF NoRecord, NewRecord, Record, Records

LEMMA HandlersAre ==
  /\ Barrier({}, FALSE) \in Barriers
  /\ Barrier({Root}, FALSE) \in Barriers /\ Barrier({Root}, FALSE).blocking = {Root}
  /\ Idle \in Handlers /\ Idle.at = "idle" /\ Idle.task = NoTask
  /\ \A t \in Tasks, at \in {"slots", "choose"}, rec \in Records, bar \in Barriers,
       found \in SUBSET (Pipes \X {"start", "finalize"}) :
       /\ Handler(t, at, rec, bar, found, 0) \in Handlers
       /\ Handler(t, at, rec, bar, found, 0).task = t
       /\ Handler(t, at, rec, bar, found, 0).at = at
       /\ Handler(t, at, rec, bar, found, 0).rec = rec
       /\ Handler(t, at, rec, bar, found, 0).bar = bar
       /\ Handler(t, at, rec, bar, found, 0).found = found
<1>1. /\ Barrier({}, FALSE) \in Barriers
      /\ Barrier({Root}, FALSE) \in Barriers /\ Barrier({Root}, FALSE).blocking = {Root}
  BY OutputsAre DEF Barrier, Barriers
<1>2. Idle \in Handlers /\ Idle.at = "idle" /\ Idle.task = NoTask
  BY <1>1, TasksAre, RecordsAre DEF Idle, Handler, Handlers
<1>3. ASSUME NEW t \in Tasks, NEW at \in {"slots", "choose"}, NEW rec \in Records,
             NEW bar \in Barriers, NEW found \in SUBSET (Pipes \X {"start", "finalize"})
      PROVE  /\ Handler(t, at, rec, bar, found, 0) \in Handlers
             /\ Handler(t, at, rec, bar, found, 0).task = t
             /\ Handler(t, at, rec, bar, found, 0).at = at
             /\ Handler(t, at, rec, bar, found, 0).rec = rec
             /\ Handler(t, at, rec, bar, found, 0).bar = bar
             /\ Handler(t, at, rec, bar, found, 0).found = found
  BY DEF Handler, Handlers
<1> QED
  BY <1>1, <1>2, <1>3

(* A record with another status.                                           *)
LEMMA NewStatus ==
  ASSUME NEW r \in Records, NEW status \in {"waiting", "run", "done", "aborted"}
  PROVE  /\ [r EXCEPT !.status = status] \in Records
         /\ [r EXCEPT !.status = status].status = status
         /\ [r EXCEPT !.status = status].attempt = r.attempt
BY DEF Records

(* A handler that goes on.                                                 *)
LEMMA NextAt ==
  ASSUME NEW h \in Handlers,
         NEW at \in {"slots", "fire", "tasks", "choose", "complete", "aborted",
                     "become run", "user", "mark", "job", "fan out"}
  PROVE  /\ [h EXCEPT !.at = at] \in Handlers
         /\ [h EXCEPT !.at = at].at = at
         /\ [h EXCEPT !.at = at].task = h.task
         /\ [h EXCEPT !.at = at].rec = h.rec
         /\ [h EXCEPT !.at = at].bar = h.bar
         /\ [h EXCEPT !.at = at].found = h.found
BY DEF Handlers

LEMMA NextAtN ==
  ASSUME NEW h \in Handlers, NEW at \in {"job", "fan out"}, NEW n \in Nat
  PROVE  /\ [h EXCEPT !.at = at, !.n = n] \in Handlers
         /\ [h EXCEPT !.at = at, !.n = n].at = at
         /\ [h EXCEPT !.at = at, !.n = n].n = n
         /\ [h EXCEPT !.at = at, !.n = n].task = h.task
         /\ [h EXCEPT !.at = at, !.n = n].rec = h.rec
BY DEF Handlers

(* The parts of a handler and a task.                                      *)
LEMMA PartsAre ==
  /\ \A t \in Tasks :
       /\ t.of \in Pipes /\ t.n \in Nat
       /\ t.do \in {"none", "evaluate", "notify", "fanout", "stop", "callback"}
       /\ t.why \in {"", "attempt", "fanout", "start", "finalize", "abort"}
  /\ \A h \in Handlers :
       /\ h.task \in Tasks /\ h.rec \in Records /\ h.bar \in Barriers /\ h.n \in Nat
       /\ h.found \subseteq Pipes \X {"start", "finalize"}
       /\ h.at \in {"idle", "slots", "fire", "tasks", "choose", "complete",
                   "aborted", "become run", "user", "mark", "job", "fan out"}
  /\ \A r \in Records :
       r.status \in {"waiting", "run", "done", "aborted"} /\ r.attempt \in Nat
  /\ \A b \in Barriers : b.blocking \subseteq Slots /\ b.fired \in BOOLEAN
<1>1. \A t \in Tasks :
       /\ t.of \in Pipes /\ t.n \in Nat
       /\ t.do \in {"none", "evaluate", "notify", "fanout", "stop", "callback"}
       /\ t.why \in {"", "attempt", "fanout", "start", "finalize", "abort"}
  BY DEF Tasks
<1>2. \A h \in Handlers :
       /\ h.task \in Tasks /\ h.rec \in Records /\ h.bar \in Barriers /\ h.n \in Nat
       /\ h.found \subseteq Pipes \X {"start", "finalize"}
       /\ h.at \in {"idle", "slots", "fire", "tasks", "choose", "complete",
                   "aborted", "become run", "user", "mark", "job", "fan out"}
  BY DEF Handlers
<1> QED
  BY <1>1, <1>2 DEF Records, Barriers

LEMMA SameTask ==
  ASSUME NEW t \in Tasks, NEW u \in Tasks, t.do = u.do, t.of = u.of,
         t.why = u.why, t.n = u.n
  PROVE  t = u
<1>1. ASSUME NEW D, NEW P, NEW W, NEW N, NEW v \in [do : D, of : P, why : W, n : N]
      PROVE  v = [do |-> v.do, of |-> v.of, why |-> v.why, n |-> v.n]
  OBVIOUS
<1>2. /\ t = [do |-> t.do, of |-> t.of, why |-> t.why, n |-> t.n]
      /\ u = [do |-> u.do, of |-> u.of, why |-> u.why, n |-> u.n]
  BY <1>1 DEF Tasks
<1> QED
  BY <1>2

(* There is always a free number for a notification.                       *)
LEMMA ImageIsFinite ==
  ASSUME NEW S, IsFiniteSet(S), NEW f, DOMAIN f = S
  PROVE  LET T == {f[x] : x \in S}
         IN  IsFiniteSet(T) /\ Cardinality(T) <= Cardinality(S)
<1> DEFINE T == {f[x] : x \in S}
           F == [x \in S |-> f[x]]
<1>1. F \in Surjection(S, T)
  BY DEF Surjection
<1> HIDE DEF F, T
<1>2. IsFiniteSet(T) /\ Cardinality(T) <= Cardinality(S)
  BY <1>1, FS_Surjection
<1> QED
  BY <1>2 DEF T

LEMMA NewNotifyIs ==
  ASSUME PipeTypeOK, NEW s \in Pipes
  PROVE  \E n \in Nat : NewNotify(s) = Notify(s, n)
<1> DEFINE K == Cardinality(queue) + Cardinality(Instances) + 1
           Free == {n \in 1..K : /\ Notify(s, n) \notin queue
                                 /\ \A i \in Instances : run[i].task # Notify(s, n)}
           held == [i \in Instances |-> run[i].task]
           Held == {held[i] : i \in Instances}
           InUse == queue \union Held
           number == [n \in 1..K |-> Notify(s, n)]
<1>1. IsFiniteSet(queue) /\ Cardinality(queue) \in Nat
  BY FS_CardinalityType DEF PipeTypeOK
<1>2. IsFiniteSet(Instances) /\ Cardinality(Instances) \in Nat
  BY InstancesAssumption, FS_CardinalityType
<1>3. IsFiniteSet(Held) /\ Cardinality(Held) <= Cardinality(Instances)
  <2> HIDE DEF held
  <2>1. DOMAIN held = Instances
    BY DEF held
  <2> QED
    BY <1>2, <2>1, ImageIsFinite
<1>4. IsFiniteSet(InUse) /\ Cardinality(InUse) < K
  <2> HIDE DEF Held
  <2>1. IsFiniteSet(queue \cap Held)
    BY <1>1, FS_Intersection
  <2>2. Cardinality(queue \cap Held) \in Nat /\ Cardinality(Held) \in Nat
    BY <1>3, <2>1, FS_CardinalityType
  <2>3. /\ IsFiniteSet(InUse)
        /\ Cardinality(InUse) =
             Cardinality(queue) + Cardinality(Held) - Cardinality(queue \cap Held)
    BY <1>1, <1>3, FS_Union
  <2> QED
    BY <1>1, <1>2, <1>3, <2>2, <2>3
<1>5. IsFiniteSet(1..K) /\ Cardinality(1..K) = K
  <2>1. K \in Nat /\ K >= 1
    BY <1>1, <1>2
  <2> HIDE DEF K
  <2> QED
    BY <2>1, FS_Interval
<1>6. Free # {}
  <2>1. SUFFICES ASSUME Free = {} PROVE FALSE
    OBVIOUS
  <2>2. \A n \in 1..K : Notify(s, n) \in InUse
    BY <2>1
  <2>3. number \in [1..K -> InUse]
    BY <2>2
  <2> HIDE DEF InUse, K, number
  <2>4. PICK x, y \in 1..K : x # y /\ number[x] = number[y]
    BY <1>4, <1>5, <2>3, FS_PigeonHole
  <2>5. Notify(s, x) = Notify(s, y)
    BY <2>4 DEF number
  <2>6. Notify(s, x).n = x /\ Notify(s, y).n = y
    BY DEF Notify, Task
  <2> QED
    BY <2>4, <2>5, <2>6
<1>7. NewNotify(s) = Notify(s, CHOOSE n \in Free : TRUE)
  BY DEF NewNotify
<1>8. Free \subseteq Nat
  BY <1>1, <1>2
<1> HIDE DEF Free
<1>9. (CHOOSE n \in Free : TRUE) \in Free
  BY <1>6
<1> QED
  BY <1>7, <1>8, <1>9

-----------------------------------------------------------------------------
(* What was justified stays justified.                                     *)

(* Every step keeps what the root points to, unless a task is given out    *)
(* twice, the filled slots of the evaluations made, and the jobs.          *)
Grows ==
  /\ gens <= gens'
  /\ twice' = 0 => twice = 0
  /\ fanned # 0 => fanned' # 0
  /\ fanned # 0 /\ twice' = 0 => fanned' = fanned
  /\ \A s \in Slots : slot[s] = "filled" /\ s \in Allocated => slot'[s] = "filled"
  /\ pipe[Root].attempt <= pipe'[Root].attempt
  /\ \A p \in Pipes : job[p].started <= job'[p].started

(* The types that are used most.                                           *)
LEMMA TypeFacts ==
  ASSUME PipeTypeOK
  PROVE  /\ gens \in Nat /\ fanned \in Nat /\ twice \in Nat
         /\ gens <= MaxGens /\ fanned <= gens
         /\ \A p \in Pipes : job[p].started \in Nat
         /\ \A p \in Pipes : pipe[p] \in Records
         /\ \A i \in Instances : run[i] \in Handlers
         /\ barrier \in Barriers
         /\ queue \subseteq Tasks /\ IsFiniteSet(queue)
BY MaxGensType DEF PipeTypeOK

LEMMA StableSets ==
  ASSUME PipelineInv, PipeTypeOK', Grows
  PROVE  /\ Eligible \subseteq Eligible' /\ Allocated \subseteq Allocated'
         /\ Covering \subseteq Covering' /\ Finalizable \subseteq Finalizable'
         /\ WholeEvaluation => WholeEvaluation'
<1>1. /\ gens \in Nat /\ gens' \in Nat /\ fanned \in Nat /\ fanned' \in Nat
      /\ twice \in Nat /\ twice' \in Nat /\ gens <= MaxGens
  BY MaxGensType DEF PipelineInv, PipeTypeOK
<1>2. Eligible \subseteq Eligible'
  BY <1>1 DEF Eligible, Pointed, Grows
<1>3. Allocated \subseteq Allocated'
  BY <1>1, PipesAre DEF Allocated, Grows
<1>4. Current \subseteq Current'
  BY <1>1 DEF Current, Grows
<1>5. Covering \subseteq Covering'
  BY <1>4 DEF Covering
<1>6. ASSUME WholeEvaluation PROVE WholeEvaluation'
  <2>1. PICK g \in Current : \A s \in Outputs(g) : slot[s] = "filled"
    BY <1>6 DEF WholeEvaluation
  <2>2. g \in 1..gens /\ g \in 1..MaxGens
    BY <1>1, MaxGensType DEF Current
  <2>3. \A s \in Outputs(g) : s \in Slots /\ s \in Allocated
    BY <1>1, <2>2, OutputsOf, OutputsAre DEF Allocated
  <2>4. \A s \in Outputs(g) : slot'[s] = "filled"
    BY <2>1, <2>3 DEF Grows
  <2> QED
    BY <1>4, <2>1, <2>4 DEF WholeEvaluation
<1>7. ASSUME NEW p \in Finalizable PROVE p \in Finalizable'
  <2>1. p \in Pipes /\ p \in Allocated
    BY DEF Finalizable, Allocated
  <2>2. Output(p) \in Slots /\ Output(p) \in Allocated
    BY <2>1, OutputsAre, PipesAre DEF Allocated
  <2> QED
    BY <1>3, <1>6, <2>1, <2>2 DEF Finalizable, Grows
<1> QED
  BY <1>2, <1>3, <1>5, <1>6, <1>7

LEMMA JustifiedStays ==
  ASSUME PipelineInv, PipeTypeOK', Grows
  PROVE  JustifiedTasks \subseteq JustifiedTasks'
<1>1. pipe[Root].attempt \in Nat /\ pipe'[Root].attempt \in Nat
  <2>1. pipe[Root] \in Records /\ pipe'[Root] \in Records
    BY PipesAre DEF PipelineInv, PipeTypeOK
  <2> QED
    BY <2>1, PartsAre
<1>2. ASSUME NEW t \in JustifiedTasks PROVE t \in JustifiedTasks'
  <2>1. t \in Tasks /\ t.n \in Nat
    BY PartsAre DEF JustifiedTasks
  <2>2. t.do = "evaluate" /\ t.why = "attempt" /\ t.of = Root =>
          t.n <= pipe'[Root].attempt
    <3>1. t.do = "evaluate" /\ t.why = "attempt" /\ t.of = Root =>
            t.n <= pipe[Root].attempt
      BY DEF JustifiedTasks
    <3>2. pipe[Root].attempt <= pipe'[Root].attempt
      BY DEF Grows
    <3> QED
      BY <1>1, <2>1, <3>1, <3>2
  <2> QED
    BY <2>1, <2>2, StableSets DEF JustifiedTasks, Grows
<1> QED
  BY <1>2

LEMMA SoundStays ==
  ASSUME PipelineInv, PipeTypeOK', Grows
  PROVE  SoundHandlers \subseteq SoundHandlers'
<1> SUFFICES ASSUME NEW h \in SoundHandlers PROVE h \in SoundHandlers'
  OBVIOUS
<1>1. h \in Handlers /\ h.task \in Tasks /\ h.task.of \in Pipes /\ h.n \in Nat
  BY PartsAre DEF SoundHandlers
<1>2. h.at = "fan out" => h.n \in 1..gens'
  <2>1. gens \in Nat /\ gens' \in Nat
    BY MaxGensType DEF PipelineInv, PipeTypeOK
  <2>2. gens <= gens'
    BY DEF Grows
  <2>3. ASSUME h.at = "fan out" PROVE h.n \in 1..gens'
    <3>1. h.n \in 1..gens
      BY <2>3 DEF SoundHandlers
    <3> QED
      BY <2>1, <2>2, <3>1
  <2> QED
    BY <2>3
<1>3. h.at = "job" => h.n \in 1..job'[h.task.of].started
  <2> DEFINE before == job[h.task.of].started
             after == job'[h.task.of].started
  <2>1. before \in Nat /\ after \in Nat
    BY <1>1 DEF PipelineInv, PipeTypeOK
  <2>2. h.at = "job" => h.n \in 1..before
    BY DEF SoundHandlers
  <2>3. before <= after
    BY <1>1 DEF Grows
  <2> HIDE DEF before
  <2>4. h.at = "job" => h.n \in 1..after
    <3> HIDE DEF after
    <3> QED
      BY <1>1, <2>1, <2>2, <2>3
  <2> QED
    BY <2>4
<1> QED
  BY <1>1, <1>2, <1>3, StableSets DEF SoundHandlers

(* The parts of the invariant about tasks and handlers.                    *)
HandlingInv ==
  /\ queue \subseteq JustifiedTasks
  /\ \A i \in Instances :
       run[i].task \in JustifiedTasks /\ run[i] \in SoundHandlers
  /\ AttemptsApart /\ EvaluatingIsCurrent /\ FannedOutOnce

(* What steps have in common that neither retry the root nor let it point  *)
(* to an evaluation.                                                       *)
RootStays ==
  /\ pipe'[Root].attempt = pipe[Root].attempt
  /\ pipe'[Root].status = "waiting" => pipe[Root].status = "waiting"
  /\ fanned' = fanned

(* A step without a handler.                                               *)
LEMMA ServeKeeps ==
  ASSUME PipelineInv, PipeTypeOK', Grows, RootStays, run' = run,
         NEW added \in SUBSET Tasks, queue' \subseteq queue \union added,
         \A t \in added : t \in JustifiedTasks' /\ ~RootAttempt(t)
  PROVE  HandlingInv'
<1>1. queue' \subseteq JustifiedTasks'
  BY JustifiedStays DEF PipelineInv
<1>2. \A i \in Instances :
        run'[i].task \in JustifiedTasks' /\ run'[i] \in SoundHandlers'
  BY JustifiedStays, SoundStays DEF PipelineInv
<1>3. AttemptsApart'
  BY DEF PipelineInv, AttemptsApart, Grows, RootAttempt
<1>4. EvaluatingIsCurrent'
  BY DEF PipelineInv, EvaluatingIsCurrent, Grows, RootStays, Evaluating,
         RootAttempt
<1>5. FannedOutOnce'
  BY DEF PipelineInv, FannedOutOnce, Grows, RootStays, Evaluating, RootAttempt
<1> QED
  BY <1>1, <1>2, <1>3, <1>4, <1>5 DEF HandlingInv

(* No instance runs one of these attempts of the root.                     *)
Unheld(tasks) ==
  \A t \in tasks, j \in Instances : RootAttempt(t) => run[j].task # t

(* A step of a handler, perhaps its last one.                              *)
LEMMA StepIsApart ==
  ASSUME PipelineInv, PipeTypeOK', Grows,
         NEW i \in Instances, NEW h \in Handlers, run' = [run EXCEPT ![i] = h],
         NEW added \in SUBSET Tasks,
         \/ h.task = run[i].task /\ queue' \subseteq queue \union added
         \/ h = Idle /\ queue' \subseteq queue \union added \union {run[i].task},
         \A t \in added : t \in JustifiedTasks',
         Unheld(added),
         h \in SoundHandlers', Evaluating(h) => Evaluating(run[i])
  PROVE  /\ queue' \subseteq JustifiedTasks'
         /\ \A j \in Instances :
              run'[j].task \in JustifiedTasks' /\ run'[j] \in SoundHandlers'
         /\ AttemptsApart'
         /\ \A j \in Instances : Evaluating(run'[j]) =>
              /\ Evaluating(run[j]) /\ run'[j].task = run[j].task
              /\ j = i => h.task = run[i].task /\ Evaluating(h)
<1>1. \A j \in Instances : run'[j] = IF j = i THEN h ELSE run[j]
  BY DEF PipelineInv, PipeTypeOK
<1>2. \A j \in Instances : run[j].task \in JustifiedTasks'
  BY JustifiedStays DEF PipelineInv
<1>3. ~RootAttempt(Idle.task) /\ Idle.task \in JustifiedTasks'
  BY HandlersAre, TasksAre DEF RootAttempt, JustifiedTasks
<1>4. queue' \subseteq JustifiedTasks'
  BY <1>2, JustifiedStays DEF PipelineInv
<1>5. \A j \in Instances :
        run'[j].task \in JustifiedTasks' /\ run'[j] \in SoundHandlers'
  BY <1>1, <1>2, <1>3, SoundStays DEF PipelineInv
<1>6. AttemptsApart'
  <2>1. SUFFICES ASSUME twice = 0, NEW j \in Instances, RootAttempt(run'[j].task)
                 PROVE  /\ run'[j].task \notin queue'
                        /\ \A k \in Instances \ {j} : run'[k].task # run'[j].task
    BY DEF AttemptsApart, Grows, RootAttempt
  <2>2. j # i \/ h.task = run[i].task
    BY <1>1, <1>3, <2>1
  <2>3. run'[j].task = run[j].task /\ RootAttempt(run[j].task)
    BY <1>1, <2>1, <2>2
  <2>4. /\ run[j].task \notin queue
        /\ \A k \in Instances \ {j} : run[k].task # run[j].task
    BY <2>1, <2>3 DEF PipelineInv, AttemptsApart
  <2>5. run[j].task \notin queue'
    BY <1>1, <1>3, <2>1, <2>3, <2>4 DEF Unheld
  <2>6. \A k \in Instances \ {j} : run'[k].task # run[j].task
    BY <1>1, <1>3, <2>3, <2>4
  <2> QED
    BY <2>3, <2>5, <2>6
<1>7. \A j \in Instances : Evaluating(run'[j]) =>
        /\ Evaluating(run[j]) /\ run'[j].task = run[j].task
        /\ j = i => h.task = run[i].task /\ Evaluating(h)
  BY <1>1, <1>3 DEF Evaluating
<1> QED
  BY <1>4, <1>5, <1>6, <1>7

LEMMA StepKeeps ==
  ASSUME PipelineInv, PipeTypeOK', Grows, RootStays,
         NEW i \in Instances, NEW h \in Handlers, run' = [run EXCEPT ![i] = h],
         NEW added \in SUBSET Tasks,
         \/ h.task = run[i].task /\ queue' \subseteq queue \union added
         \/ h = Idle /\ queue' \subseteq queue \union added \union {run[i].task},
         \A t \in added : t \in JustifiedTasks' /\ ~RootAttempt(t),
         h \in SoundHandlers', Evaluating(h) => Evaluating(run[i])
  PROVE  HandlingInv'
<1>1. /\ queue' \subseteq JustifiedTasks'
      /\ \A j \in Instances :
           run'[j].task \in JustifiedTasks' /\ run'[j] \in SoundHandlers'
      /\ AttemptsApart'
      /\ \A j \in Instances : Evaluating(run'[j]) =>
           Evaluating(run[j]) /\ run'[j].task = run[j].task
  <2>1. Unheld(added)
    BY DEF Unheld
  <2> QED
    BY <2>1, StepIsApart
<1>2. EvaluatingIsCurrent'
  BY ZenonT(30), <1>1 DEF PipelineInv, EvaluatingIsCurrent, Grows, RootStays, Evaluating,
         RootAttempt
<1>3. FannedOutOnce'
  BY <1>1 DEF PipelineInv, FannedOutOnce, Grows, RootStays, Evaluating,
         RootAttempt
<1> QED
  BY <1>1, <1>2, <1>3 DEF HandlingInv

LEMMA QuietStepKeeps ==
  ASSUME PipelineInv, PipeTypeOK', Grows, RootStays,
         NEW i \in Instances, NEW h \in Handlers, run' = [run EXCEPT ![i] = h],
         \/ h.task = run[i].task /\ queue' \subseteq queue
         \/ h = Idle /\ queue' \subseteq queue \union {run[i].task},
         h \in SoundHandlers', Evaluating(h) => Evaluating(run[i])
  PROVE  HandlingInv'
<1> DEFINE none == {}
<1>1. /\ none \in SUBSET Tasks
      /\ \A t \in none : t \in JustifiedTasks' /\ ~RootAttempt(t)
      /\ \/ h.task = run[i].task /\ queue' \subseteq queue \union none
         \/ h = Idle /\ queue' \subseteq queue \union none \union {run[i].task}
  OBVIOUS
<1> HIDE DEF none
<1> QED
  BY <1>1, StepKeeps

(* The delivery of a task, perhaps an attempt of the root.                 *)
LEMMA DeliverKeeps ==
  ASSUME PipelineInv, PipeTypeOK', Grows, RootStays,
         NEW i \in Instances, NEW t \in queue, NEW h \in Handlers, h.task = t,
         run' = [run EXCEPT ![i] = h], queue' \subseteq queue,
         twice' = 0 => t \notin queue',
         h \in SoundHandlers',
         Evaluating(h) => t.n = pipe[Root].attempt /\ pipe[Root].status = "waiting",
         pipe' = pipe
  PROVE  HandlingInv'
<1>1. \A j \in Instances : run'[j] = IF j = i THEN h ELSE run[j]
  BY DEF PipelineInv, PipeTypeOK
<1>2. t \in JustifiedTasks' /\ queue' \subseteq JustifiedTasks'
  BY JustifiedStays DEF PipelineInv
<1>3. \A j \in Instances :
        run'[j].task \in JustifiedTasks' /\ run'[j] \in SoundHandlers'
  BY <1>1, <1>2, JustifiedStays, SoundStays DEF PipelineInv
<1>4. AttemptsApart'
  <2>1. SUFFICES ASSUME twice' = 0, twice = 0, NEW j \in Instances,
                        RootAttempt(run'[j].task)
                 PROVE  /\ run'[j].task \notin queue'
                        /\ \A k \in Instances \ {j} : run'[k].task # run'[j].task
    BY DEF AttemptsApart, Grows, RootAttempt
  <2>2. \A k \in Instances : RootAttempt(run[k].task) =>
          /\ run[k].task \notin queue
          /\ \A l \in Instances \ {k} : run[l].task # run[k].task
    BY <2>1 DEF PipelineInv, AttemptsApart
  <2> QED
    BY <1>1, <2>1, <2>2
<1>5. EvaluatingIsCurrent'
  <2>1. SUFFICES ASSUME twice = 0, NEW j \in Instances, Evaluating(run'[j])
                 PROVE  run'[j].task.n = pipe'[Root].attempt
    BY DEF EvaluatingIsCurrent, Grows, Evaluating, RootAttempt
  <2> QED
    BY <1>1, <2>1 DEF PipelineInv, EvaluatingIsCurrent
<1>6. FannedOutOnce'
  <2>1. SUFFICES ASSUME twice = 0, fanned # 0
                 PROVE  /\ pipe'[Root].status # "waiting"
                        /\ \A j \in Instances : ~Evaluating(run'[j])
    BY DEF FannedOutOnce, Grows, RootStays, Evaluating, RootAttempt
  <2> QED
    BY <1>1, <2>1 DEF PipelineInv, FannedOutOnce
<1> QED
  BY <1>2, <1>3, <1>4, <1>5, <1>6 DEF HandlingInv

LEMMA IdleIsSound ==
  Idle \in Handlers /\ Idle \in SoundHandlers' /\ ~Evaluating(Idle)
BY HandlersAre, TasksAre DEF SoundHandlers, Querying, Working, Evaluating, RootAttempt

(* The other parts.                                                        *)
LEMMA RestKeeps ==
  ASSUME PipelineInv, PipeTypeOK', Grows, HandlingInv',
         \A p \in Pipes : pipe'[p] = pipe[p] \/ p \in Allocated',
         ran' \ ran \subseteq Eligible' \union {Root},
         \A p \in Pipes : job'[p].started = job[p].started \/ p \in Eligible',
         \/ fanned' = fanned /\ barrier' = barrier
         \/ fanned' = 0 \/ barrier'.blocking \in Covering',
         pipe'[Root].status = "done" => pipe[Root].status = "done" \/ WholeEvaluation'
  PROVE  PipelineInv'
<1>1. \A p \in Pipes : p \in Allocated' \/ pipe'[p] = NoRecord
  BY StableSets DEF PipelineInv
<1>2. ran' \ {Root} \subseteq Eligible'
  BY StableSets DEF PipelineInv
<1>3. \A p \in Pipes : job'[p].started > 0 => p \in Eligible'
  BY StableSets DEF PipelineInv
<1>4. fanned' # 0 => barrier'.blocking \in Covering'
  BY StableSets DEF PipelineInv
<1>5. pipe'[Root].status = "done" => WholeEvaluation'
  BY StableSets DEF PipelineInv
<1> QED
  BY <1>1, <1>2, <1>3, <1>4, <1>5 DEF PipelineInv, HandlingInv

(* The effects that actions share.                                         *)
LEMMA FinishIs ==
  ASSUME PipeTypeOK, NEW i \in Instances,
         NEW added \in SUBSET Tasks, IsFiniteSet(added), Finish(i, added)
  PROVE  /\ run' = [run EXCEPT ![i] = Idle] /\ run' \in [Instances -> Handlers]
         /\ queue' \subseteq queue \union added \union {run[i].task}
         /\ queue' \subseteq Tasks /\ IsFiniteSet(queue')
         /\ crashes' \in Nat
<1>1. run[i] \in Handlers /\ run[i].task \in Tasks
  BY PartsAre DEF PipeTypeOK
<1>2. IsFiniteSet(queue \union added)
  BY FS_Union DEF PipeTypeOK
<1>3. IsFiniteSet(queue \union added \union {run[i].task})
  BY <1>2, FS_AddElement
<1>4. /\ queue \subseteq Tasks /\ IsFiniteSet(queue) /\ crashes \in Nat
      /\ run \in [Instances -> Handlers]
  BY DEF PipeTypeOK
<1>5. /\ run' = [run EXCEPT ![i] = Idle]
      /\ \/ queue' = queue \union added /\ crashes' = crashes
         \/ queue' = queue \union added \union {run[i].task} /\ crashes' = crashes + 1
  BY DEF Finish
<1>6. run' \in [Instances -> Handlers]
  BY <1>4, <1>5, HandlersAre
<1>7. crashes' \in Nat
  BY <1>4, <1>5
<1> QED
  BY <1>1, <1>2, <1>3, <1>4, <1>5, <1>6, <1>7

LEMMA ServeIs ==
  ASSUME PipeTypeOK, NEW t \in queue,
         NEW added \in SUBSET Tasks, IsFiniteSet(added), Serve(t, added)
  PROVE  /\ queue' \subseteq queue \union added
         /\ queue' \subseteq Tasks /\ IsFiniteSet(queue')
         /\ crashes' \in Nat
<1>1. IsFiniteSet(queue \union added) /\ IsFiniteSet((queue \ {t}) \union added)
  BY FS_Union, FS_RemoveElement DEF PipeTypeOK
<1>2. queue \subseteq Tasks /\ crashes \in Nat
  BY DEF PipeTypeOK
<1>3. \/ queue' = (queue \ {t}) \union added /\ crashes' = crashes
      \/ queue' = queue \union added /\ crashes' = crashes + 1
  BY DEF Serve
<1>4. crashes' \in Nat
  BY <1>2, <1>3
<1> QED
  BY <1>1, <1>2, <1>3, <1>4

LEMMA GotoIs ==
  ASSUME PipeTypeOK, NEW i \in Instances,
         NEW at \in {"slots", "fire", "tasks", "choose", "complete", "aborted",
                     "become run", "user", "mark", "job", "fan out"},
         Goto(i, at)
  PROVE  /\ run' = [run EXCEPT ![i] = [run[i] EXCEPT !.at = at]]
         /\ [run[i] EXCEPT !.at = at] \in Handlers
         /\ run' \in [Instances -> Handlers]
<1>1. run' = [run EXCEPT ![i] = [run[i] EXCEPT !.at = at]]
  BY DEF Goto
<1>2. run[i] \in Handlers
  BY DEF PipeTypeOK
<1>3. [run[i] EXCEPT !.at = at] \in Handlers
  BY <1>2, NextAt
<1> QED
  BY <1>1, <1>3 DEF PipeTypeOK

LEMMA DeliverIs ==
  ASSUME PipeTypeOK, NEW i \in Instances, NEW t \in queue, NEW h \in Handlers,
         Deliver(i, t, h)
  PROVE  /\ run[i] = Idle /\ run' = [run EXCEPT ![i] = h]
         /\ run' \in [Instances -> Handlers]
         /\ queue' \subseteq queue /\ IsFiniteSet(queue')
         /\ twice' \in Nat
         /\ twice' = 0 => twice = 0 /\ t \notin queue'
<1>1. IsFiniteSet(queue \ {t}) /\ IsFiniteSet(queue)
  BY FS_RemoveElement DEF PipeTypeOK
<1>2. twice \in Nat
  BY DEF PipeTypeOK
<1>3. /\ run[i] = Idle /\ run' = [run EXCEPT ![i] = h]
      /\ \/ queue' = queue \ {t} /\ twice' = twice
         \/ queue' = queue /\ twice' = twice + 1
  BY DEF Deliver
<1>4. run' \in [Instances -> Handlers]
  BY <1>3 DEF PipeTypeOK
<1>5. twice' \in Nat /\ (twice' = 0 => twice = 0 /\ queue' = queue \ {t})
  BY <1>2, <1>3
<1> QED
  BY <1>1, <1>3, <1>4, <1>5

(* Each instance has a handler, in a state that the invariant describes.   *)
LEMMA HandlerFacts ==
  ASSUME PipelineInv, NEW i \in Instances
  PROVE  /\ run[i] \in Handlers /\ run[i] \in SoundHandlers
         /\ run[i].task \in Tasks /\ run[i].task \in JustifiedTasks
         /\ run[i].task.of \in Pipes /\ run[i].task.n \in Nat
         /\ run[i].rec \in Records /\ run[i].bar \in Barriers /\ run[i].n \in Nat
         /\ run[i].found \subseteq Pipes \X {"start", "finalize"}
BY PartsAre DEF PipelineInv, PipeTypeOK

(* A handler of a child at work has an eligible child.                     *)
LEMMA WorkIsEligible ==
  ASSUME PipelineInv, NEW i \in Instances, run[i].at \in Working
  PROVE  /\ run[i].task.do = "evaluate" /\ run[i].task.of \in Allocated
         /\ run[i].task.of # Root => run[i].task.of \in Eligible
         /\ run[i].task.of = Root =>
              /\ run[i].at \in {"user", "fan out"} /\ Evaluating(run[i])
<1>1. run[i] \in SoundHandlers /\ run[i].task \in JustifiedTasks
  BY HandlerFacts
<1>2. run[i].task.do = "evaluate" /\ run[i].task.why \in {"attempt", "fanout", "start"}
  BY <1>1 DEF SoundHandlers
<1>3. run[i].task.of \in Allocated
  BY <1>1, <1>2 DEF JustifiedTasks
<1>4. run[i].task.of # Root => run[i].task.of \in Eligible
  BY <1>1, <1>2 DEF JustifiedTasks
<1>5. run[i].task.of = Root => run[i].task.why = "attempt"
  BY <1>1, <1>2 DEF JustifiedTasks, Eligible
<1> QED
  BY <1>1, <1>2, <1>3, <1>4, <1>5 DEF SoundHandlers, Evaluating, RootAttempt

LEMMA RootInPipes == pipe \in [Pipes -> Records] => pipe[Root].attempt \in Nat
BY PipesAre, PartsAre

(* A step that leaves most alone: slots only become filled.                *)
LEMMA GrowsIf ==
  ASSUME PipelineInv, PipeTypeOK', fanned' = fanned,
         gens' = gens, twice' = 0 => twice = 0,
         \A s \in Slots : slot[s] = "filled" => slot'[s] = "filled",
         pipe'[Root].attempt = pipe[Root].attempt,
         \A p \in Pipes : job'[p].started = job[p].started
  PROVE  Grows
<1>1. gens \in Nat /\ pipe[Root].attempt \in Nat
  BY RootInPipes, TypeFacts DEF PipelineInv, PipeTypeOK
<1>2. \A p \in Pipes : job[p].started \in Nat
  BY TypeFacts DEF PipelineInv
<1> QED
  BY <1>1, <1>2 DEF Grows

-----------------------------------------------------------------------------
(* Crashes, and notifications of barriers.                                 *)

LEMMA CrashKeeps ==
  ASSUME PipelineInv, NEW i \in Instances, Crash(i)
  PROVE  PipelineInv'
<1>1. /\ run' = [run EXCEPT ![i] = Idle] /\ queue' = queue \union {run[i].task}
      /\ crashes' = crashes + 1
      /\ UNCHANGED <<records, names, ran, report, gens, stops, raises, twice>>
  BY DEF Crash
<1>2. IsFiniteSet(queue') /\ queue' \subseteq Tasks
  <2>1. IsFiniteSet(queue) /\ queue \subseteq Tasks /\ run[i].task \in Tasks
    BY HandlerFacts, TypeFacts DEF PipelineInv
  <2> QED
    BY <1>1, <2>1, FS_AddElement
<1>3. PipeTypeOK'
  BY <1>1, <1>2, HandlersAre DEF PipelineInv, PipeTypeOK, records
<1>4. Grows /\ RootStays
  BY <1>1, <1>3, GrowsIf DEF records, RootStays
<1>5. HandlingInv'
  BY <1>1, <1>3, <1>4, IdleIsSound, QuietStepKeeps
<1> QED
  BY <1>1, <1>3, <1>4, <1>5, RestKeeps DEF records

LEMMA NotifySlotsKeeps ==
  ASSUME PipelineInv, NEW i \in Instances, NotifySlots(i)
  PROVE  PipelineInv'
<1> DEFINE ready == {b \in run[i].found : AllReady(b[1], b[2], run[i].bar)}
           h == [run[i] EXCEPT !.at = "fire", !.found = ready]
<1>1. /\ run[i].at = "slots" /\ run' = [run EXCEPT ![i] = h]
      /\ UNCHANGED <<records, queue, names, ran, report, gens, stops, raises,
                     crashes, twice>>
  BY DEF NotifySlots
<1>2. /\ run[i] \in Handlers /\ run[i] \in SoundHandlers
      /\ ready \subseteq run[i].found /\ ready \subseteq Pipes \X {"start", "finalize"}
  BY HandlerFacts
<1>3. /\ h \in Handlers /\ h.at = "fire" /\ h.found = ready
      /\ h.task = run[i].task /\ h.bar = run[i].bar
  BY <1>2 DEF Handlers
<1>4. PipeTypeOK'
  BY <1>1, <1>3 DEF PipelineInv, PipeTypeOK, records
<1>5. Grows /\ RootStays
  BY <1>1, <1>4, GrowsIf DEF records, RootStays
<1>6. h \in SoundHandlers
  <2>1. /\ run[i].task.do = "notify" /\ run[i].bar.blocking \in Covering
        /\ \A b \in run[i].found :
             b[1] \in Allocated /\ (b[2] = "start" => b[1] \in Eligible)
    BY <1>1, <1>2 DEF SoundHandlers, Querying
  <2>2. ASSUME NEW b \in ready, b[2] = "finalize" PROVE b[1] \in Finalizable
    <3>1. b[1] \in Allocated /\ b[1] \in Pipes
      BY <1>2, <2>1
    <3>2. \A s \in Blocking(b[1], "finalize", run[i].bar) : slot[s] = "filled"
      BY <2>2 DEF AllReady
    <3>3. CASE b[1] = Root
      <4>1. \A s \in run[i].bar.blocking : slot[s] = "filled"
        BY <3>2, <3>3 DEF Blocking
      <4>2. PICK g \in Current : Outputs(g) \subseteq run[i].bar.blocking
        BY <2>1 DEF Covering
      <4>3. g \in 1..MaxGens
        BY <4>2, TypeFacts, MaxGensType DEF Current, PipelineInv
      <4>4. Root \in Outputs(g)
        BY <4>3, OutputsOf
      <4> QED
        BY <3>1, <3>3, <4>1, <4>2, <4>4, OutputsAre DEF Finalizable, WholeEvaluation
    <3>4. CASE b[1] # Root
      <4>1. slot[Output(b[1])] = "filled"
        BY <3>2, <3>4 DEF Blocking
      <4> QED
        BY <3>1, <3>4, <4>1 DEF Finalizable
    <3> QED
      BY <3>3, <3>4
  <2> HIDE DEF h, ready
  <2> QED
    BY <1>2, <1>3, <2>1, <2>2 DEF SoundHandlers, Querying, Working
<1>7. ~Evaluating(h)
  BY <1>3 DEF Evaluating
<1> HIDE DEF h
<1>8. h \in SoundHandlers'
  BY <1>4, <1>5, <1>6, SoundStays
<1>9. HandlingInv'
  BY <1>1, <1>3, <1>4, <1>5, <1>7, <1>8, QuietStepKeeps
<1> QED
  BY <1>1, <1>4, <1>5, <1>9, RestKeeps DEF records

LEMMA NotifyFireKeeps ==
  ASSUME PipelineInv, NEW i \in Instances, NotifyFire(i)
  PROVE  PipelineInv'
<1> DEFINE h == [run[i] EXCEPT !.at = "tasks"]
<1>1. /\ run[i].at = "fire" /\ run' = [run EXCEPT ![i] = h]
      /\ UNCHANGED <<pipe, fanned, aborting, slot, job, queue, names, ran, report,
                     gens, stops, raises, crashes, twice>>
  BY DEF NotifyFire, Goto
<1>2. run[i] \in Handlers /\ run[i] \in SoundHandlers /\ run[i].bar \in Barriers
  BY HandlerFacts
<1>3. /\ h \in Handlers /\ h.at = "tasks" /\ h.found = run[i].found
      /\ h.task = run[i].task /\ h.bar = run[i].bar
  BY <1>2, NextAt
<1>4. /\ barrier' \in Barriers
      /\ barrier' = barrier \/ barrier'.blocking = run[i].bar.blocking
  BY <1>2 DEF NotifyFire, Barrier, Barriers, PipelineInv, PipeTypeOK
<1>5. PipeTypeOK'
  BY <1>1, <1>3, <1>4 DEF PipelineInv, PipeTypeOK
<1>6. Grows /\ RootStays
  BY <1>1, <1>5, GrowsIf DEF RootStays
<1>7. h \in SoundHandlers /\ ~Evaluating(h) /\ run[i].bar.blocking \in Covering
  <2> HIDE DEF h
  <2> QED
    BY <1>1, <1>2, <1>3 DEF SoundHandlers, Querying, Working, Evaluating
<1> HIDE DEF h
<1>8. h \in SoundHandlers' /\ run[i].bar.blocking \in Covering'
  BY <1>5, <1>6, <1>7, SoundStays, StableSets
<1>9. HandlingInv'
  BY <1>1, <1>3, <1>5, <1>6, <1>7, <1>8, QuietStepKeeps
<1> QED
  BY <1>1, <1>4, <1>5, <1>6, <1>8, <1>9, RestKeeps

LEMMA NotifyAddKeeps ==
  ASSUME PipelineInv, NEW i \in Instances, NotifyAdd(i)
  PROVE  PipelineInv'
<1> DEFINE added == New(BarrierTasks(i))
<1>1. /\ run[i].at = "tasks" /\ Finish(i, added)
      /\ UNCHANGED <<records, ran, report, gens, stops, raises, twice>>
  BY DEF NotifyAdd
<1>2. run[i] \in SoundHandlers /\ run[i].found \subseteq Pipes \X {"start", "finalize"}
  BY HandlerFacts
<1>3. \A b \in run[i].found :
        /\ Evaluate(b[1], b[2]) \in Tasks /\ Evaluate(b[1], b[2]).do = "evaluate"
        /\ Evaluate(b[1], b[2]).of = b[1] /\ Evaluate(b[1], b[2]).why = b[2]
        /\ b[1] \in Pipes /\ b[2] \in {"start", "finalize"}
  BY <1>2, TasksAre
<1>4. \A t \in added : t \in JustifiedTasks /\ ~RootAttempt(t)
  <2>1. ASSUME NEW b \in run[i].found
        PROVE  Evaluate(b[1], b[2]) \in JustifiedTasks /\ ~RootAttempt(Evaluate(b[1], b[2]))
    <3>1. /\ b[1] \in Allocated /\ (b[2] = "start" => b[1] \in Eligible)
          /\ b[2] = "finalize" => b[1] \in Finalizable
      BY <1>1, <1>2 DEF SoundHandlers, Querying
    <3> QED
      BY <1>3, <3>1 DEF JustifiedTasks, RootAttempt
  <2> QED
    BY <2>1 DEF New, BarrierTasks
<1>5. IsFiniteSet(added) /\ added \subseteq Tasks
  <2> DEFINE F == [b \in Pipes \X {"start", "finalize"} |-> Evaluate(b[1], b[2])]
             all == {F[b] : b \in Pipes \X {"start", "finalize"}}
  <2>1. IsFiniteSet(Pipes \X {"start", "finalize"})
    <3>1. IsFiniteSet({"start"} \union {"finalize"})
      BY FS_Singleton, FS_AddElement
    <3>2. {"start"} \union {"finalize"} = {"start", "finalize"}
      OBVIOUS
    <3> QED
      BY <3>1, <3>2, PipesAreFinite, FS_Product
  <2>2. DOMAIN F = Pipes \X {"start", "finalize"}
    OBVIOUS
  <2>3. added \subseteq all
    BY <1>2 DEF New, BarrierTasks
  <2> HIDE DEF F
  <2>4. IsFiniteSet(all)
    BY <2>1, <2>2, ImageIsFinite
  <2>5. IsFiniteSet(added)
    BY <2>3, <2>4, FS_Subset
  <2> QED
    BY <2>5, <1>4 DEF JustifiedTasks
<1> HIDE DEF added
<1>6. /\ run' = [run EXCEPT ![i] = Idle] /\ run' \in [Instances -> Handlers]
      /\ queue' \subseteq queue \union added \union {run[i].task}
      /\ queue' \subseteq Tasks /\ IsFiniteSet(queue') /\ crashes' \in Nat
  BY <1>1, <1>5, FinishIs DEF PipelineInv
<1>7. PipeTypeOK'
  BY <1>1, <1>6 DEF PipelineInv, PipeTypeOK, records
<1>8. Grows /\ RootStays
  BY <1>1, <1>7, GrowsIf DEF records, RootStays
<1>9. \A t \in added : t \in JustifiedTasks'
  BY <1>4, <1>7, <1>8, JustifiedStays
<1>10. HandlingInv'
  BY <1>4, <1>5, <1>6, <1>7, <1>8, <1>9, IdleIsSound, StepKeeps
<1> QED
  BY <1>1, <1>7, <1>8, <1>10, RestKeeps DEF records

LEMMA NotifyQueryKeeps ==
  ASSUME PipelineInv, NEW i \in Instances, NotifyQuery(i)
  PROVE  PipelineInv'
<1> DEFINE Found(t) == {b \in Pipes \X {"start", "finalize"} :
                          /\ pipe[b[1]].stored
                          /\ t.of \in Blocking(b[1], b[2], barrier)}
<1>1. PICK t \in {u \in queue : u.do = "notify"} :
        Deliver(i, t, Handler(t, "slots", NoRecord, barrier, Found(t), 0))
  BY DEF NotifyQuery
<1> DEFINE found == Found(t)
           h == Handler(t, "slots", NoRecord, barrier, found, 0)
<1>2. UNCHANGED <<records, names, ran, report, gens, stops, raises, crashes>>
  BY DEF NotifyQuery
<1>3. /\ t \in queue /\ t \in Tasks /\ t \in JustifiedTasks /\ t.do = "notify"
      /\ barrier \in Barriers
  BY TypeFacts DEF PipelineInv
<1>4. found \in SUBSET (Pipes \X {"start", "finalize"})
  OBVIOUS
<1>5. /\ h \in Handlers /\ h.at = "slots" /\ h.task = t /\ h.bar = barrier
      /\ h.found = found
  <2> HIDE DEF found
  <2> QED
    BY <1>3, <1>4, RecordsAre, HandlersAre
<1>6. Deliver(i, t, h)
  BY <1>1
<1>7. ASSUME NEW b \in found
      PROVE  b[1] \in Allocated /\ (b[2] = "start" => b[1] \in Eligible)
  <2>1. b[1] \in Pipes /\ pipe[b[1]].stored /\ t.of \in Blocking(b[1], b[2], barrier)
    OBVIOUS
  <2>2. b[1] \in Allocated
    <3>1. ~NoRecord.stored
      BY DEF NoRecord, Record
    <3> QED
      BY <2>1, <3>1 DEF PipelineInv
  <2>3. ASSUME b[2] = "start" PROVE b[1] \in Eligible
    <3>1. t.of \in Needs(b[1], After)
      BY <2>1, <2>3 DEF Blocking
    <3>2. b[1] # Root /\ t.of # Root /\ t.of[1] = b[1][1]
      BY <2>1, <3>1, NeedsAre
    <3>3. t.of \in Eligible
      BY <1>3, <3>2 DEF JustifiedTasks
    <3> QED
      BY <2>1, <3>2, <3>3 DEF Eligible, Pointed
  <2> QED
    BY <2>2, <2>3
<1> HIDE DEF found, h
<1>8. h \in SoundHandlers
  <2>1. barrier.blocking \in Covering
    BY <1>3 DEF PipelineInv, JustifiedTasks
  <2> QED
    BY <1>3, <1>5, <1>7, <2>1 DEF SoundHandlers, Querying, Working
<1>9. /\ run' = [run EXCEPT ![i] = h] /\ run' \in [Instances -> Handlers]
      /\ queue' \subseteq queue /\ IsFiniteSet(queue')
      /\ twice' \in Nat /\ (twice' = 0 => twice = 0 /\ t \notin queue')
  BY <1>3, <1>5, <1>6, DeliverIs DEF PipelineInv
<1>10. PipeTypeOK'
  BY <1>2, <1>9 DEF PipelineInv, PipeTypeOK, records
<1>11. Grows /\ RootStays
  BY <1>2, <1>9, <1>10, GrowsIf DEF records, RootStays
<1>12. h \in SoundHandlers' /\ ~Evaluating(h)
  BY <1>5, <1>8, <1>10, <1>11, SoundStays DEF Evaluating
<1>13. HandlingInv'
  BY <1>2, <1>3, <1>5, <1>9, <1>10, <1>11, <1>12, DeliverKeeps DEF records
<1> QED
  BY <1>2, <1>10, <1>11, <1>13, RestKeeps DEF records

-----------------------------------------------------------------------------
(* Fan-outs, and tasks that find a pipeline that has ended.                *)

LEMMA FanOutChildrenKeeps ==
  ASSUME PipelineInv, FanOutChildren
  PROVE  PipelineInv'
<1> DEFINE tasks == {Evaluate(p, "fanout") : p \in Immediate(fanned)}
           added == New(tasks)
<1>1. /\ FanOut \in queue /\ Serve(FanOut, added)
      /\ UNCHANGED <<records, run, ran, report, gens, stops, raises, twice>>
  BY DEF FanOutChildren
<1>2. fanned # 0 /\ fanned \in 1..MaxGens /\ fanned <= gens
  <2>1. fanned # 0
    BY <1>1, TasksAre DEF PipelineInv, JustifiedTasks
  <2> QED
    BY <2>1, TypeFacts, MaxGensType DEF PipelineInv
<1>3. \A p \in Immediate(fanned) : p \in Pipes /\ p \in Eligible /\ p \in Allocated
  BY <1>2, PipesAre DEF Immediate, Eligible, Allocated, Pointed
<1>4. \A t \in added : t \in Tasks /\ t \in JustifiedTasks /\ ~RootAttempt(t)
  <2>1. ASSUME NEW p \in Immediate(fanned)
        PROVE  LET t == Evaluate(p, "fanout")
               IN  t \in Tasks /\ t \in JustifiedTasks /\ ~RootAttempt(t)
    <3> DEFINE t == Evaluate(p, "fanout")
    <3>1. t \in Tasks /\ t.do = "evaluate" /\ t.of = p /\ t.why = "fanout"
      BY <1>3, TasksAre
    <3> HIDE DEF t
    <3>2. t \in Tasks /\ t \in JustifiedTasks /\ ~RootAttempt(t)
      BY <1>3, <3>1 DEF JustifiedTasks, RootAttempt
    <3> QED
      BY <3>2 DEF t
  <2> QED
    BY <2>1 DEF New
<1>5. IsFiniteSet(added)
  <2> DEFINE F == [p \in Pipes |-> Evaluate(p, "fanout")]
             all == {F[p] : p \in Pipes}
  <2>1. DOMAIN F = Pipes /\ added \subseteq all
    BY <1>3 DEF New
  <2> HIDE DEF F
  <2>2. IsFiniteSet(all)
    BY <2>1, PipesAreFinite, ImageIsFinite
  <2> QED
    BY <2>1, <2>2, FS_Subset
<1> HIDE DEF added
<1>6. added \in SUBSET Tasks
  BY <1>4
<1>7. queue' \subseteq queue \union added /\ queue' \subseteq Tasks
      /\ IsFiniteSet(queue') /\ crashes' \in Nat
  BY <1>1, <1>5, <1>6, ServeIs DEF PipelineInv
<1>8. PipeTypeOK'
  BY <1>1, <1>7 DEF PipelineInv, PipeTypeOK, records
<1>9. Grows /\ RootStays
  BY <1>1, <1>8, GrowsIf DEF records, RootStays
<1>10. \A t \in added : t \in JustifiedTasks' /\ ~RootAttempt(t)
  BY <1>4, <1>8, <1>9, JustifiedStays
<1>11. HandlingInv'
  BY <1>1, <1>6, <1>7, <1>8, <1>9, <1>10, ServeKeeps
<1> QED
  BY <1>1, <1>8, <1>9, <1>11, RestKeeps DEF records

LEMMA FanOutAbortsKeeps ==
  ASSUME PipelineInv, FanOutAborts
  PROVE  PipelineInv'
<1> DEFINE told == {q \in Pipes : pipe[q].stored /\ ~Ended(q)}
<1>1. PICK t \in queue : Serve(t, New({Abort(p, t.n) : p \in told}))
  BY DEF FanOutAborts
<1> DEFINE added == New({Abort(p, t.n) : p \in told})
<1>2. UNCHANGED <<records, run, ran, report, gens, stops, raises, twice>>
  BY DEF FanOutAborts
<1>3. t.n \in Nat
  BY TypeFacts, PartsAre DEF PipelineInv
<1>4. \A p \in told : p \in Pipes /\ p \in Allocated
  <2>1. ~NoRecord.stored
    BY DEF NoRecord, Record
  <2> QED
    BY <2>1 DEF PipelineInv
<1>5. \A u \in added : u \in Tasks /\ u \in JustifiedTasks /\ ~RootAttempt(u)
  <2>1. ASSUME NEW p \in told
        PROVE  LET u == Abort(p, t.n)
               IN  u \in Tasks /\ u \in JustifiedTasks /\ ~RootAttempt(u)
    <3> DEFINE u == Abort(p, t.n)
    <3>1. u \in Tasks /\ u.do = "evaluate" /\ u.of = p /\ u.why = "abort"
      BY <1>3, <1>4, TasksAre
    <3> HIDE DEF u
    <3>2. u \in Tasks /\ u \in JustifiedTasks /\ ~RootAttempt(u)
      BY <1>4, <3>1 DEF JustifiedTasks, RootAttempt
    <3> QED
      BY <3>2 DEF u
  <2> QED
    BY <2>1 DEF New
<1>6. IsFiniteSet(added)
  <2> DEFINE F == [p \in Pipes |-> Abort(p, t.n)]
             all == {F[p] : p \in Pipes}
  <2>1. DOMAIN F = Pipes /\ added \subseteq all
    BY <1>4 DEF New
  <2> HIDE DEF F
  <2>2. IsFiniteSet(all)
    BY <2>1, PipesAreFinite, ImageIsFinite
  <2> QED
    BY <2>1, <2>2, FS_Subset
<1>7. Serve(t, added)
  BY <1>1
<1> HIDE DEF added
<1>8. added \in SUBSET Tasks
  BY <1>5
<1>9. queue' \subseteq queue \union added /\ queue' \subseteq Tasks
      /\ IsFiniteSet(queue') /\ crashes' \in Nat
  BY <1>6, <1>7, <1>8, ServeIs DEF PipelineInv
<1>10. PipeTypeOK'
  BY <1>2, <1>9 DEF PipelineInv, PipeTypeOK, records
<1>11. Grows /\ RootStays
  BY <1>2, <1>10, GrowsIf DEF records, RootStays
<1>12. \A u \in added : u \in JustifiedTasks' /\ ~RootAttempt(u)
  BY <1>5, <1>10, <1>11, JustifiedStays
<1>13. HandlingInv'
  BY <1>2, <1>8, <1>9, <1>10, <1>11, <1>12, ServeKeeps
<1> QED
  BY <1>2, <1>10, <1>11, <1>13, RestKeeps DEF records

LEMMA LeaveEndedKeeps ==
  ASSUME PipelineInv, LeaveEnded
  PROVE  PipelineInv'
<1> DEFINE none == {}
<1>1. PICK t \in queue : queue' = queue \ {t}
  BY DEF LeaveEnded
<1>2. UNCHANGED <<records, names, run, ran, report, gens, stops, raises, crashes, twice>>
  BY DEF LeaveEnded
<1>3. IsFiniteSet(queue') /\ queue' \subseteq Tasks
  <2>1. IsFiniteSet(queue) /\ queue \subseteq Tasks
    BY TypeFacts DEF PipelineInv
  <2> QED
    BY <1>1, <2>1, FS_RemoveElement
<1>4. PipeTypeOK'
  BY <1>2, <1>3 DEF PipelineInv, PipeTypeOK, records
<1>5. Grows /\ RootStays
  BY <1>2, <1>4, GrowsIf DEF records, RootStays
<1>6. /\ none \in SUBSET Tasks /\ queue' \subseteq queue \union none
      /\ \A u \in none : u \in JustifiedTasks' /\ ~RootAttempt(u)
  BY <1>1
<1> HIDE DEF none
<1>7. HandlingInv'
  BY <1>2, <1>4, <1>5, <1>6, ServeKeeps
<1> QED
  BY <1>2, <1>4, <1>5, <1>7, RestKeeps DEF records

-----------------------------------------------------------------------------
(* Evaluations: reading, choosing, transitions.                            *)

LEMMA ReadRecordKeeps ==
  ASSUME PipelineInv, NEW i \in Instances, ReadRecord(i)
  PROVE  PipelineInv'
<1>1. PICK t \in {u \in queue : Evaluated(u) /\ ~Ended(u.of)} :
        Deliver(i, t, Handler(t, "choose", pipe[t.of], Barrier({}, FALSE), {}, 0))
  BY DEF ReadRecord
<1> DEFINE h == Handler(t, "choose", pipe[t.of], Barrier({}, FALSE), {}, 0)
<1>2. UNCHANGED <<records, names, ran, report, gens, stops, raises, crashes>>
  BY DEF ReadRecord
<1>3. /\ t \in queue /\ t \in Tasks /\ t \in JustifiedTasks /\ t.do = "evaluate"
      /\ t.of \in Pipes /\ pipe[t.of] \in Records
      /\ pipe[t.of].status \in {"waiting", "run"}
  <2>1. t \in queue /\ t.do = "evaluate" /\ pipe[t.of].status \notin {"done", "aborted"}
    BY DEF Evaluated, Ended
  <2>2. t \in Tasks /\ t \in JustifiedTasks
    BY <2>1, TypeFacts DEF PipelineInv
  <2>3. t.of \in Pipes /\ pipe[t.of] \in Records
    BY <2>2, PartsAre, TypeFacts DEF PipelineInv
  <2> QED
    BY <2>1, <2>2, <2>3, PartsAre
<1>4. /\ h \in Handlers /\ h.at = "choose" /\ h.task = t /\ h.rec = pipe[t.of]
  <2> DEFINE none == {}
             bar == Barrier({}, FALSE)
             rec == pipe[t.of]
  <2>1. /\ none \in SUBSET (Pipes \X {"start", "finalize"})
        /\ bar \in Barriers /\ rec \in Records
    BY <1>3, HandlersAre
  <2> HIDE DEF none, bar, rec
  <2>2. LET g == Handler(t, "choose", rec, bar, none, 0)
        IN  g \in Handlers /\ g.at = "choose" /\ g.task = t /\ g.rec = rec
    BY <1>3, <2>1, HandlersAre
  <2> QED
    BY <2>2 DEF none, bar, rec
<1>5. Deliver(i, t, h)
  BY <1>1
<1> HIDE DEF h
<1>6. h \in SoundHandlers
  BY <1>3, <1>4 DEF SoundHandlers, Querying, Working
<1>7. Evaluating(h) => t.n = pipe[Root].attempt /\ pipe[Root].status = "waiting"
  BY <1>4 DEF Evaluating, RootAttempt
<1>8. /\ run' = [run EXCEPT ![i] = h] /\ run' \in [Instances -> Handlers]
      /\ queue' \subseteq queue /\ IsFiniteSet(queue')
      /\ twice' \in Nat /\ (twice' = 0 => twice = 0 /\ t \notin queue')
  BY <1>3, <1>4, <1>5, DeliverIs DEF PipelineInv
<1>9. PipeTypeOK'
  BY <1>2, <1>8 DEF PipelineInv, PipeTypeOK, records
<1>10. Grows /\ RootStays
  BY <1>2, <1>8, <1>9, GrowsIf DEF records, RootStays
<1>11. h \in SoundHandlers'
  BY <1>6, <1>9, <1>10, SoundStays
<1>12. HandlingInv'
  BY <1>2, <1>3, <1>4, <1>7, <1>8, <1>9, <1>10, <1>11, DeliverKeeps DEF records
<1> QED
  BY <1>2, <1>9, <1>10, <1>12, RestKeeps DEF records

(* Where the choice leads: to work only if the task is an attempt that is  *)
(* the recorded one, or the start of a child.                              *)
LEMMA ChoiceIs ==
  ASSUME PipelineInv, NEW i \in Instances, run[i].at = "choose"
  PROVE  LET t == run[i].task
             choice == Choice(t, run[i].rec)
         IN  /\ choice \in {"done", "aborted", "complete", "become run", "user"}
             /\ choice = "complete" => t.why = "finalize"
             /\ choice \in {"become run", "user"} =>
                  t.why \in {"attempt", "fanout", "start"}
             /\ choice \in {"become run", "user"} /\ t.of = Root =>
                  choice = "user" /\ t.n = run[i].rec.attempt /\ Evaluating(run[i])
<1> DEFINE t == run[i].task
           rec == run[i].rec
           choice == Choice(t, rec)
<1>1. /\ t \in Tasks /\ t \in JustifiedTasks /\ t.do = "evaluate"
      /\ rec.status \in {"waiting", "run"}
  BY HandlerFacts DEF SoundHandlers
<1>2. t.why \in {"attempt", "fanout", "start", "finalize", "abort"}
  BY <1>1, PartsAre DEF JustifiedTasks
<1>3. choice \in {"done", "aborted", "complete", "become run", "user"}
  BY DEF Choice
<1>4. choice = "complete" => t.why = "finalize"
  BY DEF Choice, Complete
<1>5. ASSUME choice \in {"become run", "user"}
      PROVE  /\ ~Aborted(t) /\ ~Complete(t) /\ ~Stale(t, rec)
             /\ rec.status = "run" => KindOf(t.of) \notin {"generator", "bare"}
             /\ choice = "become run" => KindOf(t.of) = "async"
  BY <1>5 DEF Choice
<1>6. t.why = "finalize" => Complete(t)
  BY <1>1 DEF JustifiedTasks, Finalizable, Complete
<1>7. choice \in {"become run", "user"} => t.why \in {"attempt", "fanout", "start"}
  BY <1>2, <1>5, <1>6 DEF Aborted
<1>8. ASSUME choice \in {"become run", "user"}, t.of = Root
      PROVE  choice = "user" /\ t.n = rec.attempt /\ Evaluating(run[i])
  <2>1. t.why = "attempt"
    BY <1>1, <1>7, <1>8 DEF JustifiedTasks, Eligible
  <2>2. t.n = rec.attempt
    BY <1>5, <1>8, <2>1 DEF Stale, AttemptOf
  <2>3. rec.status = "waiting" /\ choice = "user"
    BY <1>1, <1>5, <1>8, KindsAre
  <2> QED
    BY <1>1, <1>8, <2>1, <2>2, <2>3 DEF Evaluating, RootAttempt
<1> QED
  BY <1>3, <1>4, <1>7, <1>8

LEMMA ChooseKeeps ==
  ASSUME PipelineInv, NEW i \in Instances, Choose(i)
  PROVE  PipelineInv'
<1> DEFINE t == run[i].task
           choice == Choice(t, run[i].rec)
           on == [run[i] EXCEPT !.at = choice]
           h == IF choice = "done" THEN Idle ELSE on
<1>1. /\ run[i].at = "choose" /\ run' = [run EXCEPT ![i] = h]
      /\ UNCHANGED <<records, queue, names, ran, report, gens, stops, raises,
                     crashes, twice>>
  BY DEF Choose
<1>2. /\ run[i] \in Handlers /\ run[i] \in SoundHandlers
      /\ t \in JustifiedTasks /\ t.do = "evaluate"
  BY <1>1, HandlerFacts DEF SoundHandlers
<1>3. /\ choice \in {"done", "aborted", "complete", "become run", "user"}
      /\ choice = "complete" => t.why = "finalize"
      /\ choice \in {"become run", "user"} =>
           t.why \in {"attempt", "fanout", "start"}
      /\ choice \in {"become run", "user"} /\ t.of = Root =>
           choice = "user" /\ t.n = run[i].rec.attempt /\ Evaluating(run[i])
  BY <1>1, ChoiceIs
<1> HIDE DEF choice
<1>4. choice # "done" =>
        /\ on \in Handlers /\ on.at = choice /\ on.task = t /\ on.rec = run[i].rec
  <2>1. choice # "done" => on \in Handlers
    BY <1>2, <1>3 DEF Handlers
  <2>2. choice # "done" => on.at = choice /\ on.task = t /\ on.rec = run[i].rec
    BY <1>2 DEF Handlers
  <2> QED
    BY <2>1, <2>2
<1> HIDE DEF on
<1>5. choice # "done" => on \in SoundHandlers /\ (Evaluating(on) => Evaluating(run[i]))
  <2>1. ASSUME choice # "done" PROVE on \in SoundHandlers
    BY <1>2, <1>3, <1>4, <2>1 DEF SoundHandlers, Querying, Working
  <2>2. ASSUME choice # "done", Evaluating(on) PROVE Evaluating(run[i])
    BY <1>3, <1>4, <2>2 DEF Evaluating, RootAttempt
  <2> QED
    BY <2>1, <2>2
<1>6. h \in Handlers /\ (h = Idle \/ (h.task = run[i].task /\ choice # "done" /\ h = on))
  BY <1>4, HandlersAre
<1> HIDE DEF h
<1>7. PipeTypeOK'
  BY <1>1, <1>6 DEF PipelineInv, PipeTypeOK, records
<1>8. Grows /\ RootStays
  BY <1>1, <1>7, GrowsIf DEF records, RootStays
<1>9. h \in SoundHandlers' /\ (Evaluating(h) => Evaluating(run[i]))
  BY <1>5, <1>6, <1>7, <1>8, SoundStays, IdleIsSound
<1>10. queue' = queue
  BY <1>1
<1>11. HandlingInv'
  BY <1>1, <1>6, <1>7, <1>8, <1>9, <1>10, QuietStepKeeps
<1> QED
  BY <1>1, <1>7, <1>8, <1>11, RestKeeps DEF records

(* The last step of a handler, which adds nothing.                         *)
LEMMA LastStepKeeps ==
  ASSUME PipelineInv, PipeTypeOK', Grows, RootStays, NEW i \in Instances,
         run' = [run EXCEPT ![i] = Idle], queue' \subseteq queue \union {run[i].task}
  PROVE  HandlingInv'
BY IdleIsSound, QuietStepKeeps

LEMMA FinishIsQuiet ==
  ASSUME PipeTypeOK, NEW i \in Instances, Finish(i, {})
  PROVE  /\ run' = [run EXCEPT ![i] = Idle] /\ run' \in [Instances -> Handlers]
         /\ queue' \subseteq queue \union {run[i].task}
         /\ queue' \subseteq Tasks /\ IsFiniteSet(queue') /\ crashes' \in Nat
<1> DEFINE none == {}
<1>1. none \in SUBSET Tasks /\ IsFiniteSet(none) /\ Finish(i, none)
  BY FS_EmptySet
<1> HIDE DEF none
<1>2. /\ run' = [run EXCEPT ![i] = Idle] /\ run' \in [Instances -> Handlers]
      /\ queue' \subseteq queue \union none \union {run[i].task}
      /\ queue' \subseteq Tasks /\ IsFiniteSet(queue') /\ crashes' \in Nat
  BY <1>1, FinishIs
<1> QED
  BY <1>2 DEF none

LEMMA EndKeeps ==
  ASSUME PipelineInv, NEW i \in Instances, NEW at \in {"complete", "aborted"},
         NEW status \in {"done", "aborted"}, status = "done" => at = "complete",
         End(i, at, status)
  PROVE  PipelineInv'
<1> DEFINE p == run[i].task.of
           r == [pipe[p] EXCEPT !.status = status]
<1>1. /\ run[i].at = at /\ Finish(i, {})
      /\ pipe' = IF Ended(p) THEN pipe ELSE [pipe EXCEPT ![p] = r]
      /\ UNCHANGED <<fanned, aborting, slot, barrier, job, names, ran, report,
                     gens, stops, raises, twice>>
  BY DEF End
<1>2. run[i] \in SoundHandlers /\ run[i].task \in JustifiedTasks /\ p \in Pipes
  BY HandlerFacts
<1>3. p \in Allocated /\ (status = "done" => p \in Finalizable)
  BY <1>1, <1>2 DEF SoundHandlers, JustifiedTasks
<1>4. /\ pipe[p] \in Records /\ r \in Records /\ r.status = status
      /\ r.attempt = pipe[p].attempt
  <2>1. pipe[p] \in Records
    BY <1>2, TypeFacts DEF PipelineInv
  <2> QED
    BY <2>1 DEF Records
<1> HIDE DEF r
<1>5. /\ run' = [run EXCEPT ![i] = Idle] /\ run' \in [Instances -> Handlers]
      /\ queue' \subseteq queue \union {run[i].task}
      /\ queue' \subseteq Tasks /\ IsFiniteSet(queue') /\ crashes' \in Nat
  BY <1>1, FinishIsQuiet DEF PipelineInv
<1>6. /\ pipe' \in [Pipes -> Records]
      /\ \A q \in Pipes : pipe'[q] = pipe[q] \/ (q = p /\ pipe'[q] = r)
  <2>1. pipe \in [Pipes -> Records]
    BY DEF PipelineInv, PipeTypeOK
  <2>2. pipe' = pipe \/ pipe' = [pipe EXCEPT ![p] = r]
    BY <1>1
  <2> HIDE DEF p
  <2> QED
    BY <1>2, <1>4, <2>1, <2>2
<1> HIDE DEF p
<1>7. PipeTypeOK'
  BY <1>1, <1>5, <1>6 DEF PipelineInv, PipeTypeOK
<1>8. RootStays
  BY <1>1, <1>4, <1>6, PipesAre DEF RootStays
<1>9. Grows
  BY <1>1, <1>7, <1>8, GrowsIf DEF RootStays
<1>10. HandlingInv'
  BY <1>5, <1>7, <1>8, <1>9, LastStepKeeps
<1>11. pipe'[Root].status = "done" => pipe[Root].status = "done" \/ WholeEvaluation'
  BY <1>3, <1>4, <1>6, <1>7, <1>9, PipesAre, StableSets DEF Finalizable
<1>12. \A q \in Pipes : pipe'[q] = pipe[q] \/ q \in Allocated'
  BY <1>3, <1>6, <1>7, <1>9, StableSets
<1> QED
  BY <1>1, <1>7, <1>9, <1>10, <1>11, <1>12, RestKeeps

(* A pipeline that is marked as run.                                       *)
LEMMA MarkRunIs ==
  ASSUME PipelineInv, NEW p \in Pipes, MarkRun(p)
  PROVE  /\ pipe' \in [Pipes -> Records]
         /\ \A q \in Pipes :
              pipe'[q] = pipe[q] \/ (q = p /\ pipe'[q].status = "run"
                                      /\ pipe'[q].attempt = pipe[q].attempt)
<1> DEFINE r == [pipe[p] EXCEPT !.status = "run"]
<1>1. pipe' = IF pipe[p].status = "waiting" THEN [pipe EXCEPT ![p] = r] ELSE pipe
  BY DEF MarkRun
<1>2. r \in Records /\ r.status = "run" /\ r.attempt = pipe[p].attempt
  BY TypeFacts, NewStatus DEF PipelineInv
<1> HIDE DEF r
<1> QED
  BY <1>1, <1>2 DEF PipelineInv, PipeTypeOK

LEMMA BecomeRunKeeps ==
  ASSUME PipelineInv, NEW i \in Instances, BecomeRun(i)
  PROVE  PipelineInv'
<1> DEFINE p == run[i].task.of
           h == [run[i] EXCEPT !.at = "user"]
<1>1. /\ run[i].at = "become run" /\ MarkRun(p) /\ Goto(i, "user")
      /\ UNCHANGED <<fanned, aborting, slot, barrier, job, queue, names, ran, report,
                     gens, stops, raises, crashes, twice>>
  BY DEF BecomeRun
<1>2. run[i] \in Handlers /\ run[i] \in SoundHandlers /\ p \in Pipes
  BY HandlerFacts
<1>3. p \in Eligible /\ p \in Allocated /\ p # Root
  BY <1>1, WorkIsEligible DEF Working
<1>4. run' = [run EXCEPT ![i] = h] /\ h \in Handlers /\ run' \in [Instances -> Handlers]
  BY <1>1, GotoIs DEF PipelineInv
<1>5. h.at = "user" /\ h.task = run[i].task /\ h.rec = run[i].rec
  BY <1>2, NextAt
<1>6. /\ pipe' \in [Pipes -> Records]
      /\ \A q \in Pipes :
           pipe'[q] = pipe[q] \/ (q = p /\ pipe'[q].status = "run"
                                   /\ pipe'[q].attempt = pipe[q].attempt)
  BY <1>1, <1>2, MarkRunIs
<1> HIDE DEF h
<1>7. PipeTypeOK'
  BY <1>1, <1>4, <1>6 DEF PipelineInv, PipeTypeOK
<1>8. RootStays
  BY <1>1, <1>3, <1>6, PipesAre DEF RootStays
<1>9. Grows
  BY <1>1, <1>7, <1>8, GrowsIf DEF RootStays
<1>10. h \in SoundHandlers /\ ~Evaluating(h)
  BY <1>1, <1>2, <1>3, <1>4, <1>5
     DEF SoundHandlers, Querying, Working, Evaluating, RootAttempt
<1>11. h \in SoundHandlers'
  BY <1>7, <1>9, <1>10, SoundStays
<1>12. queue' \subseteq queue
  BY <1>1
<1>13. HandlingInv'
  BY <1>4, <1>5, <1>7, <1>8, <1>9, <1>10, <1>11, <1>12, QuietStepKeeps
<1>14. \A q \in Pipes : pipe'[q] = pipe[q] \/ q \in Allocated'
  BY <1>3, <1>6, <1>7, <1>9, StableSets
<1>15. pipe'[Root] = pipe[Root]
  BY <1>3, <1>6, PipesAre
<1> QED
  BY <1>1, <1>7, <1>9, <1>13, <1>14, <1>15, RestKeeps

LEMMA MarkBareKeeps ==
  ASSUME PipelineInv, NEW i \in Instances, MarkBare(i)
  PROVE  PipelineInv'
<1> DEFINE p == run[i].task.of
<1>1. /\ run[i].at = "mark" /\ MarkRun(p) /\ Finish(i, {})
      /\ UNCHANGED <<fanned, aborting, slot, barrier, job, names, ran, report,
                     gens, stops, raises, twice>>
  BY DEF MarkBare
<1>2. p \in Pipes /\ p \in Allocated /\ p # Root
  BY <1>1, HandlerFacts, WorkIsEligible DEF Working
<1>3. /\ run' = [run EXCEPT ![i] = Idle] /\ run' \in [Instances -> Handlers]
      /\ queue' \subseteq queue \union {run[i].task}
      /\ queue' \subseteq Tasks /\ IsFiniteSet(queue') /\ crashes' \in Nat
  BY <1>1, FinishIsQuiet DEF PipelineInv
<1>4. /\ pipe' \in [Pipes -> Records]
      /\ \A q \in Pipes :
           pipe'[q] = pipe[q] \/ (q = p /\ pipe'[q].status = "run"
                                   /\ pipe'[q].attempt = pipe[q].attempt)
  BY <1>1, <1>2, MarkRunIs
<1>5. PipeTypeOK'
  BY <1>1, <1>3, <1>4 DEF PipelineInv, PipeTypeOK
<1>6. RootStays
  BY <1>1, <1>2, <1>4, PipesAre DEF RootStays
<1>7. Grows
  BY <1>1, <1>5, <1>6, GrowsIf DEF RootStays
<1>8. HandlingInv'
  BY <1>3, <1>5, <1>6, <1>7, LastStepKeeps
<1>9. \A q \in Pipes : pipe'[q] = pipe[q] \/ q \in Allocated'
  BY <1>2, <1>4, <1>5, <1>7, StableSets
<1>10. pipe'[Root] = pipe[Root]
  BY <1>2, <1>4, PipesAre
<1> QED
  BY <1>1, <1>5, <1>7, <1>8, <1>9, <1>10, RestKeeps

-----------------------------------------------------------------------------
(* Children at work.                                                       *)

(* The notification of a child's output.                                   *)
LEMMA NotifyIsJustified ==
  ASSUME PipelineInv, NEW p \in Eligible
  PROVE  LET added == {NewNotify(Output(p))}
         IN  /\ added \in SUBSET Tasks /\ IsFiniteSet(added)
             /\ \A t \in added : t \in JustifiedTasks /\ ~RootAttempt(t)
<1> DEFINE t == NewNotify(Output(p))
<1>1. p \in Pipes /\ fanned # 0 /\ Output(p) \in {p, Root} /\ Output(p) \in Pipes
  BY OutputsAre, PipesAre DEF Eligible
<1>2. \E n \in Nat : t = Notify(Output(p), n)
  BY <1>1, NewNotifyIs DEF PipelineInv
<1>3. t \in Tasks /\ t.do = "notify" /\ t.of = Output(p)
  BY <1>1, <1>2, TasksAre
<1> HIDE DEF t
<1>4. t \in JustifiedTasks /\ ~RootAttempt(t)
  BY <1>1, <1>3 DEF JustifiedTasks, RootAttempt
<1>5. IsFiniteSet({t})
  BY FS_Singleton
<1> QED
  BY <1>3, <1>4, <1>5 DEF t

LEMMA FillSlotIs ==
  ASSUME PipelineInv, NEW p \in Pipes, slot' = [slot EXCEPT ![Output(p)] = "filled"]
  PROVE  /\ slot' \in [Slots -> {"none", "waiting", "filled"}]
         /\ \A s \in Slots : slot[s] = "filled" => slot'[s] = "filled"
BY DEF PipelineInv, PipeTypeOK

LEMMA RunSyncKeeps ==
  ASSUME PipelineInv, NEW i \in Instances, RunSync(i)
  PROVE  PipelineInv'
<1> DEFINE p == run[i].task.of
           added == {NewNotify(Output(p))}
<1>1. /\ run[i].at = "user" /\ KindOf(p) = "sync" /\ ran' = ran \union {p}
      /\ slot' = [slot EXCEPT ![Output(p)] = "filled"] /\ Finish(i, added)
      /\ UNCHANGED <<pipe, fanned, aborting, barrier, job, names, report, gens, stops,
                     raises, twice>>
  BY DEF RunSync, At, Ran, FillSlot
<1>2. p \in Pipes /\ p # Root /\ p \in Eligible
  BY <1>1, HandlerFacts, WorkIsEligible, KindsAre DEF Working
<1> HIDE DEF p
<1>3. /\ added \in SUBSET Tasks /\ IsFiniteSet(added)
      /\ \A t \in added : t \in JustifiedTasks /\ ~RootAttempt(t)
  BY <1>2, NotifyIsJustified
<1> HIDE DEF added
<1>4. /\ run' = [run EXCEPT ![i] = Idle] /\ run' \in [Instances -> Handlers]
      /\ queue' \subseteq queue \union added \union {run[i].task}
      /\ queue' \subseteq Tasks /\ IsFiniteSet(queue') /\ crashes' \in Nat
  BY <1>1, <1>3, FinishIs DEF PipelineInv
<1>5. /\ slot' \in [Slots -> {"none", "waiting", "filled"}]
      /\ \A s \in Slots : slot[s] = "filled" => slot'[s] = "filled"
  BY <1>1, <1>2, FillSlotIs
<1>6. PipeTypeOK'
  BY <1>1, <1>2, <1>4, <1>5 DEF PipelineInv, PipeTypeOK
<1>7. Grows /\ RootStays
  BY <1>1, <1>5, <1>6, GrowsIf DEF RootStays
<1>8. \A t \in added : t \in JustifiedTasks'
  BY <1>3, <1>6, <1>7, JustifiedStays
<1>9. HandlingInv'
  BY <1>3, <1>4, <1>6, <1>7, <1>8, IdleIsSound, StepKeeps
<1>10. ran' \ ran \subseteq Eligible' \union {Root}
  BY <1>1, <1>2, <1>6, <1>7, StableSets
<1> QED
  BY <1>1, <1>6, <1>7, <1>9, <1>10, RestKeeps

LEMMA RunBareKeeps ==
  ASSUME PipelineInv, NEW i \in Instances, RunBare(i)
  PROVE  PipelineInv'
<1> DEFINE p == run[i].task.of
           added == {NewNotify(Output(p))}
           h == [run[i] EXCEPT !.at = "mark"]
<1>1. /\ run[i].at = "user" /\ KindOf(p) = "bare" /\ ran' = ran \union {p}
      /\ slot' = [slot EXCEPT ![Output(p)] = "filled"]
      /\ queue' = queue \union added /\ Goto(i, "mark")
      /\ UNCHANGED <<pipe, fanned, aborting, barrier, job, names, report, gens, stops,
                     raises, crashes, twice>>
  BY DEF RunBare, At, Ran, FillSlot
<1>2. run[i] \in Handlers /\ run[i] \in SoundHandlers /\ p \in Pipes
  BY HandlerFacts
<1>3. p # Root /\ p \in Eligible
  BY <1>1, WorkIsEligible, KindsAre DEF Working
<1>4. run' = [run EXCEPT ![i] = h] /\ h \in Handlers /\ run' \in [Instances -> Handlers]
  BY <1>1, GotoIs DEF PipelineInv
<1>5. h.at = "mark" /\ h.task = run[i].task /\ h.rec = run[i].rec
  BY <1>2, NextAt
<1> HIDE DEF h
<1>6. h \in SoundHandlers /\ ~Evaluating(h)
  BY <1>1, <1>2, <1>3, <1>4, <1>5 DEF SoundHandlers, Querying, Working, Evaluating
<1> HIDE DEF p
<1>7. /\ added \in SUBSET Tasks /\ IsFiniteSet(added)
      /\ \A t \in added : t \in JustifiedTasks /\ ~RootAttempt(t)
  BY <1>3, NotifyIsJustified
<1> HIDE DEF added
<1>8. queue' \subseteq Tasks /\ IsFiniteSet(queue')
  <2>1. queue \subseteq Tasks /\ IsFiniteSet(queue)
    BY TypeFacts DEF PipelineInv
  <2> QED
    BY <1>1, <1>7, <2>1, FS_Union
<1>9. /\ slot' \in [Slots -> {"none", "waiting", "filled"}]
      /\ \A s \in Slots : slot[s] = "filled" => slot'[s] = "filled"
  BY <1>1, <1>2, FillSlotIs DEF p
<1>10. PipeTypeOK'
  BY <1>1, <1>2, <1>4, <1>8, <1>9 DEF PipelineInv, PipeTypeOK, p
<1>11. Grows /\ RootStays
  BY <1>1, <1>9, <1>10, GrowsIf DEF RootStays
<1>12. \A t \in added : t \in JustifiedTasks'
  BY <1>7, <1>10, <1>11, JustifiedStays
<1>13. h \in SoundHandlers'
  BY <1>6, <1>10, <1>11, SoundStays
<1>14. queue' \subseteq queue \union added
  BY <1>1
<1>15. HandlingInv'
  BY <1>4, <1>5, <1>6, <1>7, <1>10, <1>11, <1>12, <1>13, <1>14, StepKeeps
<1>16. ran' \ ran \subseteq Eligible' \union {Root}
  BY <1>1, <1>3, <1>10, <1>11, StableSets
<1> QED
  BY <1>1, <1>10, <1>11, <1>15, <1>16, RestKeeps

LEMMA StartJobKeeps ==
  ASSUME PipelineInv, NEW i \in Instances, StartJob(i)
  PROVE  PipelineInv'
<1> DEFINE p == run[i].task.of
           n == job[p].started + 1
           j == [job[p] EXCEPT !.started = n]
           h == [run[i] EXCEPT !.at = "job", !.n = n]
<1>1. /\ run[i].at = "user" /\ KindOf(p) = "async" /\ ran' = ran \union {p}
      /\ job' = [job EXCEPT ![p] = j] /\ run' = [run EXCEPT ![i] = h]
      /\ UNCHANGED <<pipe, fanned, aborting, slot, barrier, queue, names, report,
                     gens, stops, raises, crashes, twice>>
  BY DEF StartJob, At, Ran
<1>2. run[i] \in Handlers /\ run[i] \in SoundHandlers /\ p \in Pipes
  BY HandlerFacts
<1>3. p # Root /\ p \in Eligible
  BY <1>1, WorkIsEligible, KindsAre DEF Working
<1>4. job \in [Pipes -> [started : Nat, ended : SUBSET Nat, id : Nat]]
  BY DEF PipelineInv, PipeTypeOK
<1>5. job[p].started \in Nat /\ n \in Nat /\ n > 0 /\ job[p].started <= n
  BY <1>2, <1>4
<1>6. /\ h \in Handlers /\ h.at = "job" /\ h.n = n
      /\ h.task = run[i].task /\ h.rec = run[i].rec
  <2> HIDE DEF n
  <2> QED
    BY <1>2, <1>5, NextAtN
<1>7. /\ j \in [started : Nat, ended : SUBSET Nat, id : Nat] /\ j.started = n
      /\ j.ended = job[p].ended /\ j.id = job[p].id
  <2>1. job[p] \in [started : Nat, ended : SUBSET Nat, id : Nat]
    BY <1>2, <1>4
  <2> HIDE DEF p, n
  <2> QED
    BY <1>5, <2>1
<1> HIDE DEF j, h
<1>8. job' \in [Pipes -> [started : Nat, ended : SUBSET Nat, id : Nat]]
      /\ \A q \in Pipes : job'[q] = IF q = p THEN j ELSE job[q]
  <2> HIDE DEF p
  <2> QED
    BY <1>1, <1>2, <1>4, <1>7
<1>9. \A q \in Pipes : job[q].started \in Nat /\ job[q].started <= job'[q].started
  <2>1. \A q \in Pipes : job[q].started \in Nat
    BY <1>4
  <2> HIDE DEF n, p
  <2> QED
    BY <1>5, <1>7, <1>8, <2>1
<1>10. \A q \in Pipes : /\ job'[q].ended \subseteq 1..job'[q].started
                         /\ job'[q].id \in 0..job'[q].started
                         /\ report[q] \in 0..job'[q].started
  <2>1. SUFFICES ASSUME NEW q \in Pipes
                 PROVE  /\ job'[q].ended \subseteq 1..job'[q].started
                        /\ job'[q].id \in 0..job'[q].started
                        /\ report[q] \in 0..job'[q].started
    OBVIOUS
  <2> DEFINE a == job[q].started
             b == job'[q].started
  <2>2. job[q].ended \subseteq 1..a /\ job[q].id \in 0..a /\ report[q] \in 0..a
    BY DEF PipelineInv, PipeTypeOK
  <2>3. job'[q].ended = job[q].ended /\ job'[q].id = job[q].id
    BY <1>7, <1>8
  <2>4. a \in Nat /\ b \in Nat /\ a <= b
    BY <1>8, <1>9
  <2> HIDE DEF a, b
  <2>5. 1..a \subseteq 1..b /\ 0..a \subseteq 0..b
    BY <2>4
  <2>6. job[q].ended \subseteq 1..b /\ job[q].id \in 0..b /\ report[q] \in 0..b
    BY <2>2, <2>5
  <2> QED
    BY <2>3, <2>6 DEF b
<1>11. run' \in [Instances -> Handlers]
  BY <1>1, <1>6 DEF PipelineInv, PipeTypeOK
<1>12. PipeTypeOK'
  <2>1. ran' \subseteq Pipes
    BY <1>1, <1>2 DEF PipelineInv, PipeTypeOK
  <2> HIDE DEF p, n
  <2> QED
    BY <1>1, <1>8, <1>10, <1>11, <2>1 DEF PipelineInv, PipeTypeOK
<1>13. Grows /\ RootStays
  <2>1. gens \in Nat /\ pipe[Root].attempt \in Nat
    BY RootInPipes, TypeFacts DEF PipelineInv, PipeTypeOK
  <2> HIDE DEF p, n
  <2> QED
    BY <1>1, <1>9, <2>1 DEF Grows, RootStays
<1>14. h \in SoundHandlers'
  <2>1. h.n \in 1..job'[h.task.of].started
    <3>1. job'[h.task.of].started = n
      BY <1>2, <1>6, <1>7, <1>8
    <3> HIDE DEF n, p
    <3> QED
      BY <1>5, <1>6, <3>1
  <2>2. h.task.do = "evaluate" /\ h.task.why \in {"attempt", "fanout", "start"}
    BY <1>1, <1>2, <1>6 DEF SoundHandlers, Working
  <2> HIDE DEF n
  <2> QED
    BY <1>3, <1>6, <2>1, <2>2 DEF SoundHandlers, Querying, Working
<1>15. ~Evaluating(h) /\ queue' \subseteq queue
  BY <1>1, <1>6 DEF Evaluating
<1>16. HandlingInv'
  BY <1>1, <1>6, <1>12, <1>13, <1>14, <1>15, QuietStepKeeps
<1>17. p \in Eligible'
  BY <1>3, <1>12, <1>13, StableSets
<1>18. ran' \ ran \subseteq Eligible' \union {Root}
  BY <1>1, <1>17
<1>19. \A q \in Pipes : job'[q].started = job[q].started \/ q \in Eligible'
  BY <1>8, <1>17
<1> HIDE DEF p, n
<1> QED
  BY <1>1, <1>12, <1>13, <1>16, <1>18, <1>19, RestKeeps

LEMMA FillJobIdKeeps ==
  ASSUME PipelineInv, NEW i \in Instances, FillJobId(i)
  PROVE  PipelineInv'
<1> DEFINE p == run[i].task.of
           n == run[i].n
           j == [job[p] EXCEPT !.id = n]
<1>1. /\ run[i].at = "job" /\ job' = [job EXCEPT ![p] = j] /\ Finish(i, {})
      /\ UNCHANGED <<pipe, fanned, aborting, slot, barrier, names, ran, report, gens,
                     stops, raises, twice>>
  BY DEF FillJobId
<1>2. run[i] \in SoundHandlers /\ p \in Pipes
  BY HandlerFacts
<1>3. n \in 1..job[p].started
  BY <1>1, <1>2 DEF SoundHandlers
<1>4. job \in [Pipes -> [started : Nat, ended : SUBSET Nat, id : Nat]]
  BY DEF PipelineInv, PipeTypeOK
<1>5. job[p].started \in Nat /\ n \in Nat /\ n \in 0..job[p].started
  BY <1>2, <1>3, <1>4
<1>6. /\ j \in [started : Nat, ended : SUBSET Nat, id : Nat]
      /\ j.started = job[p].started /\ j.ended = job[p].ended /\ j.id = n
  <2>1. job[p] \in [started : Nat, ended : SUBSET Nat, id : Nat]
    BY <1>2, <1>4
  <2> HIDE DEF p, n
  <2> QED
    BY <1>5, <2>1
<1> HIDE DEF j, n, p
<1>7. job' \in [Pipes -> [started : Nat, ended : SUBSET Nat, id : Nat]]
      /\ \A q \in Pipes : job'[q] = IF q = p THEN j ELSE job[q]
  BY <1>1, <1>2, <1>4, <1>6
<1>8. \A q \in Pipes : job'[q].started = job[q].started
  BY <1>6, <1>7
<1>9. \A q \in Pipes : /\ job'[q].ended \subseteq 1..job'[q].started
                        /\ job'[q].id \in 0..job'[q].started
                        /\ report[q] \in 0..job'[q].started
  <2>1. SUFFICES ASSUME NEW q \in Pipes
                 PROVE  /\ job'[q].ended \subseteq 1..job'[q].started
                        /\ job'[q].id \in 0..job'[q].started
                        /\ report[q] \in 0..job'[q].started
    OBVIOUS
  <2>2. /\ job[q].ended \subseteq 1..job[q].started
        /\ job[q].id \in 0..job[q].started /\ report[q] \in 0..job[q].started
    BY DEF PipelineInv, PipeTypeOK
  <2>3. job'[q].ended = job[q].ended
    BY <1>6, <1>7
  <2>4. job'[q].id \in 0..job[q].started
    BY <1>5, <1>6, <1>7, <2>2
  <2> QED
    BY <1>8, <2>2, <2>3, <2>4
<1>10. /\ run' = [run EXCEPT ![i] = Idle] /\ run' \in [Instances -> Handlers]
      /\ queue' \subseteq queue \union {run[i].task}
      /\ queue' \subseteq Tasks /\ IsFiniteSet(queue') /\ crashes' \in Nat
  BY <1>1, FinishIsQuiet DEF PipelineInv
<1>11. PipeTypeOK'
  BY <1>1, <1>7, <1>9, <1>10 DEF PipelineInv, PipeTypeOK
<1>12. Grows /\ RootStays
  BY <1>1, <1>8, <1>11, GrowsIf DEF RootStays
<1>13. HandlingInv'
  BY <1>10, <1>11, <1>12, LastStepKeeps
<1> QED
  BY <1>1, <1>8, <1>11, <1>12, <1>13, RestKeeps

LEMMA JobEndsKeeps ==
  ASSUME PipelineInv, JobEnds
  PROVE  PipelineInv'
<1>1. PICK p \in Pipes : \E n \in (1..job[p].started) \ job[p].ended :
        /\ job' = [job EXCEPT ![p].ended = @ \union {n}]
        /\ queue' = queue \union {Callback(p, n)}
  BY DEF JobEnds
<1>2. PICK n \in (1..job[p].started) \ job[p].ended :
        /\ job' = [job EXCEPT ![p].ended = @ \union {n}]
        /\ queue' = queue \union {Callback(p, n)}
  BY <1>1
<1>3. UNCHANGED <<pipe, fanned, aborting, slot, barrier, names, run, ran, report,
                  gens, stops, raises, crashes, twice>>
  BY DEF JobEnds
<1>4. job \in [Pipes -> [started : Nat, ended : SUBSET Nat, id : Nat]]
  BY DEF PipelineInv, PipeTypeOK
<1> DEFINE j == [job[p] EXCEPT !.ended = job[p].ended \union {n}]
           added == {Callback(p, n)}
<1>5. n \in Nat /\ job[p].started \in Nat /\ job[p].started > 0
  BY <1>4
<1>6. p \in Eligible
  BY <1>5 DEF PipelineInv
<1>7. /\ j \in [started : Nat, ended : SUBSET Nat, id : Nat]
      /\ j.started = job[p].started /\ j.ended = job[p].ended \union {n}
      /\ j.id = job[p].id
  <2>1. job[p] \in [started : Nat, ended : SUBSET Nat, id : Nat]
    BY <1>4
  <2> QED
    BY <1>5, <2>1
<1>8. job' = [job EXCEPT ![p] = j]
  BY <1>2
<1> HIDE DEF j
<1>9. job' \in [Pipes -> [started : Nat, ended : SUBSET Nat, id : Nat]]
      /\ \A q \in Pipes : job'[q] = IF q = p THEN j ELSE job[q]
  BY <1>4, <1>7, <1>8
<1>10. \A q \in Pipes : job'[q].started = job[q].started
  BY <1>7, <1>9
<1>11. \A q \in Pipes : /\ job'[q].ended \subseteq 1..job'[q].started
                         /\ job'[q].id \in 0..job'[q].started
                         /\ report[q] \in 0..job'[q].started
  <2>1. SUFFICES ASSUME NEW q \in Pipes
                 PROVE  /\ job'[q].ended \subseteq 1..job'[q].started
                        /\ job'[q].id \in 0..job'[q].started
                        /\ report[q] \in 0..job'[q].started
    OBVIOUS
  <2>2. /\ job[q].ended \subseteq 1..job[q].started
        /\ job[q].id \in 0..job[q].started /\ report[q] \in 0..job[q].started
    BY DEF PipelineInv, PipeTypeOK
  <2>3. n \in 1..job[p].started
    OBVIOUS
  <2>4. job'[q].id = job[q].id
    BY <1>7, <1>9
  <2>5. job'[q].ended \subseteq 1..job[q].started
    BY <1>7, <1>9, <2>2, <2>3
  <2> QED
    BY <1>10, <2>2, <2>4, <2>5
<1>12. /\ added \in SUBSET Tasks /\ IsFiniteSet(added)
       /\ \A t \in added : t \in JustifiedTasks /\ ~RootAttempt(t)
  <2> DEFINE t == Callback(p, n)
  <2>1. t \in Tasks /\ t.do = "callback" /\ t.of = p
    BY <1>5, TasksAre
  <2> HIDE DEF t
  <2>2. t \in JustifiedTasks /\ ~RootAttempt(t) /\ IsFiniteSet({t})
    BY <1>6, <2>1, FS_Singleton DEF JustifiedTasks, RootAttempt
  <2> QED
    BY <2>1, <2>2 DEF t
<1>13. queue' = queue \union added
  BY <1>2
<1> HIDE DEF added
<1>14. queue' \subseteq Tasks /\ IsFiniteSet(queue')
  <2>1. queue \subseteq Tasks /\ IsFiniteSet(queue)
    BY TypeFacts DEF PipelineInv
  <2> QED
    BY <1>12, <1>13, <2>1, FS_Union
<1>15. PipeTypeOK'
  BY <1>3, <1>9, <1>11, <1>14 DEF PipelineInv, PipeTypeOK
<1>16. Grows /\ RootStays
  BY <1>3, <1>10, <1>15, GrowsIf DEF RootStays
<1>17. \A t \in added : t \in JustifiedTasks' /\ ~RootAttempt(t)
  BY <1>12, <1>15, <1>16, JustifiedStays
<1>18. HandlingInv'
  BY <1>3, <1>12, <1>13, <1>15, <1>16, <1>17, ServeKeeps
<1> QED
  BY <1>3, <1>10, <1>15, <1>16, <1>18, RestKeeps

LEMMA JobCallbackKeeps ==
  ASSUME PipelineInv, JobCallback
  PROVE  PipelineInv'
<1>1. PICK t \in {u \in queue : u.do = "callback"} :
        /\ report' = [report EXCEPT ![t.of] = job[t.of].id]
        /\ slot' = [slot EXCEPT ![Output(t.of)] = "filled"]
        /\ Serve(t, {NewNotify(Output(t.of))})
  BY DEF JobCallback
<1>2. UNCHANGED <<pipe, fanned, aborting, barrier, job, names, run, ran, gens,
                  stops, raises, twice>>
  BY DEF JobCallback
<1> DEFINE p == t.of
           added == {NewNotify(Output(p))}
<1>3. t \in queue /\ p \in Eligible /\ p \in Pipes
  BY PartsAre DEF PipelineInv, JustifiedTasks, Eligible
<1>4. /\ report' = [report EXCEPT ![p] = job[p].id] /\ Serve(t, added)
      /\ slot' = [slot EXCEPT ![Output(p)] = "filled"]
  BY <1>1
<1> HIDE DEF p
<1>5. /\ added \in SUBSET Tasks /\ IsFiniteSet(added)
      /\ \A u \in added : u \in JustifiedTasks /\ ~RootAttempt(u)
  BY <1>3, NotifyIsJustified
<1> HIDE DEF added
<1>6. /\ queue' \subseteq queue \union added
      /\ queue' \subseteq Tasks /\ IsFiniteSet(queue') /\ crashes' \in Nat
  BY <1>3, <1>4, <1>5, ServeIs DEF PipelineInv
<1>7. /\ slot' \in [Slots -> {"none", "waiting", "filled"}]
      /\ \A s \in Slots : slot[s] = "filled" => slot'[s] = "filled"
  BY <1>3, <1>4, FillSlotIs
<1>8. /\ report' \in [Pipes -> Nat]
      /\ \A q \in Pipes : report'[q] \in 0..job[q].started
  <2>1. /\ report \in [Pipes -> Nat] /\ job[p].id \in Nat
        /\ \A q \in Pipes : /\ report[q] \in 0..job[q].started
                             /\ job[q].id \in 0..job[q].started
    BY <1>3 DEF PipelineInv, PipeTypeOK
  <2> QED
    BY <1>3, <1>4, <2>1
<1>9. PipeTypeOK'
  BY <1>2, <1>6, <1>7, <1>8 DEF PipelineInv, PipeTypeOK
<1>10. Grows /\ RootStays
  BY <1>2, <1>7, <1>9, GrowsIf DEF RootStays
<1>11. \A u \in added : u \in JustifiedTasks' /\ ~RootAttempt(u)
  BY <1>5, <1>9, <1>10, JustifiedStays
<1>12. HandlingInv'
  BY <1>2, <1>5, <1>6, <1>9, <1>10, <1>11, ServeKeeps
<1> QED
  BY <1>2, <1>9, <1>10, <1>12, RestKeeps

-----------------------------------------------------------------------------
(* The evaluation of the root.                                             *)

LEMMA RunGeneratorKeeps ==
  ASSUME PipelineInv, NEW i \in Instances, RunGenerator(i)
  PROVE  PipelineInv'
<1> DEFINE g == gens + 1
           p == run[i].task.of
           h == [run[i] EXCEPT !.at = "fan out", !.n = g]
<1>1. /\ run[i].at = "user" /\ KindOf(p) = "generator" /\ g <= MaxGens
      /\ ran' = ran \union {p} /\ gens' = g
      /\ pipe' = [q \in Pipes |-> IF q[1] = g THEN NewRecord ELSE pipe[q]]
      /\ slot' = [s \in Slots |-> IF s[1] = g THEN "waiting" ELSE slot[s]]
      /\ run' = [run EXCEPT ![i] = h]
      /\ UNCHANGED <<fanned, aborting, barrier, job, queue, names, report, stops,
                     raises, crashes, twice>>
  BY DEF RunGenerator, At, Ran
<1>2. run[i] \in Handlers /\ run[i] \in SoundHandlers /\ p \in Pipes
  BY HandlerFacts
<1>3. p = Root /\ Evaluating(run[i])
  BY <1>1, <1>2, WorkIsEligible, KindsAre DEF Working
<1>4. /\ gens \in Nat /\ fanned \in 0..gens /\ g \in Nat /\ gens < g /\ g > 0
      /\ g \in 1..MaxGens /\ fanned \in 0..g /\ g \in 0..MaxGens /\ g \in 1..g
  BY <1>1, MaxGensType DEF PipelineInv, PipeTypeOK
<1> HIDE DEF g
<1>5. /\ h \in Handlers /\ h.at = "fan out" /\ h.n = g
      /\ h.task = run[i].task /\ h.rec = run[i].rec
  BY <1>2, <1>4, NextAtN
<1> HIDE DEF h
<1>6. /\ pipe' \in [Pipes -> Records] /\ pipe'[Root] = pipe[Root]
      /\ \A q \in Pipes : pipe'[q] = pipe[q] \/ q[1] = g
  <2>1. pipe \in [Pipes -> Records] /\ NewRecord \in Records
    BY RecordsAre DEF PipelineInv, PipeTypeOK
  <2>2. Root[1] # g
    BY <1>4, RootIndices
  <2> QED
    BY <1>1, <2>1, <2>2, PipesAre
<1>7. /\ slot' \in [Slots -> {"none", "waiting", "filled"}]
      /\ \A s \in Slots : slot'[s] = slot[s] \/ s[1] = g
  BY <1>1 DEF PipelineInv, PipeTypeOK
<1>8. PipeTypeOK'
  <2>1. ran' \subseteq Pipes /\ run' \in [Instances -> Handlers]
    BY <1>1, <1>2, <1>5 DEF PipelineInv, PipeTypeOK
  <2> HIDE DEF p
  <2> QED
    BY <1>1, <1>4, <1>6, <1>7, <2>1 DEF PipelineInv, PipeTypeOK
<1>9. Grows
  <2>1. \A s \in Slots : s \in Allocated => s[1] # g
    BY <1>4, RootIndices DEF Allocated
  <2>2. pipe[Root].attempt \in Nat /\ (\A q \in Pipes : job[q].started \in Nat)
    BY RootInPipes, TypeFacts DEF PipelineInv, PipeTypeOK
  <2>3. \A s \in Slots : slot[s] = "filled" /\ s \in Allocated => slot'[s] = "filled"
    BY <1>7, <2>1
  <2>4. gens <= gens' /\ pipe[Root].attempt <= pipe'[Root].attempt
        /\ \A q \in Pipes : job[q].started <= job'[q].started
    BY <1>1, <1>4, <1>6, <2>2
  <2> QED
    BY <1>1, <2>3, <2>4 DEF Grows
<1>10. RootStays
  BY <1>1, <1>6 DEF RootStays
<1>11. h \in SoundHandlers'
  <2>1. /\ h.task.do = "evaluate" /\ h.task.why \in {"attempt", "fanout", "start"}
        /\ h.task.n = h.rec.attempt
    BY <1>1, <1>2, <1>3, <1>5 DEF SoundHandlers, Working
  <2>2. h.n \in 1..gens'
    BY <1>1, <1>4, <1>5
  <2> QED
    BY <1>3, <1>5, <2>1, <2>2 DEF SoundHandlers, Querying, Working
<1>12. queue' \subseteq queue
  BY <1>1
<1>13. HandlingInv'
  BY <1>1, <1>3, <1>5, <1>8, <1>9, <1>10, <1>11, <1>12, QuietStepKeeps
<1>14. \A q \in Pipes : pipe'[q] = pipe[q] \/ q \in Allocated'
  <2>1. \A q \in Pipes : q[1] = g => q \in Allocated'
    BY <1>1, <1>4 DEF Allocated
  <2> QED
    BY <1>6, <2>1
<1>15. ran' \ ran \subseteq Eligible' \union {Root}
  BY <1>1, <1>3
<1> QED
  BY <1>1, <1>6, <1>8, <1>9, <1>13, <1>14, <1>15, RestKeeps

(* Whoever goes on to evaluate the root does so alone.                     *)
LEMMA EvaluatesAlone ==
  ASSUME PipelineInv, twice = 0, NEW i \in Instances, Evaluating(run[i])
  PROVE  fanned = 0 /\ \A j \in Instances \ {i} : ~Evaluating(run[j])
<1>1. fanned = 0
  BY DEF PipelineInv, FannedOutOnce
<1>2. ASSUME NEW j \in Instances \ {i}, Evaluating(run[j]) PROVE FALSE
  <2>1. run[i].task \in Tasks /\ run[j].task \in Tasks
    BY HandlerFacts
  <2>2. run[i].task.n = pipe[Root].attempt /\ run[j].task.n = pipe[Root].attempt
    BY <1>2 DEF PipelineInv, EvaluatingIsCurrent
  <2>3. RootAttempt(run[i].task) /\ RootAttempt(run[j].task)
    BY <1>2 DEF Evaluating
  <2>4. run[j].task = run[i].task
    BY <2>1, <2>2, <2>3, SameTask DEF RootAttempt
  <2> QED
    BY <2>3, <2>4 DEF PipelineInv, AttemptsApart
<1> QED
  BY <1>1, <1>2

LEMMA TransitionRunKeeps ==
  ASSUME PipelineInv, NEW i \in Instances, TransitionRun(i)
  PROVE  PipelineInv'
<1> DEFINE g == run[i].n
<1>1. /\ run[i].at = "fan out"
      /\ UNCHANGED <<aborting, slot, job, names, ran, report, gens, stops, raises, twice>>
  BY DEF TransitionRun
<1>2. run[i] \in SoundHandlers /\ g \in 1..gens /\ Evaluating(run[i])
  BY <1>1, HandlerFacts, WorkIsEligible DEF SoundHandlers, Working
<1>3. g \in 1..MaxGens /\ g # 0 /\ g \in 0..gens
  BY <1>2, TypeFacts, MaxGensType DEF PipelineInv
<1> HIDE DEF g
<1>4. CASE pipe[Root].status = "waiting"
  <2> DEFINE added == {FanOut}
             blocking == barrier.blocking \union Outputs(g)
  <2>1. /\ MarkRun(Root) /\ fanned' = g /\ barrier' = Barrier(blocking, barrier.fired)
        /\ Finish(i, added)
    BY <1>4 DEF TransitionRun, g
  <2>2. /\ added \in SUBSET Tasks /\ IsFiniteSet(added)
        /\ \A t \in added : t.do = "fanout" /\ ~RootAttempt(t)
    <3> DEFINE t == FanOut
    <3>1. t \in Tasks /\ t.do = "fanout"
      BY TasksAre
    <3>2. IsFiniteSet({t})
      BY FS_Singleton
    <3> HIDE DEF t
    <3>3. {t} \in SUBSET Tasks /\ \A u \in {t} : u.do = "fanout" /\ ~RootAttempt(u)
      BY <3>1 DEF RootAttempt
    <3> QED
      BY <3>2, <3>3 DEF t
  <2> HIDE DEF added
  <2>3. /\ run' = [run EXCEPT ![i] = Idle] /\ run' \in [Instances -> Handlers]
        /\ queue' \subseteq queue \union added \union {run[i].task}
        /\ queue' \subseteq Tasks /\ IsFiniteSet(queue') /\ crashes' \in Nat
    BY <2>1, <2>2, FinishIs DEF PipelineInv
  <2>4. /\ pipe' \in [Pipes -> Records]
        /\ \A q \in Pipes : pipe'[q] = pipe[q] \/
             (q = Root /\ pipe'[q].status = "run" /\ pipe'[q].attempt = pipe[q].attempt)
    BY <2>1, PipesAre, MarkRunIs
  <2>5. pipe'[Root].status = "run" /\ pipe'[Root].attempt = pipe[Root].attempt
    <3> DEFINE r == [pipe[Root] EXCEPT !.status = "run"]
    <3>1. pipe[Root] \in Records /\ pipe \in [Pipes -> Records]
      BY PipesAre DEF PipelineInv, PipeTypeOK
    <3>2. pipe' = [pipe EXCEPT ![Root] = r]
      BY <1>4, <2>1 DEF MarkRun
    <3>3. r.status = "run" /\ r.attempt = pipe[Root].attempt
      BY <3>1, NewStatus
    <3> HIDE DEF r
    <3> QED
      BY <3>1, <3>2, <3>3, PipesAre
  <2>6. /\ blocking \subseteq Slots /\ barrier' \in Barriers
        /\ barrier'.blocking = blocking
    <3>1. barrier \in Barriers /\ Outputs(g) \subseteq Slots
      BY <1>3, OutputsOf, TypeFacts DEF PipelineInv
    <3> QED
      BY <2>1, <3>1 DEF Barrier, Barriers
  <2> HIDE DEF blocking
  <2>7. PipeTypeOK'
    BY <1>1, <1>3, <2>1, <2>3, <2>4, <2>6 DEF PipelineInv, PipeTypeOK
  <2>8. twice = 0 => fanned = 0
    BY <1>2, EvaluatesAlone
  <2>9. Grows
    <3>1. gens \in Nat /\ pipe[Root].attempt \in Nat
          /\ \A p \in Pipes : job[p].started \in Nat
      BY RootInPipes, TypeFacts DEF PipelineInv, PipeTypeOK
    <3>2. gens <= gens' /\ pipe[Root].attempt <= pipe'[Root].attempt
          /\ \A p \in Pipes : job[p].started <= job'[p].started
      <4>1. gens' = gens /\ job' = job
        BY <1>1
      <4>2. gens <= gens' /\ \A p \in Pipes : job[p].started <= job'[p].started
        BY <3>1, <4>1
      <4> QED
        BY <2>5, <3>1, <4>2
    <3> QED
      BY <1>1, <1>3, <2>1, <2>8, <3>2 DEF Grows
  <2>10. \A t \in added : t \in JustifiedTasks'
    BY <1>3, <2>1, <2>2 DEF JustifiedTasks
  <2>11. /\ queue' \subseteq JustifiedTasks'
         /\ \A j \in Instances :
              run'[j].task \in JustifiedTasks' /\ run'[j] \in SoundHandlers'
         /\ AttemptsApart'
         /\ \A j \in Instances : Evaluating(run'[j]) =>
              Evaluating(run[j]) /\ run'[j].task = run[j].task
    <3>1. Unheld(added)
      BY <2>2 DEF Unheld
    <3> QED
      BY <2>2, <2>3, <2>7, <2>9, <2>10, <3>1, IdleIsSound, StepIsApart
  <2>12. EvaluatingIsCurrent'
    BY <1>1, <2>5, <2>11 DEF PipelineInv, EvaluatingIsCurrent, Evaluating, RootAttempt
  <2>13. FannedOutOnce'
    <3>1. SUFFICES ASSUME twice = 0, NEW j \in Instances, Evaluating(run'[j])
                   PROVE  FALSE
      BY <1>1, <2>5 DEF FannedOutOnce, Evaluating, RootAttempt
    <3>2. j # i
      BY <2>3, <3>1, IdleIsSound DEF PipelineInv, PipeTypeOK
    <3> QED
      BY <1>2, <2>11, <3>1, <3>2, EvaluatesAlone
  <2>14. HandlingInv'
    BY <2>11, <2>12, <2>13 DEF HandlingInv
  <2>15. barrier'.blocking \in Covering'
    <3>1. g \in Current' /\ Outputs(g) \subseteq blocking
      BY <1>1, <1>2, <2>1 DEF Current, blocking
    <3> QED
      BY <2>6, <3>1 DEF Covering
  <2>16. \A q \in Pipes : pipe'[q] = pipe[q] \/ q \in Allocated'
    BY <2>4 DEF Allocated
  <2> QED
    BY <1>1, <2>5, <2>7, <2>9, <2>14, <2>15, <2>16, RestKeeps
<1>5. CASE pipe[Root].status # "waiting"
  <2>1. UNCHANGED <<pipe, fanned, barrier>> /\ Finish(i, {})
    BY <1>5 DEF TransitionRun
  <2>2. /\ run' = [run EXCEPT ![i] = Idle] /\ run' \in [Instances -> Handlers]
        /\ queue' \subseteq queue \union {run[i].task}
        /\ queue' \subseteq Tasks /\ IsFiniteSet(queue') /\ crashes' \in Nat
    BY <2>1, FinishIsQuiet DEF PipelineInv
  <2>3. PipeTypeOK'
    BY <1>1, <2>1, <2>2 DEF PipelineInv, PipeTypeOK
  <2>4. Grows /\ RootStays
    BY <1>1, <2>1, <2>3, GrowsIf DEF RootStays
  <2>5. HandlingInv'
    BY <2>2, <2>3, <2>4, LastStepKeeps
  <2> QED
    BY <1>1, <2>1, <2>3, <2>4, <2>5, RestKeeps
<1> QED
  BY <1>4, <1>5

-----------------------------------------------------------------------------
(* User code raises.                                                       *)

LEMMA RunAbortsKeeps ==
  ASSUME PipelineInv, NEW i \in Instances, RunAborts(i)
  PROVE  PipelineInv'
<1> DEFINE p == run[i].task.of
<1>1. /\ run[i].at \in {"user", "job"} /\ raises' = raises + 1 /\ ran' = ran \union {p}
      /\ UNCHANGED <<pipe, fanned, slot, barrier, job, names, report, gens, twice>>
  BY DEF RunAborts, MayRaise, Ran
<1>2. p \in Pipes /\ (p # Root => p \in Eligible)
  BY <1>1, HandlerFacts, WorkIsEligible DEF Working
<1> HIDE DEF p
<1>3. raises' \in Nat /\ ran' \subseteq Pipes /\ stops + 1 \in Nat /\ stops \in Nat
  BY <1>1, <1>2 DEF PipelineInv, PipeTypeOK
<1>4. PICK added \in SUBSET Tasks :
        /\ IsFiniteSet(added) /\ Finish(i, added)
        /\ \A t \in added : t.do = "stop"
        /\ aborting' \in BOOLEAN /\ stops' \in Nat
  <2>1. CASE pipe[Root].status = "aborted" \/ aborting
    <3> DEFINE none == {}
    <3>1. /\ none \in SUBSET Tasks /\ IsFiniteSet(none) /\ Finish(i, none)
          /\ \A t \in none : t.do = "stop"
      BY <2>1, FS_EmptySet DEF RunAborts
    <3>2. aborting' \in BOOLEAN /\ stops' \in Nat
      BY <1>3, <2>1 DEF RunAborts, PipelineInv, PipeTypeOK
    <3> HIDE DEF none
    <3> QED
      BY <3>1, <3>2
  <2>2. CASE ~(pipe[Root].status = "aborted" \/ aborting)
    <3> DEFINE t == FanOutAbort(stops + 1)
               one == {t}
    <3>1. t \in Tasks /\ t.do = "stop" /\ IsFiniteSet(one)
      BY <1>3, TasksAre, FS_Singleton
    <3>2. Finish(i, one) /\ aborting' \in BOOLEAN /\ stops' \in Nat
      BY <1>3, <2>2 DEF RunAborts
    <3> HIDE DEF t
    <3>3. one \in SUBSET Tasks /\ \A u \in one : u.do = "stop"
      BY <3>1
    <3> HIDE DEF one
    <3> QED
      BY <3>1, <3>2, <3>3
  <2> QED
    BY <2>1, <2>2
<1>5. \A t \in added : t \in JustifiedTasks /\ ~RootAttempt(t)
  BY <1>4 DEF JustifiedTasks, RootAttempt
<1>6. /\ run' = [run EXCEPT ![i] = Idle] /\ run' \in [Instances -> Handlers]
      /\ queue' \subseteq queue \union added \union {run[i].task}
      /\ queue' \subseteq Tasks /\ IsFiniteSet(queue') /\ crashes' \in Nat
  BY <1>4, FinishIs DEF PipelineInv
<1>7. PipeTypeOK'
  BY <1>1, <1>3, <1>4, <1>6 DEF PipelineInv, PipeTypeOK
<1>8. Grows /\ RootStays
  BY <1>1, <1>7, GrowsIf DEF RootStays
<1>9. \A t \in added : t \in JustifiedTasks'
  BY <1>5, <1>7, <1>8, JustifiedStays
<1>10. HandlingInv'
  BY <1>5, <1>6, <1>7, <1>8, <1>9, IdleIsSound, StepKeeps
<1>11. ran' \ ran \subseteq Eligible' \union {Root}
  BY <1>1, <1>2, <1>7, <1>8, StableSets
<1> QED
  BY <1>1, <1>7, <1>8, <1>10, <1>11, RestKeeps

(* A retry adds another attempt, or the abort of the workflow.             *)
Again(i, p, n) ==
  \E t \in Tasks, added \in SUBSET Tasks :
    /\ added = {t} /\ Finish(i, added)
    /\ t.do = "stop" \/ t = Attempt(p, n)

(* It leaves what it is for recorded as waiting.                           *)
LEMMA RetryIs ==
  ASSUME PipelineInv, NEW i \in Instances, NEW p \in Pipes, ~Ended(p),
         TransitionRetry(i, p), NEW n \in Nat, n = pipe[p].attempt + 1
  PROVE  /\ n \in Nat /\ pipe[p].attempt < n /\ stops' \in Nat
         /\ pipe' \in [Pipes -> Records]
         /\ pipe'[p].status = "waiting" /\ pipe'[p].attempt = n
         /\ \A q \in Pipes \ {p} : pipe'[q] = pipe[q]
         /\ Again(i, p, n)
<1> DEFINE r == Record(TRUE, "waiting", n)
<1>1. pipe[p].attempt \in Nat /\ stops \in Nat
  BY TypeFacts, PartsAre DEF PipelineInv, PipeTypeOK
<1>2. n \in Nat /\ pipe[p].attempt < n /\ stops + 1 \in Nat
  BY <1>1
<1>3. /\ pipe' = [pipe EXCEPT ![p] = r]
      /\ \/ stops' = stops + 1 /\ Finish(i, {FanOutAbort(stops + 1)})
         \/ stops' = stops /\ Finish(i, {Attempt(p, n)})
  BY DEF TransitionRetry
<1>4. r \in Records /\ r.status = "waiting" /\ r.attempt = n
  BY <1>2 DEF Record, Records
<1> HIDE DEF r
<1>5. /\ pipe' \in [Pipes -> Records]
      /\ pipe'[p].status = "waiting" /\ pipe'[p].attempt = n
      /\ \A q \in Pipes \ {p} : pipe'[q] = pipe[q]
  <2>1. pipe \in [Pipes -> Records]
    BY DEF PipelineInv, PipeTypeOK
  <2> QED
    BY <1>3, <1>4, <2>1
<1>6. /\ FanOutAbort(stops + 1) \in Tasks /\ FanOutAbort(stops + 1).do = "stop"
      /\ Attempt(p, n) \in Tasks
  BY <1>2, TasksAre
<1>7. stops' \in Nat
  BY <1>1, <1>2, <1>3
<1>8. Again(i, p, n)
  <2> DEFINE stop == {FanOutAbort(stops + 1)}
             again == {Attempt(p, n)}
  <2>1. Finish(i, stop) \/ Finish(i, again)
    BY <1>3
  <2>2. stop \in SUBSET Tasks /\ again \in SUBSET Tasks
    BY <1>6
  <2> QED
    BY <1>6, <2>1, <2>2 DEF Again
<1> QED
  BY <1>2, <1>5, <1>7, <1>8

LEMMA RunRaisesKeeps ==
  ASSUME PipelineInv, NEW i \in Instances, RunRaises(i)
  PROVE  PipelineInv'
<1> DEFINE p == run[i].task.of
           n == pipe[p].attempt + 1
<1>1. /\ run[i].at \in {"user", "job"} /\ raises' = raises + 1 /\ ran' = ran \union {p}
      /\ TransitionRetry(i, p)
      /\ UNCHANGED <<fanned, aborting, slot, barrier, job, names, report, gens, twice>>
  BY DEF RunRaises, MayRaise, Ran
<1>2. /\ p \in Pipes /\ p \in Allocated /\ (p # Root => p \in Eligible)
      /\ p = Root => Evaluating(run[i])
  BY <1>1, HandlerFacts, WorkIsEligible DEF Working
<1>3. raises' \in Nat /\ ran' \subseteq Pipes
  BY <1>1, <1>2 DEF PipelineInv, PipeTypeOK
<1> HIDE DEF p
<1>4. CASE Ended(p)
  <2>1. UNCHANGED <<pipe, stops>> /\ Finish(i, {})
    BY <1>1, <1>4 DEF TransitionRetry
  <2>2. /\ run' = [run EXCEPT ![i] = Idle] /\ run' \in [Instances -> Handlers]
        /\ queue' \subseteq queue \union {run[i].task}
        /\ queue' \subseteq Tasks /\ IsFiniteSet(queue') /\ crashes' \in Nat
    BY <2>1, FinishIsQuiet DEF PipelineInv
  <2>3. PipeTypeOK'
    BY <1>1, <1>3, <2>1, <2>2 DEF PipelineInv, PipeTypeOK
  <2>4. Grows /\ RootStays
    BY <1>1, <2>1, <2>3, GrowsIf DEF RootStays
  <2>5. HandlingInv'
    BY <2>2, <2>3, <2>4, LastStepKeeps
  <2>6. ran' \ ran \subseteq Eligible' \union {Root}
    BY <1>1, <1>2, <2>3, <2>4, StableSets
  <2> QED
    BY <1>1, <2>1, <2>3, <2>4, <2>5, <2>6, RestKeeps
<1>5. CASE ~Ended(p)
  <2>0. n = pipe[p].attempt + 1 /\ n \in Nat
    <3>1. pipe[p].attempt \in Nat
      BY <1>2, TypeFacts, PartsAre DEF PipelineInv
    <3> QED
      BY <3>1
  <2> HIDE DEF n
  <2>1. /\ n \in Nat /\ pipe[p].attempt < n /\ stops' \in Nat
        /\ pipe' \in [Pipes -> Records]
        /\ pipe'[p].status = "waiting" /\ pipe'[p].attempt = n
        /\ \A q \in Pipes \ {p} : pipe'[q] = pipe[q]
        /\ Again(i, p, n)
    <3>1. TransitionRetry(i, p) /\ p \in Pipes /\ ~Ended(p)
      BY <1>1, <1>2, <1>5
    <3> HIDE DEF p
    <3> QED
      BY <2>0, <3>1, RetryIs
  <2>2. pipe[Root].attempt \in Nat /\ pipe[p].attempt \in Nat
    BY <1>2, RootInPipes, TypeFacts, PartsAre DEF PipelineInv, PipeTypeOK
  <2>3. PICK t \in Tasks, added \in SUBSET Tasks :
          /\ added = {t} /\ Finish(i, added)
          /\ t.do = "stop" \/ t = Attempt(p, n)
    BY <2>1 DEF Again
  <2>4. added \in SUBSET Tasks /\ IsFiniteSet(added) /\ Finish(i, added)
    BY <2>3, FS_Singleton
  <2>5. t.do = "stop" \/ (t.do = "evaluate" /\ t.why = "attempt" /\ t.of = p /\ t.n = n)
    BY <1>2, <2>1, <2>3, TasksAre
  <2>6. /\ run' = [run EXCEPT ![i] = Idle] /\ run' \in [Instances -> Handlers]
        /\ queue' \subseteq queue \union added \union {run[i].task}
        /\ queue' \subseteq Tasks /\ IsFiniteSet(queue') /\ crashes' \in Nat
    BY <2>4, FinishIs DEF PipelineInv
  <2>7. PipeTypeOK'
    BY <1>1, <1>3, <2>1, <2>6 DEF PipelineInv, PipeTypeOK
  <2>8. pipe[Root].attempt <= pipe'[Root].attempt
    <3>1. CASE p = Root
      BY <2>1, <2>2, <3>1
    <3>2. CASE p # Root
      BY <2>1, <2>2, <3>2, PipesAre
    <3> QED
      BY <3>1, <3>2
  <2>9. Grows
    <3>1. gens \in Nat /\ \A q \in Pipes : job[q].started \in Nat
      BY TypeFacts DEF PipelineInv
    <3>2. gens' = gens /\ job' = job
      BY <1>1
    <3>3. gens <= gens' /\ \A q \in Pipes : job[q].started <= job'[q].started
      BY <3>1, <3>2
    <3> QED
      BY <1>1, <2>8, <3>3 DEF Grows
  <2>10. t \in JustifiedTasks'
    <3>1. p # Root => p \in Eligible'
      BY <1>2, <2>7, <2>9, StableSets
    <3>2. p \in Allocated'
      BY <1>2, <2>7, <2>9, StableSets
    <3>3. p = Root => n <= pipe'[Root].attempt
      BY <2>1
    <3> QED
      BY <2>5, <3>1, <3>2, <3>3 DEF JustifiedTasks
  <2>11. ASSUME RootAttempt(t), NEW j \in Instances, run[j].task = t PROVE FALSE
    <3>1. t.do = "evaluate" /\ t.why = "attempt" /\ t.of = Root /\ p = Root /\ t.n = n
      BY <2>5, <2>11 DEF RootAttempt
    <3>2. t.n <= pipe[Root].attempt
      BY <2>11, <3>1, HandlerFacts DEF JustifiedTasks
    <3> QED
      BY <2>1, <2>2, <3>1, <3>2
  <2>12. /\ \A u \in added : u \in JustifiedTasks'
         /\ Unheld(added)
    BY <2>3, <2>10, <2>11 DEF Unheld
  <2>13. \A u \in added : RootAttempt(u) => p = Root
    BY <2>3, <2>5 DEF RootAttempt
  <2>14. HandlingInv'
    <3>1. CASE p # Root
      <4>1. RootStays
        BY <1>1, <2>1, <3>1, PipesAre DEF RootStays
      <4> QED
        BY <2>4, <2>6, <2>7, <2>9, <2>12, <2>13, <3>1, <4>1, IdleIsSound, StepKeeps
    <3>2. CASE p = Root
      <4>1. /\ queue' \subseteq JustifiedTasks'
            /\ \A j \in Instances :
                 run'[j].task \in JustifiedTasks' /\ run'[j] \in SoundHandlers'
            /\ AttemptsApart'
            /\ \A j \in Instances : Evaluating(run'[j]) =>
                 Evaluating(run[j]) /\ run'[j].task = run[j].task
        BY <2>4, <2>6, <2>7, <2>9, <2>12, IdleIsSound, StepIsApart
      <4>2. ASSUME twice = 0 PROVE fanned = 0 /\ \A j \in Instances : ~Evaluating(run'[j])
        <5>1. fanned = 0 /\ \A j \in Instances \ {i} : ~Evaluating(run[j])
          BY <1>2, <3>2, <4>2, EvaluatesAlone
        <5>2. ~Evaluating(run'[i])
          BY <2>6, IdleIsSound DEF PipelineInv, PipeTypeOK
        <5> QED
          BY <4>1, <5>1, <5>2
      <4>3. EvaluatingIsCurrent'
        BY <1>1, <4>2 DEF EvaluatingIsCurrent, Evaluating, RootAttempt
      <4>4. FannedOutOnce'
        BY <1>1, <4>2 DEF FannedOutOnce
      <4> QED
        BY <4>1, <4>3, <4>4 DEF HandlingInv
    <3> QED
      BY <3>1, <3>2
  <2>15. ran' \ ran \subseteq Eligible' \union {Root}
    BY <1>1, <1>2, <2>7, <2>9, StableSets
  <2>16. \A q \in Pipes : pipe'[q] = pipe[q] \/ q \in Allocated'
    BY <1>2, <2>1, <2>7, <2>9, StableSets
  <2>17. pipe'[Root].status = "done" => pipe[Root].status = "done"
    BY <2>1, PipesAre
  <2> QED
    BY <1>1, <2>7, <2>9, <2>14, <2>15, <2>16, <2>17, RestKeeps
<1> QED
  BY <1>4, <1>5

-----------------------------------------------------------------------------
(* The theorems.                                                           *)

LEMMA InitHolds ==
  ASSUME Init
  PROVE  PipelineInv
<1>1. PipeTypeOK
  <2>1. /\ pipe \in [Pipes -> Records]
        /\ slot \in [Slots -> {"none", "waiting", "filled"}]
        /\ barrier \in Barriers
        /\ run \in [Instances -> Handlers]
    BY RecordsAre, HandlersAre DEF Init
  <2>2. /\ job \in [Pipes -> [started : Nat, ended : SUBSET Nat, id : Nat]]
        /\ report \in [Pipes -> Nat]
        /\ \A p \in Pipes : /\ job[p].ended \subseteq 1..job[p].started
                             /\ job[p].id \in 0..job[p].started
                             /\ report[p] \in 0..job[p].started
    BY DEF Init
  <2>3. queue \subseteq Tasks /\ IsFiniteSet(queue)
    <3>1. queue = {Attempt(Root, 0)} /\ Attempt(Root, 0) \in Tasks
      BY PipesAre, TasksAre DEF Init
    <3> QED
      BY <3>1, FS_Singleton
  <2>4. /\ gens \in 0..MaxGens /\ fanned \in 0..gens /\ aborting \in BOOLEAN
        /\ ran \subseteq Pipes
        /\ stops \in Nat /\ raises \in Nat /\ crashes \in Nat /\ twice \in Nat
    <3>1. aborting \in BOOLEAN /\ ran \subseteq Pipes
      BY DEF Init
    <3>2. gens = 0 /\ fanned = 0
          /\ stops = 0 /\ raises = 0 /\ crashes = 0 /\ twice = 0
      BY DEF Init
    <3>3. gens \in 0..MaxGens /\ fanned \in 0..gens
      BY <3>2, MaxGensType
    <3> QED
      BY <3>1, <3>2, <3>3
  <2> QED
    BY <2>1, <2>2, <2>3, <2>4 DEF PipeTypeOK
<1>2. pipe[Root] = NewRecord /\ Root \in Pipes
  BY PipesAre DEF Init
<1>3. queue \subseteq JustifiedTasks
  <2> DEFINE t == Attempt(Root, 0)
  <2>1. /\ t \in Tasks /\ t.do = "evaluate" /\ t.why = "attempt" /\ t.of = Root
        /\ t.n = 0
    BY PipesAre, TasksAre
  <2> HIDE DEF t
  <2>2. t \in JustifiedTasks
    <3>1. t.n <= pipe[Root].attempt
      <4>1. pipe[Root].attempt = 0
        BY <1>2, RecordsAre
      <4>2. t.n = 0
        BY <2>1
      <4> QED
        BY <4>1, <4>2
    <3> QED
      BY <1>2, <2>1, <3>1 DEF JustifiedTasks, Allocated
  <2> QED
    BY <2>2 DEF Init, t
<1>4. \A i \in Instances : run[i] = Idle
  BY DEF Init
<1>5. /\ Idle.task \in JustifiedTasks /\ Idle \in SoundHandlers
      /\ ~RootAttempt(Idle.task) /\ ~Evaluating(Idle)
  BY HandlersAre, TasksAre
     DEF JustifiedTasks, SoundHandlers, Querying, Working, RootAttempt, Evaluating
<1>6. AttemptsApart /\ EvaluatingIsCurrent /\ FannedOutOnce
  BY <1>4, <1>5 DEF Init, AttemptsApart, EvaluatingIsCurrent, FannedOutOnce
<1>7. /\ \A p \in Pipes : p \in Allocated \/ pipe[p] = NoRecord
      /\ ran \ {Root} \subseteq Eligible
      /\ \A p \in Pipes : ~(job[p].started > 0)
      /\ fanned = 0
      /\ pipe[Root].status # "done"
  BY <1>2, RecordsAre DEF Init, Allocated
<1> QED
  BY <1>1, <1>3, <1>4, <1>5, <1>6, <1>7 DEF PipelineInv

LEMMA NextKeeps ==
  ASSUME PipelineInv, [Next]_vars
  PROVE  PipelineInv'
<1>1. CASE Receive
  BY <1>1, LeaveEndedKeeps, NotifyQueryKeeps, ReadRecordKeeps DEF Receive
<1>2. CASE FanOutChildren
  BY <1>2, FanOutChildrenKeeps
<1>3. CASE FanOutAborts
  BY <1>3, FanOutAbortsKeeps
<1>4. CASE JobEnds
  BY <1>4, JobEndsKeeps
<1>5. CASE JobCallback
  BY <1>5, JobCallbackKeeps
<1>6. ASSUME NEW i \in Instances, Continue(i) PROVE PipelineInv'
  <2>1. CASE NotifySlots(i) \/ NotifyFire(i) \/ NotifyAdd(i)
    BY <2>1, NotifySlotsKeeps, NotifyFireKeeps, NotifyAddKeeps
  <2>2. CASE Choose(i)
    BY <2>2, ChooseKeeps
  <2>3. CASE TransitionComplete(i)
    BY <2>3, EndKeeps DEF TransitionComplete
  <2>4. CASE TransitionAborted(i)
    BY <2>4, EndKeeps DEF TransitionAborted
  <2>5. CASE BecomeRun(i) \/ RunSync(i) \/ RunBare(i) \/ MarkBare(i)
    BY <2>5, BecomeRunKeeps, RunSyncKeeps, RunBareKeeps, MarkBareKeeps
  <2>6. CASE StartJob(i) \/ FillJobId(i)
    BY <2>6, StartJobKeeps, FillJobIdKeeps
  <2>7. CASE RunGenerator(i) \/ TransitionRun(i)
    BY <2>7, RunGeneratorKeeps, TransitionRunKeeps
  <2>8. CASE RunRaises(i) \/ RunAborts(i)
    BY <2>8, RunRaisesKeeps, RunAbortsKeeps
  <2> QED
    BY <1>6, <2>1, <2>2, <2>3, <2>4, <2>5, <2>6, <2>7, <2>8 DEF Continue
<1>7. ASSUME NEW i \in Instances, Crash(i) PROVE PipelineInv'
  BY <1>7, CrashKeeps
<1>8. CASE UNCHANGED vars
  <2>1. /\ UNCHANGED <<pipe, fanned, aborting, slot, barrier, job, queue, names, run,
                       ran, report, gens, stops, raises, crashes, twice>>
    BY <1>8 DEF vars, records
  <2>2. PipeTypeOK'
    BY <2>1 DEF PipelineInv, PipeTypeOK
  <2>3. Grows /\ RootStays
    BY <2>1, <2>2, GrowsIf DEF RootStays
  <2> DEFINE none == {}
  <2>4. /\ none \in SUBSET Tasks /\ queue' \subseteq queue \union none
        /\ \A u \in none : u \in JustifiedTasks' /\ ~RootAttempt(u)
    BY <2>1
  <2> HIDE DEF none
  <2>5. HandlingInv'
    BY <2>1, <2>2, <2>3, <2>4, ServeKeeps
  <2> QED
    BY <2>1, <2>2, <2>3, <2>5, RestKeeps
<1> QED
  BY <1>1, <1>2, <1>3, <1>4, <1>5, <1>6, <1>7, <1>8 DEF Next

(* The inductive invariant holds in every reachable state.                 *)
THEOREM PipelineInvariance == Spec => []PipelineInv
<1>1. Init => PipelineInv
  BY InitHolds
<1>2. PipelineInv /\ [Next]_vars => PipelineInv'
  BY NextKeeps
<1> QED
  BY <1>1, <1>2, PTL DEF Spec

(* Pipelines, slots, tasks and handlers have their types, and no pipeline  *)
(* knows of a job that it did not start.                                   *)
THEOREM PipeTypeCorrect == Spec => []PipeTypeOK
<1>1. PipelineInv => PipeTypeOK
  BY DEF PipelineInv
<1> QED
  BY <1>1, PipelineInvariance, PTL

(* The root is done only when the outputs of one of its evaluations, the   *)
(* one that it points to unless a task was run twice, are filled.          *)
THEOREM FinalizationWaits == Spec => []FinalizeWaitsForChildren
<1>1. ASSUME PipelineInv, pipe[Root].status = "done"
      PROVE  /\ \E g \in 1..gens : \A s \in Outputs(g) : slot[s] = "filled"
             /\ twice = 0 =>
                  fanned # 0 /\ \A s \in Outputs(fanned) : slot[s] = "filled"
  <2>1. PICK g \in Current : \A s \in Outputs(g) : slot[s] = "filled"
    BY <1>1 DEF PipelineInv, WholeEvaluation
  <2>2. g \in 1..gens /\ g # 0 /\ (twice = 0 => g = fanned)
    BY TypeFacts DEF Current, PipelineInv
  <2> QED
    BY <2>1, <2>2
<1>2. PipelineInv => FinalizeWaitsForChildren
  BY <1>1 DEF FinalizeWaitsForChildren
<1> QED
  BY <1>2, PipelineInvariance, PTL

(* Children of evaluations that the root does not point to never run,      *)
(* unless a task was given to two instances.                               *)
THEOREM OnlyPointedRuns == Spec => []OnlyPointedRun
<1>1. PipelineInv => OnlyPointedRun
  BY DEF PipelineInv, OnlyPointedRun, Eligible
<1> QED
  BY <1>1, PipelineInvariance, PTL

(* What has ended is left alone by every step.                             *)
LEMMA EndStays ==
  ASSUME PipelineInv, Next, NEW p \in Pipes, Ended(p)
  PROVE  pipe'[p].status = pipe[p].status
<1>1. pipe \in [Pipes -> Records] /\ pipe[p].status \in {"done", "aborted"}
  BY DEF PipelineInv, PipeTypeOK, Ended
<1>2. CASE Receive \/ FanOutChildren \/ FanOutAborts \/ JobEnds \/ JobCallback
  BY <1>2 DEF Receive, LeaveEnded, NotifyQuery, ReadRecord, FanOutChildren,
              FanOutAborts, JobEnds, JobCallback, records
<1>3. ASSUME NEW i \in Instances, Crash(i) PROVE pipe'[p].status = pipe[p].status
  BY <1>3 DEF Crash, records
<1>4. ASSUME NEW i \in Instances, Continue(i) PROVE pipe'[p].status = pipe[p].status
  <2>1. \A q, status : End(i, q, status) => pipe'[p] = pipe[p]
    <3>1. SUFFICES ASSUME NEW at, NEW status, End(i, at, status)
                   PROVE  pipe'[p] = pipe[p]
      OBVIOUS
    <3> DEFINE q == run[i].task.of
               r == [pipe[q] EXCEPT !.status = status]
    <3>2. pipe' = IF Ended(q) THEN pipe ELSE [pipe EXCEPT ![q] = r]
      BY <3>1 DEF End
    <3> HIDE DEF q, r
    <3>3. Ended(q) \/ q # p
      OBVIOUS
    <3> QED
      BY <1>1, <3>2, <3>3
  <2>2. ASSUME NEW q, MarkRun(q) PROVE pipe'[p] = pipe[p]
    <3> DEFINE r == [pipe[q] EXCEPT !.status = "run"]
    <3>1. pipe' = IF pipe[q].status = "waiting" THEN [pipe EXCEPT ![q] = r] ELSE pipe
      BY <2>2 DEF MarkRun
    <3> HIDE DEF r
    <3>2. pipe[q].status = "waiting" => q # p
      BY <1>1
    <3> QED
      BY <1>1, <3>1, <3>2
  <2>3. CASE TransitionComplete(i) \/ TransitionAborted(i)
    BY <2>1, <2>3 DEF TransitionComplete, TransitionAborted
  <2>4. CASE BecomeRun(i) \/ MarkBare(i)
    BY <2>2, <2>4 DEF BecomeRun, MarkBare
  <2>5. CASE TransitionRun(i)
    BY <2>2, <2>5 DEF TransitionRun
  <2>6. CASE RunGenerator(i)
    <3> DEFINE g == gens + 1
    <3>1. pipe' = [q \in Pipes |-> IF q[1] = g THEN NewRecord ELSE pipe[q]]
      BY <2>6 DEF RunGenerator
    <3>2. p \in Allocated
      BY <1>1, RecordsAre DEF PipelineInv
    <3>3. p[1] # g
      <4>1. gens \in Nat
        BY TypeFacts DEF PipelineInv
      <4>2. p = Root \/ p[1] <= gens
        BY <3>2 DEF Allocated
      <4>3. p[1] \in Nat
        BY MaxGensType, PipesAre, RootIndices
      <4> QED
        BY <4>1, <4>2, <4>3, RootIndices
    <3> HIDE DEF g
    <3> QED
      BY <3>1, <3>3
  <2>7. CASE RunRaises(i)
    <3> DEFINE q == run[i].task.of
               r == Record(TRUE, "waiting", pipe[q].attempt + 1)
    <3>1. pipe' = pipe \/ (~Ended(q) /\ pipe' = [pipe EXCEPT ![q] = r])
      BY <2>7 DEF RunRaises, TransitionRetry
    <3> HIDE DEF q, r
    <3>2. Ended(q) \/ q # p
      OBVIOUS
    <3> QED
      BY <1>1, <3>1, <3>2
  <2>8. CASE \/ NotifySlots(i) \/ NotifyFire(i) \/ NotifyAdd(i) \/ Choose(i)
             \/ RunSync(i) \/ RunBare(i) \/ StartJob(i) \/ FillJobId(i) \/ RunAborts(i)
    BY <2>8 DEF NotifySlots, NotifyFire, NotifyAdd, Choose, RunSync, RunBare,
                StartJob, FillJobId, RunAborts, records
  <2> QED
    BY <1>4, <2>3, <2>4, <2>5, <2>6, <2>7, <2>8 DEF Continue
<1> QED
  BY <1>2, <1>3, <1>4 DEF Next

(* What is done or aborted stays so.                                       *)
THEOREM EndsAreFinal == Spec => EndIsFinal
<1> DEFINE Final == \A p \in Pipes : Ended(p) => pipe'[p].status = pipe[p].status
<1>1. ASSUME PipelineInv, [Next]_vars PROVE [Final]_vars
  BY <1>1, EndStays
<1>2. PipelineInv /\ [Next]_vars => [Final]_vars
  BY <1>1
<1>3. EndIsFinal <=> [][Final]_vars
  BY DEF EndIsFinal
<1> HIDE DEF Final
<1> QED
  BY <1>2, <1>3, PipelineInvariance, PTL DEF Spec
=============================================================================
