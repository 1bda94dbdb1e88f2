-------------------------- MODULE TaskQueueProofs --------------------------
(***************************************************************************)
(* Theorems about TaskQueue, for any set of tasks, executors, workers,     *)
(* concurrent requests and configs, and any max_attempts: its invariants,  *)
(* then its steps.  It implements TaskLifecycle, a completed task stays as *)
(* it is, an assigned one is not given away, a webhook receiver is only    *)
(* told of tasks that have a result.                                       *)
(*                                                                         *)
(* Then about Fleet: the workers only do what TaskQueue lets anybody do,   *)
(* so that all of this holds of the fleet; and what the workers know of    *)
(* the tasks they hold is right.                                           *)
(***************************************************************************)
EXTENDS Fleet, TLAPS

-----------------------------------------------------------------------------
(* Types.  "attempts" stays in its type only because it is below           *)
(* max_attempts whenever a task is in the queue, so the two go together.   *)
(* A request that still has capabilities to try has a worker.              *)

(* The entities and the request the model starts from are well typed. *)
LEMMA EntityTypes == /\ Absent \in Task
                     /\ Deleted \in Task
                     /\ Idle \in Request
<1>1. Absent \in Task
  BY MaxAttemptsAssumption DEF Absent, Task
<1>2. Deleted \in Task
  BY <1>1 DEF Deleted, Task
<1>3. Idle \in Request
  BY DEF Idle, Request
<1> QED
  BY <1>1, <1>2, <1>3

(* Going to the next capability keeps the list well typed. *)
LEMMA TailType ==
  ASSUME NEW s \in Seq(Executors), s # <<>>
  PROVE  Tail(s) \in Seq(Executors) /\ Head(s) \in Executors
  OBVIOUS

(* The types hold in the initial states. *)
LEMMA TypeInit == Init => TypeInv
  BY EntityTypes
     DEF Init, TypeInv, TypeOK, RequestOK, Idle, AttemptsBounded, Absent

(* A request that ends leaves its slot idle. *)
LEMMA EndRequestTypes ==
  ASSUME TypeInv, NEW r \in Requests, EndRequest(r)
  PROVE  /\ request' \in [Requests -> Request] /\ RequestOK'
         /\ held' \in [Requests -> SUBSET Executors]
  BY EntityTypes DEF EndRequest, RequestOK, Idle, TypeInv, TypeOK

(* The steps that change nothing but the request they serve. *)
LEMMA RequestSteps ==
  ASSUME TypeInv, NEW r \in Requests,
         \/ \E w \in Workers : BeginAssign(r, w)
         \/ CheckPause(r) \/ AssignNothing(r) \/ AssignFails(r)
         \/ EndAssign(r)
  PROVE  TypeInv'
<1> USE DEF TypeInv, TypeOK
<1>1. CASE \E w \in Workers : BeginAssign(r, w)
  <2> PICK w \in Workers : BeginAssign(r, w)
    BY <1>1
  <2>1. request' \in [Requests -> Request]
    BY CapabilitiesAssumption DEF BeginAssign, Request
  <2>2. RequestOK'
    BY DEF BeginAssign, RequestOK
  <2> QED
    BY <2>1, <2>2 DEF BeginAssign, AttemptsBounded
<1>2. ASSUME request' = NextCapability(r), request[r].caps # <<>>
      PROVE  request' \in [Requests -> Request] /\ RequestOK'
  <2>1. Tail(request[r].caps) \in Seq(Executors)
    BY <1>2, TailType DEF Request
  <2>2. request' \in [Requests -> Request]
    BY <1>2, <2>1 DEF NextCapability, Request
  <2> QED
    BY <1>2, <2>2 DEF NextCapability, RequestOK, Request
<1>3. ASSUME EndRequest(r)
      PROVE  /\ request' \in [Requests -> Request] /\ RequestOK'
             /\ held' \in [Requests -> SUBSET Executors]
  BY <1>3, EndRequestTypes
<1>4. CASE CheckPause(r)
  <2>1. CASE IsExecutorPaused(Head(request[r].caps))
    BY <1>2, <1>4, <2>1 DEF CheckPause, AttemptsBounded
  <2>2. CASE ~IsExecutorPaused(Head(request[r].caps))
    <3>1. request' \in [Requests -> Request]
      BY <1>4, <2>2 DEF CheckPause, Request
    <3>2. RequestOK'
      BY <1>4, <2>2 DEF CheckPause, RequestOK, Request
    <3> QED
      BY <1>4, <3>1, <3>2 DEF CheckPause, AttemptsBounded
  <2> QED
    BY <2>1, <2>2
<1>5. CASE AssignNothing(r)
  BY <1>2, <1>5 DEF AssignNothing, RequestOK, AttemptsBounded
<1>6. CASE AssignFails(r)
  BY <1>3, <1>6 DEF AssignFails, AttemptsBounded
<1>7. CASE EndAssign(r)
  BY <1>3, <1>7 DEF EndAssign, AttemptsBounded
<1> QED
  BY <1>1, <1>4, <1>5, <1>6, <1>7

(* What AssignTaskToWorker does to the entity. *)
LEMMA AssignTaskEffect ==
  ASSUME TypeInv, NEW r \in Requests, NEW id \in Ids, NEW told \in BOOLEAN,
         AssignTask(r, id, told)
  PROVE  /\ task[id].state = "scheduled"
         /\ request[r].worker \in Workers
         /\ task[id].attempts + 1 \in Attempts
         /\ task' \in [Ids -> Task]
         /\ task'[id].state = "assigned"
         /\ task'[id].worker = request[r].worker
         /\ task'[id].attempts = task[id].attempts + 1
         /\ task'[id].config = task[id].config
         /\ task'[id].completed = task[id].completed
         /\ task'[id].outcome = task[id].outcome
         /\ task'[id].result = task[id].result
         /\ \A other \in Ids : other # id => task'[other] = task[other]
<1> USE DEF TypeInv, TypeOK
<1>1. task[id].state = "scheduled"
  BY DEF AssignTask, GetOldestTaskForCapability, GetByExecutor
<1>2. request[r].worker \in Workers
  BY DEF AssignTask, RequestOK
<1>3. task[id].attempts + 1 \in Attempts
  BY <1>1, MaxAttemptsAssumption DEF AttemptsBounded, Attempts, Task
<1>4. task' = AssignTaskToWorker(id, request[r].worker)
  BY DEF AssignTask
<1>5. task' \in [Ids -> Task]
  BY <1>2, <1>3, <1>4, MaxAttemptsAssumption
     DEF AssignTaskToWorker, Task, Attempts
<1> QED
  BY <1>1, <1>2, <1>3, <1>4, <1>5 DEF AssignTaskToWorker, Task

(* Every step keeps the types. *)
LEMMA TypeStep == TypeInv /\ [Next]_vars => TypeInv'
<1> SUFFICES ASSUME TypeInv, [Next]_vars PROVE TypeInv'
  OBVIOUS
<1>0. ASSUME NEW r \in Requests, NEW id \in Ids, NEW told \in BOOLEAN,
             AssignTask(r, id, told)
      PROVE  /\ request[r].worker \in Workers
             /\ task[id].attempts + 1 \in Attempts
             /\ task' \in [Ids -> Task]
             /\ task'[id].state = "assigned"
             /\ task'[id].attempts = task[id].attempts + 1
             /\ \A other \in Ids : other # id => task'[other] = task[other]
  BY <1>0, AssignTaskEffect
<1> USE DEF TypeInv, TypeOK
<1>1. ASSUME NEW id \in Ids, NEW config \in Configs, Schedule(id, config)
      PROVE  TypeInv'
  <2>1. [Absent EXCEPT !.state = "scheduled", !.config = config] \in Task
    BY EntityTypes DEF Task
  <2>2. task' \in [Ids -> Task]
    BY <1>1, <2>1 DEF Schedule
  <2>3. AttemptsBounded'
    BY <1>1, MaxAttemptsAssumption DEF Schedule, AttemptsBounded, Absent
  <2> QED
    BY <1>1, <2>2, <2>3 DEF Schedule, RequestOK
<1>2. ASSUME NEW id \in Ids, DeleteById(id)
      PROVE  TypeInv'
  BY <1>2, EntityTypes DEF DeleteById, RequestOK, AttemptsBounded, Deleted
<1>3. ASSUME NEW e \in Executors,
             DeleteByExecutor(e) \/ DeleteAllQuery(e) \/ DeleteAllFails(e)
      PROVE  TypeInv'
  <2>1. /\ purging' \subseteq Executors
        /\ doomed' \in [Executors -> SUBSET Ids]
    BY <1>3 DEF DeleteByExecutor, DeleteAllQuery, DeleteAllFails, GetByExecutor
  <2>2. UNCHANGED <<task, results, timers, hooks, invoking, notified, paused,
                    request, held, handed>>
    BY <1>3 DEF DeleteByExecutor, DeleteAllQuery, DeleteAllFails
  <2> QED
    BY <2>1, <2>2 DEF RequestOK, AttemptsBounded
<1>4. ASSUME NEW e \in Executors, DeleteAllDelete(e)
      PROVE  TypeInv'
  BY <1>4, EntityTypes
     DEF DeleteAllDelete, RequestOK, AttemptsBounded, Deleted
<1>5. ASSUME NEW e \in Executors, PauseExecutor(e) \/ ResumeExecutor(e)
      PROVE  TypeInv'
  BY <1>5 DEF PauseExecutor, ResumeExecutor, RequestOK, AttemptsBounded
<1>6. ASSUME NEW r \in Requests, NEW id \in Ids, NEW told \in BOOLEAN,
             AssignTask(r, id, told)
      PROVE  TypeInv'
  <2>1. AttemptsBounded'
    BY <1>6, <1>0 DEF AttemptsBounded, Task
  <2>2. timers' \subseteq Ids \X Attempts
    <3>1. timers' = timers \union {<<id, task[id].attempts + 1>>}
      BY <1>6 DEF AssignTask, ScheduleTaskTimeout
    <3>2. <<id, task[id].attempts + 1>> \in Ids \X Attempts
      BY <1>6, <1>0
    <3> QED
      BY <3>1, <3>2
  <2>3. handed' \subseteq Workers \X Ids \X Attempts
    <3>1. <<request[r].worker, id, task[id].attempts + 1>>
            \in Workers \X Ids \X Attempts
      BY <1>6, <1>0
    <3> QED
      BY <1>6, <3>1 DEF AssignTask
  <2>4. /\ request' \in [Requests -> Request]
        /\ held' \in [Requests -> SUBSET Executors]
        /\ RequestOK'
    <3>1. EndRequest(r)
      BY <1>6 DEF AssignTask
    <3> QED
      BY <3>1, EndRequestTypes
  <2>5. /\ task' \in [Ids -> Task]
        /\ UNCHANGED <<results, hooks, invoking, notified, paused, purging,
                       doomed>>
    BY <1>6, <1>0 DEF AssignTask
  <2> QED
    BY <2>1, <2>2, <2>3, <2>4, <2>5
<1>7. ASSUME NEW h \in handed, NEW exit_code \in ExitCodes,
             UploadTaskResult(h[2], h[3], exit_code)
      PROVE  TypeInv'
  <2>1. h[2] \in Ids /\ h[3] \in Attempts
    OBVIOUS
  <2>2. task' \in [Ids -> Task] /\ AttemptsBounded'
    <3>1. /\ h[3] \in 0 .. MaxAttempts
          /\ task[h[2]] \in Task
      BY <2>1 DEF Attempts
    <3>2. \E outcome \in {"success", "failed"} :
            task' = [task EXCEPT ![h[2]].state = "complete",
                                 ![h[2]].completed = TRUE,
                                 ![h[2]].outcome = outcome,
                                 ![h[2]].result = h[3]]
      BY <1>7 DEF UploadTaskResult
    <3>3. task' \in [Ids -> Task]
      BY <2>1, <3>1, <3>2 DEF Task
    <3>4. /\ task'[h[2]].state = "complete"
          /\ \A other \in Ids : other # h[2] => task'[other] = task[other]
      BY <2>1, <3>1, <3>2 DEF Task
    <3>5. AttemptsBounded'
      BY <3>4 DEF AttemptsBounded
    <3> QED
      BY <3>3, <3>5
  <2>3. results' \in [Ids -> Nat] /\ hooks' \subseteq Ids
    BY <1>7, <2>1 DEF UploadTaskResult
  <2> QED
    BY <1>7, <2>2, <2>3 DEF UploadTaskResult, RequestOK
<1>8. ASSUME NEW id \in Ids,
             \/ GetWebhook(id)
             \/ \E accepted \in BOOLEAN, again \in BOOLEAN :
                  InvokeWebhook(id, accepted, again)
      PROVE  TypeInv'
  BY <1>8 DEF GetWebhook, InvokeWebhook, RequestOK, AttemptsBounded
<1>9. ASSUME NEW t \in timers, NEW again \in BOOLEAN,
             TaskTimeout(t[1], t[2], again)
      PROVE  TypeInv'
  <2>1. t[1] \in Ids
    OBVIOUS
  <2>2. task' \in [Ids -> Task] /\ AttemptsBounded'
    BY SMTT(30), <1>9, <2>1, MaxAttemptsAssumption
       DEF TaskTimeout, TimeOutTask, Task, AttemptsBounded
  <2> QED
    BY <1>9, <2>2 DEF TaskTimeout, RequestOK
<1>10. CASE UNCHANGED vars
  BY <1>10 DEF vars, RequestOK, AttemptsBounded
<1> QED
  BY <1>1, <1>2, <1>3, <1>4, <1>5, <1>6, <1>7, <1>8, <1>9, <1>10,
     RequestSteps DEF Next

(* The types, and what they rest on, hold in every reachable state. *)
THEOREM TypeInvariant == Spec => []TypeInv
<1>1. Init => TypeInv
  BY TypeInit
<1>2. TypeInv /\ [Next]_vars => TypeInv'
  BY TypeStep
<1> QED
  BY <1>1, <1>2, PTL DEF Spec

(* Every variable keeps its type. *)
THEOREM TypeCorrect == Spec => []TypeOK
<1>1. TypeInv => TypeOK
  BY DEF TypeInv
<1> QED
  BY <1>1, TypeInvariant, PTL

(* No task is tried more often than max_attempts allows. *)
THEOREM AttemptsStayBounded == Spec => []AttemptsBounded
<1>1. TypeInv => AttemptsBounded
  BY DEF TypeInv
<1> QED
  BY <1>1, TypeInvariant, PTL

-----------------------------------------------------------------------------
(* Kinds of steps.  The safety properties do not tell apart the steps that *)
(* leave the entities, the timeouts and the answers alone, of which those  *)
(* of the webhook callbacks are some, nor the two ways of deleting tasks.  *)

Quiet == UNCHANGED <<task, results, timers, handed>>

HooksAlone == UNCHANGED <<hooks, invoking, notified>>

WebhookStep ==
  \E id \in Ids :
    \/ GetWebhook(id)
    \/ \E accepted \in BOOLEAN, again \in BOOLEAN :
         InvokeWebhook(id, accepted, again)

RemoveTasks(S) ==
  /\ \A id \in S : task[id].state # "absent"
  /\ task' = [id \in Ids |-> IF id \in S THEN Deleted ELSE task[id]]
  /\ UNCHANGED <<results, timers, hooks, invoking, notified, handed>>

(* Every step is of one of these kinds. *)
LEMMA StepKinds ==
  ASSUME TypeInv, DoomedScheduled, [Next]_vars
  PROVE  \/ Quiet /\ (HooksAlone \/ WebhookStep)
         \/ \E id \in Ids, config \in Configs : Schedule(id, config)
         \/ \E S \in SUBSET Ids : RemoveTasks(S)
         \/ \E r \in Requests, id \in Ids, told \in BOOLEAN :
              AssignTask(r, id, told)
         \/ \E h \in handed, exit_code \in ExitCodes :
              UploadTaskResult(h[2], h[3], exit_code)
         \/ \E t \in timers, again \in BOOLEAN : TaskTimeout(t[1], t[2], again)
<1>1. ASSUME NEW id \in Ids, DeleteById(id)
      PROVE  RemoveTasks({id})
  <2>1. task[id].state # "absent"
    BY <1>1 DEF DeleteById, Exists
  <2>2. task' = [i \in Ids |-> IF i \in {id} THEN Deleted ELSE task[i]]
    BY <1>1 DEF DeleteById, TypeInv, TypeOK
  <2> QED
    BY <1>1, <2>1, <2>2 DEF DeleteById, RemoveTasks
<1>2. ASSUME NEW e \in Executors, DeleteAllDelete(e)
      PROVE  RemoveTasks(doomed[e]) /\ doomed[e] \in SUBSET Ids
  BY <1>2 DEF DeleteAllDelete, RemoveTasks, DoomedScheduled, TypeInv, TypeOK
<1>3. ASSUME NEW e \in Executors,
             \/ DeleteByExecutor(e) \/ DeleteAllQuery(e) \/ DeleteAllFails(e)
             \/ PauseExecutor(e) \/ ResumeExecutor(e)
      PROVE  Quiet /\ HooksAlone
  BY <1>3 DEF DeleteByExecutor, DeleteAllQuery, DeleteAllFails, PauseExecutor,
              ResumeExecutor, Quiet, HooksAlone
<1>4. ASSUME NEW r \in Requests,
             \/ \E w \in Workers : BeginAssign(r, w)
             \/ CheckPause(r) \/ AssignNothing(r) \/ AssignFails(r)
             \/ EndAssign(r)
      PROVE  Quiet /\ HooksAlone
  BY <1>4 DEF BeginAssign, CheckPause, AssignNothing, AssignFails, EndAssign,
              Quiet, HooksAlone
<1>5. CASE UNCHANGED vars
  BY <1>5 DEF vars, Quiet, HooksAlone
<1>6. ASSUME NEW id \in Ids,
             \/ GetWebhook(id)
             \/ \E accepted \in BOOLEAN, again \in BOOLEAN :
                  InvokeWebhook(id, accepted, again)
      PROVE  Quiet /\ WebhookStep
  <2>1. Quiet
    BY <1>6 DEF GetWebhook, InvokeWebhook, Quiet
  <2>2. WebhookStep
    BY <1>6 DEF WebhookStep
  <2> QED
    BY <2>1, <2>2
<1> QED
  BY <1>1, <1>2, <1>3, <1>4, <1>5, <1>6 DEF Next

-----------------------------------------------------------------------------
(* What the steps that change entities do, field by field.                 *)

(* What Schedule does to the entities. *)
LEMMA ScheduleEffect ==
  ASSUME TypeInv, NEW id \in Ids, NEW config \in Configs, Schedule(id, config)
  PROVE  /\ task[id].state = "absent"
         /\ task'[id].state = "scheduled"
         /\ task'[id].attempts = 0
         /\ task'[id].result = 0
         /\ task'[id].completed = FALSE
         /\ task'[id].outcome = "none"
         /\ \A other \in Ids : other # id => task'[other] = task[other]
  BY DEF Schedule, Absent, TypeInv, TypeOK

(* An accepted upload: the task was waiting or assigned, and is complete *)
(* with the result of its latest attempt.                                *)
LEMMA UploadEffect ==
  ASSUME TypeInv, NEW id \in Ids, NEW attempt \in Attempts,
         NEW exit_code \in ExitCodes, UploadTaskResult(id, attempt, exit_code)
  PROVE  /\ task[id].state \in {"assigned", "scheduled"}
         /\ task[id].attempts = attempt
         /\ task'[id].state = "complete"
         /\ task'[id].completed = TRUE
         /\ task'[id].outcome \in {"success", "failed"}
         /\ task'[id].result = attempt
         /\ task'[id].attempts = attempt
         /\ task'[id].worker = task[id].worker
         /\ task'[id].config = task[id].config
         /\ \A other \in Ids : other # id => task'[other] = task[other]
<1>1. UploadVerdict(id, attempt) = "accepted"
  BY DEF UploadTaskResult
<1>2. /\ task[id].state \in {"assigned", "scheduled"}
      /\ task[id].attempts = attempt
  BY <1>1 DEF UploadVerdict, Exists
<1> QED
  BY <1>2 DEF UploadTaskResult, TypeInv, TypeOK, Task

(* A timeout callback that changes something: the attempt it was set for  *)
(* is still running, and is put back in the queue or gives up.            *)
LEMMA TimeoutEffect ==
  ASSUME TypeInv, NEW t \in timers, NEW again \in BOOLEAN,
         TaskTimeout(t[1], t[2], again), task' # task
  PROVE  /\ t[1] \in Ids
         /\ t = <<t[1], t[2]>>
         /\ task[t[1]].state = "assigned"
         /\ task[t[1]].attempts = t[2]
         /\ \/ /\ task[t[1]].attempts < MaxAttempts
               /\ task'[t[1]].state = "scheduled"
               /\ task'[t[1]].outcome = task[t[1]].outcome
            \/ /\ task[t[1]].attempts = MaxAttempts
               /\ task'[t[1]].state = "complete"
               /\ task'[t[1]].outcome = "timed_out"
         /\ task'[t[1]].completed = task[t[1]].completed
         /\ task'[t[1]].result = task[t[1]].result
         /\ task'[t[1]].attempts = task[t[1]].attempts
         /\ task'[t[1]].worker = task[t[1]].worker
         /\ task'[t[1]].config = task[t[1]].config
         /\ \A other \in Ids : other # t[1] => task'[other] = task[other]
<1>1. t[1] \in Ids /\ t[2] \in Attempts /\ t = <<t[1], t[2]>>
  BY DEF TypeInv, TypeOK
<1>2. /\ task[t[1]].state = "assigned"
      /\ task[t[1]].attempts = t[2]
      /\ task' = TimeOutTask(t[1])
  BY DEF TaskTimeout
<1>3. t[2] \in Nat /\ t[2] <= MaxAttempts
  BY <1>1, MaxAttemptsAssumption DEF Attempts
<1>4. CASE task[t[1]].attempts >= MaxAttempts
  <2>1. task' = [task EXCEPT ![t[1]].state = "complete",
                             ![t[1]].outcome = "timed_out"]
    BY <1>2, <1>4 DEF TimeOutTask
  <2>2. task[t[1]].attempts = MaxAttempts
    BY <1>2, <1>3, <1>4, MaxAttemptsAssumption
  <2> QED
    BY <1>1, <1>2, <2>1, <2>2 DEF TypeInv, TypeOK, Task
<1>5. CASE ~(task[t[1]].attempts >= MaxAttempts)
  <2>1. task' = [task EXCEPT ![t[1]].state = "scheduled"]
    BY <1>2, <1>5 DEF TimeOutTask
  <2>2. task[t[1]].attempts < MaxAttempts
    BY <1>2, <1>3, <1>5, MaxAttemptsAssumption
  <2> QED
    BY <1>1, <1>2, <2>1, <2>2 DEF TypeInv, TypeOK, Task
<1> QED
  BY <1>4, <1>5

(* What a deletion does to the entities. *)
LEMMA RemoveEffect ==
  ASSUME TypeInv, NEW S \in SUBSET Ids, RemoveTasks(S)
  PROVE  /\ \A id \in S : /\ task[id].state # "absent"
                          /\ task'[id].state = "deleted"
                          /\ task'[id].result = 0
                          /\ task'[id].completed = FALSE
         /\ \A id \in Ids \ S : task'[id] = task[id]
  BY DEF RemoveTasks, Deleted, Absent

-----------------------------------------------------------------------------
(* Preservation of the inductive invariant, part by part.                  *)

(* NoResultYet, OneResultOfLastAttempt and ExportedHasResult speak of one  *)
(* task at a time: this is what they say of entity t with n TaskResults.   *)
ResultOK(t, n) ==
  /\ t.state \in {"absent", "scheduled", "assigned"} => ~t.completed /\ n = 0
  /\ n <= 1
  /\ t.result # 0 => t.state = "complete" /\ t.result = t.attempts /\ n = 1
  /\ t.completed => t.result # 0 /\ t.outcome \in {"success", "failed"}

(* The three properties, before and after a step, task by task. *)
LEMMA ResultsByTask ==
  /\ NoResultYet /\ OneResultOfLastAttempt /\ ExportedHasResult
       <=> \A id \in Ids : ResultOK(task[id], results[id])
  /\ NoResultYet' /\ OneResultOfLastAttempt' /\ ExportedHasResult'
       <=> \A id \in Ids : ResultOK(task'[id], results'[id])
  BY DEF NoResultYet, OneResultOfLastAttempt, ExportedHasResult, ResultOK

(* Every step keeps what is said of results and of exported tasks. *)
LEMMA ResultsStep ==
  ASSUME IndInv, [Next]_vars
  PROVE  NoResultYet' /\ OneResultOfLastAttempt' /\ ExportedHasResult'
<1> SUFFICES \A id \in Ids : ResultOK(task'[id], results'[id])
  BY ResultsByTask
<1>0. /\ TypeInv /\ DoomedScheduled
      /\ results \in [Ids -> Nat]
      /\ \A id \in Ids : ResultOK(task[id], results[id])
  BY ResultsByTask DEF IndInv, TypeInv, TypeOK
<1>1. CASE Quiet
  BY <1>0, <1>1 DEF Quiet
<1>2. ASSUME NEW id \in Ids, NEW config \in Configs, Schedule(id, config)
      PROVE  \A i \in Ids : ResultOK(task'[i], results'[i])
  <2>1. results' = results
    BY <1>2 DEF Schedule
  <2>2. /\ task[id].state = "absent"
        /\ task'[id].result = 0
        /\ task'[id].completed = FALSE
        /\ \A other \in Ids : other # id => task'[other] = task[other]
    BY <1>0, <1>2, ScheduleEffect
  <2>3. ResultOK(task[id], results[id])
    BY <1>0
  <2>4. ResultOK(task'[id], results'[id])
    BY <2>1, <2>2, <2>3 DEF ResultOK
  <2> QED
    BY <1>0, <2>1, <2>2, <2>4
<1>3. ASSUME NEW S \in SUBSET Ids, RemoveTasks(S)
      PROVE  \A i \in Ids : ResultOK(task'[i], results'[i])
  <2>1. results' = results
    BY <1>3 DEF RemoveTasks
  <2>2. /\ \A id \in S : /\ task'[id].state = "deleted"
                         /\ task'[id].result = 0
                         /\ task'[id].completed = FALSE
        /\ \A id \in Ids \ S : task'[id] = task[id]
    BY <1>0, <1>3, RemoveEffect
  <2>3. ASSUME NEW id \in S
        PROVE  ResultOK(task'[id], results'[id])
    <3>1. ResultOK(task[id], results[id])
      BY <1>0
    <3>2. /\ task'[id].state = "deleted"
          /\ task'[id].result = 0
          /\ task'[id].completed = FALSE
      BY <2>2
    <3> QED
      BY <2>1, <3>1, <3>2 DEF ResultOK
  <2> QED
    BY <1>0, <2>1, <2>2, <2>3
<1>4. ASSUME NEW r \in Requests, NEW id \in Ids, NEW told \in BOOLEAN,
             AssignTask(r, id, told)
      PROVE  \A i \in Ids : ResultOK(task'[i], results'[i])
  <2>1. results' = results
    BY <1>4 DEF AssignTask
  <2>2. /\ task[id].state = "scheduled"
        /\ task'[id].state = "assigned"
        /\ task'[id].completed = task[id].completed
        /\ task'[id].result = task[id].result
        /\ \A other \in Ids : other # id => task'[other] = task[other]
    BY <1>0, <1>4, AssignTaskEffect
  <2>3. ResultOK(task[id], results[id])
    BY <1>0
  <2>4. ResultOK(task'[id], results'[id])
    BY <2>1, <2>2, <2>3 DEF ResultOK
  <2> QED
    BY <1>0, <2>1, <2>2, <2>4
<1>5. ASSUME NEW h \in handed, NEW exit_code \in ExitCodes,
             UploadTaskResult(h[2], h[3], exit_code)
      PROVE  \A i \in Ids : ResultOK(task'[i], results'[i])
  <2>1. h[2] \in Ids /\ h[3] \in Attempts /\ h[3] # 0
    BY <1>0, MaxAttemptsAssumption DEF TypeInv, TypeOK, Attempts
  <2>2. results' = [results EXCEPT ![h[2]] = @ + 1]
    BY <1>5 DEF UploadTaskResult
  <2>3. /\ task[h[2]].state \in {"assigned", "scheduled"}
        /\ task'[h[2]].state = "complete"
        /\ task'[h[2]].outcome \in {"success", "failed"}
        /\ task'[h[2]].result = h[3]
        /\ task'[h[2]].attempts = h[3]
        /\ \A other \in Ids : other # h[2] => task'[other] = task[other]
    BY <1>0, <1>5, <2>1, UploadEffect
  <2>4. results[h[2]] = 0
    <3>1. ResultOK(task[h[2]], results[h[2]])
      BY <1>0, <2>1
    <3> QED
      BY <2>3, <3>1 DEF ResultOK
  <2>5. /\ results'[h[2]] = 1
        /\ \A other \in Ids : other # h[2] => results'[other] = results[other]
    BY <1>0, <2>1, <2>2, <2>4
  <2>6. ResultOK(task'[h[2]], results'[h[2]])
    BY <2>1, <2>3, <2>5 DEF ResultOK
  <2> QED
    BY <1>0, <2>3, <2>5, <2>6
<1>7. ASSUME NEW t \in timers, NEW again \in BOOLEAN,
             TaskTimeout(t[1], t[2], again)
      PROVE  \A i \in Ids : ResultOK(task'[i], results'[i])
  <2>1. results' = results
    BY <1>7 DEF TaskTimeout
  <2>2. CASE task' = task
    BY <1>0, <2>1, <2>2
  <2>3. CASE task' # task
    <3>1. /\ t[1] \in Ids
          /\ task[t[1]].state = "assigned"
          /\ task'[t[1]].state \in {"scheduled", "complete"}
          /\ task'[t[1]].completed = task[t[1]].completed
          /\ task'[t[1]].result = task[t[1]].result
          /\ \A other \in Ids : other # t[1] => task'[other] = task[other]
      BY <1>0, <1>7, <2>3, TimeoutEffect
    <3>2. ResultOK(task[t[1]], results[t[1]])
      BY <1>0, <3>1
    <3>3. ResultOK(task'[t[1]], results'[t[1]])
      BY <2>1, <3>1, <3>2 DEF ResultOK
    <3> QED
      BY <1>0, <2>1, <3>1, <3>3
  <2> QED
    BY <2>2, <2>3
<1> QED
  BY <1>0, <1>1, <1>2, <1>3, <1>4, <1>5, <1>7, StepKinds

(* Every step keeps the timeout callback of an assigned task pending. *)
LEMMA TimersStep ==
  ASSUME IndInv, [Next]_vars
  PROVE  AssignedHasTimer'
<1> USE DEF AssignedHasTimer
<1>0. TypeInv /\ DoomedScheduled /\ AssignedHasTimer
  BY DEF IndInv
<1>1. CASE Quiet
  BY <1>0, <1>1 DEF Quiet
<1>2. ASSUME NEW id \in Ids, NEW config \in Configs, Schedule(id, config)
      PROVE  AssignedHasTimer'
  <2>1. timers' = timers
    BY <1>2 DEF Schedule
  <2> QED
    BY <1>0, <1>2, <2>1, ScheduleEffect
<1>3. ASSUME NEW S \in SUBSET Ids, RemoveTasks(S)
      PROVE  AssignedHasTimer'
  <2>1. timers' = timers
    BY <1>3 DEF RemoveTasks
  <2> QED
    BY <1>0, <1>3, <2>1, RemoveEffect
<1>4. ASSUME NEW r \in Requests, NEW id \in Ids, NEW told \in BOOLEAN,
             AssignTask(r, id, told)
      PROVE  AssignedHasTimer'
  <2>1. timers' = timers \union {<<id, task[id].attempts + 1>>}
    BY <1>4 DEF AssignTask, ScheduleTaskTimeout
  <2> QED
    BY <1>0, <1>4, <2>1, AssignTaskEffect
<1>5. ASSUME NEW h \in handed, NEW exit_code \in ExitCodes,
             UploadTaskResult(h[2], h[3], exit_code)
      PROVE  AssignedHasTimer'
  <2>1. timers' = timers
    BY <1>5 DEF UploadTaskResult
  <2>2. h[2] \in Ids /\ h[3] \in Attempts
    BY <1>0 DEF TypeInv, TypeOK
  <2>3. /\ task'[h[2]].state = "complete"
        /\ \A other \in Ids : other # h[2] => task'[other] = task[other]
    BY <1>0, <1>5, <2>2, UploadEffect
  <2> QED
    BY <1>0, <2>1, <2>3
<1>7. ASSUME NEW t \in timers, NEW again \in BOOLEAN,
             TaskTimeout(t[1], t[2], again)
      PROVE  AssignedHasTimer'
  <2>1. timers \ {t} \subseteq timers' /\ timers' \subseteq timers
    BY <1>0, <1>7 DEF TaskTimeout, TypeInv, TypeOK
  <2>2. CASE task' = task
    (* The callback fired for nothing: it is not the one of an assigned    *)
    (* task's current attempt, or that task would have changed.            *)
    <3>1. ASSUME NEW id \in Ids, task[id].state = "assigned"
          PROVE  <<id, task[id].attempts>> # t
      <4>1. SUFFICES ASSUME <<id, task[id].attempts>> = t PROVE FALSE
        OBVIOUS
      <4>2. t[1] = id /\ t[2] = task[id].attempts
        BY <4>1
      <4>3. task' = TimeOutTask(id)
        BY <1>7, <3>1, <4>2 DEF TaskTimeout
      <4>4. task'[id].state # "assigned"
        BY <1>0, <4>3 DEF TimeOutTask, TypeInv, TypeOK, Task
      <4> QED
        BY <2>2, <3>1, <4>4
    <3> QED
      BY <1>0, <2>1, <2>2, <3>1
  <2>3. CASE task' # task
    <3>1. /\ task'[t[1]].state # "assigned"
          /\ \A other \in Ids : other # t[1] => task'[other] = task[other]
      BY <1>0, <1>7, <2>3, TimeoutEffect
    <3>2. \A other \in Ids, a \in Attempts : other # t[1] => <<other, a>> # t
      OBVIOUS
    <3> QED
      BY <1>0, <2>1, <3>1
  <2> QED
    BY <2>2, <2>3
<1> QED
  BY <1>0, <1>1, <1>2, <1>3, <1>4, <1>5, <1>7, StepKinds

(* Every step keeps told attempts in the past and told to one worker. *)
LEMMA HandedStep ==
  ASSUME IndInv, [Next]_vars
  PROVE  HandedBehind' /\ AttemptHandedOnce'
<1> USE DEF HandedBehind, AttemptHandedOnce, Exists
<1>0. /\ TypeInv /\ DoomedScheduled /\ HandedBehind /\ AttemptHandedOnce
      /\ \A h \in handed : h[2] \in Ids /\ h[3] \in Attempts
      /\ \A id \in Ids : task[id].attempts \in Nat
      /\ Attempts \subseteq Nat
  BY MaxAttemptsAssumption DEF IndInv, TypeInv, TypeOK, Task, Attempts
<1>1. CASE Quiet
  BY <1>0, <1>1 DEF Quiet
<1>2. ASSUME NEW id \in Ids, NEW config \in Configs, Schedule(id, config)
      PROVE  HandedBehind' /\ AttemptHandedOnce'
  <2>1. handed' = handed
    BY <1>2 DEF Schedule
  <2>2. /\ task[id].state = "absent"
        /\ \A other \in Ids : other # id => task'[other] = task[other]
    BY <1>0, <1>2, ScheduleEffect
  <2> QED
    BY <1>0, <2>1, <2>2
<1>3. ASSUME NEW S \in SUBSET Ids, RemoveTasks(S)
      PROVE  HandedBehind' /\ AttemptHandedOnce'
  <2>1. handed' = handed
    BY <1>3 DEF RemoveTasks
  <2>2. /\ \A id \in S : task'[id].state = "deleted"
        /\ \A id \in Ids \ S : task'[id] = task[id]
    BY <1>0, <1>3, RemoveEffect
  <2> QED
    BY <1>0, <2>1, <2>2
<1>4. ASSUME NEW r \in Requests, NEW id \in Ids, NEW told \in BOOLEAN,
             AssignTask(r, id, told)
      PROVE  HandedBehind' /\ AttemptHandedOnce'
  <2> DEFINE new == <<request[r].worker, id, task[id].attempts + 1>>
  <2>1. handed' = IF told THEN handed \union {new} ELSE handed
    BY <1>4 DEF AssignTask
  <2>2. /\ task[id].state = "scheduled"
        /\ task'[id].state = "assigned"
        /\ task'[id].attempts = task[id].attempts + 1
        /\ \A other \in Ids : other # id => task'[other] = task[other]
    BY <1>0, <1>4, AssignTaskEffect
  <2>3. \A h \in handed : h[2] = id => h[3] <= task[id].attempts
    BY <1>0, <2>2
  <2>4. \A h \in handed : h[2] = id => h[3] # task[id].attempts + 1
    BY <1>0, <2>3
  <2>5. HandedBehind'
    <3>1. ASSUME NEW h \in handed
          PROVE  /\ task'[h[2]].state # "absent"
                 /\ Exists(h[2])' => h[3] <= task'[h[2]].attempts
      <4>1. CASE h[2] = id
        <5>1. /\ h[3] \in Nat /\ task[id].attempts \in Nat
              /\ h[3] <= task[id].attempts
          BY <1>0, <2>3, <4>1
        <5>2. h[3] <= task[id].attempts + 1
          BY <5>1
        <5> QED
          BY <2>2, <4>1, <5>2
      <4>2. CASE h[2] # id
        BY <1>0, <2>2, <4>2
      <4> QED
        BY <4>1, <4>2
    <3>2. /\ task'[new[2]].state # "absent"
          /\ new[3] <= task'[new[2]].attempts
      BY <1>0, <2>2
    <3>3. \A h \in handed' : h \in handed \/ h = new
      BY <2>1
    <3> HIDE DEF new
    <3>4. ASSUME NEW h \in handed'
          PROVE  /\ task'[h[2]].state # "absent"
                 /\ Exists(h[2])' => h[3] <= task'[h[2]].attempts
      BY <3>1, <3>2, <3>3
    <3> QED
      BY <3>4
  <2>6. AttemptHandedOnce'
    BY <1>0, <2>1, <2>4
  <2> QED
    BY <2>5, <2>6
<1>5. ASSUME NEW h \in handed, NEW exit_code \in ExitCodes,
             UploadTaskResult(h[2], h[3], exit_code)
      PROVE  HandedBehind' /\ AttemptHandedOnce'
  <2>1. handed' = handed
    BY <1>5 DEF UploadTaskResult
  <2>2. /\ task[h[2]].attempts = h[3]
        /\ task'[h[2]].state = "complete"
        /\ task'[h[2]].attempts = h[3]
        /\ task[h[2]].state \in {"assigned", "scheduled"}
        /\ \A other \in Ids : other # h[2] => task'[other] = task[other]
    BY <1>0, <1>5, UploadEffect
  <2> QED
    BY <1>0, <2>1, <2>2
<1>7. ASSUME NEW t \in timers, NEW again \in BOOLEAN,
             TaskTimeout(t[1], t[2], again)
      PROVE  HandedBehind' /\ AttemptHandedOnce'
  <2>1. handed' = handed
    BY <1>7 DEF TaskTimeout
  <2>2. CASE task' = task
    BY <1>0, <2>1, <2>2
  <2>3. CASE task' # task
    <3>1. /\ task[t[1]].state = "assigned"
          /\ task'[t[1]].state \in {"scheduled", "complete"}
          /\ task'[t[1]].attempts = task[t[1]].attempts
          /\ \A other \in Ids : other # t[1] => task'[other] = task[other]
      BY <1>0, <1>7, <2>3, TimeoutEffect
    <3> QED
      BY <1>0, <2>1, <3>1
  <2> QED
    BY <2>2, <2>3
<1> QED
  BY <1>0, <1>1, <1>2, <1>3, <1>4, <1>5, <1>7, StepKinds

(* Every step keeps each result announced, or about to be. *)
LEMMA HooksStep ==
  ASSUME IndInv, [Next]_vars
  PROVE  HooksHaveResults' /\ InvokingIsPending' /\ WebhookNotLost'
<1> USE DEF HooksHaveResults, InvokingIsPending, WebhookNotLost
<1>0. /\ TypeInv /\ DoomedScheduled
      /\ HooksHaveResults /\ InvokingIsPending /\ WebhookNotLost
      /\ hooks \subseteq Ids
      /\ NoResultYet /\ OneResultOfLastAttempt
  BY DEF IndInv, TypeInv, TypeOK
<1>1. CASE Quiet /\ HooksAlone
  BY <1>0, <1>1 DEF Quiet, HooksAlone
<1>2. ASSUME NEW id \in Ids, NEW config \in Configs, Schedule(id, config)
      PROVE  HooksHaveResults' /\ InvokingIsPending' /\ WebhookNotLost'
  <2>1. hooks' = hooks /\ invoking' = invoking /\ notified' = notified
    BY <1>2 DEF Schedule
  <2>2. /\ task[id].state = "absent"
        /\ task'[id].result = 0
        /\ \A other \in Ids : other # id => task'[other] = task[other]
    BY <1>0, <1>2, ScheduleEffect
  <2>3. id \notin hooks
    BY <1>0, <2>2 DEF OneResultOfLastAttempt
  <2> QED
    BY <1>0, <2>1, <2>2, <2>3
<1>3. ASSUME NEW S \in SUBSET Ids, RemoveTasks(S)
      PROVE  HooksHaveResults' /\ InvokingIsPending' /\ WebhookNotLost'
  <2>1. hooks' = hooks /\ invoking' = invoking /\ notified' = notified
    BY <1>3 DEF RemoveTasks
  <2>2. /\ \A id \in S : task'[id].state = "deleted" /\ task'[id].result = 0
        /\ \A id \in Ids \ S : task'[id] = task[id]
    BY <1>0, <1>3, RemoveEffect
  <2> QED
    BY <1>0, <2>1, <2>2
<1>4. ASSUME NEW r \in Requests, NEW id \in Ids, NEW told \in BOOLEAN,
             AssignTask(r, id, told)
      PROVE  HooksHaveResults' /\ InvokingIsPending' /\ WebhookNotLost'
  <2>1. hooks' = hooks /\ invoking' = invoking /\ notified' = notified
    BY <1>4 DEF AssignTask
  <2>2. /\ task[id].state = "scheduled"
        /\ task'[id].result = task[id].result
        /\ task'[id].config = task[id].config
        /\ \A other \in Ids : other # id => task'[other] = task[other]
    BY <1>0, <1>4, AssignTaskEffect
  <2> QED
    BY <1>0, <2>1, <2>2
<1>5. ASSUME NEW h \in handed, NEW exit_code \in ExitCodes,
             UploadTaskResult(h[2], h[3], exit_code)
      PROVE  HooksHaveResults' /\ InvokingIsPending' /\ WebhookNotLost'
  <2>1. h[2] \in Ids /\ h[3] \in Attempts /\ h[3] # 0
    BY <1>0, MaxAttemptsAssumption DEF TypeInv, TypeOK, Attempts
  <2>2. /\ hooks' = hooks \union {h[2]}
        /\ invoking' = invoking /\ notified' = notified
    BY <1>5 DEF UploadTaskResult
  <2>3. /\ task'[h[2]].result = h[3]
        /\ \A other \in Ids : other # h[2] => task'[other] = task[other]
    BY <1>0, <1>5, <2>1, UploadEffect
  <2> QED
    BY <1>0, <2>1, <2>2, <2>3
<1>6. ASSUME NEW id \in Ids, NEW accepted \in BOOLEAN, NEW again \in BOOLEAN,
             InvokeWebhook(id, accepted, again)
      PROVE  HooksHaveResults' /\ InvokingIsPending' /\ WebhookNotLost'
  <2>1. task' = task /\ hooks' \subseteq hooks /\ hooks \ {id} \subseteq hooks'
    BY <1>6 DEF InvokeWebhook
  <2>2. invoking' = invoking \ {id} /\ notified \subseteq notified'
    BY <1>6 DEF InvokeWebhook
  <2>3. id \in notified' \/ hooks' = hooks
    BY <1>6 DEF InvokeWebhook
  <2> QED
    BY <1>0, <2>1, <2>2, <2>3
(* Only a callback whose task is gone, or names no webhook, is dropped.    *)
<1>8. ASSUME NEW id \in Ids, GetWebhook(id)
      PROVE  HooksHaveResults' /\ InvokingIsPending' /\ WebhookNotLost'
  <2>1. task' = task /\ notified' = notified /\ id \in hooks \ invoking
    BY <1>8 DEF GetWebhook
  <2>2. CASE Exists(id) /\ task[id].config.webhook
    BY <1>0, <1>8, <2>1, <2>2 DEF GetWebhook
  <2>3. CASE ~(Exists(id) /\ task[id].config.webhook)
    <3>1. invoking' = invoking /\ hooks' = hooks \ {id}
      BY <1>8, <2>3 DEF GetWebhook
    <3>2. ~(task[id].result # 0 /\ task[id].config.webhook)
      BY <1>0, <2>3 DEF Exists, OneResultOfLastAttempt
    <3> QED
      BY <1>0, <2>1, <3>1, <3>2
  <2> QED
    BY <2>2, <2>3
<1>7. ASSUME NEW t \in timers, NEW again \in BOOLEAN,
             TaskTimeout(t[1], t[2], again)
      PROVE  HooksHaveResults' /\ InvokingIsPending' /\ WebhookNotLost'
  <2>1. hooks' = hooks /\ invoking' = invoking /\ notified' = notified
    BY <1>7 DEF TaskTimeout
  <2>2. CASE task' = task
    BY <1>0, <2>1, <2>2
  <2>3. CASE task' # task
    <3>1. /\ task[t[1]].state = "assigned"
          /\ task'[t[1]].result = task[t[1]].result
          /\ task'[t[1]].config = task[t[1]].config
          /\ \A other \in Ids : other # t[1] => task'[other] = task[other]
      BY <1>0, <1>7, <2>3, TimeoutEffect
    <3> QED
      BY <1>0, <2>1, <3>1
  <2> QED
    BY <2>2, <2>3
<1> QED
  BY <1>0, <1>1, <1>2, <1>3, <1>4, <1>5, <1>6, <1>7, <1>8, StepKinds
     DEF WebhookStep

(* Every step keeps absent tasks out of the bulk deletions. *)
LEMMA DoomedStep ==
  ASSUME IndInv, [Next]_vars
  PROVE  DoomedScheduled'
<1> USE DEF DoomedScheduled
<1>0. /\ TypeInv /\ DoomedScheduled
      /\ doomed \in [Executors -> SUBSET Ids]
  BY DEF IndInv, TypeInv, TypeOK
(* No step makes an entity absent again. *)
<1>1. \A id \in Ids : task[id].state # "absent" => task'[id].state # "absent"
  <2>1. CASE Quiet
    BY <2>1 DEF Quiet
  <2>2. ASSUME NEW id \in Ids, NEW config \in Configs, Schedule(id, config)
        PROVE  <1>1!:
    BY <1>0, <2>2, ScheduleEffect
  <2>3. ASSUME NEW S \in SUBSET Ids, RemoveTasks(S)
        PROVE  <1>1!:
    <3>1. /\ \A id \in S : task'[id].state = "deleted"
          /\ \A id \in Ids \ S : task'[id] = task[id]
      BY <1>0, <2>3, RemoveEffect
    <3> QED
      BY <3>1
  <2>4. ASSUME NEW r \in Requests, NEW id \in Ids, NEW told \in BOOLEAN,
               AssignTask(r, id, told)
        PROVE  <1>1!:
    BY <1>0, <2>4, AssignTaskEffect
  <2>5. ASSUME NEW h \in handed, NEW exit_code \in ExitCodes,
               UploadTaskResult(h[2], h[3], exit_code)
        PROVE  <1>1!:
    <3>1. h[2] \in Ids /\ h[3] \in Attempts
      BY <1>0 DEF TypeInv, TypeOK
    <3> QED
      BY <1>0, <2>5, <3>1, UploadEffect
  <2>7. ASSUME NEW t \in timers, NEW again \in BOOLEAN,
               TaskTimeout(t[1], t[2], again)
        PROVE  <1>1!:
    <3>1. CASE task' # task
      BY <1>0, <2>7, <3>1, TimeoutEffect
    <3> QED
      BY <3>1
  <2> QED
    BY <1>0, <2>1, <2>2, <2>3, <2>4, <2>5, <2>7, StepKinds
<1>2. \A e \in Executors : doomed'[e] \subseteq doomed[e] \union GetByExecutor(e)
  BY <1>0 DEF Next, vars, Schedule, DeleteById, DeleteByExecutor,
     DeleteAllQuery, DeleteAllDelete, DeleteAllFails, PauseExecutor,
     ResumeExecutor, BeginAssign, CheckPause, AssignTask, AssignNothing,
     AssignFails, EndAssign, UploadTaskResult, GetWebhook, InvokeWebhook,
     TaskTimeout
<1>3. \A e \in Executors : \A id \in GetByExecutor(e) :
        id \in Ids /\ task[id].state # "absent"
  BY DEF GetByExecutor
<1> QED
  BY <1>0, <1>1, <1>2, <1>3

(* Every step keeps later requests bound by a pause. *)
LEMMA PauseStep ==
  ASSUME IndInv, [Next]_vars
  PROVE  HeldPaused' /\ PauseBindsLaterRequests'
<1> USE DEF HeldPaused, PauseBindsLaterRequests
<1>0. /\ HeldPaused /\ PauseBindsLaterRequests
      /\ held \in [Requests -> SUBSET Executors]
      /\ request \in [Requests -> Request]
  BY DEF IndInv, TypeInv, TypeOK
<1>1. ASSUME UNCHANGED <<request, held, paused>>
      PROVE  HeldPaused' /\ PauseBindsLaterRequests'
  BY <1>0, <1>1
<1>2. ASSUME NEW e \in Executors, PauseExecutor(e)
      PROVE  HeldPaused' /\ PauseBindsLaterRequests'
  BY <1>0, <1>2 DEF PauseExecutor
<1>3. ASSUME NEW e \in Executors, ResumeExecutor(e)
      PROVE  HeldPaused' /\ PauseBindsLaterRequests'
  BY <1>0, <1>3 DEF ResumeExecutor
<1>4. ASSUME NEW r \in Requests, NEW w \in Workers, BeginAssign(r, w)
      PROVE  HeldPaused' /\ PauseBindsLaterRequests'
  BY <1>0, <1>4 DEF BeginAssign, Request
<1>5. ASSUME NEW r \in Requests, EndRequest(r), UNCHANGED paused
      PROVE  HeldPaused' /\ PauseBindsLaterRequests'
  BY <1>0, <1>5 DEF EndRequest, Idle
<1>6. ASSUME NEW r \in Requests, request' = NextCapability(r),
             UNCHANGED <<held, paused>>
      PROVE  HeldPaused' /\ PauseBindsLaterRequests'
  BY <1>0, <1>6 DEF NextCapability, Request
<1>7. ASSUME NEW r \in Requests, CheckPause(r)
      PROVE  HeldPaused' /\ PauseBindsLaterRequests'
  <2>1. UNCHANGED <<held, paused>>
    BY <1>7 DEF CheckPause
  <2>2. CASE IsExecutorPaused(Head(request[r].caps))
    BY <1>6, <1>7, <2>1, <2>2 DEF CheckPause
  <2>3. CASE ~IsExecutorPaused(Head(request[r].caps))
    <3>1. request' = [request EXCEPT ![r].passed = TRUE]
      BY <1>7, <2>3 DEF CheckPause
    <3>2. Head(request[r].caps) \notin held[r]
      BY <1>0, <2>3 DEF IsExecutorPaused
    <3> QED
      BY <1>0, <2>1, <3>1, <3>2 DEF Request
  <2> QED
    BY <2>2, <2>3
<1> QED
  BY <1>1, <1>2, <1>3, <1>4, <1>5, <1>6, <1>7
     DEF Next, vars, Schedule, DeleteById, DeleteByExecutor, DeleteAllQuery,
         DeleteAllDelete, DeleteAllFails, AssignTask, AssignNothing,
         AssignFails, EndAssign, UploadTaskResult, GetWebhook, InvokeWebhook,
         TaskTimeout

-----------------------------------------------------------------------------
(* The inductive invariant and what it implies.                            *)

(* The inductive invariant holds initially. *)
LEMMA IndInvInit == Init => IndInv
<1> SUFFICES ASSUME Init PROVE IndInv
  OBVIOUS
<1>1. TypeInv
  BY TypeInit
<1>2. /\ NoResultYet /\ OneResultOfLastAttempt /\ ExportedHasResult
      /\ AssignedHasTimer
      /\ HandedBehind /\ AttemptHandedOnce
      /\ HooksHaveResults /\ InvokingIsPending /\ WebhookNotLost
  BY DEF Init, Absent, NoResultYet, OneResultOfLastAttempt,
         ExportedHasResult, AssignedHasTimer, HandedBehind,
         AttemptHandedOnce, HooksHaveResults, InvokingIsPending,
         WebhookNotLost
<1>3. DoomedScheduled /\ HeldPaused /\ PauseBindsLaterRequests
  BY DEF Init, Idle, DoomedScheduled, HeldPaused, PauseBindsLaterRequests
<1> QED
  BY <1>1, <1>2, <1>3 DEF IndInv

(* Every step keeps the inductive invariant. *)
LEMMA IndInvStep == IndInv /\ [Next]_vars => IndInv'
<1> SUFFICES ASSUME IndInv, [Next]_vars PROVE IndInv'
  OBVIOUS
<1>1. TypeInv'
  BY TypeStep DEF IndInv
<1> QED
  BY <1>1, ResultsStep, TimersStep, HandedStep, HooksStep, DoomedStep,
     PauseStep DEF IndInv

(* The inductive invariant holds in every reachable state. *)
THEOREM Invariance == Spec => []IndInv
  BY IndInvInit, IndInvStep, PTL DEF Spec

(* The timeout callback of an assigned task's current attempt is pending.  *)
THEOREM NoTaskIsStuckAssigned == Spec => []AssignedHasTimer
<1>1. IndInv => AssignedHasTimer
  BY DEF IndInv
<1> QED
  BY <1>1, Invariance, PTL

(* An attempt of a task is told to one worker at most. *)
THEOREM AttemptsAreHandedOnce == Spec => []AttemptHandedOnce
<1>1. IndInv => AttemptHandedOnce
  BY DEF IndInv
<1> QED
  BY <1>1, Invariance, PTL

(* A task has at most one TaskResult, that of its last attempt. *)
THEOREM ResultsAreUnique == Spec => []OneResultOfLastAttempt
<1>1. IndInv => OneResultOfLastAttempt
  BY DEF IndInv
<1> QED
  BY <1>1, Invariance, PTL

(* A recorded result is announced, or its announcement is pending. *)
THEOREM WebhooksAreNotLost == Spec => []WebhookNotLost
<1>1. IndInv => WebhookNotLost
  BY DEF IndInv
<1> QED
  BY <1>1, Invariance, PTL

(* Whatever the CSV export selects has a result. *)
THEOREM ExportsHaveResults == Spec => []ExportedHasResult
<1>1. IndInv => ExportedHasResult
  BY DEF IndInv
<1> QED
  BY <1>1, Invariance, PTL

(* A pause binds every request that begins after it. *)
THEOREM PausesBind == Spec => []PauseBindsLaterRequests
<1>1. IndInv => PauseBindsLaterRequests
  BY DEF IndInv
<1> QED
  BY <1>1, Invariance, PTL

-----------------------------------------------------------------------------
(* The refinement mapping, entity by entity.                               *)

(* The phase that each state of an entity stands for. *)
LEMMA PhaseOf ==
  ASSUME NEW t
  PROVE  /\ t.state = "absent" => Phase(t) = "new"
         /\ t.state = "scheduled" => Phase(t) = "waiting"
         /\ t.state = "assigned" => Phase(t) = "running"
         /\ t.state = "complete" /\ t.result # 0 => Phase(t) = "reported"
         /\ t.state = "complete" /\ t.result = 0 => Phase(t) = "expired"
         /\ t.state = "deleted" => Phase(t) = "removed"
  BY DEF Phase

Life(t) == [phase |-> Phase(t), tries |-> t.attempts]

(* lifeOf, and its next value, through one operator on entities. *)
LEMMA LifeOfAll ==
  /\ lifeOf = [id \in Ids |-> Life(task[id])]
  /\ lifeOf' = [id \in Ids |-> Life(task'[id])]
  BY DEF lifeOf, Life

(* A step that changes one entity changes one life. *)
LEMMA OneLife ==
  ASSUME NEW id \in Ids,
         \A other \in Ids : other # id => task'[other] = task[other]
  PROVE  lifeOf' = [lifeOf EXCEPT ![id] = Life(task'[id])]
  BY LifeOfAll

(* Initial states map to initial states. *)
LEMMA LifeInitially == Init => Lifecycle!LifeInit
<1> SUFFICES ASSUME Init PROVE Lifecycle!LifeInit
  OBVIOUS
<1>1. \A id \in Ids : Life(task[id]) = [phase |-> "new", tries |-> 0]
  BY PhaseOf DEF Init, Absent, Life
<1> QED
  BY <1>1, LifeOfAll DEF Lifecycle!LifeInit, Lifecycle!At

(* Every step maps to a step of the lifecycle, or to a stutter. *)
LEMMA LifeStep ==
  ASSUME IndInv, [Next]_vars
  PROVE  Lifecycle!LifeNext \/ UNCHANGED lifeOf
<1> USE DEF Lifecycle!At
<1>0. /\ TypeInv /\ DoomedScheduled /\ NoResultYet /\ AttemptsBounded
      /\ OneResultOfLastAttempt
      /\ \A id \in Ids : task[id].attempts \in Nat
  BY MaxAttemptsAssumption DEF IndInv, TypeInv, TypeOK, Task
<1>1. CASE task' = task
  BY <1>1 DEF lifeOf
<1>2. ASSUME NEW id \in Ids, NEW config \in Configs, Schedule(id, config)
      PROVE  Lifecycle!Submit(id)
  <2>1. /\ task[id].state = "absent"
        /\ task'[id].state = "scheduled"
        /\ task'[id].attempts = 0
        /\ \A other \in Ids : other # id => task'[other] = task[other]
    BY <1>0, <1>2, ScheduleEffect
  <2>2. Life(task'[id]) = [phase |-> "waiting", tries |-> 0]
    BY <2>1, PhaseOf DEF Life
  <2>3. lifeOf[id].phase = "new"
    BY <2>1, PhaseOf, LifeOfAll DEF Life
  <2> QED
    BY <2>1, <2>2, <2>3, OneLife DEF Lifecycle!Submit
<1>3. ASSUME NEW S \in SUBSET Ids, RemoveTasks(S)
      PROVE  Lifecycle!Remove(S)
  <2>1. /\ \A id \in S : task[id].state # "absent"
        /\ task' = [id \in Ids |-> IF id \in S THEN Deleted ELSE task[id]]
    BY <1>3 DEF RemoveTasks
  <2>2. Life(Deleted) = [phase |-> "removed", tries |-> 0]
    BY PhaseOf DEF Life, Deleted, Absent
  <2>3. \A id \in S : Phase(task[id]) # "new"
    BY <1>0, <2>1 DEF Phase, TypeInv, TypeOK, Task
  <2>4. \A id \in S : lifeOf[id].phase # "new"
    BY <2>3, LifeOfAll DEF Life
  <2>5. lifeOf' = [id \in Ids |-> IF id \in S
                                  THEN [phase |-> "removed", tries |-> 0]
                                  ELSE lifeOf[id]]
    BY <2>1, <2>2, LifeOfAll
  <2> QED
    BY <2>4, <2>5 DEF Lifecycle!Remove
<1>4. ASSUME NEW r \in Requests, NEW id \in Ids, NEW told \in BOOLEAN,
             AssignTask(r, id, told)
      PROVE  Lifecycle!Start(id)
  <2>1. /\ task[id].state = "scheduled"
        /\ task'[id].state = "assigned"
        /\ task'[id].attempts = task[id].attempts + 1
        /\ \A other \in Ids : other # id => task'[other] = task[other]
    BY <1>0, <1>4, AssignTaskEffect
  <2>2. Life(task'[id]) = [phase |-> "running", tries |-> task[id].attempts + 1]
    BY <2>1, PhaseOf DEF Life
  <2>3. /\ lifeOf[id].phase = "waiting"
        /\ lifeOf[id].tries = task[id].attempts
    BY <2>1, PhaseOf, LifeOfAll DEF Life
  <2>4. lifeOf[id].tries < MaxAttempts
    BY <1>0, <2>1, <2>3 DEF AttemptsBounded
  <2>5. lifeOf' = [lifeOf EXCEPT ![id] =
                     [phase |-> "running", tries |-> lifeOf[id].tries + 1]]
    BY <2>1, <2>2, <2>3, OneLife
  <2> QED
    BY <2>3, <2>4, <2>5 DEF Lifecycle!Start
<1>5. ASSUME NEW h \in handed, NEW exit_code \in ExitCodes,
             UploadTaskResult(h[2], h[3], exit_code)
      PROVE  h[2] \in Ids /\ Lifecycle!Report(h[2])
  <2>1. h[2] \in Ids /\ h[3] \in Attempts /\ h[3] \in Nat /\ h[3] > 0
    BY <1>0, MaxAttemptsAssumption DEF TypeInv, TypeOK, Attempts
  <2>2. /\ task[h[2]].state \in {"assigned", "scheduled"}
        /\ task[h[2]].attempts = h[3]
        /\ task'[h[2]].state = "complete"
        /\ task'[h[2]].result = h[3]
        /\ task'[h[2]].attempts = h[3]
        /\ \A other \in Ids : other # h[2] => task'[other] = task[other]
    BY <1>0, <1>5, <2>1, UploadEffect
  <2>3. Life(task'[h[2]]) = [phase |-> "reported", tries |-> h[3]]
    BY <2>1, <2>2, PhaseOf DEF Life
  <2>4. /\ lifeOf[h[2]].phase \in {"waiting", "running"}
        /\ lifeOf[h[2]].tries = h[3]
    BY <2>1, <2>2, PhaseOf, LifeOfAll DEF Life
  <2>5. lifeOf' = [lifeOf EXCEPT ![h[2]] =
                     [phase |-> "reported", tries |-> lifeOf[h[2]].tries]]
    BY <2>1, <2>2, <2>3, <2>4, OneLife
  <2> QED
    BY <2>1, <2>4, <2>5 DEF Lifecycle!Report
<1>7. ASSUME NEW t \in timers, NEW again \in BOOLEAN,
             TaskTimeout(t[1], t[2], again), task' # task
      PROVE  t[1] \in Ids /\ (Lifecycle!Retry(t[1]) \/ Lifecycle!Expire(t[1]))
  <2> DEFINE id == t[1]
  <2>1. /\ id \in Ids
        /\ task[id].state = "assigned"
        /\ \/ /\ task[id].attempts < MaxAttempts
              /\ task'[id].state = "scheduled"
           \/ /\ task[id].attempts = MaxAttempts
              /\ task'[id].state = "complete"
        /\ task'[id].result = task[id].result
        /\ task'[id].attempts = task[id].attempts
        /\ \A other \in Ids : other # id => task'[other] = task[other]
    BY <1>0, <1>7, TimeoutEffect
  <2>2. task[id].result = 0
    BY <1>0, <2>1 DEF OneResultOfLastAttempt
  <2>3. /\ lifeOf[id].phase = "running"
        /\ lifeOf[id].tries = task[id].attempts
    BY <2>1, PhaseOf, LifeOfAll DEF Life
  <2>4. CASE task'[id].state = "scheduled"
    <3>1. Life(task'[id]) = [phase |-> "waiting", tries |-> lifeOf[id].tries]
      BY <2>1, <2>3, <2>4, PhaseOf DEF Life
    <3>2. lifeOf' = [lifeOf EXCEPT ![id] =
                       [phase |-> "waiting", tries |-> lifeOf[id].tries]]
      BY <2>1, <3>1, OneLife
    <3>3. lifeOf[id].tries < MaxAttempts
      BY <2>1, <2>3, <2>4
    <3> QED
      BY <2>1, <2>3, <3>2, <3>3 DEF Lifecycle!Retry
  <2>5. CASE task'[id].state = "complete"
    <3>1. Life(task'[id]) = [phase |-> "expired", tries |-> lifeOf[id].tries]
      BY <2>1, <2>2, <2>3, <2>5, PhaseOf DEF Life
    <3>2. lifeOf' = [lifeOf EXCEPT ![id] =
                       [phase |-> "expired", tries |-> lifeOf[id].tries]]
      BY <2>1, <3>1, OneLife
    <3>3. lifeOf[id].tries = MaxAttempts
      BY <2>1, <2>3, <2>5
    <3> QED
      BY <2>1, <2>3, <3>2, <3>3 DEF Lifecycle!Expire
  <2> QED
    BY <2>1, <2>4, <2>5
<1>8. CASE Quiet
  BY <1>1, <1>8 DEF Quiet
<1> QED
  BY <1>0, <1>1, <1>2, <1>3, <1>4, <1>5, <1>7, <1>8, StepKinds
     DEF Lifecycle!LifeNext

(* The task queue implements the lifecycle of tasks. *)
THEOREM Refinement == Spec => ImplementsLifecycle
<1>1. Init => Lifecycle!LifeInit
  BY LifeInitially
<1>2. IndInv /\ [Next]_vars => [Lifecycle!LifeNext]_lifeOf
  BY LifeStep
<1> QED
  BY <1>1, <1>2, Invariance, PTL DEF Spec, ImplementsLifecycle, Lifecycle!LifeSpec

-----------------------------------------------------------------------------
(* Action properties.                                                      *)

(* A step changes the entity of a complete task only by deleting it, and   *)
(* never one assigned entity into another.                                 *)
LEMMA EntityStep ==
  ASSUME IndInv, [Next]_vars, NEW id \in Ids
  PROVE  /\ task[id].state = "complete" => task'[id] \in {task[id], Deleted}
         /\ task[id].state = "assigned" /\ task'[id].state = "assigned"
              => task'[id] = task[id]
<1> DEFINE Kept == /\ task[id].state = "complete"
                       => task'[id] \in {task[id], Deleted}
                   /\ task[id].state = "assigned" /\ task'[id].state = "assigned"
                       => task'[id] = task[id]
<1>0. TypeInv /\ DoomedScheduled
  BY DEF IndInv
<1>1. CASE task'[id] = task[id]
  BY <1>1
<1>2. ASSUME NEW i \in Ids, NEW config \in Configs, Schedule(i, config)
      PROVE  Kept
  BY <1>0, <1>2, ScheduleEffect
<1>3. ASSUME NEW S \in SUBSET Ids, RemoveTasks(S)
      PROVE  Kept
  <2>1. task'[id] \in {task[id], Deleted}
    BY <1>3 DEF RemoveTasks
  <2> QED
    BY <2>1 DEF Deleted, Absent
<1>4. ASSUME NEW r \in Requests, NEW i \in Ids, NEW told \in BOOLEAN,
             AssignTask(r, i, told)
      PROVE  Kept
  BY <1>0, <1>4, AssignTaskEffect
<1>5. ASSUME NEW h \in handed, NEW exit_code \in ExitCodes,
             UploadTaskResult(h[2], h[3], exit_code)
      PROVE  Kept
  <2>1. h[2] \in Ids /\ h[3] \in Attempts
    BY <1>0 DEF TypeInv, TypeOK
  <2> QED
    BY <1>0, <1>5, <2>1, UploadEffect
<1>7. ASSUME NEW t \in timers, NEW again \in BOOLEAN,
             TaskTimeout(t[1], t[2], again), task' # task
      PROVE  Kept
  BY <1>0, <1>7, TimeoutEffect
<1>8. CASE Quiet
  BY <1>1, <1>8 DEF Quiet
<1> QED
  BY <1>0, <1>1, <1>2, <1>3, <1>4, <1>5, <1>7, <1>8, StepKinds

(* A completed task stays as it is until it is deleted. *)
THEOREM CompletionIsFinal == Spec => CompleteIsFinal
<1>1. IndInv /\ [Next]_vars =>
        [\A id \in Ids : task[id].state = "complete"
           => task'[id] \in {task[id], Deleted}]_vars
  BY EntityStep
<1> QED
  BY <1>1, Invariance, PTL DEF Spec, CompleteIsFinal

(* An assigned task is not given to another worker. *)
THEOREM AssignmentIsNotStolen == Spec => AssignedIsNotStolen
<1>1. IndInv /\ [Next]_vars =>
        [\A id \in Ids :
           task[id].state = "assigned" /\ task'[id].state = "assigned"
             => task'[id] = task[id]]_vars
  BY EntityStep
<1> QED
  BY <1>1, Invariance, PTL DEF Spec, AssignedIsNotStolen

(* Only InvokeWebhook notifies, for a callback that is pending: its task  *)
(* has its result, or was deleted after the callback read it.              *)
LEMMA NotifyStep ==
  ASSUME IndInv, [Next]_vars, NEW id \in notified' \ notified
  PROVE  \/ task[id].state = "deleted"
         \/ task[id].state = "complete" /\ task[id].result # 0
<1>0. /\ TypeInv /\ DoomedScheduled
      /\ HooksHaveResults /\ InvokingIsPending /\ OneResultOfLastAttempt
  BY DEF IndInv
<1>1. PICK i \in Ids, accepted \in BOOLEAN, again \in BOOLEAN :
        InvokeWebhook(i, accepted, again)
  <2>1. notified' # notified
    OBVIOUS
  <2> QED
    BY <1>0, <2>1, StepKinds
       DEF HooksAlone, WebhookStep, GetWebhook, Schedule, RemoveTasks,
           AssignTask, UploadTaskResult, TaskTimeout
<1>2. id = i /\ i \in invoking
  BY <1>1 DEF InvokeWebhook
<1>3. task[i].state = "deleted" \/ task[i].result # 0
  BY <1>0, <1>2 DEF HooksHaveResults, InvokingIsPending
<1> QED
  BY <1>0, <1>2, <1>3 DEF OneResultOfLastAttempt

(* A webhook receiver is told of a task with a result, or of one that was *)
(* deleted between the handler's read and its post.                       *)
THEOREM WebhooksSeeResults == Spec => WebhookSeesResult
<1>1. IndInv /\ [Next]_vars =>
        [\A id \in notified' \ notified :
           \/ task[id].state = "deleted"
           \/ task[id].state = "complete" /\ task[id].result # 0]_vars
  BY NotifyStep
<1> QED
  BY <1>1, Invariance, PTL DEF Spec, WebhookSeesResult

-----------------------------------------------------------------------------
(* Fleet: steps of the server.                                             *)

(* What a step of the queue can do to one task. *)
LEMMA TaskOutcome ==
  ASSUME IndInv, [Next]_vars, NEW id \in Ids
  PROVE  \/ task'[id] = task[id]
         \/ task[id].state = "absent"
         \/ task[id].state # "absent" /\ task'[id].state = "deleted"
         \/ /\ task[id].state \in {"scheduled", "assigned"}
            /\ task'[id].config = task[id].config
            /\ task'[id].attempts = task[id].attempts
            /\ task'[id].worker = task[id].worker
         \/ /\ task[id].state = "scheduled"
            /\ task'[id].config = task[id].config
            /\ task'[id].attempts = task[id].attempts + 1
<1>0. TypeInv /\ DoomedScheduled
  BY DEF IndInv
<1>1. CASE Quiet
  BY <1>1 DEF Quiet
<1>2. CASE \E i \in Ids, config \in Configs : Schedule(i, config)
  BY <1>0, <1>2, ScheduleEffect
<1>3. CASE \E S \in SUBSET Ids : RemoveTasks(S)
  BY <1>0, <1>3, RemoveEffect
<1>4. CASE \E r \in Requests, i \in Ids, told \in BOOLEAN : AssignTask(r, i, told)
  BY <1>0, <1>4, AssignTaskEffect
<1>5. ASSUME NEW h \in handed, NEW exit_code \in ExitCodes,
             UploadTaskResult(h[2], h[3], exit_code)
      PROVE  \/ task'[id] = task[id]
             \/ /\ task[id].state \in {"scheduled", "assigned"}
                /\ task'[id].config = task[id].config
                /\ task'[id].attempts = task[id].attempts
                /\ task'[id].worker = task[id].worker
  <2>1. h[2] \in Ids /\ h[3] \in Attempts
    BY <1>0 DEF TypeInv, TypeOK
  <2>2. /\ task[h[2]].state \in {"assigned", "scheduled"}
        /\ task[h[2]].attempts = h[3]
        /\ task'[h[2]].attempts = h[3]
        /\ task'[h[2]].worker = task[h[2]].worker
        /\ task'[h[2]].config = task[h[2]].config
        /\ \A other \in Ids : other # h[2] => task'[other] = task[other]
    BY <1>0, <1>5, <2>1, UploadEffect
  <2> QED
    BY <2>1, <2>2
<1>7. CASE \E t \in timers, again \in BOOLEAN : TaskTimeout(t[1], t[2], again)
  <2>1. PICK t \in timers, again \in BOOLEAN : TaskTimeout(t[1], t[2], again)
    BY <1>7
  <2>2. CASE task' = task
    BY <2>2
  <2>3. CASE task' # task
    BY <1>0, <2>1, <2>3, TimeoutEffect
  <2> QED
    BY <2>2, <2>3
<1> QED
  BY <1>0, <1>1, <1>2, <1>3, <1>4, <1>5, <1>7, StepKinds

(* What was told to a worker stays told. *)
LEMMA HandedGrows ==
  ASSUME IndInv, [Next]_vars
  PROVE  handed \subseteq handed'
<1>0. TypeInv /\ DoomedScheduled
  BY DEF IndInv
<1> QED
  BY <1>0, StepKinds DEF Quiet, Schedule, RemoveTasks, AssignTask,
     UploadTaskResult, TaskTimeout

(* What a worker knows of the task it holds stays right. *)
HolderOK(w, a) ==
  \A id \in a.id :
    /\ <<w, id, a.attempt>> \in handed
    /\ Exists(id) /\ task[id].attempts = a.attempt => task[id].worker = w
    /\ Exists(id) =>
         \E i \in DOMAIN Capabilities[w] : Capabilities[w][i] \in task[id].config.requirements

(* The invariants on what is held, agent by agent. *)
LEMMA HoldersByAgent ==
  /\ HeldIsHanded /\ AssignedWorkerIsRunner /\ ExecutorMatches
       <=> \A w \in Workers : HolderOK(w, agent[w])
  /\ HeldIsHanded' /\ AssignedWorkerIsRunner' /\ ExecutorMatches'
       <=> \A w \in Workers : HolderOK(w, agent[w])'
  BY DEF HeldIsHanded, AssignedWorkerIsRunner, ExecutorMatches, HolderOK

(* Whatever the server does, a worker that holds what it held is right. *)
LEMMA HolderStays ==
  ASSUME IndInv, [Next]_vars, NEW w \in Workers, NEW a, HolderOK(w, a)
  PROVE  \A id \in a.id :
           /\ <<w, id, a.attempt>> \in handed'
           /\ Exists(id)' /\ task'[id].attempts = a.attempt => task'[id].worker = w
           /\ Exists(id)' =>
                \E i \in DOMAIN Capabilities[w] :
                  Capabilities[w][i] \in task'[id].config.requirements
<1> TAKE id \in a.id
<1>1. <<w, id, a.attempt>> \in handed
  BY DEF HolderOK
<1>2. /\ id \in Ids
      /\ task[id].attempts \in Nat
      /\ a.attempt \in Nat
  BY <1>1, MaxAttemptsAssumption DEF IndInv, TypeInv, TypeOK, Task, Attempts
<1>3. /\ task[id].state # "absent"
      /\ Exists(id) => a.attempt <= task[id].attempts
  BY <1>1 DEF IndInv, HandedBehind
<1>4. handed \subseteq handed'
  BY HandedGrows
<1>5. \/ task'[id] = task[id]
      \/ task'[id].state = "deleted"
      \/ /\ Exists(id)
         /\ task'[id].config = task[id].config
         /\ task'[id].attempts = task[id].attempts
         /\ task'[id].worker = task[id].worker
      \/ /\ Exists(id)
         /\ task'[id].config = task[id].config
         /\ task'[id].attempts = task[id].attempts + 1
  BY <1>2, <1>3, TaskOutcome DEF Exists
<1> QED
  BY <1>1, <1>2, <1>3, <1>4, <1>5 DEF HolderOK, Exists

(* A task that has ended stays so. *)
LEMMA EndedStays ==
  ASSUME IndInv, [Next]_vars, NEW id \in Ids,
         task[id].state \in {"complete", "deleted"}
  PROVE  task'[id].state \in {"complete", "deleted"}
  BY TaskOutcome

-----------------------------------------------------------------------------
(* Steps of the fleet.                                                     *)

(* The inductive invariant holds in the initial states. *)
LEMMA FleetInvInit == FleetInit => FleetInv
<1> SUFFICES ASSUME FleetInit PROVE FleetInv
  OBVIOUS
<1>1. FleetTypeOK
  BY MaxAttemptsAssumption DEF FleetInit, FleetTypeOK, Agent, Polling
<1>2. /\ HeldIsHanded /\ AssignedWorkerIsRunner /\ ExecutorMatches
      /\ SenderHasExitCode /\ AwaitedIsServed
  BY DEF FleetInit, Polling, HeldIsHanded, AssignedWorkerIsRunner, ExecutorMatches,
         SenderHasExitCode, AwaitedIsServed, Awaiting
<1>3. TriesOffered /\ OutputHasEnded
  BY DEF FleetInit, Init, Idle, TriesOffered, OutputHasEnded
<1> QED
  BY <1>1, <1>2, <1>3 DEF FleetInv

(* Every step of the fleet is a step of the queue, or none of it: what a   *)
(* worker uploads is the result of an attempt that it was told of.         *)
LEMMA QueueStep == FleetInv /\ [FleetNext]_fleetVars => [Next]_vars
<1> SUFFICES ASSUME FleetInv, [FleetNext]_fleetVars PROVE [Next]_vars
  OBVIOUS
<1>1. CASE ServerStep
  BY <1>1 DEF ServerStep, Next
<1>2. CASE \E r \in Requests, id \in Ids : LoseTask(r, id)
  BY <1>2 DEF LoseTask, Next
<1>3. CASE \E r \in Requests : ReceiveNothing(r)
  BY <1>3 DEF ReceiveNothing, Next
<1>4. ASSUME NEW w \in Workers, WorkerStep(w)
      PROVE  [Next]_vars
  <2>1. CASE Poll(w)
    BY <2>1 DEF Poll, Next
  <2>2. CASE \E r \in Requests, id \in Ids : ReceiveTask(w, r, id)
    BY <2>2 DEF ReceiveTask, Next
  <2>3. ASSUME NEW answered \in BOOLEAN, Post(w, answered)
        PROVE  [Next]_vars
    <3>1. PICK id \in agent[w].id :
            \/ UploadTaskResult(id, agent[w].attempt, agent[w].exit)
            \/ UNCHANGED vars
      BY <2>3 DEF Post
    <3>2. <<w, id, agent[w].attempt>> \in handed /\ agent[w].exit \in ExitCodes
      BY <2>3 DEF FleetInv, HeldIsHanded, SenderHasExitCode, Post
    <3>3. CASE UploadTaskResult(id, agent[w].attempt, agent[w].exit)
      <4> DEFINE h == <<w, id, agent[w].attempt>>
      <4>1. h \in handed /\ h[2] = id /\ h[3] = agent[w].attempt
        BY <3>2
      <4> HIDE DEF h
      <4>2. \E g \in handed, exit_code \in ExitCodes :
              UploadTaskResult(g[2], g[3], exit_code)
        BY <3>2, <3>3, <4>1
      <4> QED
        BY <4>2 DEF Next
    <3> QED
      BY <3>1, <3>3
  <2>4. CASE \/ PollBreaks(w) \/ \E exit_code \in ExitCodes : ExecuteTask(w, exit_code)
             \/ AbandonTask(w) \/ DropResponse(w) \/ PostLost(w) \/ Die(w) \/ Restart(w)
    BY <2>4 DEF PollBreaks, ExecuteTask, AbandonTask, DropResponse, PostLost, Die, Restart
  <2> QED
    BY <1>4, <2>1, <2>2, <2>3, <2>4 DEF WorkerStep
<1>5. CASE UNCHANGED fleetVars
  BY <1>5 DEF fleetVars
<1> QED
  BY <1>1, <1>2, <1>3, <1>4, <1>5 DEF FleetNext

(* A step in which nobody takes up another attempt keeps what is held. *)
LEMMA HoldersStay ==
  ASSUME FleetInv, IndInv, [Next]_vars,
         \A w \in Workers :
           \/ agent'[w].id = {}
           \/ agent'[w].id = agent[w].id /\ agent'[w].attempt = agent[w].attempt
  PROVE  HeldIsHanded' /\ AssignedWorkerIsRunner' /\ ExecutorMatches'
<1>1. ASSUME NEW w \in Workers PROVE HolderOK(w, agent[w])'
  <2>1. HolderOK(w, agent[w])
    BY HoldersByAgent DEF FleetInv
  <2>2. \A id \in agent[w].id :
           /\ <<w, id, agent[w].attempt>> \in handed'
           /\ Exists(id)' /\ task'[id].attempts = agent[w].attempt => task'[id].worker = w
           /\ Exists(id)' =>
                \E i \in DOMAIN Capabilities[w] :
                  Capabilities[w][i] \in task'[id].config.requirements
    BY <2>1, HolderStays
  <2> QED
    BY <2>2 DEF HolderOK
<1> QED
  BY <1>1, HoldersByAgent

(* Whatever a request goes on to, it is what its worker offers. *)
LEMMA TriesStep ==
  ASSUME IndInv, TriesOffered, [Next]_vars
  PROVE  TriesOffered'
<1>0. request \in [Requests -> Request]
  BY DEF IndInv, TypeInv, TypeOK
<1>1. ASSUME NEW r \in Requests, NEW w \in Workers, BeginAssign(r, w)
      PROVE  TriesOffered'
  BY <1>0, <1>1, CapabilitiesAssumption DEF BeginAssign, TriesOffered
<1>2. ASSUME NEW r \in Requests, request' = NextCapability(r), request[r].caps # <<>>
      PROVE  TriesOffered'
  <2>1. /\ request'[r].worker = request[r].worker
        /\ request'[r].caps = Tail(request[r].caps)
        /\ \A q \in Requests : q # r => request'[q] = request[q]
    BY <1>0, <1>2 DEF NextCapability, Request
  <2>2. request[r].caps \in Seq(Executors)
    BY <1>0 DEF Request
  <2>3. \A i \in DOMAIN Tail(request[r].caps) :
          /\ i + 1 \in DOMAIN request[r].caps
          /\ Tail(request[r].caps)[i] = request[r].caps[i + 1]
    BY <1>2, <2>2
  <2>4. ASSUME NEW i \in DOMAIN request'[r].caps
        PROVE  \E j \in DOMAIN Capabilities[request[r].worker] :
                 request'[r].caps[i] = Capabilities[request[r].worker][j]
    BY <2>1, <2>3, <2>4 DEF TriesOffered
  <2>5. ASSUME NEW q \in Requests, q # r, NEW i \in DOMAIN request'[q].caps
        PROVE  \E j \in DOMAIN Capabilities[request'[q].worker] :
                 request'[q].caps[i] = Capabilities[request'[q].worker][j]
    BY <2>1, <2>5 DEF TriesOffered
  <2>6. ASSUME NEW q \in Requests, NEW i \in DOMAIN request'[q].caps
        PROVE  \E j \in DOMAIN Capabilities[request'[q].worker] :
                 request'[q].caps[i] = Capabilities[request'[q].worker][j]
    <3>1. CASE q = r
      BY <2>1, <2>4, <2>6, <3>1
    <3>2. CASE q # r
      BY <2>5, <2>6, <3>2
    <3> QED
      BY <3>1, <3>2
  <2> QED
    BY <2>6 DEF TriesOffered
<1>3. ASSUME NEW r \in Requests, CheckPause(r) PROVE TriesOffered'
  <2>1. CASE request' = NextCapability(r)
    BY <1>2, <1>3, <2>1 DEF CheckPause
  <2>2. CASE request' = [request EXCEPT ![r].passed = TRUE]
    BY ZenonT(30), <1>0, <2>2 DEF TriesOffered, Request
  <2> QED
    BY <1>3, <2>1, <2>2 DEF CheckPause
<1>4. ASSUME NEW r \in Requests, AssignNothing(r) PROVE TriesOffered'
  BY <1>2, <1>4 DEF AssignNothing, IndInv, TypeInv, RequestOK
<1>5. ASSUME NEW r \in Requests, EndRequest(r) PROVE TriesOffered'
  BY <1>0, <1>5 DEF EndRequest, Idle, TriesOffered
<1>6. ASSUME NEW r \in Requests,
             \/ \E id \in Ids, told \in BOOLEAN : AssignTask(r, id, told)
             \/ AssignFails(r) \/ EndAssign(r)
      PROVE  TriesOffered'
  BY <1>5, <1>6 DEF AssignTask, AssignFails, EndAssign
<1>7. ASSUME UNCHANGED request PROVE TriesOffered'
  BY <1>7 DEF TriesOffered
<1> QED
  BY <1>1, <1>3, <1>4, <1>6, <1>7
     DEF Next, vars, Schedule, DeleteById, DeleteByExecutor, DeleteAllQuery, DeleteAllDelete,
         DeleteAllFails, PauseExecutor, ResumeExecutor, UploadTaskResult, GetWebhook,
         InvokeWebhook, TaskTimeout

(* The agents are well formed after a step, and nobody takes up an attempt. *)
AgentsOK ==
  /\ FleetTypeOK' /\ SenderHasExitCode'
  /\ \A w \in Workers :
       \/ agent'[w].id = {}
       \/ agent'[w].id = agent[w].id /\ agent'[w].attempt = agent[w].attempt

(* Agent w takes a local step, after which its record is a.                *)
Becomes(w, a) ==
  /\ agent' = [agent EXCEPT ![w] = a]
  /\ a \in Agent
  /\ output' \in [Ids -> {"none", "full", "empty"}]
  /\ a.pc = "send" => a.exit \in ExitCodes
  /\ a.id = {} \/ (a.id = agent[w].id /\ a.attempt = agent[w].attempt)

(* The other agents are as they were. *)
LEMMA LocalStep ==
  ASSUME FleetInv, NEW w \in Workers, NEW a, Becomes(w, a)
  PROVE  AgentsOK
<1>1. agent \in [Workers -> Agent] /\ SenderHasExitCode
  BY DEF FleetInv, FleetTypeOK
<1>2. FleetTypeOK' /\ agent'[w] = a /\ \A v \in Workers : v # w => agent'[v] = agent[v]
  BY <1>1 DEF FleetTypeOK, Becomes
<1>3. SenderHasExitCode'
  BY <1>1, <1>2 DEF SenderHasExitCode, Becomes
<1> QED
  BY <1>2, <1>3 DEF AgentsOK, Becomes

(* The records of an agent that polls, or is dead. *)
LEMMA RestingAgents ==
  /\ Polling \in Agent /\ Dead \in Agent
  /\ Polling.pc \notin {"send", "await"} /\ Dead.pc \notin {"send", "await"}
  /\ Polling.id = {} /\ Dead.id = {}
<1>1. Polling \in Agent /\ Polling.pc \notin {"send", "await"} /\ Polling.id = {}
  BY MaxAttemptsAssumption DEF Polling, Agent
<1> HIDE DEF Polling
<1> QED
  BY <1>1 DEF Dead, Agent

(* Steps of the server, and answers that reach nobody, send some agents    *)
(* back to polling.                                                        *)
LEMMA ServerSteps ==
  ASSUME FleetInv,
         \/ ServerStep \/ UNCHANGED fleetVars
         \/ \E r \in Requests, id \in Ids : LoseTask(r, id)
         \/ \E r \in Requests : ReceiveNothing(r)
  PROVE  AgentsOK
<1>0. FleetTypeOK /\ SenderHasExitCode
  BY DEF FleetInv
<1>1. CASE UNCHANGED <<agent, output>>
  BY <1>0, <1>1 DEF AgentsOK, FleetTypeOK, SenderHasExitCode
<1>2. ASSUME NEW r \in Requests, Release(r), UNCHANGED output PROVE AgentsOK
  <2>1. \A w \in Workers : agent'[w] = Polling \/ agent'[w] = agent[w]
    BY <1>2 DEF Release
  <2>2. agent' \in [Workers -> Agent]
    BY <1>0, <1>2, RestingAgents DEF Release, FleetTypeOK
  <2> QED
    BY <1>0, <1>2, <2>1, <2>2, RestingAgents DEF AgentsOK, FleetTypeOK, SenderHasExitCode
<1> QED
  BY <1>1, <1>2 DEF ServerStep, LoseTask, ReceiveNothing, fleetVars

(* The steps of a worker, other than to take up a task. *)
LEMMA WorkerSteps ==
  ASSUME FleetInv, NEW w \in Workers, WorkerStep(w),
         ~\E r \in Requests, id \in Ids : ReceiveTask(w, r, id)
  PROVE  AgentsOK
<1>0. /\ agent \in [Workers -> Agent] /\ agent[w] \in Agent
      /\ output \in [Ids -> {"none", "full", "empty"}]
      /\ agent[w].pc = "send" => agent[w].exit \in ExitCodes
  BY DEF FleetInv, FleetTypeOK, SenderHasExitCode
<1>1. ASSUME agent' = [agent EXCEPT ![w] = Polling] \/ agent' = [agent EXCEPT ![w] = Dead],
             UNCHANGED output
      PROVE  AgentsOK
  <2>1. output' \in [Ids -> {"none", "full", "empty"}]
    BY <1>0, <1>1
  <2>2. CASE agent' = [agent EXCEPT ![w] = Polling]
    <3>1. Becomes(w, Polling)
      BY <2>1, <2>2, RestingAgents DEF Becomes
    <3> QED
      BY <3>1, LocalStep
  <2>3. CASE agent' = [agent EXCEPT ![w] = Dead]
    <3>1. Becomes(w, Dead)
      BY <2>1, <2>3, RestingAgents DEF Becomes
    <3> QED
      BY <3>1, LocalStep
  <2> QED
    BY <1>1, <2>2, <2>3
<1>2. CASE PollBreaks(w) \/ AbandonTask(w) \/ DropResponse(w) \/ Die(w) \/ Restart(w)
  BY <1>1, <1>2 DEF PollBreaks, AbandonTask, DropResponse, Die, Restart
<1>3. CASE Poll(w)
  <2>1. PICK r \in Requests :
          agent' = [agent EXCEPT ![w] = [Polling EXCEPT !.pc = "await", !.slot = {r}]]
    BY <1>3 DEF Poll
  <2> DEFINE a == [Polling EXCEPT !.pc = "await", !.slot = {r}]
  <2>2. a \in Agent /\ a.pc # "send" /\ a.id = {}
    BY RestingAgents DEF Agent
  <2>3. agent' = [agent EXCEPT ![w] = a]
    BY <2>1
  <2> HIDE DEF a
  <2>4. Becomes(w, a)
    BY <1>0, <1>3, <2>2, <2>3 DEF Poll, Becomes
  <2> QED
    BY <2>4, LocalStep
<1>4. ASSUME NEW exit_code \in ExitCodes, ExecuteTask(w, exit_code) PROVE AgentsOK
  <2> DEFINE a == [agent[w] EXCEPT !.pc = "send", !.exit = exit_code]
  <2>1. agent' = [agent EXCEPT ![w] = a] /\ UNCHANGED output
    BY <1>0, <1>4 DEF ExecuteTask
  <2>2. /\ a \in Agent /\ a.exit \in ExitCodes
        /\ a.id = agent[w].id /\ a.attempt = agent[w].attempt
    BY <1>0 DEF Agent
  <2> HIDE DEF a
  <2>3. Becomes(w, a)
    BY <1>0, <2>1, <2>2 DEF Becomes
  <2> QED
    BY <2>3, LocalStep
<1>5. ASSUME output' \in [Ids -> {"none", "full", "empty"}], agent[w].pc = "send",
             agent' = [agent EXCEPT ![w] = [agent[w] EXCEPT !.drained = TRUE]]
      PROVE  AgentsOK
  <2> DEFINE a == [agent[w] EXCEPT !.drained = TRUE]
  <2>1. /\ a \in Agent /\ a.exit \in ExitCodes
        /\ a.id = agent[w].id /\ a.attempt = agent[w].attempt
    BY <1>0, <1>5 DEF Agent
  <2> HIDE DEF a
  <2>2. agent' = [agent EXCEPT ![w] = a]
    BY <1>5 DEF a
  <2>3. Becomes(w, a)
    BY <1>0, <1>5, <2>1, <2>2 DEF Becomes
  <2> QED
    BY <2>3, LocalStep
<1>6. CASE PostLost(w)
  BY <1>0, <1>5, <1>6 DEF PostLost
<1>7. ASSUME NEW answered \in BOOLEAN, Post(w, answered) PROVE AgentsOK
  <2>1. PICK id \in agent[w].id :
          /\ \/ output' = [output EXCEPT ![id] = Content(w)]
             \/ UNCHANGED output
          /\ \E verdict : agent' = [agent EXCEPT ![w] = AfterPost(w, verdict, answered)]
    BY <1>7 DEF Post
  <2>2. output' \in [Ids -> {"none", "full", "empty"}]
    BY <1>0, <2>1 DEF Content
  <2>3. \/ agent' = [agent EXCEPT ![w] = Polling]
        \/ agent' = [agent EXCEPT ![w] = [agent[w] EXCEPT !.drained = TRUE]]
    BY <2>1 DEF AfterPost
  <2>4. CASE agent' = [agent EXCEPT ![w] = Polling]
    <3>1. Becomes(w, Polling)
      BY <2>2, <2>4, RestingAgents DEF Becomes
    <3> QED
      BY <3>1, LocalStep
  <2> QED
    BY <1>5, <1>7, <2>2, <2>3, <2>4 DEF Post
<1> QED
  BY <1>2, <1>3, <1>4, <1>6, <1>7 DEF WorkerStep

(* The worker that takes up a task: the assignment it was told of is its   *)
(* own, for an executor that it offers.                                    *)
LEMMA ReceiveStep ==
  ASSUME FleetInv, IndInv, [Next]_vars,
         NEW w \in Workers, NEW r \in Requests, NEW id \in Ids, ReceiveTask(w, r, id)
  PROVE  /\ FleetTypeOK' /\ SenderHasExitCode'
         /\ HeldIsHanded' /\ AssignedWorkerIsRunner' /\ ExecutorMatches'
<1> DEFINE attempt == task[id].attempts + 1
           a == [Polling EXCEPT !.pc = "execute", !.id = {id}, !.attempt = attempt]
           e == Head(request[r].caps)
<1>0. /\ TypeInv /\ agent \in [Workers -> Agent] /\ SenderHasExitCode
      /\ \A v \in Workers : HolderOK(v, agent[v])
  BY HoldersByAgent DEF IndInv, FleetInv, FleetTypeOK
<1>1. Awaiting(w, r) /\ AssignTask(r, id, TRUE) /\ UNCHANGED output
  BY DEF ReceiveTask
<1>2. request[r].worker = w
  BY <1>1 DEF FleetInv, AwaitedIsServed
<1>3. /\ attempt \in Attempts
      /\ task'[id].attempts = attempt /\ task'[id].worker = w
      /\ task'[id].config = task[id].config
  <2>1. /\ task[id].attempts + 1 \in Attempts
        /\ task'[id].attempts = task[id].attempts + 1
        /\ task'[id].worker = request[r].worker
        /\ task'[id].config = task[id].config
    BY <1>0, <1>1, AssignTaskEffect
  <2> QED
    BY <1>2, <2>1
<1>4. a \in Agent /\ a.pc = "execute" /\ a.id = {id} /\ a.attempt = attempt
  <2> HIDE DEF attempt
  <2>1. attempt \in 0..MaxAttempts
    BY <1>3, MaxAttemptsAssumption DEF Attempts
  <2> QED
    BY <2>1, RestingAgents DEF Agent
<1>5. <<w, id, attempt>> \in handed'
  BY <1>1, <1>2 DEF AssignTask
<1>6. e \in task[id].config.requirements
  BY <1>1 DEF AssignTask, GetOldestTaskForCapability, GetByExecutor
<1>7. \E i \in DOMAIN Capabilities[w] : e = Capabilities[w][i]
  <2>1. request[r].caps # <<>> /\ request[r].caps \in Seq(Executors)
    BY <1>0, <1>1 DEF AssignTask, TypeInv, TypeOK, RequestOK, Request
  <2>2. 1 \in DOMAIN request[r].caps /\ e = request[r].caps[1]
    BY <2>1
  <2> QED
    BY <1>2, <2>2 DEF FleetInv, TriesOffered
<1>8. agent' = [agent EXCEPT ![w] = a]
  BY DEF ReceiveTask
<1> HIDE DEF a, e, attempt
<1>9. /\ agent'[w] = a /\ FleetTypeOK'
      /\ \A v \in Workers : v # w => agent'[v] = agent[v]
  BY <1>0, <1>1, <1>4, <1>8 DEF FleetInv, FleetTypeOK
<1>10. SenderHasExitCode'
  BY <1>0, <1>4, <1>9 DEF SenderHasExitCode
<1>11. HolderOK(w, agent[w])'
  BY <1>3, <1>4, <1>5, <1>6, <1>7, <1>9 DEF HolderOK
<1>12. ASSUME NEW v \in Workers, v # w PROVE HolderOK(v, agent[v])'
  <2>1. \A i \in agent[v].id :
           /\ <<v, i, agent[v].attempt>> \in handed'
           /\ Exists(i)' /\ task'[i].attempts = agent[v].attempt => task'[i].worker = v
           /\ Exists(i)' =>
                \E k \in DOMAIN Capabilities[v] :
                  Capabilities[v][k] \in task'[i].config.requirements
    BY <1>0, HolderStays
  <2> QED
    BY <1>9, <1>12, <2>1 DEF HolderOK
<1> QED
  BY <1>9, <1>10, <1>11, <1>12, HoldersByAgent

(* A worker awaits a request of its own, whatever step is taken. *)
LEMMA ServedStep ==
  ASSUME FleetInv, IndInv, [FleetNext]_fleetVars
  PROVE  AwaitedIsServed'
<1>0. /\ AwaitedIsServed /\ agent \in [Workers -> Agent]
      /\ request \in [Requests -> Request]
  BY DEF FleetInv, FleetTypeOK, IndInv, TypeInv, TypeOK
<1>1. ASSUME UNCHANGED agent,
             \A r \in Requests : request'[r].worker = request[r].worker
      PROVE  AwaitedIsServed'
  BY <1>0, <1>1 DEF AwaitedIsServed, Awaiting
<1>2. CASE ServerStep
  <2>1. ASSUME NEW r \in Requests, CheckPause(r) \/ AssignNothing(r)
        PROVE  \A q \in Requests : request'[q].worker = request[q].worker
    <3>1. \/ request' = [request EXCEPT ![r].passed = TRUE]
          \/ request' = NextCapability(r)
      BY <2>1 DEF CheckPause, AssignNothing
    <3>2. request[r] \in Request
      BY <1>0
    <3>3. /\ [request[r] EXCEPT !.passed = TRUE].worker = request[r].worker
          /\ [request[r] EXCEPT !.caps = Tail(@), !.passed = FALSE].worker = request[r].worker
      BY <3>2 DEF Request
    <3> QED
      BY <1>0, <3>1, <3>3 DEF NextCapability
  <2>2. \/ \E r \in Requests : CheckPause(r) \/ AssignNothing(r)
        \/ UNCHANGED request
    BY <1>2 DEF ServerStep, Schedule, DeleteById, DeleteByExecutor, DeleteAllQuery,
       DeleteAllDelete, DeleteAllFails, PauseExecutor, ResumeExecutor, GetWebhook,
       InvokeWebhook, TaskTimeout
  <2> QED
    BY <1>1, <1>2, <2>1, <2>2 DEF ServerStep
<1>3. ASSUME NEW r \in Requests, EndRequest(r), Release(r) PROVE AwaitedIsServed'
  <2>1. \A q \in Requests : q # r => request'[q] = request[q]
    BY <1>0, <1>3 DEF EndRequest
  <2>2. \A w \in Workers : agent'[w] = Polling \/ (agent'[w] = agent[w] /\ ~Awaiting(w, r))
    BY <1>3 DEF Release
  <2> QED
    BY <1>0, <2>1, <2>2, RestingAgents DEF AwaitedIsServed, Awaiting
<1>4. CASE \/ \E r \in Requests, id \in Ids : LoseTask(r, id)
           \/ \E r \in Requests : ReceiveNothing(r)
  BY <1>3, <1>4 DEF LoseTask, ReceiveNothing, AssignTask, EndAssign, AssignFails
<1>5. ASSUME NEW w \in Workers, Poll(w) PROVE AwaitedIsServed'
  <2>1. PICK r \in Requests :
          /\ BeginAssign(r, w)
          /\ agent' = [agent EXCEPT ![w] = [Polling EXCEPT !.pc = "await", !.slot = {r}]]
    BY <1>5 DEF Poll
  <2> DEFINE a == [Polling EXCEPT !.pc = "await", !.slot = {r}]
  <2>2. a.slot = {r}
    BY RestingAgents DEF Agent
  <2>3. agent' = [agent EXCEPT ![w] = a]
    BY <2>1
  <2> HIDE DEF a
  <2>4. agent'[w] = a /\ \A v \in Workers : v # w => agent'[v] = agent[v]
    BY <1>0, <2>3
  <2>5. /\ request[r].worker = NoWorker /\ request'[r].worker = w
        /\ \A q \in Requests : q # r => request'[q] = request[q]
    BY <1>0, <2>1 DEF BeginAssign, Idle
  <2> QED
    BY <1>0, <2>2, <2>4, <2>5, NoWorkerAssumption DEF AwaitedIsServed, Awaiting
<1>6. ASSUME NEW w \in Workers, NEW r \in Requests, NEW id \in Ids, ReceiveTask(w, r, id)
      PROVE  AwaitedIsServed'
  <2>1. /\ Awaiting(w, r) /\ request[r].worker = w
        /\ \A q \in Requests : q # r => request'[q] = request[q]
    BY <1>0, <1>6 DEF ReceiveTask, AssignTask, EndRequest, AwaitedIsServed
  <2> DEFINE a == [Polling EXCEPT !.pc = "execute", !.id = {id},
                                  !.attempt = task[id].attempts + 1]
  <2>2. a.pc = "execute"
    BY RestingAgents DEF Agent
  <2>3. agent' = [agent EXCEPT ![w] = a]
    BY <1>6 DEF ReceiveTask
  <2> HIDE DEF a
  <2>4. agent'[w] = a /\ \A v \in Workers : v # w => agent'[v] = agent[v]
    BY <1>0, <2>3
  <2> QED
    BY <1>0, <2>1, <2>2, <2>4 DEF AwaitedIsServed, Awaiting
<1>7. ASSUME NEW w \in Workers, NEW a, agent' = [agent EXCEPT ![w] = a],
             a.pc # "await", UNCHANGED request
      PROVE  AwaitedIsServed'
  BY <1>0, <1>7 DEF AwaitedIsServed, Awaiting
<1>8. ASSUME NEW w \in Workers, WorkerStep(w), ~Poll(w),
             ~\E r \in Requests, id \in Ids : ReceiveTask(w, r, id)
      PROVE  AwaitedIsServed'
  <2>0. agent[w] \in Agent
    BY <1>0
  <2>1. UNCHANGED request
    BY <1>8 DEF WorkerStep, PollBreaks, ExecuteTask, AbandonTask, DropResponse, PostLost,
       Post, UploadTaskResult, Die, Restart, vars
  <2>2. CASE PollBreaks(w) \/ AbandonTask(w) \/ DropResponse(w) \/ Die(w) \/ Restart(w)
    BY <1>7, <2>1, <2>2, RestingAgents
       DEF PollBreaks, AbandonTask, DropResponse, Die, Restart
  <2>3. ASSUME NEW exit_code \in ExitCodes, ExecuteTask(w, exit_code)
        PROVE  AwaitedIsServed'
    <3> DEFINE a == [agent[w] EXCEPT !.pc = "send", !.exit = exit_code]
    <3>1. agent' = [agent EXCEPT ![w] = a] /\ a.pc = "send"
      BY <1>0, <2>0, <2>3 DEF ExecuteTask, Agent
    <3> HIDE DEF a
    <3> QED
      BY <1>7, <2>1, <3>1
  <2>4. ASSUME agent[w].pc = "send",
               agent' = [agent EXCEPT ![w] = [agent[w] EXCEPT !.drained = TRUE]]
        PROVE  AwaitedIsServed'
    <3> DEFINE a == [agent[w] EXCEPT !.drained = TRUE]
    <3>1. agent' = [agent EXCEPT ![w] = a] /\ a.pc = "send"
      BY <2>0, <2>4 DEF Agent
    <3> HIDE DEF a
    <3> QED
      BY <1>7, <2>1, <3>1
  <2>5. CASE PostLost(w)
    BY <1>0, <2>4, <2>5 DEF PostLost
  <2>6. ASSUME NEW answered \in BOOLEAN, Post(w, answered) PROVE AwaitedIsServed'
    BY <1>7, <2>1, <2>4, <2>6, RestingAgents DEF Post, AfterPost
  <2> QED
    BY <1>8, <2>2, <2>3, <2>5, <2>6 DEF WorkerStep
<1>9. CASE UNCHANGED fleetVars
  BY <1>1, <1>9 DEF fleetVars, vars
<1> QED
  BY <1>2, <1>4, <1>5, <1>6, <1>8, <1>9 DEF FleetNext, WorkerStep

(* Only an accepted upload records an output, and it ends its task. *)
LEMMA OutputStep ==
  ASSUME FleetInv, IndInv, [FleetNext]_fleetVars
  PROVE  OutputHasEnded' /\ \A id \in Ids : output[id] # "none" => output'[id] = output[id]
<1>0. /\ OutputHasEnded /\ output \in [Ids -> {"none", "full", "empty"}]
      /\ TypeInv /\ [Next]_vars
  BY QueueStep DEF FleetInv, FleetTypeOK, IndInv
<1>1. CASE UNCHANGED output
  BY <1>0, <1>1, EndedStays DEF OutputHasEnded
<1>2. ASSUME NEW w \in Workers, NEW answered \in BOOLEAN, Post(w, answered), output' # output
      PROVE  OutputHasEnded' /\ \A id \in Ids : output[id] # "none" => output'[id] = output[id]
  <2>1. PICK id \in agent[w].id :
          LET verdict == UploadVerdict(id, agent[w].attempt)
          IN  /\ IF verdict = "accepted"
                 THEN /\ UploadTaskResult(id, agent[w].attempt, agent[w].exit)
                      /\ output' = [output EXCEPT ![id] = Content(w)]
                 ELSE UNCHANGED <<vars, output>>
              /\ agent' = [agent EXCEPT ![w] = AfterPost(w, verdict, answered)]
    BY <1>2 DEF Post
  <2>2. /\ id \in Ids /\ agent[w].attempt \in Attempts /\ agent[w].exit \in ExitCodes
    <3>1. <<w, id, agent[w].attempt>> \in handed
      BY DEF FleetInv, HeldIsHanded
    <3>2. agent[w].pc = "send"
      BY <1>2 DEF Post
    <3> QED
      BY <1>0, <3>1, <3>2 DEF FleetInv, SenderHasExitCode, TypeInv, TypeOK
  <2>3. /\ UploadTaskResult(id, agent[w].attempt, agent[w].exit)
        /\ output' = [output EXCEPT ![id] = Content(w)]
    BY <1>2, <2>1
  <2>4. task[id].state \in {"assigned", "scheduled"} /\ task'[id].state = "complete"
    BY <1>0, <2>2, <2>3, UploadEffect
  <2>5. \A other \in Ids : other # id => output'[other] = output[other]
    BY <1>0, <2>3
  <2>6. output[id] = "none"
    BY <1>0, <2>2, <2>4 DEF OutputHasEnded
  <2> QED
    BY <1>0, <2>4, <2>5, <2>6, EndedStays DEF OutputHasEnded
<1> QED
  BY <1>1, <1>2
     DEF FleetNext, ServerStep, LoseTask, ReceiveNothing, WorkerStep, Poll, PollBreaks,
         ReceiveTask, ExecuteTask, AbandonTask, DropResponse, PostLost, Die, Restart, fleetVars

(* Every step keeps the inductive invariant of the fleet. *)
LEMMA FleetInvStep == FleetInv /\ IndInv /\ [FleetNext]_fleetVars => FleetInv'
<1> SUFFICES ASSUME FleetInv, IndInv, [FleetNext]_fleetVars PROVE FleetInv'
  OBVIOUS
<1>1. [Next]_vars
  BY QueueStep
<1>2. TriesOffered' /\ AwaitedIsServed' /\ OutputHasEnded'
  BY <1>1, TriesStep, ServedStep, OutputStep DEF FleetInv
<1>3. CASE \E w \in Workers, r \in Requests, id \in Ids : ReceiveTask(w, r, id)
  BY <1>1, <1>2, <1>3, ReceiveStep DEF FleetInv
<1>4. CASE ~\E w \in Workers, r \in Requests, id \in Ids : ReceiveTask(w, r, id)
  <2>1. AgentsOK
    BY <1>4, ServerSteps, WorkerSteps DEF FleetNext
  <2>2. HeldIsHanded' /\ AssignedWorkerIsRunner' /\ ExecutorMatches'
    BY <1>1, <2>1, HoldersStay DEF AgentsOK
  <2> QED
    BY <1>2, <2>1, <2>2 DEF AgentsOK, FleetInv
<1> QED
  BY <1>3, <1>4

-----------------------------------------------------------------------------
(* Both inductive invariants hold in every reachable state of the fleet. *)
THEOREM FleetInvariance == FleetSpec => [](FleetInv /\ IndInv)
<1>1. FleetInit => FleetInv /\ IndInv
  BY FleetInvInit, IndInvInit DEF FleetInit
<1>2. FleetInv /\ IndInv /\ [FleetNext]_fleetVars => FleetInv' /\ IndInv'
  BY FleetInvStep, QueueStep, IndInvStep
<1> QED
  BY <1>1, <1>2, PTL DEF FleetSpec

(* With any number of workers, that die, restart, lose answers and retry,  *)
(* the server sees what TaskQueue says: every theorem about the queue is   *)
(* one about the fleet.                                                    *)
THEOREM FleetRefinesQueue == FleetSpec => FleetImplementsQueue
<1>1. FleetInit => Init
  BY DEF FleetInit
<1>2. FleetInv /\ IndInv /\ [FleetNext]_fleetVars => [Next]_vars
  BY QueueStep
<1>3. FleetSpec => Spec
  BY <1>1, <1>2, FleetInvariance, PTL DEF FleetSpec, Spec
<1> QED
  BY <1>3 DEF FleetImplementsQueue

(* The variables of the workers have their types. *)
THEOREM FleetTypeCorrect == FleetSpec => []FleetTypeOK
<1>1. FleetInv => FleetTypeOK
  BY DEF FleetInv
<1> QED
  BY <1>1, FleetInvariance, PTL

(* Two workers never run the same attempt of a task. *)
THEOREM RunnersAreAlone == FleetSpec => []OneRunnerPerAttempt
<1>1. FleetInv /\ IndInv => OneRunnerPerAttempt
  <2> SUFFICES ASSUME FleetInv, IndInv, NEW w \in Workers, NEW v \in Workers, w # v,
                      agent[w].id # {}, agent[w].id = agent[v].id,
                      agent[w].attempt = agent[v].attempt
               PROVE  FALSE
    BY DEF OneRunnerPerAttempt
  <2>1. PICK id \in agent[w].id : TRUE
    OBVIOUS
  <2>2. /\ <<w, id, agent[w].attempt>> \in handed
        /\ <<v, id, agent[w].attempt>> \in handed
    BY DEF FleetInv, HeldIsHanded
  <2> QED
    BY <2>2 DEF IndInv, AttemptHandedOnce
<1> QED
  BY <1>1, FleetInvariance, PTL

(* assigned_worker names the worker that holds the latest attempt. *)
THEOREM AssignedWorkersRun == FleetSpec => []AssignedWorkerIsRunner
<1>1. FleetInv => AssignedWorkerIsRunner
  BY DEF FleetInv
<1> QED
  BY <1>1, FleetInvariance, PTL

(* A worker can run what it is given, whatever it offers in what order. *)
THEOREM ExecutorsMatch == FleetSpec => []ExecutorMatches
<1>1. FleetInv => ExecutorMatches
  BY DEF FleetInv
<1> QED
  BY <1>1, FleetInvariance, PTL

(* An output that is recorded is never replaced. *)
THEOREM OutputsAreFinal == FleetSpec => OutputIsFinal
<1>1. FleetInv /\ IndInv /\ [FleetNext]_fleetVars =>
        [\A id \in Ids : output[id] # "none" => output'[id] = output[id]]_output
  BY OutputStep
<1> QED
  BY <1>1, FleetInvariance, PTL DEF FleetSpec, OutputIsFinal
=============================================================================
