----------------------------- MODULE TaskQueue -----------------------------
(***************************************************************************)
(* The task queue of the MrTaskman server (server/models/tasks.py): the    *)
(* Task entities of the datastore, the App Engine task queue entries that  *)
(* drive timeouts, webhooks and bulk deletion, the pause flags kept in     *)
(* memcache and the /tasks/assign requests that are being served.          *)
(*                                                                         *)
(* All Task entities live in one entity group (MakeParentKey), so a        *)
(* datastore transaction and an ancestor query are atomic: each is one     *)
(* step here.  What the code does OUTSIDE a transaction is a step of its   *)
(* own: the pause check of Assign, the query and the delete of             *)
(* DeleteAllByExecutorHandler, every task queue callback.                  *)
(*                                                                         *)
(* Task ids are allocated by the datastore and never reused.  Counters     *)
(* and log lines are left out.                                             *)
(***************************************************************************)
EXTENDS Integers, FiniteSets, Sequences

CONSTANTS
  Ids,           \* ids the datastore may allocate to tasks
  Executors,     \* executor capabilities: device serials, 'macos', ...
  Workers,       \* worker names
  NoWorker,      \* assigned_worker of a task never assigned
  Requests,      \* slots for /tasks/assign requests served concurrently
  Configs,       \* what a task config says: its executor requirements, its
                 \* priority, whether it names a webhook, whether its timeout
                 \* can be scheduled (see AssignFails)
  NoConfig,      \* config of an entity that does not exist
  Capabilities,  \* worker -> sequence of executors it offers, in its order
  MaxAttempts,   \* Task.max_attempts
  ExitCodes      \* exit codes workers report

ASSUME ConfigsAssumption ==
  Configs \subseteq
    [requirements : (SUBSET Executors) \ {{}}, priority : Int,
     webhook : BOOLEAN, schedulable : BOOLEAN]
ASSUME NoConfigAssumption == NoConfig \notin Configs
ASSUME NoWorkerAssumption == NoWorker \notin Workers
ASSUME CapabilitiesAssumption == Capabilities \in [Workers -> Seq(Executors)]
ASSUME MaxAttemptsAssumption == MaxAttempts \in Nat \ {0}
ASSUME ExitCodesAssumption == ExitCodes \subseteq Int

VARIABLES
  task,      \* Ids -> Task entity, or Absent / Deleted
  results,   \* Ids -> number of TaskResult entities stored below the task
  timers,    \* pending /tasks/timeout callbacks, as <<id, task_attempt>>
  hooks,     \* ids with a pending /tasks/{id}/invoke_webhook callback
  invoking,  \* ids whose webhook callback has read the task and is to post
  notified,  \* ids whose webhook receiver has taken a notification
  paused,    \* executors whose pause flag is in memcache
  purging,   \* executors with a pending /executors/{e}/deleteall callback
  doomed,    \* executor -> keys its deleteall has queried and not deleted
  request,   \* Requests -> /tasks/assign request being served
  held,      \* Requests -> executors paused ever since the request began
  handed     \* <<worker, id, attempt>> told to a worker by an assign response

vars == <<task, results, timers, hooks, invoking, notified, paused, purging,
          doomed, request, held, handed>>

Attempts == 1 .. MaxAttempts

Absent == [state |-> "absent", config |-> NoConfig, attempts |-> 0,
           worker |-> NoWorker, completed |-> FALSE, outcome |-> "none",
           result |-> 0]
Deleted == [Absent EXCEPT !.state = "deleted"]

(* "completed": whether completed_time is set.  "result": the attempt      *)
(* whose TaskResult the result property refers to, 0 for None.             *)
Task == [state     : {"absent", "deleted", "scheduled", "assigned",
                      "complete"},
         config    : Configs \union {NoConfig},
         attempts  : 0 .. MaxAttempts,
         worker    : Workers \union {NoWorker},
         completed : BOOLEAN,
         outcome   : {"none", "success", "failed", "timed_out"},
         result    : 0 .. MaxAttempts]

Idle == [worker |-> NoWorker, caps |-> <<>>, passed |-> FALSE]

(* "caps": the capabilities the request's loop has still to try; "passed": *)
(* the first of them was found not paused, its transaction comes next.     *)
Request == [worker : Workers \union {NoWorker},
            caps   : Seq(Executors),
            passed : BOOLEAN]

Exists(id) == task[id].state \in {"scheduled", "assigned", "complete"}

-----------------------------------------------------------------------------
Init ==
  /\ task = [id \in Ids |-> Absent]
  /\ results = [id \in Ids |-> 0]
  /\ timers = {}
  /\ hooks = {}
  /\ invoking = {}
  /\ notified = {}
  /\ paused = {}
  /\ purging = {}
  /\ doomed = [e \in Executors |-> {}]
  /\ request = [r \in Requests |-> Idle]
  /\ held = [r \in Requests |-> {}]
  /\ handed = {}

-----------------------------------------------------------------------------
(* Scheduling and deleting tasks.                                          *)

Schedule(id, config) ==
  /\ task[id].state = "absent"
  /\ task' = [task EXCEPT ![id] =
                [Absent EXCEPT !.state = "scheduled", !.config = config]]
  /\ UNCHANGED <<results, timers, hooks, invoking, notified, paused, purging,
                 doomed, request, held, handed>>

(* The entity is read, then deleted unconditionally, whatever became of it *)
(* in between: the delete is the step.  TaskResult children stay.          *)
DeleteById(id) ==
  /\ Exists(id)
  /\ task' = [task EXCEPT ![id] = Deleted]
  /\ UNCHANGED <<results, timers, hooks, invoking, notified, paused, purging,
                 doomed, request, held, handed>>

DeleteByExecutor(e) ==
  /\ purging' = purging \union {e}
  /\ UNCHANGED <<task, results, timers, hooks, invoking, notified, paused,
                 doomed, request, held, handed>>

GetByExecutor(e) ==
  {id \in Ids : /\ task[id].state = "scheduled"
                /\ e \in task[id].config.requirements}

(* One turn of the handler's loop, first half: query the keys; when there  *)
(* are none the handler returns and its callback is done.                  *)
DeleteAllQuery(e) ==
  /\ e \in purging
  /\ doomed[e] = {}
  /\ doomed' = [doomed EXCEPT ![e] = GetByExecutor(e)]
  /\ purging' = IF GetByExecutor(e) = {} THEN purging \ {e} ELSE purging
  /\ UNCHANGED <<task, results, timers, hooks, invoking, notified, paused,
                 request, held, handed>>

(* Second half: delete those keys, outside any transaction.                *)
DeleteAllDelete(e) ==
  /\ doomed[e] # {}
  /\ task' = [id \in Ids |-> IF id \in doomed[e] THEN Deleted ELSE task[id]]
  /\ doomed' = [doomed EXCEPT ![e] = {}]
  /\ UNCHANGED <<results, timers, hooks, invoking, notified, paused, purging,
                 request, held, handed>>

(* The delete raises: the task queue runs the handler again from the top.  *)
DeleteAllFails(e) ==
  /\ doomed[e] # {}
  /\ doomed' = [doomed EXCEPT ![e] = {}]
  /\ UNCHANGED <<task, results, timers, hooks, invoking, notified, paused,
                 purging, request, held, handed>>

-----------------------------------------------------------------------------
(* Pausing.  The flag is a memcache entry: an eviction has the effect of   *)
(* ResumeExecutor, so that action stands for both.                         *)

PauseExecutor(e) ==
  /\ paused' = paused \union {e}
  /\ UNCHANGED <<task, results, timers, hooks, invoking, notified, purging,
                 doomed, request, held, handed>>

ResumeExecutor(e) ==
  /\ e \in paused
  /\ paused' = paused \ {e}
  /\ held' = [r \in Requests |-> held[r] \ {e}]
  /\ UNCHANGED <<task, results, timers, hooks, invoking, notified, purging,
                 doomed, request, handed>>

-----------------------------------------------------------------------------
(* Assign: one request tries the worker's capabilities in order.           *)

BeginAssign(r, w) ==
  /\ request[r] = Idle
  /\ request' = [request EXCEPT ![r] =
       [worker |-> w, caps |-> Capabilities[w], passed |-> FALSE]]
  /\ held' = [held EXCEPT ![r] = paused]
  /\ UNCHANGED <<task, results, timers, hooks, invoking, notified, paused,
                 purging, doomed, handed>>

NextCapability(r) ==
  [request EXCEPT ![r].caps = Tail(@), ![r].passed = FALSE]

EndRequest(r) ==
  /\ request' = [request EXCEPT ![r] = Idle]
  /\ held' = [held EXCEPT ![r] = {}]

(* Mutant: the flag is written under one key and read under another. *)
IsExecutorPausedMissed(e) == FALSE

IsExecutorPaused(e) == e \in paused

(* The pause flag is read before, and outside, the transaction.            *)
CheckPause(r) ==
  /\ request[r].caps # <<>>
  /\ ~request[r].passed
  /\ request' = IF IsExecutorPaused(Head(request[r].caps))
                THEN NextCapability(r)
                ELSE [request EXCEPT ![r].passed = TRUE]
  /\ UNCHANGED <<task, results, timers, hooks, invoking, notified, paused,
                 purging, doomed, held, handed>>

(* The scheduled tasks for e that no other one outranks.  The query orders *)
(* by priority only, so which of them the datastore returns is open.       *)
GetOldestTaskForCapability(e) ==
  {id \in GetByExecutor(e) :
     \A other \in GetByExecutor(e) :
       task[other].config.priority <= task[id].config.priority}

AssignTaskToWorker(id, w) ==
  [task EXCEPT ![id].state = "assigned", ![id].worker = w,
               ![id].attempts = @ + 1]

(* The transactional add of the timeout callback for the new attempt.      *)
ScheduleTaskTimeout(id, attempt) == timers \union {<<id, attempt>>}

(* The transaction found a task.  "told" is FALSE when the response does   *)
(* not reach the worker: the task stays assigned and nobody runs it.       *)
AssignTask(r, id, told) ==
  LET w == request[r].worker
      attempt == task[id].attempts + 1
  IN  /\ request[r].passed
      /\ id \in GetOldestTaskForCapability(Head(request[r].caps))
      /\ task[id].config.schedulable
      /\ task' = AssignTaskToWorker(id, w)
      /\ timers' = ScheduleTaskTimeout(id, attempt)
      /\ handed' = IF told THEN handed \union {<<w, id, attempt>>} ELSE handed
      /\ EndRequest(r)
      /\ UNCHANGED <<results, hooks, invoking, notified, paused, purging,
                     doomed>>

(* The transaction found nothing: the loop goes to the next capability.    *)
AssignNothing(r) ==
  /\ request[r].passed
  /\ GetOldestTaskForCapability(Head(request[r].caps)) = {}
  /\ request' = NextCapability(r)
  /\ UNCHANGED <<task, results, timers, hooks, invoking, notified, paused,
                 purging, doomed, held, handed>>

(* The transaction raises and nothing is written: contention on the entity *)
(* group, or a timeout of the picked task that ScheduleTaskTimeout cannot  *)
(* schedule (a JSON number, a time too far away), which is not checked     *)
(* before.  The request ends with a 500 and its worker gets no task.       *)
AssignFails(r) ==
  /\ request[r].passed
  /\ GetOldestTaskForCapability(Head(request[r].caps)) # {}
  /\ EndRequest(r)
  /\ UNCHANGED <<task, results, timers, hooks, invoking, notified, paused,
                 purging, doomed, handed>>

(* No capability is left: Assign returns None.                             *)
EndAssign(r) ==
  /\ request[r] # Idle
  /\ request[r].caps = <<>>
  /\ EndRequest(r)
  /\ UNCHANGED <<task, results, timers, hooks, invoking, notified, paused,
                 purging, doomed, handed>>

-----------------------------------------------------------------------------
(* Results.                                                                *)

(* Mutants: without the check of the attempt, without that of the state. *)
UploadVerdictAnyAttempt(id, attempt) ==
  CASE ~Exists(id) -> "not_found"
    [] Exists(id) /\ task[id].state \notin {"assigned", "scheduled"} -> "timed_out"
    [] OTHER -> "accepted"
UploadVerdictAnyState(id, attempt) ==
  CASE ~Exists(id) -> "not_found"
    [] Exists(id) /\ task[id].attempts # attempt -> "timed_out"
    [] OTHER -> "accepted"

(* What UploadTaskResult answers: the 404 and 400 of TasksHandler.post.    *)
UploadVerdict(id, attempt) ==
  CASE ~Exists(id) -> "not_found"
    [] Exists(id) /\ task[id].attempts # attempt -> "timed_out"
    [] Exists(id) /\ task[id].attempts = attempt
         /\ task[id].state \notin {"assigned", "scheduled"} -> "timed_out"
    [] OTHER -> "accepted"

UploadTaskResult(id, attempt, exit_code) ==
  /\ UploadVerdict(id, attempt) = "accepted"
  /\ task' = [task EXCEPT ![id].state = "complete",
                          ![id].completed = TRUE,
                          ![id].outcome = IF exit_code = 0 THEN "success"
                                                           ELSE "failed",
                          ![id].result = attempt]
  /\ results' = [results EXCEPT ![id] = @ + 1]
  /\ hooks' = hooks \union {id}
  /\ UNCHANGED <<timers, invoking, notified, paused, purging, doomed, request,
                 held, handed>>

(* The webhook callback reads the task, and is done if the task was deleted *)
(* or names no webhook.                                                    *)
GetWebhook(id) ==
  /\ id \in hooks \ invoking
  /\ IF Exists(id) /\ task[id].config.webhook
     THEN invoking' = invoking \union {id} /\ UNCHANGED hooks
     ELSE hooks' = hooks \ {id} /\ UNCHANGED invoking
  /\ UNCHANGED <<task, results, timers, notified, paused, purging, doomed,
                 request, held, handed>>

(* Mutant: the handler does not pass the receiver's error on. *)
InvokeWebhookOnce(id, accepted, again) ==
  /\ id \in invoking
  /\ notified' = IF accepted THEN notified \union {id} ELSE notified
  /\ invoking' = invoking \ {id}
  /\ hooks' = hooks \ {id}
  /\ UNCHANGED <<task, results, timers, paused, purging, doomed, request,
                 held, handed>>

(* It then posts to the receiver, whatever became of the task meanwhile.   *)
(* "accepted": the receiver took the notification; "again": the task queue *)
(* will run the callback again, because the receiver answered with an      *)
(* error, or the handler failed before or after the fetch.                 *)
InvokeWebhook(id, accepted, again) ==
  /\ id \in invoking
  /\ accepted \/ again
  /\ notified' = IF accepted THEN notified \union {id} ELSE notified
  /\ invoking' = invoking \ {id}
  /\ hooks' = IF again THEN hooks ELSE hooks \ {id}
  /\ UNCHANGED <<task, results, timers, paused, purging, doomed, request,
                 held, handed>>

-----------------------------------------------------------------------------
(* Timeouts.                                                               *)

(* Mutants: a timed out task gets a completed_time; a timed out attempt    *)
(* does not count; assigned_worker is cleared.                             *)
TimeOutTaskStamped(id) ==
  IF task[id].attempts >= MaxAttempts
  THEN [task EXCEPT ![id].state = "complete", ![id].outcome = "timed_out",
                    ![id].completed = TRUE]
  ELSE [task EXCEPT ![id].state = "scheduled"]
TimeOutTaskUncounted(id) ==
  [task EXCEPT ![id].state = "scheduled", ![id].attempts = @ - 1]
TimeOutTaskCleared(id) ==
  IF task[id].attempts >= MaxAttempts
  THEN [task EXCEPT ![id].state = "complete", ![id].outcome = "timed_out",
                    ![id].worker = NoWorker]
  ELSE [task EXCEPT ![id].state = "scheduled", ![id].worker = NoWorker]

TimeOutTask(id) ==
  IF task[id].attempts >= MaxAttempts
  THEN [task EXCEPT ![id].state = "complete", ![id].outcome = "timed_out"]
  ELSE [task EXCEPT ![id].state = "scheduled"]

(* "again": the task queue delivers the callback once more (the handler    *)
(* failed after its commit).                                               *)
TaskTimeout(id, attempt, again) ==
  /\ <<id, attempt>> \in timers
  /\ timers' = IF again THEN timers ELSE timers \ {<<id, attempt>>}
  /\ task' = IF task[id].state = "assigned" /\ task[id].attempts = attempt
             THEN TimeOutTask(id)
             ELSE task
  /\ UNCHANGED <<results, hooks, invoking, notified, paused, purging, doomed,
                 request, held, handed>>

-----------------------------------------------------------------------------
Next ==
  \/ \E id \in Ids, config \in Configs : Schedule(id, config)
  \/ \E id \in Ids : DeleteById(id)
  \/ \E e \in Executors : DeleteByExecutor(e)
  \/ \E e \in Executors : DeleteAllQuery(e)
  \/ \E e \in Executors : DeleteAllDelete(e)
  \/ \E e \in Executors : DeleteAllFails(e)
  \/ \E e \in Executors : PauseExecutor(e)
  \/ \E e \in Executors : ResumeExecutor(e)
  \/ \E r \in Requests, w \in Workers : BeginAssign(r, w)
  \/ \E r \in Requests : CheckPause(r)
  \/ \E r \in Requests, id \in Ids, told \in BOOLEAN : AssignTask(r, id, told)
  \/ \E r \in Requests : AssignNothing(r)
  \/ \E r \in Requests : AssignFails(r)
  \/ \E r \in Requests : EndAssign(r)
  \/ \E h \in handed, exit_code \in ExitCodes :
       UploadTaskResult(h[2], h[3], exit_code)
  \/ \E id \in Ids : GetWebhook(id)
  \/ \E id \in Ids, accepted \in BOOLEAN, again \in BOOLEAN :
       InvokeWebhook(id, accepted, again)
  \/ \E t \in timers, again \in BOOLEAN : TaskTimeout(t[1], t[2], again)

Spec == Init /\ [][Next]_vars

(* What keeps the server moving: workers poll forever, requests are served *)
(* and a transaction that can succeed is not starved by contention, the    *)
(* task queue delivers every callback, and a webhook receiver accepts in   *)
(* the end.  Nothing forces clients to schedule, delete, pause or upload.  *)
Fairness ==
  /\ \A w \in Workers : SF_vars(\E r \in Requests : BeginAssign(r, w))
  /\ \A r \in Requests : WF_vars(CheckPause(r) \/ AssignNothing(r)
                                 \/ AssignFails(r) \/ EndAssign(r))
  /\ SF_vars(\E r \in Requests, id \in Ids : AssignTask(r, id, TRUE))
  /\ \A id \in Ids, a \in Attempts : WF_vars(TaskTimeout(id, a, FALSE))
  /\ \A id \in Ids : WF_vars(GetWebhook(id)) /\ SF_vars(InvokeWebhook(id, TRUE, FALSE))
  /\ \A e \in Executors : WF_vars(DeleteAllQuery(e))
  /\ \A e \in Executors : SF_vars(DeleteAllDelete(e))

FairSpec == Spec /\ Fairness

-----------------------------------------------------------------------------
(* The abstract view of a task's entity.                                   *)

Phase(t) ==
  CASE t.state = "absent"    -> "new"
    [] t.state = "scheduled" -> "waiting"
    [] t.state = "assigned"  -> "running"
    [] t.state = "complete"  -> IF t.result # 0 THEN "reported" ELSE "expired"
    [] t.state = "deleted"   -> "removed"

lifeOf == [id \in Ids |-> [phase |-> Phase(task[id]),
                           tries |-> task[id].attempts]]

Lifecycle == INSTANCE TaskLifecycle
               WITH life <- lifeOf, MaxTries <- MaxAttempts

-----------------------------------------------------------------------------
(* Properties.                                                             *)

(* Every variable holds values of its kind (the Task and TaskResult models *)
(* and the callbacks' parameters).                                         *)
TypeOK ==
  /\ task \in [Ids -> Task]
  /\ results \in [Ids -> Nat]
  /\ timers \subseteq Ids \X Attempts
  /\ hooks \subseteq Ids
  /\ invoking \subseteq Ids
  /\ notified \subseteq Ids
  /\ paused \subseteq Executors
  /\ purging \subseteq Executors
  /\ doomed \in [Executors -> SUBSET Ids]
  /\ request \in [Requests -> Request]
  /\ held \in [Requests -> SUBSET Executors]
  /\ handed \subseteq Workers \X Ids \X Attempts

(* No task is ever tried more than max_attempts times, although            *)
(* AssignTaskToWorker does not look at max_attempts: only the timeout      *)
(* callback does, before it puts a task back in the queue.                 *)
AttemptsBounded ==
  \A id \in Ids :
    /\ task[id].state = "scheduled" => task[id].attempts < MaxAttempts
    /\ task[id].state = "assigned" => task[id].attempts \in Attempts

(* A task cannot be stuck in ASSIGNED: the timeout callback of its current *)
(* attempt is pending, however often older callbacks fire or fire twice.   *)
AssignedHasTimer ==
  \A id \in Ids :
    task[id].state = "assigned" => <<id, task[id].attempts>> \in timers

(* An attempt is told to one worker at most, with requests, late callbacks *)
(* and lost responses interleaved: "attempts" identifies the run that a    *)
(* result comes from.                                                      *)
AttemptHandedOnce ==
  \A h, g \in handed : h[2] = g[2] /\ h[3] = g[3] => h[1] = g[1]

(* A task that has a result has the result of its last attempt, it has     *)
(* exactly one TaskResult, and a late or repeated upload did not add one.  *)
OneResultOfLastAttempt ==
  \A id \in Ids :
    /\ results[id] <= 1
    /\ task[id].result # 0 => /\ task[id].state = "complete"
                              /\ task[id].result = task[id].attempts
                              /\ results[id] = 1

(* GetResultsAfterDate selects tasks by completed_time and the CSV export  *)
(* dereferences their result: a task that has the one has the other, and   *)
(* its outcome is not that of a timeout.                                   *)
ExportedHasResult ==
  \A id \in Ids :
    task[id].completed => /\ task[id].result # 0
                          /\ task[id].outcome \in {"success", "failed"}

(* A result is never recorded without its webhook: the receiver has been   *)
(* notified, or the callback that will do so is still pending.             *)
WebhookNotLost ==
  \A id \in Ids :
    task[id].result # 0 /\ task[id].config.webhook
      => id \in hooks \/ id \in notified

(* A request that began after an executor was paused never passes the      *)
(* pause check for that executor while the pause lasts: only a request     *)
(* already past its check can hand out a task of a paused executor.        *)
PauseBindsLaterRequests ==
  \A r \in Requests :
    request[r].passed => Head(request[r].caps) \notin held[r]

(* A request that still has capabilities to try has a worker.              *)
RequestOK ==
  \A r \in Requests :
    /\ request[r].caps # <<>> => request[r].worker \in Workers
    /\ request[r].passed => request[r].caps # <<>>

(* A task that has not ended has neither completed_time nor TaskResult.    *)
NoResultYet ==
  \A id \in Ids :
    task[id].state \in {"absent", "scheduled", "assigned"}
      => ~task[id].completed /\ results[id] = 0

(* No worker was told of an attempt that is still to come.                 *)
HandedBehind ==
  \A h \in handed :
    /\ task[h[2]].state # "absent"
    /\ Exists(h[2]) => h[3] <= task[h[2]].attempts

(* A webhook callback is for a task with a result, or a deleted one.       *)
HooksHaveResults ==
  \A id \in hooks : task[id].state = "deleted" \/ task[id].result # 0

(* A webhook callback that has read its task is not done.                  *)
InvokingIsPending == invoking \subseteq hooks

(* A bulk deletion only holds keys of tasks that were scheduled once.      *)
DoomedScheduled ==
  \A e \in Executors : \A id \in doomed[e] : task[id].state # "absent"

(* Only executors that are paused are held.                                *)
HeldPaused == \A r \in Requests : held[r] \subseteq paused

(* The inductive invariant: the safety properties above, and what their    *)
(* preservation rests on.                                                  *)
TypeInv == TypeOK /\ RequestOK /\ AttemptsBounded

IndInv ==
  /\ TypeInv
  /\ NoResultYet /\ OneResultOfLastAttempt /\ ExportedHasResult
  /\ AssignedHasTimer
  /\ HandedBehind /\ AttemptHandedOnce
  /\ HooksHaveResults /\ InvokingIsPending /\ WebhookNotLost
  /\ DoomedScheduled
  /\ HeldPaused /\ PauseBindsLaterRequests

(* A completed task never changes again, except that it may be deleted:    *)
(* neither a late timeout callback nor a second upload touches it.         *)
CompleteIsFinal ==
  [][\A id \in Ids :
       task[id].state = "complete" => task'[id] \in {task[id], Deleted}]_vars

(* An assigned task is not given to anybody else before its timeout has    *)
(* put it back in the queue.                                               *)
AssignedIsNotStolen ==
  [][\A id \in Ids :
       task[id].state = "assigned" /\ task'[id].state = "assigned"
         => task'[id] = task[id]]_vars

(* A webhook receiver is notified of a task that has a result, never of    *)
(* one that timed out or is still running, although deletions and further  *)
(* callbacks run between the handler's read and its post; the result can   *)
(* be fetched unless the task was deleted in between.                      *)
WebhookSeesResult ==
  [][\A id \in notified' \ notified :
       \/ task[id].state = "deleted"
       \/ task[id].state = "complete" /\ task[id].result # 0]_vars

(* Unless executors are paused again and again, every scheduled task is    *)
(* completed, with a result or as timed out, or somebody deletes it,       *)
(* provided that timeouts can be scheduled: one that cannot aborts each    *)
(* assignment, and its task stays before those it outranks.                *)
TasksSettle ==
  <>[](paused = {}) =>
    \A id \in Ids :
      task[id].state = "scheduled" ~> task[id].state \in {"complete", "deleted"}

(* Every recorded result is announced to the task's webhook in the end,    *)
(* unless the task is deleted first.                                       *)
WebhookDelivered ==
  \A id \in Ids :
    task[id].result # 0 /\ task[id].config.webhook
      ~> id \in notified \/ task[id].state = "deleted"

(* The server implements the lifecycle: whatever requests, callbacks and   *)
(* deletions interleave, each task goes through it one legal step at a     *)
(* time, or is removed.                                                    *)
ImplementsLifecycle == Lifecycle!LifeSpec

=============================================================================
