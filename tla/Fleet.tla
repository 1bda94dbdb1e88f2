------------------------------- MODULE Fleet -------------------------------
(***************************************************************************)
(* The server's task queue together with the worker processes that poll it *)
(* (workers/macos/worker.py, through client/mrtaskman_api.py).             *)
(*                                                                         *)
(* Between a worker and the server are HTTP requests: a request or its     *)
(* response may be lost (urllib2.URLError), and an /tasks/assign request   *)
(* goes on at the server after its worker has given up on it.  A worker    *)
(* process may die at any time; starting it again is up to its operator.   *)
(***************************************************************************)
EXTENDS TaskQueue

VARIABLES
  agent,   \* Workers -> state of the worker process
  output   \* Ids -> what the recorded result's STDOUT and STDERR contain

fleetVars == <<vars, agent, output>>

Polling == [pc |-> "poll", slot |-> {}, id |-> {}, attempt |-> 0,
            exit |-> 0, drained |-> FALSE]
Dead == [Polling EXCEPT !.pc = "dead"]

(* "slot": the singleton of the awaited request; "id": the singleton of    *)
(* the task being worked on.  "drained": the stdout and stderr file        *)
(* objects have been read to their end by an earlier SendTaskResult.       *)
Agent == [pc      : {"poll", "await", "execute", "send", "dead"},
          slot    : SUBSET Requests,
          id      : SUBSET Ids,
          attempt : 0 .. MaxAttempts,
          exit    : ExitCodes \union {0},
          drained : BOOLEAN]

FleetInit ==
  /\ Init
  /\ agent = [w \in Workers |-> Polling]
  /\ output = [id \in Ids |-> "none"]

-----------------------------------------------------------------------------
(* Polling: PollAndExecute and AssignTask.                                 *)

Poll(w) ==
  /\ agent[w].pc = "poll"
  /\ \E r \in Requests :
       /\ BeginAssign(r, w)
       /\ agent' = [agent EXCEPT ![w] =
                      [Polling EXCEPT !.pc = "await", !.slot = {r}]]
  /\ UNCHANGED output

(* The connection breaks: AssignTask returns None, the request goes on.    *)
PollBreaks(w) ==
  /\ agent[w].pc = "await"
  /\ agent' = [agent EXCEPT ![w] = Polling]
  /\ UNCHANGED <<vars, output>>

Awaiting(w, r) == agent[w].pc = "await" /\ agent[w].slot = {r}

(* Whoever awaits r polls again. *)
Release(r) ==
  agent' = [w \in Workers |-> IF Awaiting(w, r) THEN Polling ELSE agent[w]]

(* The response reaches the worker, which starts to execute the task.      *)
ReceiveTask(w, r, id) ==
  /\ Awaiting(w, r)
  /\ AssignTask(r, id, TRUE)
  /\ agent' = [agent EXCEPT ![w] =
                 [Polling EXCEPT !.pc = "execute", !.id = {id},
                                 !.attempt = task[id].attempts + 1]]
  /\ UNCHANGED output

LoseTask(r, id) ==
  /\ AssignTask(r, id, FALSE)
  /\ Release(r)
  /\ UNCHANGED output

ReceiveNothing(r) ==
  /\ EndAssign(r) \/ AssignFails(r)
  /\ Release(r)
  /\ UNCHANGED output

-----------------------------------------------------------------------------
(* Executing: ExecuteTask.                                                 *)

(* The command ran to its end, or was terminated after its timeout: either *)
(* way there are results to send.                                          *)
ExecuteTask(w, exit_code) ==
  /\ agent[w].pc = "execute"
  /\ agent' = [agent EXCEPT ![w].pc = "send", ![w].exit = exit_code]
  /\ UNCHANGED <<vars, output>>

(* MrTaskmanUnrecoverableHttpError while packages are downloaded: the      *)
(* worker polls again, and tells the server nothing.                       *)
AbandonTask(w) ==
  /\ agent[w].pc = "execute"
  /\ agent' = [agent EXCEPT ![w] = Polling]
  /\ UNCHANGED <<vars, output>>

-----------------------------------------------------------------------------
(* Reporting: SendResponse.                                                *)

(* GetTaskCompleteUrl has no URL or answers with an error other than 404,  *)
(* or the post answers with a 500: the results are dropped.                *)
DropResponse(w) ==
  /\ agent[w].pc = "send"
  /\ agent' = [agent EXCEPT ![w] = Polling]
  /\ UNCHANGED <<vars, output>>

(* EncodeMultipartHttpFormData reads the output files to their end; the    *)
(* request then does not reach the server, and SendResponse retries.       *)
PostLost(w) ==
  /\ agent[w].pc = "send"
  /\ agent' = [agent EXCEPT ![w].drained = TRUE]
  /\ UNCHANGED <<vars, output>>

Content(w) == IF agent[w].drained THEN "empty" ELSE "full"

(* After a 404, or without an answer, SendResponse tries again.            *)
AfterPost(w, verdict, answered) ==
  IF answered /\ verdict # "not_found"
  THEN Polling
  ELSE [agent[w] EXCEPT !.drained = TRUE]

(* Mutant: the result counts for the task's current attempt. *)
PostAsLatest(w, answered) ==
  /\ agent[w].pc = "send"
  /\ \E id \in agent[w].id :
       LET verdict == UploadVerdict(id, task[id].attempts)
       IN  /\ IF verdict = "accepted"
              THEN /\ UploadTaskResult(id, task[id].attempts, agent[w].exit)
                   /\ output' = [output EXCEPT ![id] = Content(w)]
              ELSE UNCHANGED <<vars, output>>
           /\ agent' = [agent EXCEPT ![w] = AfterPost(w, verdict, answered)]

(* The post reaches TasksHandler.post, whose answer may be lost.           *)
Post(w, answered) ==
  /\ agent[w].pc = "send"
  /\ \E id \in agent[w].id :
       LET verdict == UploadVerdict(id, agent[w].attempt)
       IN  /\ IF verdict = "accepted"
              THEN /\ UploadTaskResult(id, agent[w].attempt, agent[w].exit)
                   /\ output' = [output EXCEPT ![id] = Content(w)]
              ELSE UNCHANGED <<vars, output>>
           /\ agent' = [agent EXCEPT ![w] = AfterPost(w, verdict, answered)]

-----------------------------------------------------------------------------
(* An exception nobody catches, or an interrupt, ends the process.         *)
Die(w) ==
  /\ agent[w].pc # "dead"
  /\ agent' = [agent EXCEPT ![w] = Dead]
  /\ UNCHANGED <<vars, output>>

Restart(w) ==
  /\ agent[w].pc = "dead"
  /\ agent' = [agent EXCEPT ![w] = Polling]
  /\ UNCHANGED <<vars, output>>

(* Steps of the server that no worker takes part in.                       *)
ServerStep ==
  /\ \/ \E id \in Ids, config \in Configs : Schedule(id, config)
     \/ \E id \in Ids : DeleteById(id)
     \/ \E e \in Executors :
          \/ DeleteByExecutor(e) \/ DeleteAllQuery(e) \/ DeleteAllDelete(e)
          \/ DeleteAllFails(e) \/ PauseExecutor(e) \/ ResumeExecutor(e)
     \/ \E r \in Requests : CheckPause(r) \/ AssignNothing(r)
     \/ \E id \in Ids : GetWebhook(id)
     \/ \E id \in Ids, accepted \in BOOLEAN, again \in BOOLEAN :
          InvokeWebhook(id, accepted, again)
     \/ \E t \in timers, again \in BOOLEAN : TaskTimeout(t[1], t[2], again)
  /\ UNCHANGED <<agent, output>>

WorkerStep(w) ==
  \/ Poll(w)
  \/ PollBreaks(w)
  \/ \E r \in Requests, id \in Ids : ReceiveTask(w, r, id)
  \/ \E exit_code \in ExitCodes : ExecuteTask(w, exit_code)
  \/ AbandonTask(w)
  \/ DropResponse(w)
  \/ PostLost(w)
  \/ \E answered \in BOOLEAN : Post(w, answered)
  \/ Die(w)
  \/ Restart(w)

FleetNext ==
  \/ ServerStep
  \/ \E r \in Requests, id \in Ids : LoseTask(r, id)
  \/ \E r \in Requests : ReceiveNothing(r)
  \/ \E w \in Workers : WorkerStep(w)

FleetSpec == FleetInit /\ [][FleetNext]_fleetVars

-----------------------------------------------------------------------------
(* Properties.                                                             *)

(* The worker's local variables and the stored output have their types.    *)
FleetTypeOK ==
  /\ agent \in [Workers -> Agent]
  /\ output \in [Ids -> {"none", "full", "empty"}]

(* Two workers never run, or report, the same attempt of a task: two runs  *)
(* of one task can overlap, but the server can tell them apart.            *)
OneRunnerPerAttempt ==
  \A w, v \in Workers :
    /\ w # v
    /\ agent[w].id # {}
    /\ agent[w].id = agent[v].id
    => agent[w].attempt # agent[v].attempt

(* A worker can always run what it is given: PollAndExecute finds one of   *)
(* its executors among the task's requirements and never raises            *)
(* "No allowed executors matched our executors_".                          *)
ExecutorMatches ==
  \A w \in Workers : \A id \in agent[w].id :
    Exists(id) =>
      \E i \in DOMAIN Capabilities[w] :
        Capabilities[w][i] \in task[id].config.requirements

(* While a worker holds the latest attempt of a task, assigned_worker      *)
(* names that worker, in whatever state the task is: the dashboards show   *)
(* who runs it, and after a timeout "who timed out".                       *)
AssignedWorkerIsRunner ==
  \A w \in Workers : \A id \in agent[w].id :
    Exists(id) /\ task[id].attempts = agent[w].attempt => task[id].worker = w

(* Once an output is recorded for a task it is never replaced, by a retry  *)
(* of the same upload or by the worker of another attempt.                 *)
OutputIsFinal ==
  [][\A id \in Ids : output[id] # "none" => output'[id] = output[id]]_output

(* What a worker works on was told to it, a worker with results has an     *)
(* exit code to send, and a request that a worker awaits is its own.       *)
HeldIsHanded ==
  \A w \in Workers : \A id \in agent[w].id : <<w, id, agent[w].attempt>> \in handed
SenderHasExitCode ==
  \A w \in Workers : agent[w].pc = "send" => agent[w].exit \in ExitCodes
AwaitedIsServed ==
  \A w \in Workers, r \in Requests : Awaiting(w, r) => request[r].worker = w

(* A request tries only what its worker offers.                            *)
TriesOffered ==
  \A r \in Requests : \A i \in DOMAIN request[r].caps :
    \E j \in DOMAIN Capabilities[request[r].worker] :
      request[r].caps[i] = Capabilities[request[r].worker][j]

(* A task with an output has ended.                                        *)
OutputHasEnded ==
  \A id \in Ids : output[id] # "none" => task[id].state \in {"complete", "deleted"}

(* The inductive invariant of the proofs, next to that of TaskQueue.       *)
FleetInv ==
  /\ FleetTypeOK
  /\ HeldIsHanded /\ SenderHasExitCode
  /\ AwaitedIsServed /\ TriesOffered
  /\ AssignedWorkerIsRunner /\ ExecutorMatches
  /\ OutputHasEnded

(* Seen from the server, the workers only do what TaskQueue lets anybody   *)
(* do: every invariant of TaskQueue holds with them.                       *)
FleetImplementsQueue == Spec

(* What a doc says, and the code does not do.                              *)

(* "Uploads results of a task, including STDOUT and STDERR."               *)
ResultHasOutput == \A id \in Ids : output[id] # "empty"
=============================================================================
