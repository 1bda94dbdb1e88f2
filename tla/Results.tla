------------------------------ MODULE Results ------------------------------
(***************************************************************************)
(* Results of tasks and their export: the blobs that come with an upload   *)
(* (server/handlers/tasks.py, post), the results that refer to them        *)
(* (server/models/tasks.py, UploadTaskResult), and the client that pages   *)
(* through the completed tasks (server/handlers/api_handlers.py,           *)
(* client/download_mrt_data.py).                                           *)
(*                                                                         *)
(* The blobstore keeps the files of a request before its handler runs, and *)
(* the handler must delete them unless a result refers to them.  The query *)
(* of the export has no ancestor, so it sees a commit some time after it   *)
(* was made.  Attempts and states are those of TaskQueue: here a task      *)
(* takes one result, once.                                                 *)
(***************************************************************************)
EXTENDS Integers, Sequences, FiniteSets, SequencesExt

CONSTANTS
  NumTasks,  \* tasks, in the order in which they are completed
  Macos,     \* tasks for the executor 'macos', which are not exported
  NumPosts,  \* requests that upload a result, in the order of arrival
  Uploads,   \* sets of files that come with them
  Limit,     \* page size of the export
  MaxDeleted, \* bound: tasks that are deleted
  MaxTorn    \* bound: rows left by writes that failed

Tasks == 1..NumTasks
Posts == 1..NumPosts
Fields == {"STDOUT", "STDERR"}
NoPost == 0

ASSUME ResultsAssumption ==
  /\ NumTasks \in Nat \ {0} /\ NumPosts \in Nat /\ Limit \in Nat \ {0}
  /\ Uploads \subseteq SUBSET Fields

VARIABLES
  state,    \* Tasks -> "running", "complete" or "deleted"
  time,     \* Tasks -> completed_time, or 0
  result,   \* Tasks -> the post whose files its TaskResult refers to
  log,      \* the commits, in order: a task was completed or deleted
  applied,  \* how many of them the query of the export sees
  post,     \* Posts -> what it is for, its files, and how far it has come
  blob,     \* files stored: pairs of a post and a field
  client,   \* the exporting client: next_cursor, last_cursor
  out,      \* tasks whose rows it has written
  torn,     \* places in "out" that a write left which then failed
  begun,    \* history: tasks that the query saw when the export began
  seen,     \* history: tasks that the latest query saw
  skewed,   \* history: a completed_time lies before an earlier one
  leaked,   \* history: posts whose handler ended with an exception
  unsure    \* history: posts whose commit was reported as a conflict

server == <<state, time, result, log, applied, post, blob, skewed, leaked, unsure>>
export == <<client, out, torn, begun, seen>>
resultVars == <<server, export>>

Post(pc, task, fields) == [pc |-> pc, task |-> task, fields |-> fields]
Client(pc, next, last) == [pc |-> pc, next |-> next, last |-> last]
Commit(what, t) == [what |-> what, task |-> t]
FilesOf(p) == {p} \X post[p].fields

ResultsInit ==
  /\ state = [t \in Tasks |-> "running"]
  /\ time = [t \in Tasks |-> 0]
  /\ result = [t \in Tasks |-> NoPost]
  /\ log = <<>> /\ applied = 0
  /\ post = [p \in Posts |-> Post("unsent", 1, {})]
  /\ blob = {}
  /\ client = Client("idle", 0, 0)
  /\ out = <<>> /\ torn = {} /\ begun = {} /\ seen = {}
  /\ skewed = FALSE /\ leaked = {} /\ unsure = {}

-----------------------------------------------------------------------------
(* Uploading a result.                                                     *)

(* The blobstore stores the files, then calls the handler.                 *)
StoreFiles(p, t, fields) ==
  /\ post[p].pc = "unsent"
  /\ \A q \in 1..(p - 1) : post[q].pc # "unsent"
  /\ post' = [post EXCEPT ![p] = Post("called", t, fields)]
  /\ blob' = blob \union ({p} \X fields)
  /\ UNCHANGED <<state, time, result, log, applied, skewed, leaked, unsure, export>>

(* Any answer but 200: the files are deleted.                              *)
DeleteBlobs(p) ==
  /\ post' = [post EXCEPT ![p].pc = "answered"]
  /\ blob' = blob \ FilesOf(p)

(* An exception that post does not catch: the files stay.                  *)
Escape(p) ==
  /\ post' = [post EXCEPT ![p].pc = "answered"]
  /\ leaked' = leaked \union {p}
  /\ UNCHANGED blob

(* No task_result, no JSON, no attempt or exit_code, bad result_metadata.  *)
BadRequest(p) ==
  /\ post[p].pc = "called"
  /\ DeleteBlobs(p)
  /\ UNCHANGED <<state, time, result, log, applied, skewed, leaked, unsure, export>>

(* "except KeyError, AssertionError" catches KeyErrors only, so numbers    *)
(* that are none raise; as does a transaction that fails for good.         *)
PostRaises(p) ==
  /\ post[p].pc = "called"
  /\ Escape(p)
  /\ UNCHANGED <<state, time, result, log, applied, skewed, unsure, export>>

(* Mutant: the files are deleted however the request ends.                 *)
RecordResultTidy(p, now) ==
  LET t == post[p].task IN
  /\ post[p].pc = "called"
  /\ state[t] = "running"
  /\ \A u \in 1..(t - 1) : state[u] # "running"
  /\ state' = [state EXCEPT ![t] = "complete"]
  /\ time' = [time EXCEPT ![t] = now]
  /\ result' = [result EXCEPT ![t] = p]
  /\ log' = Append(log, Commit("complete", t))
  /\ skewed' = (skewed \/ \E u \in Tasks : time[u] > now)
  /\ DeleteBlobs(p)
  /\ UNCHANGED <<applied, leaked, unsure, export>>

(* The transaction: the task is complete, at the time of the clock of the  *)
(* server that runs it, and its result refers to the files.  If the commit *)
(* goes through and is reported as a conflict, the transaction runs again. *)
RecordResult(p, now) ==
  LET t == post[p].task IN
  /\ post[p].pc = "called"
  /\ state[t] = "running"
  /\ \A u \in 1..(t - 1) : state[u] # "running"
  /\ state' = [state EXCEPT ![t] = "complete"]
  /\ time' = [time EXCEPT ![t] = now]
  /\ result' = [result EXCEPT ![t] = p]
  /\ log' = Append(log, Commit("complete", t))
  /\ skewed' = (skewed \/ \E u \in Tasks : time[u] > now)
  /\ \/ post' = [post EXCEPT ![p].pc = "answered"] /\ UNCHANGED unsure
     \/ unsure' = unsure \union {p} /\ UNCHANGED post
  /\ UNCHANGED <<applied, blob, leaked, export>>

(* Mutant: only a task that is gone has the files deleted.                 *)
RejectResultMissing(p) ==
  /\ post[p].pc = "called"
  /\ \/ state[post[p].task] = "deleted" /\ DeleteBlobs(p)
     \/ /\ state[post[p].task] = "complete"
        /\ post' = [post EXCEPT ![p].pc = "answered"]
        /\ UNCHANGED blob
  /\ UNCHANGED <<state, time, result, log, applied, skewed, leaked, unsure, export>>

(* TaskNotFoundError, TaskTimedOutError.                                   *)
RejectResult(p) ==
  /\ post[p].pc = "called"
  /\ state[post[p].task] # "running"
  /\ DeleteBlobs(p)
  /\ UNCHANGED <<state, time, result, log, applied, skewed, leaked, unsure, export>>

(* The index catches up, in the order of the commits: all tasks are in one *)
(* entity group.                                                           *)
Apply ==
  /\ applied < Len(log)
  /\ applied' = applied + 1
  /\ UNCHANGED <<state, time, result, log, post, blob, skewed, leaked, unsure, export>>

(* DeleteById: its result and the files of the result stay.                *)
DeleteTask(t) ==
  /\ state[t] # "deleted"
  /\ state' = [state EXCEPT ![t] = "deleted"]
  /\ log' = Append(log, Commit("delete", t))
  /\ UNCHANGED <<time, result, applied, post, blob, skewed, leaked, unsure, export>>

-----------------------------------------------------------------------------
(* The export.  A cursor is the completed_time after which to go on.       *)

(* The completed tasks that a query sees.                                  *)
index ==
  LET done == SubSeq(log, 1, applied) IN
  {t \in Tasks : /\ Commit("complete", t) \in ToSet(done)
                 /\ Commit("delete", t) \notin ToSet(done)}

(* Tasks in the order of completed_time. *)
ByTime(S) ==
  [i \in 1..Cardinality(S) |->
     CHOOSE t \in S : Cardinality({u \in S : time[u] <= time[t]}) = i]

(* GetResultsAfterDate: the next completed tasks, by completed_time.       *)
PageAfter(cursor) ==
  LET later == {t \in index : time[t] > cursor}
  IN  {t \in later : Cardinality({u \in later : time[u] <= time[t]}) <= Limit}

(* And the cursor after them, which is the old one when there are none.    *)
CursorAfter(page, cursor) ==
  IF page = {} THEN cursor
  ELSE CHOOSE c \in {time[t] : t \in page} : \A t \in page : time[t] <= c

(* FormatTaskResultsAsCsv: tasks for macos have no row; a result without   *)
(* one of its files makes the request fail.                                *)
Rows(page) == ByTime(page \ Macos)
Readable(t) == post[result[t]].fields = Fields
CanFormat(page) == \A t \in page \ Macos : Readable(t)

BeginExport ==
  /\ client.pc = "idle"
  /\ client' = [client EXCEPT !.pc = "first"]
  /\ begun' = index
  /\ UNCHANGED <<server, out, torn, seen>>

(* Mutant: the loop ends after a page with fewer rows than it asked for.   *)
FirstPageShort ==
  LET page == PageAfter(0) IN
  /\ client.pc = "first"
  /\ CanFormat(page)
  /\ seen' = index
  /\ out' = Rows(page)
  /\ client' = Client("next", CursorAfter(page, 0),
                      IF Len(Rows(page)) < Limit THEN CursorAfter(page, 0) ELSE -1)
  /\ UNCHANGED <<server, torn, begun>>

(* The first page: an error ends the program.                              *)
FirstPage ==
  LET page == PageAfter(0) IN
  /\ client.pc = "first"
  /\ CanFormat(page)
  /\ seen' = index
  /\ out' = Rows(page)
  /\ client' = Client("next", CursorAfter(page, 0), -1)
  /\ UNCHANGED <<server, torn, begun>>
FirstPageFails ==
  /\ client.pc = "first"
  /\ client' = [client EXCEPT !.pc = "died"]
  /\ UNCHANGED <<server, out, torn, begun, seen>>

(* Mutant: the page is fetched from the cursor before the last.            *)
NextPageAgain ==
  LET page == PageAfter(client.last) IN
  /\ client.pc = "next"
  /\ client.next # client.last
  /\ CanFormat(page)
  /\ seen' = index
  /\ out' = out \o Rows(page)
  /\ client' = Client("next", CursorAfter(page, client.next), client.next)
  /\ UNCHANGED <<server, torn, begun>>

(* The loop: a page that failed is asked for again, without end.           *)
NextPage ==
  LET page == PageAfter(client.next) IN
  /\ client.pc = "next"
  /\ client.next # client.last
  /\ CanFormat(page)
  /\ seen' = index
  /\ out' = out \o Rows(page)
  /\ client' = Client("next", CursorAfter(page, client.next), client.next)
  /\ UNCHANGED <<server, torn, begun>>

(* Mutant: the loop goes on to the page after the one that failed.         *)
NextPageBreaksPast(n) ==
  LET page == PageAfter(client.next) IN
  /\ client.pc = "next"
  /\ client.next # client.last
  /\ CanFormat(page)
  /\ n \in 1..Len(Rows(page)) /\ Cardinality(torn) + n <= MaxTorn
  /\ out' = out \o SubSeq(Rows(page), 1, n)
  /\ torn' = torn \union ((Len(out) + 1)..(Len(out) + n))
  /\ client' = Client("next", CursorAfter(page, client.next), client.next)
  /\ UNCHANGED <<server, begun, seen>>

(* A page that failed as it was written has left some of its rows, or      *)
(* parts of them.                                                          *)
NextPageBreaks(n) ==
  LET rows == Rows(PageAfter(client.next)) IN
  /\ client.pc = "next"
  /\ client.next # client.last
  /\ CanFormat(PageAfter(client.next))
  /\ n \in 1..Len(rows) /\ Cardinality(torn) + n <= MaxTorn
  /\ out' = out \o SubSeq(rows, 1, n)
  /\ torn' = torn \union ((Len(out) + 1)..(Len(out) + n))
  /\ UNCHANGED <<server, client, begun, seen>>

EndExport ==
  /\ client.pc = "next"
  /\ client.next = client.last
  /\ client' = [client EXCEPT !.pc = "done"]
  /\ UNCHANGED <<server, out, torn, begun, seen>>

-----------------------------------------------------------------------------
(* Requests hit any task; the clock reads a time no task has.              *)
Clock == (1..NumTasks) \ {time[t] : t \in Tasks}
ResultsNext ==
  \/ \E p \in Posts, t \in Tasks, fields \in Uploads : StoreFiles(p, t, fields)
  \/ \E p \in Posts : BadRequest(p) \/ PostRaises(p) \/ RejectResult(p)
  \/ \E p \in Posts, now \in Clock : RecordResult(p, now)
  \/ Apply
  \/ /\ Cardinality({t \in Tasks : state[t] = "deleted"}) < MaxDeleted
     /\ \E t \in Tasks : DeleteTask(t)
  \/ BeginExport \/ FirstPage \/ FirstPageFails \/ NextPage \/ EndExport
  \/ \E n \in 1..MaxTorn : NextPageBreaks(n)

ResultsSpec == ResultsInit /\ [][ResultsNext]_resultVars
-----------------------------------------------------------------------------
(* The types of the variables.                                             *)
ResultsTypeOK ==
  /\ state \in [Tasks -> {"running", "complete", "deleted"}]
  /\ time \in [Tasks -> 0..NumTasks]
  /\ result \in [Tasks -> Posts \union {NoPost}]
  /\ \A i \in 1..Len(log) : log[i] \in [what : {"complete", "delete"}, task : Tasks]
  /\ applied \in 0..Len(log)
  /\ post \in [Posts -> [pc : {"unsent", "called", "answered"},
                         task : Tasks, fields : SUBSET Fields]]
  /\ blob \subseteq Posts \X Fields
  /\ client \in [pc : {"idle", "first", "next", "done", "died"},
                  next : 0..NumTasks, last : -1..NumTasks]
  /\ ToSet(out) \subseteq Tasks /\ torn \subseteq 1..Len(out)
  /\ begun \subseteq Tasks /\ seen \subseteq Tasks
  /\ skewed \in BOOLEAN /\ leaked \subseteq Posts /\ unsure \subseteq Posts

(* The files that a completed task's result refers to are stored, whatever *)
(* other requests for the task end in "DeleteBlobs"; only a commit that    *)
(* was reported as a conflict breaks this: its own request is then told    *)
(* that the task timed out, and deletes the files of the stored result.    *)
(* And a stored file belongs to a result, to a request that is still to be *)
(* answered, or to one that ended with an exception post does not catch.   *)
FilesBelongToResults ==
  /\ \A t \in Tasks : result[t] # NoPost /\ result[t] \notin unsure
                         => FilesOf(result[t]) \subseteq blob
  /\ \A f \in blob : \/ post[f[1]].pc = "called"
                     \/ \E t \in Tasks : result[t] = f[1]
                     \/ f[1] \in leaked

Wanted(tasks) == {t \in tasks : state[t] = "complete" /\ t \notin Macos}

(* The export writes rows in the order of completed_time, none twice,      *)
(* though tasks are completed and deleted between its pages; when it ends  *)
(* it has every row that was there when it began, even if the clocks of    *)
(* the servers disagree, and every row that its last query could have      *)
(* seen: a task that reached the index meanwhile is behind the cursor only *)
(* if a server's clock was behind.  The rows that a failed write left are  *)
(* passed over: they are written again, and stand in the file twice.       *)
Intact == (1..Len(out)) \ torn
Written == {out[i] : i \in Intact}
ExportIsWhole ==
  /\ \A i, j \in Intact : i < j => time[out[i]] < time[out[j]]
  /\ client.pc = "done" =>
       /\ Wanted(begun) \subseteq Written
       /\ skewed \/ Wanted(seen) \subseteq Written

-----------------------------------------------------------------------------
(* The inductive invariants.                                               *)

(* FilesBelongToResults rests on these: a task takes one result, of a      *)
(* request that will not delete its files any more, unless its commit was  *)
(* reported as a conflict; and a request deletes no files but its own.     *)
ResultIsFinal ==
  \A t \in Tasks : result[t] # NoPost =>
    /\ state[t] # "running"
    /\ post[result[t]].pc # "unsent"
    /\ result[t] \in unsure \/ post[result[t]].pc = "answered"

BlobsArePosted ==
  /\ \A f \in blob : post[f[1]].pc # "unsent" /\ f[2] \in post[f[1]].fields
  /\ \A p \in Posts : post[p].pc = "called" => FilesOf(p) \subseteq blob

FilesInv == ResultIsFinal /\ BlobsArePosted /\ FilesBelongToResults

(* ExportIsWhole rests on these.  The log has what the states say; the     *)
(* times of completed tasks differ, and grow along the log unless a clock  *)
(* was behind.                                                             *)
Completed == {i \in 1..Len(log) : log[i].what = "complete"}

LogIsState ==
  /\ \A i \in 1..Len(log) : state[log[i].task] # "running"
  /\ \A i \in Completed : time[log[i].task] > 0
  /\ \A i \in 1..Len(log) : log[i].what = "delete" => state[log[i].task] = "deleted"

TimesDiffer ==
  /\ \A t, u \in Tasks : time[t] = time[u] /\ time[t] > 0 => t = u
  /\ ~skewed => \A i, j \in Completed :
                    i < j => time[log[i].task] < time[log[j].task]

(* Whatever the query saw is behind the cursor or was written; the cursor  *)
(* is the time of a task that the query saw, so that nothing joins it from *)
(* behind unless a clock was; and an unchanged cursor means that the query *)
(* saw nothing further.                                                    *)
Wrote(t) == t \in Macos \/ t \in Written
Appeared == {log[i].task : i \in {k \in Completed : k <= applied}}

CursorIsSeen == client.next = 0 \/ \E t \in Appeared : client.next = time[t]

PagesInOrder ==
  /\ \A i, j \in Intact : i < j => time[out[i]] < time[out[j]]
  /\ \A i \in Intact : time[out[i]] <= client.next
  /\ client.pc \in {"idle", "first"} => out = <<>> /\ client.next = 0
  /\ ToSet(out) \union begun \union seen \subseteq Appeared
  /\ torn \subseteq 1..Len(out)

WrittenSoFar ==
  /\ \A t \in begun : state[t] = "complete" /\ time[t] <= client.next => Wrote(t)
  /\ ~skewed => \A t \in index : state[t] = "complete" /\ time[t] <= client.next => Wrote(t)
  /\ client.pc = "done" \/ (client.pc = "next" /\ client.next = client.last) =>
       /\ \A t \in begun : state[t] = "complete" => Wrote(t)
       /\ ~skewed => \A t \in seen : state[t] = "complete" => Wrote(t)

ExportInv == LogIsState /\ TimesDiffer /\ CursorIsSeen /\ PagesInOrder /\ WrittenSoFar
=============================================================================
