# MrTaskman in TLA+

MrTaskman is a distributed task runner. A server on App Engine keeps a queue of
tasks in the datastore; worker processes on Macs poll it over HTTP, run what
they get on attached devices, and upload the results. This directory holds TLA+
models of the parts in which steps of several actors interleave, TLC
configurations that check them on small instances, and theorems about them,
checked by TLAPS.

Paths below are relative to the root of the repository.

## Inventory

| Part | State it keeps | Operations | Talks to |
|---|---|---|---|
| Task queue: `src/server/models/tasks.py`, `src/server/handlers/tasks.py` | `Task` and `TaskResult` entities in one entity group; pause flags in memcache; task queue entries for timeouts, webhooks, bulk deletion | schedule, assign, upload a result, time out, announce, delete, delete all of an executor, pause, resume, reads | workers and clients by HTTP; its own callbacks through the task queue |
| Worker: `src/workers/macos/worker.py`, with `src/client/mrtaskman_api.py` and `src/common/http_file_upload.py` | local variables of `PollAndExecute`, output files | poll, install packages, execute, upload with retries | task queue, package cache |
| Package cache: `src/client/package_cache.py` | `.index`, `.copying`, `.downloading` and directories, shared by the workers of one machine | `CopyToDirectory` | other workers through files and a lock; package installer by callback |
| Package installer: `src/client/package_installer.py` | none | download the files of a package | package store |
| Package store: `src/server/models/packages.py`, `src/server/handlers/packages.py`, `packagefiles.py` | `Package`, `PackageFile`, blobs | create, get, list, delete | blobstore |
| Result files: `src/server/handlers/taskresultfiles.py`, `src/server/handlers/tasks.py` | blobs of results | stored before a request, kept or deleted by it; served | blobstore |
| Result export: `src/server/handlers/api_handlers.py`, `src/client/download_mrt_data.py` | a cursor, output files | page through completed tasks | task queue |
| Android runners: `src/packages`, `src/tasklib/apklib.py` | what is installed and what `/data/local/tmp/ret` says, on the device | install, run a command, read its exit code, uninstall | device; the worker starts and stops them |
| Time parser: `src/common/parsetime.py` | none | `ParseTimeDelta` | server and worker, each for itself |
| MapReduce jobs: `src/server/mapreduce/handlers.py`, `model.py`, `context.py`, `control.py` | `MapreduceState`, `ShardState`, `MapreduceControl`; tasks with the JSON of a reader | start, kickoff, slice, controller, finalize, abort, clean up | task queue of App Engine, readers, writers, pipelines by callback |
| Pipelines: `src/server/mapreduce/lib/pipeline`, `mapper_pipeline.py` | pipeline records, slots, barriers | start, evaluate, fill a slot, notify, finalize, retry, abort, call back | task queue; MapReduce jobs |
| Input readers: `input_readers.py`, `namespace_range.py`, `lib/key_range` | the part of the input that is left, as JSON between slices | split, iterate, to and from JSON | datastore, blobstore |
| Shuffle and reduce: `shuffler.py`, `mapreduce_pipeline.py` | files of records, offsets in them | hash, sort, merge, reduce | each stage is a MapReduce job |
| Record files: `lib/files/records.py`, `lib/files/file.py`, `output_writers.py` | bytes of a file, pools that are not flushed, a position | append, flush, finalize, read, seek | files service |
| Quotas: `quota.py` | a bucket in memcache for each shard | put, consume, check, dispose | controller and slices |
| Events: `src/server/models/events.py`, `handlers/events.py` | independent records | create, list | |
| Index and migration jobs: `src/server/index` | | three jobs on the libraries above | |
| Dashboard, command line client | none | read pages, issue API calls | task queue |
| JSON conversion, device check, log splitting, third-party code | none | pure functions and I/O | |

The directory `src/server/mapreduce` is a library that the repository holds a
copy of and runs on its server; the paths of the rows on it are relative to it.

What is hard in this system, and what has to hold:

* **Task queue.** `Assign` checks the pause flag, then runs a transaction per
  capability; timeout and webhook callbacks come at least once, late, in any
  order; uploads come from workers whose attempt may have timed out; bulk
  deletion queries keys and deletes them later. A task must be run by one worker
  at a time, at most `max_attempts` times, must not be stuck in ASSIGNED, must end
  with the one result of its last attempt, and its webhook must be told.
* **Worker.** Requests and answers get lost, the process dies, uploads are
  retried. Two workers must never report the same attempt, and a result must not be
  replaced.
* **Package cache.** Copies and downloads run outside the lock; evictions and
  time-outs race with them; processes die between two writes. What `.index` names
  must be complete, a copy must not lose its source, a waiter must not wait forever.
* **Package store and installer.** Blobs are stored before, and deleted during, a
  transaction they are no part of; a package is read in two requests and its files
  one by one, while others delete and create it. A package must keep the blobs of
  its one creation, blobs must not be lost, an installation must be whole.
* **Result files and export.** Files are stored before the request they come with is
  looked at; the export pages through a set that changes, by a query that sees a
  commit late, and writes a page again that failed half way. A result must keep
  its files, files without a result must go, and the export must have each result
  once, in order, but for the rows of pages that failed.
* **Android runners, time parser.** A device keeps files, installed programs and
  running commands across tasks; a task must not take the exit code of another
  for its own. Server and worker compute one timeout separately; the server must
  be the more patient one.
* **MapReduce jobs and pipelines.** Every step is a task that may be served again,
  by two instances at a time, or in part. A job that says success must have
  mapped everything, an active shard must have a task, a workflow must end, and a
  pipeline must not run before its inputs are there.
* **Readers, shuffle, record files.** All of them stop after an item and are made
  anew of their JSON: between the parts of a split, and between the slices of a
  shard, nothing may fall out and nothing be read twice, whatever fails and is run
  again.
* **Quotas.** Several consumers decrement a counter below zero and put back what
  was not there.

`PROJECT.json` lists the hazards one by one, at their lines, with the properties
that would catch them. Some bite in the code as it is, and no document
says otherwise: a running task that is deleted with the others of its executor, the
404 that a worker retries without end, a timeout that cannot be scheduled, the
exceptions that leave blobs behind, a kickoff that is repeated, a commit that is
reported as a conflict. The models do all of this, the properties excuse it by name
(`leaked`, `late`, `unsure`) or do not speak of it, and the hazard has a note. Three more
are caught but for one half, which is excused: a stale put of a job (`late`), values that
a reducer's reader sets aside (`dropped`), a type that became zero (`blanked`).

## Modules

| Module | What it is |
|---|---|
| `TaskLifecycle` | Abstract: what the queue promises about each task. |
| `TaskQueue` | The server: entities, callbacks, concurrent assign requests. |
| `Fleet` | `TaskQueue` together with the worker processes and the network. |
| `PackageCache` | The cache that the workers of a machine share. |
| `PackageStore` | Packages, their files and blobs on the server, and the installers that read them. |
| `Results` | The files of results, and their export by a paging client. |
| `AndroidRunner` | The programs that tasks run against one device. |
| `TaskTimeout` | The two timeouts that come of one text. |
| `MapReduce` | One job: its tasks, states, controller, abort and clean-up. |
| `Pipeline` | One workflow: a generator, its children, their slots and barriers. |
| `InputReaders` | How a job divides the datastore, by keys or namespaces. |
| `BlobReaders` | The readers of lines of blobs, files of archives, and lines of those. |
| `Shuffle` | Hash, sort, merge and reduce, each a job with slices. |
| `RecordFiles` | The format of record files, the pools that write them, and their reader. |
| `Quota` | The bucket of a shard with its consumers. |
| `MCTaskQueue`, `MCFleet`, `MCPackageCache`, `MCPackageStore`, `MCMapReduce`, `MCPipeline` | Constants of the TLC runs. |
| `MCParts` | Eight modules without common state in one run, one per behaviour. |
| `TaskQueueProofs` | Types and the inductive invariant of `TaskQueue`; that it implements `TaskLifecycle`; action properties. Then that `Fleet` implements `TaskQueue`, and its own invariants. |
| `PackageCacheProofs`, `MapReduceProofs`, `PipelineProofs`, `ShuffleProofs` | The inductive invariants of `PackageCache`, `MapReduce`, `Pipeline` and `Shuffle`. |
| `StorageProofs` | Those of `PackageStore` and `RecordFiles`. |
| `PartsProofs` | Those of `Results`, `AndroidRunner`, `TaskTimeout`, `Quota`, `BlobReaders` and `InputReaders`. |
| `SetFacts` | Lemmas about sums over finite sets, the order of their elements, cuts and joins of sequences, quotients, and induction over subsets and over numbers. |

Operators marked "Mutant" in comments are used by no specification. Each is what
the definition after it would be with a plausible mistake in the code, and shows
that a property notices that mistake.

### TaskQueue

All `Task` entities have one parent (`MakeParentKey`), so a transaction, or an
ancestor query, is atomic and one action. What the code does outside of
transactions is an action of its own:

* `BeginAssign`, `CheckPause`, `AssignTask` or `AssignNothing` or `AssignFails`,
  `EndAssign` are one `/tasks/assign` request: the loop over the worker's
  capabilities, the look at memcache, the transaction (query, assignment, timeout
  entry), the answer. `told` in `AssignTask` says whether the answer reached the
  worker. `AssignFails` is the transaction that raises: contention, or a timeout
  that `ScheduleTaskTimeout` cannot schedule.
* `DeleteAllQuery`, `DeleteAllDelete`, `DeleteAllFails` are
  `DeleteAllByExecutorHandler`; `doomed` holds the queried keys in between.
* `TaskTimeout`, and `GetWebhook` with `InvokeWebhook`, are the callbacks. The second
  reads the task and then posts to the receiver (`invoking` in between), outside
  of any transaction: the task may be deleted meanwhile, and the receiver is told of it
  all the same. The parameter `again` says that the task queue will deliver the
  callback once more.
* `UploadTaskResult` may be taken for any attempt that was ever told to a worker
  (`handed`), at any later time, any number of times.

`held` and `handed`, `notified` are history variables: executors paused ever
since a request began, attempts told to workers, receivers told of results.
Entity ids are never reused. The read-only handlers, counters and log lines are
left out. `attempts`, `state`, `outcome`, `assigned_worker`, `completed_time` (as
set or not) and `result` of the entity are kept; its times, names and texts are not.

### Fleet

`Fleet` extends `TaskQueue`; every action of a worker that reaches the server is
the conjunction of a local step and a `TaskQueue` action, so
`FleetImplementsQueue == Spec` holds with no refinement mapping, and the
invariants proved of `TaskQueue` hold of it. `PollBreaks` and `LoseTask` are lost
answers; the server goes on with a request its worker has given up on.
`PostLost`, and `Post` with `answered = FALSE`, are lost uploads and lost
answers. `drained` records that the output files have been read to their end.
`Die` and `Restart` happen at any time. The command is its exit code; package
download is `AbandonTask` when it fails and part of `ExecuteTask` otherwise.

### PackageCache

A locked section is one action, except for the last one of a download:
`MakeRoom` removes directories, `_AddToIndex` writes `.index`,
`_RemoveFromDownloading` writes `.downloading`, all under the lock, and `Die` may
come in between. `Hit`, `Wait`, `Miss` are the three outcomes of the first
section; `_CopyDirectory`, `EndDownload`, `DownloadFails` run without the lock.
Times are ages in ticks. `torn` is a history variable: directories removed by an
eviction that died before it wrote `.index`. The records of dead processes in
`.copying`, which nobody reads, are left out; those in `.downloading` stay, with
an owner that no live process is. `begun` numbers the directories and bounds the
downloads by `MaxDirs`.

### PackageStore

A package and its `PackageFile` entities are one entity group. `StoreBlobs` to
`DeleteAllBlobs` are a `/packages/create` request and its outcomes. `CreationInDoubt`
is a commit that goes through and is reported as a conflict: `run_in_transaction` runs
the function again, which finds the package of its own request, raises
`DuplicatePackageError`, and has the handler delete the blobs that the package
refers to; or the package was deleted meanwhile, and is created again. `unsure`
remembers the blobs. A deletion is
`ReadPackageFiles`, `DeleteAsync`, `CommitDelete`: its transaction is not one step,
since it issues `blobstore.delete_async` on the way, and what was issued is not
undone when the commit meets a conflict (`stale`) or the transaction raises
(`DeleteFails`). `BlobDeleted` and `DeleteAsyncFails` are what becomes of that call.
`GetPackage`, `GetPackageFiles`, `DownloadAndInstallFile`, `EndInstall` are the
installer with the two reads of `PackagesHandler.get`. `created`, `orphaned`,
`leaked` and `unsure` are history variables. `BulkDeleteHandler` only calls the same deletion for
each package of a query. An empty directory that an installation leaves is what
`PackageCache` takes for the package: `EndDownload` there is `EndInstall` here.

### Results

`StoreFiles` is the blobstore that stores the files of a request before
`TasksHandler.post` runs, `BadRequest`, `PostRaises`, `RecordResult`,
`RejectResult` are the ways post ends; `Escape` says which of them leave the files
stored. A commit that is reported as a conflict though it went through (`unsure`)
makes the retry reject the stored result. The export is a client with
`FirstPage`, `NextPage`, `EndExport`, and a query that sees the commits up to
`applied`. A page is the set `PageAfter` of the first tasks
behind the cursor, written in the order `ByTime`. Completion times come from the clocks of
several servers: `skewed` says that a task was completed at a time before that of an earlier one.
`NextPageBreaks` is a page that fails after some of it was written: its rows stay in the
output (`torn` has their places) and the page is fetched and written again. A result without one of its two files makes every page
with it fail, and the client asks for it without end (`CanFormat`). `DeleteById` leaves the `TaskResult` and its files behind.

### AndroidRunner and TaskTimeout

A run of `launch` or `monkey` is `StartProgram`, `InstallApk`, `RunCommand`, `Poll`,
`CheckExitCode`, `CleanUp`; of `install`, `RunInstall`, `VerifyInstall`,
`RemoveInstalled`. `TerminateProgram` is the worker that times out: whether the
program survives its shell is left open. `CommandEnds` is the device. `ret` and
`installed` outlive the runs. `timedOut` and `mixed` are history variables: the exit
code of a run that timed out, or met the command of an earlier one, may be another's,
and the properties say that these are the only cases. `install` judges `adb install`
by a file that `adb install` never writes; the model has it read whatever is there.

In `TaskTimeout` a text is a sequence of numbers with units. `ParseTimeDelta` takes
hours, minutes and seconds in this order and ignores the rest, so that "1h" (the
docstring's example) is 0, see `TimeoutHours` below; an empty text gives the worker no time and the
server 15 minutes. Numbers too large for a `timedelta` are not modelled.

### MapReduce

A step is one call to the datastore or the task queue. `Serve` gives a queued task to
an instance; `run` is what each instance does: which task, which step, the entity it
read, the shards still to do. A task stays queued until `Acknowledge`; `Crash` ends
a handler anywhere; a task may be served to two instances (`MaxFaults`). Names of
tasks are remembered (`names`), so that a chain is not forked by a second delivery:
`AddNamed`. Items are numbers, `flushed` are those whose effect is stored, `calls` is
the counter that the job reports. A slice ends after any item (`Scan`), as it does when
time or quota is used up.

What the model shows that the code does, and no property forbids: a finalize task is
added outside of the transaction that ends the job, so that a job whose shards all
succeeded may be left without clean-up; a controller served again calls back
again and counts from nothing; a stale controller can put its copy of the state
over one that has ended (`late`), which is why `JobEnds` excepts it; a kickoff served
again after its slices have run leaves active shards that no task goes on with
(the comment at `handlers.py:706` says "it's safe to re-attempt this handler"); an input
without shards ends without a result status.

### Pipeline

One workflow of a root and `NumChildren` children. `Deliver` and `Finish` take and
acknowledge tasks; `NotifyQuery`, `NotifySlots`, `NotifyFire`, `NotifyAdd` are
`notify_barriers`; `ReadRecord`, `Choose` and the transitions are `evaluate`. Each
evaluation of the root allocates children anew: `<<g, c>>`, and `fanned` is the
generation that the root points to. `StartJob`, `JobEnds`, `JobCallback`,
`FillJobId` are `MapperPipeline`. `twice` counts tasks that two instances ran at a
time: then a root may be finalized while another generation runs, so that the
strong properties speak of `twice = 0`; `FinalizeWaitsForChildren` says what is left in all cases.

Left out: named outputs, `next_retry_time`, cleanup, `try_cancel`, the delay of the
datastore's queries, pages of more than ten barriers, exceptions of constructors.
A callback after two starts of an asynchronous pipeline may report the counters of a
job that still runs; `MapperPipeline.callback` completes whatever the job's result status.

### InputReaders and BlobReaders

`SplitByKeys` and `SplitByNamespaces` are the two ways `split_input` divides the
datastore, the second as a loop of queries (`KeepSingle`, `SplitSpan`, bounded by
`MaxQueries`) between which entities come and go (`Change`). `ReadEntity` to
`LeaveNamespace` are `_iter_ns_range` and `_iter_key_ranges`; `EndSlice` and
`RunAgain` go through `FromJson`, which turns the stack of key ranges over. A batch
is read at once and a query is consistent. `OrdToNamespaceOf` and `LexDistance` are
recursive functions; that they number all names in the order of the datastore is
proved (`OrdinalsAre`).

In `BlobReaders` a text is its length and the places of its line breaks; `Split`
deals one job's input out, `NextLine`, `NextZipFile`, `OpenZipFile`, `NextZipLine`,
`CloseZipFile` are `next()` of the three readers, `EndReaderSlice` makes the JSON.
The exceptions in `EachLineRead` are what the code does: a first line of one
byte leaves place 0 behind, from which the next slice reads it again; a blob
smaller than its number of shards has several chunks that begin at 0.

Termination of readers is not checked. `LogInputReader`, `ConsistentKeyReader`,
`NamespaceInputReader` and the raw entity reader are not modelled: the application
uses none of them.

### Shuffle

`stage` is the job that runs, `stored` the JSON of its shards, `reader` the reader of
the slice that runs. Slices of different shards share no reader, and their appends
are single calls, so one slice runs at a time. `HashRecord`, `SortBatch`,
`MergeTake` and `MergeYield`, `ReduceRecord` are the four map functions with their
readers; `EndShuffleSlice` is a checkpoint, `EndShard` the end of a shard,
`EndUnrecorded` one whose task fails between finalization and the state it stores,
`FailSlice` any other failure, with what was flushed before it in the files. An append
whose answer is lost is made again (`Repeated`).

`dropped` records that a reducer's slice began with values that the slice before had
collected: `from_json` restores them and `__iter__` sets them aside
(`mapreduce_pipeline.py:106`), so those values reach no reducer, although the
pipeline's documentation says that every value ends up there. `ValuesReachReducer` shows
that this is the only way to lose one. Two more effects are visible and no property
forbids them: after `EndUnrecorded` with output in the pools the slice meets a
finalized file each time it is run again; and a merge slice that failed after a partial
record may leave it in front of another key, at which the assertion of the reducer's
reader (`KeyExpected`) fails each time.

### RecordFiles

A byte is what the reader can tell apart: data of a record at a place, the first
or a further byte of a header, zero, or a damaged byte. `Record`, `Following`,
`Trailer`, `PadLastBlock` are `RecordsWriter`; `AppendRecord` and `FlushPool` are
`RecordsPool`; `FlushBatches` is the append with its retry. `TryRead` and
`ReadFragment` are the reader, `Fetch` its buffer, `Resume` a later task that
seeks to `tell()`. `content` is the list of records that the file should have.
`Damage` changes a byte. A type that becomes zero is taken for padding before its
checksum is compared, and fragments on both sides of it are joined to a record that
nobody wrote; `ReadIsWritten` excepts that (`blanked`). A record between what fits
into one request and what the pool accepts is refused by `flush()` ("Shouldn't really
happen because of flush size"): `refused` ends the writing.

### Quota

`Check`, `TakeHeld`, `TakeBatch` or `TakeFails`, `PutBack`, `NextEntity`, `Dispose` are
a slice of `MapperWorkerCallbackHandler.handle` as far as quota goes; each call of
memcache is one step. `Die` is an instance that stops without its `finally`, `Evict`
memcache that drops the bucket. A failed `decr` returns None, and the batch is put back
though it was not taken: the properties hold until then (`unreliable`).

## Runs

Every run takes its constants from an MC module and its cfg; the bounds are named
`Max...` or are the sizes of the sets of actors and requests.

| Run | Instance | Shows |
|---|---|---|
| `QueueRequests` | 1 task for either of 2 executors, 2 workers, 2 concurrent requests, 2 attempts, 2 exit codes | Attempts are handed out once, pauses bind, a task has one result; the inductive invariant of the proofs, with no task stuck in ASSIGNED, tried too often, or exported without a result, and no webhook lost. |
| `QueueLiveness` | 1 task, 3 attempts | A task goes through `TaskLifecycle`; it is completed or deleted unless executors keep being paused; results are announced. |
| `FleetSafety` | 2 workers with different executors, 1 request slot, 1 task of two kinds, 2 attempts | One runner per attempt, `assigned_worker` is right, outputs are never replaced, `Fleet` implements `TaskQueue`. |
| `FleetEmptyOutput` | 1 worker, 1 task | Violated, see below. |
| `TimeoutHours` | texts of up to 2 numbers and 4 units | Violated, see below. |
| `CacheSafety` | 2 processes, 2 packages, room for 1, 3 downloads | What `.index` names is complete, what is copied is whole, `total_size` is never too small, waiters do not wait forever. |
| `StoreSafety` | 2 packages, 2 blobs, 2 uploads, 2 deletions, 1 installation | Files of a package have their blobs and no blob is lost, but on known paths; installations are whole or empty. |
| `MapReduceSafety` | 2 shards of 2 items, 2 instances, 2 slices, 2 polls, 1 fault | Success of a shard and of a job means that all is flushed; an active shard has a slice, an active job a controller. |
| `MapReduceLiveness` | 1 shard of 2 items, 2 instances, 1 fault | The job ends. |
| `PipelineSafety` | an asynchronous and a synchronous child, 2 instances, 1 raise, 1 fault, 1 of them twice at a time | The root ends after its children, nothing that ended changes, only children of the current generation run. |
| `PipelineLiveness` | an asynchronous child and one after it, 2 instances, 1 raise, 1 fault | The workflow ends, an abort reaches every pipeline. |
| `Parts` | eight modules, one per behaviour | see below. |

`Parts` instantiates eight small modules that share nothing, so that one run holds
them; what it checks of each, besides the types (`PartsTypeOK`), is listed below. `Results`
is in it twice: in the part "uploads" the export does not begin, and any post is for
any task, with one file or both; in the part "export" each task gets its result by a
post of its own, whatever the clock, the index and the deletions do
(`TakenAtOnce`). The uploads look at nothing that the export does, and the export looks
at nothing of a post but the files of a result, so that each part has what matters to its property.

| Module | Bounds | Shows |
|---|---|---|
| `Results` | 3 tasks, 1 of them for the executor the export leaves out, 3 uploads, pages of 2, 1 deletion, 2 rows of failed writes | A result keeps its files, other files are deleted, the export is in order, complete, and misses nothing but what is behind a clock. |
| `AndroidRunner` | 2 runs on a device | A success or failure is a run's own. |
| `TaskTimeout` | 3 tokens of 3 numbers and 5 units | The server waits 3 minutes more than the worker; a text without "h" is worth the sum of what it begins with. |
| `InputReaders` | 2 characters, names of 2, 3 keys, 3 shards, 2 queries, 1 event | Everything that stays is read, once. |
| `BlobReaders` | texts of up to 5 bytes with any line breaks, 2 blobs, archives of 3 files, 1 to 3 shards, 1 failure | Everything is read, nothing but a first line twice. |
| `Shuffle` | 5 values of 3 keys in 2 files, 2 shards, 1 reducer, batches and records of 2 values, 1 failure | Values reach the reducer, once without failures. |
| `RecordFiles` | blocks of 4, headers of 2, buffers of 3, pools of 3, records of 0, 1, 2, 5, 2 pools, 3 records, 1 mishap | Records are read in order, each once; damage stays in its block and invents nothing. |
| `Quota` | 2 consumers, batches of 3, refills of 2, 2 of them, 3 slices of 2 entities, 1 loss | Quota is conserved. |

Why the bounds are enough: a conflict over a task needs two attempts (an old
worker against a new one), two requests or two tasks, not more; the capabilities
are tried one by one, and two workers with `<<e1, e2>>` and `<<e2>>` make one of
them fall through to its second capability. `max_attempts` is 3 in the code; the
runs with 2 reach both branches of the timeout callback and its first-to-last
transition, the theorems hold for any value. In the cache two packages and
room for one make every second download evict, the third download is what a
timed-out one repeats, and ages up to 2 tell an entry just used, an entry that may
be evicted and an expired download apart. In the store two blobs are two
uploads that compete for one package or make one each, an upload with a file
its manifest may leave out, or a package created again after its deletion; two deletions
conflict with each other and with that creation. In the export three tasks with one that is
left out make a page with a row and without, two pages that have rows, and one
of two rows that fails when the clocks have turned the order around. Two shards make one end before the other; two slices and two
polls make each chain go on once; one fault anywhere in a chain is what the handlers
are written to survive, and with two instances it is also the delivery of one task to
both. A workflow with two children has one that waits and one that does not, and one
that inherits the output of the root. In the record files a block of 4 with a header of
2 makes a record of 5 span three blocks, one of 2 fill a block, and leaves a trailer
that is too short for a header; a buffer of 3 ends inside of both. In the shuffle three
values of one key over two chunks, with records of two, make one record partial and
the next one not; a third key shares its shard. A bucket of 2 with batches of 3 is
overdrawn at once, by both consumers. Names of two characters over two letters have
every order of lengths.

Deadlock is not checked where a bounded instance may have nothing left to do: in
the runs of the queue and the fleet, when all tasks are deleted and no executor is paused or being purged; in
those of the job and the workflow, which end; in `Parts`. It is checked in the cache,
where time always passes, and in the store, where a deletion can always begin.

Symmetry is used in safety runs only (request slots in `QueueRequests`, everything
in `StoreSafety`, instances in `MapReduceSafety` and `PipelineSafety`), over sets whose
elements the configs and capabilities do not name. In `PipelineSafety` the action property
`EndIsFinal` is one of single steps, in which instances can be exchanged as well.

### Fairness

* `TaskQueue`: workers poll forever (`PollAndExecute` is an endless loop); requests are
  served to the end; App Engine's task queue retries a callback until it succeeds, so each
  pending callback is eventually delivered. Strong fairness is asked of the
  assigning transaction, of polling, and of the deletion of queried keys, which
  others may disable and which are tried again forever; and of a webhook's post that
  is accepted and is the last: each delivery reads the task again before it posts, and a
  receiver that is up takes one of them in the end. Nothing
  forces anyone to schedule, delete, pause, resume, or upload. A worker's answer
  may always be lost except that `AssignTask` with `told = TRUE` is not lost forever.
* `PackageCache`: time passes, the holder of the lock goes on, a waiter that looks
  every 10 seconds gets the lock now and then. Downloads need not end. `WaitEnds`
  says that a process waits forever only if downloads are begun again and again:
  the code has no bound on that, each new record is young again.
* `MapReduce`: the task queue delivers until a task is acknowledged and an instance
  goes on with what it was given, `WF` of `Progress`; crashes are bounded by `MaxFaults`,
  since a task that fails each time is never done. `Pipeline`: the same for `Receive`,
  `Continue`, fan-out tasks and the jobs that asynchronous children wait for.

### Disagreements between code and documentation

Two have runs of their own. `FleetEmptyOutput`: `SendResponse` retries an upload with
files it has read to their end, and the server records an empty output for the task.
`TimeoutHours`: the docstring of `ParseTimeDelta` asserts that "1h" is 3600 seconds
(`src/common/parsetime.py:33`), and the expression below it takes "hr" only, so that a command with
this timeout is terminated at once, in each of its attempts. `AttemptHasItsTime` says
nothing of the worth of such a text.

The others were met on the way:

* A task whose timeout cannot be scheduled makes `Assign` raise inside its
  transaction; the task stays first in the queue, and tasks behind it are never
  assigned, although `Assign` "looks for Tasks worker can execute, assigning one if
  possible".
* A worker is to "run forever, executing tasks", but `SendResponse` retries a 404
  without end, and a deleted task is answered by 404 (`AfterPost`).
* An upload of a package whose commit is reported as a conflict deletes the blobs of the
  package it has created, and answers that the package "already exists".
* `_GetDeleteList` does not read `.copying`: a copy that takes longer than
  `min_duration_seconds` can lose its source; `CopiedIsWhole` speaks of shorter ones.
* A package deleted between the two reads of `PackagesHandler.get` is installed as an
  empty one and stays in the worker's cache, though the installer is documented to
  raise for packages that are not available; `InstallIsWholeOrEmpty` allows it.
* Values that a reducer has collected when its slice ends are lost (`Shuffle`); a kickoff
  is not safe to re-attempt (`MapReduce`); the default timeout of a worker (12 minutes)
  is shorter than the 900 s that `android_monkey` waits for its command.

Three more are visible in the models and have no run. A pause "effectively prevents
assignment" (`src/client/mrtaskman_api.py:174`), but not by a request that has looked
at the flag before; `PauseBindsLaterRequests` says what does hold. `completed_time` is declared
without a word on timeouts (`src/server/models/tasks.py:99`) and
`TaskTimeoutHandler` completes a task without setting it (lines 451-454), so the
export leaves timed-out tasks out; `ExportedHasResult` shows the converse, on which the
export relies. And `low_watermark_percentage` is documented as "percentage not to
delete below" while `_GetDeleteList` deletes the first candidate whatever is left;
`high_watermark_percentage` is stored and never used.

## Proofs

`TaskQueueProofs` proves `Spec => []IndInv`, for any sets of tasks, executors,
workers, requests and configs, any capabilities and any `MaxAttempts > 0`, from the
assumptions stated in `TaskQueue`. It goes in three layers:

1. `TypeInv` (`TypeOK`, `RequestOK`, `AttemptsBounded`). `attempts` stays in
   its type only because a task in the queue has attempts left: assignment does not
   look at `max_attempts`, the timeout callback does.
2. Facts about entities and callbacks: `NoResultYet`, `OneResultOfLastAttempt`,
   `ExportedHasResult`, `AssignedHasTimer`, `HooksHaveResults`, `WebhookNotLost`,
   `DoomedScheduled`. `AssignedHasTimer` is inductive because a callback that
   meets its own attempt ends it; `OneResultOfLastAttempt` needs
   `NoResultYet`, that a task not ended has no result. What is said of results
   is said task by task (`ResultOK`), so a step is checked on the task it changes.
3. Facts about requests: `HandedBehind`, that nobody was told of an attempt still
   to come, makes `AttemptHandedOnce` inductive; `HeldPaused` makes
   `PauseBindsLaterRequests` inductive.

The invariants that the runs check, and those that are parts of `IndInv`, follow by `PTL`. The module also proves
that every step maps, entity by entity, to a step of `TaskLifecycle` or a
stutter (`EntityStep`, then `Refinement`), and the action properties
`CompleteIsFinal`, `AssignedIsNotStolen`, and `WebhookSeesResult`: a receiver is told of a
task with a result, or of one that was deleted after the handler had read it.

Its second part carries the theorems of the queue over to the fleet: `FleetRefinesQueue`,
since each action of a worker is a `TaskQueue` action and a local step. Its own
invariant, `FleetInv`, is inductive together with `IndInv`. `HeldIsHanded` (what a worker
holds, it was told) makes `OneRunnerPerAttempt` follow from `AttemptHandedOnce`;
`AwaitedIsServed` and `TriesOffered` (the request a worker awaits tries what that worker
offered) give `AssignedWorkerIsRunner` and `ExecutorMatches`; `OutputHasEnded` (who
has an output, has ended that attempt) gives `OutputIsFinal`.

`StorageProofs` proves `StoreInv`, of `PackageStore`: the blobs of a request are in nobody else's
hands (`UploadedAlone`), but for those that a commit in doubt has given to its package, which are `unsure` from
then on (`NamedByUpload`), a deletion that may still commit has read the files that its
package has (`ReadIsPresent`), it holds what it is about to delete (`CommitSeesToBlobs`),
and an installation asks for files of one creation (`InstallsOneCreation`). That a package has the files of one creation
(`FilesOfOneUpload`) is a part of it.

`PackageCacheProofs` proves `CacheInv`, for any processes, packages, sizes and durations.
`IndexedIsComplete` alone is not inductive: an eviction could take the directory of
another package, or one that is being filled, unless directories are apart
(`DirsApart`), and between the two halves of `_AddToIndex` only the lock hides what is
missing (`HolderIsInLock`, `EntryIsFull`). `CopiedIsWhole` rests on `CopyProtected`: the
record of what is copied is no older than the copy, since `Hit` renews it and both age
alike; an eviction takes no record younger than `MinDuration` (`DeletesOldOnly`).
`TotalInv` adds that what was removed for a new package is in `.index` until the new one
is written (`EvictedIsIndexed`), so that what is subtracted was counted before. Hence `TotalCoversIndex` and, as no sum becomes negative, `CacheTypeOK`.

`MapReduceProofs` proves `MRInv`, for any number of shards, items, instances and
faults: the position in a queued slice, in a slice that runs, and in the copy of a
shard's state that a handler holds is never ahead of what is flushed. Hence
`ShardSuccessIsFlushed` and, as the controller only counts shards it found ended,
`JobSuccessIsFlushed`. `TasksInv` is about the two chains of tasks. A name is used once and
names are used in order (`NamesInOrder`), so the last name of a chain is either that of a task
that is queued or one whose successor is still to be added: by the handler of a task that
stays queued until it is acknowledged (`HandlerChains`). A kickoff that is served again
starts from the beginning, so everything is said up to that (`KickoffInv`) and to a handler
that wrote over newer state (`late`). Hence `ActiveHasTask`.

`PipelineProofs` proves `PipelineInv`, for any children, dependencies, attempts, faults
and any finite set of instances (`NewNotify` needs a free number). Each task that waits
or runs has a justification (`JustifiedTasks`, `SoundHandlers`), and what one rests on
only grows: slots that are filled stay so, the attempt of the root never falls. The root
points to one evaluation for good only because one handler at a time can evaluate it,
which is where `twice = 0` comes in: `AttemptsApart` keeps an attempt from being queued
while it runs, so that two handlers of the recorded attempt would be the same
(`EvaluatesAlone`). A barrier written back from an old copy still covers an evaluation
(`Covering`), hence `FinalizeWaitsForChildren`; `EndIsFinal` follows step by step.

`ShuffleProofs` proves `ShuffleInv`, for any files of the mappers and any numbers of
shards, batches, values and failures. A stage reads files of items, each item with some
pairs, and writes others: the hash and the sort have one pair in an item, the merge
and the reduce several. The proof speaks of a pair and of its place in the input
(`Item`, `PairAt`), and of whether it is in the output, so that most of it is the same for
all stages.

* `NothingLost`: a pair that is not in the output is still to be read by the reader of
  some active shard as it is stored, which is what a slice that fails goes back to; and what the slice
  that runs has read beyond that is in its pool or in its hand. A slice may end only with empty
  hands in the merge (`CheckpointAllowed`); in the reduce it may not, which is what `dropped` excuses.
* `PartialsInv`: a partial record is not the last of its file once the merge has ended, so
  that the reducer comes to the end of a file with no values in hand.
* Without failures, `NothingDoubled`: what is to be read is not in the output, and no two readers
  read the same file (`FilesApart`). `MergeInOrder` and `ReduceInOrder`: the keys of a merged file
  go up, all records of a key but the last are partial, and what is to be read is not called
  yet. These hold as long as `failures = 0`, and no step takes that back (`FailuresGrow`).

At the end every pair is in a call (`NothingLost`), calls have different keys, and the
values of a call are in bijection with the pairs of its key; hence `ValuesReachReducer`.

`StorageProofs` also proves `FileInv`, of `RecordFiles`, for any sizes of blocks, headers and
buffers, any lengths of records, any pools, repeated appends and damaged bytes. What is written
and what is read are both compared with a set of pieces, of which the model has no variable: a piece is one
fragment, with its place in the file, the record it is of, and which bytes of it it has.

* `Layout`: pieces do not overlap and come in the order of their records; one that does not
  end its record is followed at once by one that goes on where it stopped (`Follows`); every
  record has a piece that ends it; none crosses a block. `Laid` says this of a file whose last
  record is not yet written whole, too, so that it is kept by one fragment (`PieceAdded`), by the
  zeros of a trailer (`ZerosAdded`), by a record cut into blocks (`RecordWritten`) and by a batch
  (`BatchWritten`), each by counting, since `Following`, `Encoded` and `Flushed` are folds. A batch is
  encoded on its own and appended to a file of whole blocks, which is the same as encoding its records there
  (`Shifted`); this is where the padding of the last block is needed.
* `Stored` and `Gaps`: in a block without damage the bytes of a piece are those of its record,
  elsewhere its header is kept, bad, or has a type of zero; and where a reader may
  stop but no piece begins, there is a zero or a bad byte, and no piece in the rest of the block.
* `Seen`: the reader stands at the end of a piece or a block (`Stop`), so never inside a
  piece (`NotInside`), which is why no data can be taken for a header. What it keeps is the part of
  a record before that place (`Kept`, `Started`), what it returned are the records that ended before it,
  in their order (`Ordered`), all of them that are undamaged (`Returned`). `TryReadIs`
  lists what one `__try_read_record` can meet: the end of the file, a gap or a
  damaged piece, with the next block to go to, or a piece. Reading a piece keeps `Seen`
  (`FragmentRead`), skipping the rest of a block does (`RestSkipped`), and so
  does stopping at `tell()`, since `position` is the same and only what was read ahead is lost.

Hence `ReadIsWritten`, once more with a type that became zero as its exception: what is kept
may then be of another record.

`PartsProofs` holds the proofs of six smaller modules.

* `AndroidRunner`: `OwnRun` says of each undisturbed run what its step knows: while it
  polls, the device executes no command but its own, and once that has ended `ret` is its code. A
  run that times out, or meets a command left on the device, leaves `Undisturbed` for good.
  Hence `VerdictIsOwn`.
* `Results`: `FilesInv` says at which step of a request its files are stored and may still be
  deleted, and that a task takes one result. `ExportInv` says that whatever
  the query saw lies behind the cursor or was written (`WrittenSoFar`), that the cursor is the
  time of a task that it saw (`CursorIsSeen`), so that nothing joins it from behind unless
  `skewed`, and that pages begin where the last one ended (`PagesInOrder`). The rows of failed
pages (`torn`) are passed over: such a step changes neither the cursor nor what counts as written. The lemmas on `ByTime` (`InPlaceInOrder`) make a set with distinct times a sequence.
* `Quota`: `QuotaInv` adds `PutsBackFirst` to `QuotaConserved`: a consumer puts back what it
  was refused before it takes anything else, so that `owed` and `got` are of one answer. The sum over
  consumers changes by the one that moves (`SumChange`), for any finite set of them.
* `TaskTimeout`: both times are computed of the same text (`TimeoutInv`), for texts of any
  length. The expression is greedy: a number with a unit is matched in the first place
  of hours, minutes, seconds that is still open, so what is matched of a well-formed prefix is
  all of it, and its worth is the sum (`AttemptHasItsTime`, which leaves out texts with "h").
* `BlobReaders`: for blobs and archives of any size, with any line breaks, and any number
  of shards. `Waits` says of a reader which items it still has before it, from its fields
  alone. `Ledger` compares the readers that wait with what was taken: every item is one or the other,
  and in two places only if it is a first line that `Excused` names. `Slice` says that what a reader
  had before it as JSON is what its slice has read and what it still has, none twice; so a slice
  that fails goes back to the same, and one that ends leaves a JSON that has the rest
  (`GoesOn`, with the line of one byte as its exception). That `Split` begins with such a ledger is
  shown for each of its folds by counting (`ChunksDealt`, `GroupsDealt`, `FlatDealt`). The theorem
  rests on the assumption that a job names at least one blob, which `split_input` gets
  from `validate`, and one archive for the reader of its files. Hence `EachLineRead`.
* `InputReaders`: for any alphabet and longest name of a namespace, any numbers of shards and keys,
  any sample and any order of slices. First the ordinals (`OrdinalsAre`): a name of
  at most `m + 1` characters has the number of its first character's subtree, plus one, plus that of
  its tail (`NumberCons`), the order of the datastore decides the same way (`PrecedesIs`), and
  `_ord_to_namespace` takes apart what this puts together (`NumberInverse`), all by induction
  over `m`. Hence "the namespace before this one", with which ranges are cut, leaves none out.
  `ToRead` says of a reader which entities it has before it, from its JSON fields alone.
  `NoneMissed`, `SlicesAdvance`, `ShardsApart` and `NoneTwice` compare that with what was read; a
  slice that fails goes back to its JSON, and `FromJson` turns the stack of key ranges over without
  changing what is in it. That each split begins with such a ledger is `Divides`:
  for namespaces because the ranges of the loop are apart and no more than the shards
  (`SpansState`), and `Contiguous` makes each reach to the next, whatever was left out between
  them (`ContiguousIs`); for keys because the points drawn from a sorted sample ascend
  (`SplitPlaces`), and so cut the keys once (`KeyRangesAre`). The theorems assume an alphabet, names that may have a
  character, and at least one shard (`ReadersNumbers`). Hence `EachReadOnce`.

`SetFacts` has the sums (`MapThenSumSet`, defined by recursion over sets) that the cache and
the quotas need. The library's induction rules cannot be instantiated here; the
induction used instead is over the subsets of one finite set, from the theorem
that their strict inclusion is well-founded (`SubsetInduction`), or over numbers, from the
least element that a nonempty set of them has (`LeastOf`, `CountUp`).

Every invariant and every action property of the passing runs is proved, with one
exception in form: `PartsTypeOK` joins the type invariants of the eight modules of one
run. Each of the eight is a theorem of its own module's specification (`ResultsTypeCorrect`,
`RunnerTypeCorrect`, `TimeoutTypeCorrect`, `ReadersTypeCorrect`, `BlobReadersTypeCorrect`,
`ShuffleTypeCorrect`, `FilesTypeCorrect`, `QuotaTypeCorrect`); the conjunction is a theorem of none.

Only model-checked: liveness, since the prover has no rules for fairness and `ENABLED`
(`TasksSettle`, `WebhookDelivered`, `WaitEnds`, `JobEnds`,
`WorkflowEnds`, `AbortReachesAll`). No `RECURSIVE` operator is used.

## Not modelled

* Events: create and list independent records; no step depends on another. (A value
  that is no integer raises in the handler and is answered by 500.)
* Dashboard, JSON conversion, device check, log splitting, the command line client: they
  read, format, or issue one call. (`mrt.py` ignores what its commands return.)
* Index and migration jobs: their map functions put one entity. (That of
  `migrate_tasks_pipeline.py` uses `db` without importing it and does not yield what it puts.)
* Of the MapReduce library: `MutationPool` beyond the flush of a slice, payloads of
  large tasks, the utility pipelines of `common.py`, text writers, the readers named
  above, status pages, and the shuffle service, which is never available here.
* Generated and third-party code: `file_service_pb.py`, simplejson (twice), graphy,
  gflags, portalocker, prodeagle. These are half of the lines under `src`; the map
  of this project covers the code that keeps state or decides what happens next.

## Plan

Done: the queue with its lifecycle, the fleet, the cache, the store, results and
export, the runners, timeouts, jobs, workflows, readers, shuffle, record files, quotas;
proofs of the queue, the fleet, the cache, the store, the job, the workflow, the shuffle, record files,
results and export, the runners, timeouts, quotas and the readers of blobs and of the datastore.

1. *Composition*: `Shuffle` with the tasks of `MapReduce`, so that two slices of one
   shard may run at a time; `Shuffle` takes them one after the other.
2. *More readers*: `ConsistentKeyReader` and `NamespaceInputReader`, if a job comes to use them.
