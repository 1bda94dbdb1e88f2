------------------------------ MODULE MCParts -------------------------------
(***************************************************************************)
(* Eight modules in one run of TLC.  Each behaviour exercises one of them, *)
(* "part", while the variables of the others keep one idle value: the      *)
(* parts share no state and are not composed.  Results has two parts, for  *)
(* the uploads and for the export that reads what they left.               *)
(***************************************************************************)
EXTENDS Results, AndroidRunner, TaskTimeout, InputReaders, BlobReaders, Shuffle,
        RecordFiles, Quota

VARIABLE part

taskVars == <<resultVars, runnerVars, timeoutVars>>
libraryVars == <<readerVars, blobVars, shuffleVars, fileVars, quotaVars>>
allVars == <<part, taskVars, libraryVars>>

MCUploads == {Fields, {"STDOUT"}}

(* Three namespaces are many; one or two have key ranges.                  *)
MCInputs ==
  {{<<>>, <<1>>, <<2, 2>>} \X {1}, {<<1, 1>>, <<1, 2>>, <<2>>} \X {1},
   {<<>>} \X Keys, {<<>>, <<1>>} \X {2}, {}}
MCVolatile == {<<<<1>>, 1>>, <<<<2>>, 1>>, <<<<>>, 2>>}

(* Blobs of lines, and archives, of texts with any line breaks.            *)
TextsOf(most) ==
  UNION {{[size |-> n, breaks |-> b] : b \in SUBSET (0..n - 1)} : n \in 0..most}
MCJobs ==
  {<<"lines", <<<<t>>>>>> : t \in TextsOf(5)}
    \union {<<"lines", <<<<t>>, <<u>>>>>> : t, u \in TextsOf(2)}
    \union {<<"files", <<<<t, u, v>>>>>> : t \in TextsOf(2), u, v \in TextsOf(1)}
    \union {<<"files", <<<<>>>>>>}
    \union {<<"archived lines", <<<<t, u>>, <<v>>>>>> :
              t \in TextsOf(3), u \in TextsOf(2), v \in TextsOf(1)}

(* Two files, with three values of a key in both and further keys.         *)
MCMapOutputs == {<<<<<<1, 1>>, <<3, 2>>, <<2, 3>>>>, <<<<1, 4>>, <<1, 5>>>>, <<>>>>}

(* A part that is not exercised has one initial state and can do nothing.  *)
RunnerIdle ==
  /\ installs = {} /\ shell = {} /\ ret = "none" /\ installed = {}
  /\ run = [r \in Runs |-> Program("exited", "zero", "zero", FALSE)]
  /\ verdict = [r \in Runs |-> "killed"]
  /\ own = [r \in Runs |-> "none"]
  /\ phrase = {} /\ timedOut = {} /\ fault = {} /\ left = {} /\ mixed = {}
TimeoutIdle == text = NoText /\ deadline = -1 /\ allowed = -1
ReadersIdle == ReadersInit /\ entities = {} /\ queries = 0

PartNames == {"uploads", "export", "runner", "timeout", "datastore readers", "blob readers",
              "shuffle", "record files", "quota"}
PartsInit ==
  /\ part \in PartNames
  /\ ResultsInit /\ BlobInit /\ ShuffleInit /\ QuotaInit
  /\ IF part = "runner" THEN RunnerInit ELSE RunnerIdle
  /\ IF part = "timeout" THEN TimeoutInit ELSE TimeoutIdle
  /\ IF part = "datastore readers" THEN ReadersInit ELSE ReadersIdle
  /\ FileInit /\ (part # "record files" => exclusive)

(* The bound of the export: each task gets its result by a post of its own,*)
(* and no other posts arrive.                                              *)
TakenAtOnce ==
  /\ leaked = {} /\ unsure = {}
  /\ \A p \in Posts : /\ post[p].pc # "unsent" => post[p].task = p
                      /\ post[p].pc = "answered" => result[p] = p

PartsNext ==
  /\ UNCHANGED part
  /\ \/ /\ part = "uploads" /\ ResultsNext
        /\ UNCHANGED <<applied, export, runnerVars, timeoutVars, libraryVars>>
     \/ /\ part = "export" /\ ResultsNext /\ TakenAtOnce'
        /\ UNCHANGED <<runnerVars, timeoutVars, libraryVars>>
     \/ /\ part = "runner" /\ RunnerNext
        /\ UNCHANGED <<resultVars, timeoutVars, libraryVars>>
     \/ /\ part = "timeout" /\ TimeoutNext
        /\ UNCHANGED <<resultVars, runnerVars, libraryVars>>
     \/ /\ part = "datastore readers" /\ ReadersNext
        /\ UNCHANGED <<taskVars, blobVars, shuffleVars, fileVars, quotaVars>>
     \/ /\ part = "blob readers" /\ BlobNext
        /\ UNCHANGED <<taskVars, readerVars, shuffleVars, fileVars, quotaVars>>
     \/ /\ part = "shuffle" /\ ShuffleNext
        /\ UNCHANGED <<taskVars, readerVars, blobVars, fileVars, quotaVars>>
     \/ /\ part = "record files" /\ FileNext
        /\ UNCHANGED <<taskVars, readerVars, blobVars, shuffleVars, quotaVars>>
     \/ /\ part = "quota" /\ QuotaNext
        /\ UNCHANGED <<taskVars, readerVars, blobVars, shuffleVars, fileVars>>

PartsSpec == PartsInit /\ [][PartsNext]_allVars

(* The type invariants of the eight modules.                               *)
PartsTypeOK ==
  /\ ResultsTypeOK /\ RunnerTypeOK /\ TimeoutTypeOK /\ ReadersTypeOK
  /\ BlobReadersTypeOK /\ ShuffleTypeOK /\ FilesTypeOK /\ QuotaTypeOK
=============================================================================
