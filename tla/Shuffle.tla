------------------------------- MODULE Shuffle --------------------------------
(***************************************************************************)
(* The shuffle and reduce of the MapReduce library (shuffler.py,           *)
(* mapreduce_pipeline.py, RecordsReader of input_readers.py): the output   *)
(* of the mappers is spread over files by the hash of its keys, each file  *)
(* is cut into sorted chunks, the chunks are merged into records of a key  *)
(* and some of its values, and a reducer is given each key with all its    *)
(* values.  Every stage is a job of the library whose slices end where the *)
(* handler lets them (handlers.py: time is up after an item), start again  *)
(* from the JSON of their reader, and are run again when they fail.        *)
(*                                                                         *)
(* The slices of different shards touch different readers, and their       *)
(* appends to one file are single calls, so that one slice runs at a time  *)
(* here.  A pair is <<key, id>>, its hash is that of the key; a record of  *)
(* the merge is [key, values, partial].  The limit on the size of the      *)
(* values of a record acts like the one on their number and is left out,   *)
(* a combiner keeps the values it is given.                                *)
(***************************************************************************)
EXTENDS Naturals, FiniteSets, Sequences

CONSTANTS
  MapOutputs,      \* what the mappers may have written: sequences of files
  NumShards,       \* files of the hash phase, shards of the merge
  ReduceShards,    \* shards of the reduce job
  BatchSize,       \* BATCH_SIZE of the sort, in records
  MaxValues,       \* _MAX_VALUES_COUNT of the merge
  MaxFailures      \* bound on failed or repeated calls

ShuffleShards == 1..NumShards
NoKey == 0

(* No key is None, and the ids tell pairs apart.                           *)
ASSUME ShuffleAssumption ==
  /\ NumShards \in Nat \ {0} /\ ReduceShards \in ShuffleShards
  /\ BatchSize \in Nat \ {0} /\ MaxValues \in Nat \ {0} /\ MaxFailures \in Nat
  /\ MapOutputs \subseteq Seq(Seq((Nat \ {NoKey}) \X Nat))
  /\ \A m \in MapOutputs : \A f, g \in DOMAIN m : \A i \in DOMAIN m[f], j \in DOMAIN m[g] :
       m[f][i] = m[g][j] => f = g /\ i = j

VARIABLES
  mapped,          \* the files of the map phase
  stage,           \* the job that runs: "hash", "sort", "merge", "reduce", "over"
  written,         \* the output files of three of the jobs, by stage and shard
  chunks,          \* the files recorded by _OutputFile entities, by hashed file
  final,           \* the files of the merge that are finalized
  active,          \* the shards of the job that have not ended
  stored,          \* the JSON of each shard's reader, in its next task
  serving,         \* the shard whose slice runs, 0 when there is none
  reader,          \* its input reader
  pool,            \* its output that is not flushed, by file
  failures,        \* failed slices and repeated appends
  dropped          \* values a reducer had collected were not read back

shuffleVars == <<mapped, stage, written, chunks, final, active, stored, serving,
                 reader, pool, failures, dropped>>

Hash(key) == (key % NumShards) + 1

Follows == [hash |-> "sort", sort |-> "merge", merge |-> "reduce", reduce |-> "over"]
WritingStages == {"hash", "merge", "reduce"}

(* Readers ---------------------------------------------------------------*)

NewReader(names, offsets) ==
  [files |-> names, position |-> 0, offsets |-> offsets,
   key |-> NoKey, values |-> <<>>, some |-> FALSE]
NoSlice == NewReader(<<>>, <<>>)

(* The files of one kind of input, dealt out to n shards in turn.          *)
Dealt(count, n, s) == [j \in 1..(count + n - s) \div n |-> s + (j - 1) * n]

(* split_input of the reader of each job.                                  *)
ReaderOf(st, s) ==
  CASE st = "hash"   -> NewReader(Dealt(Len(mapped), NumShards, s), <<>>)
    [] st = "sort"   -> NewReader(<<s>>, <<>>)
    [] st = "merge"  -> NewReader(<<>>, [i \in DOMAIN chunks'[s] |-> 0])
    [] st = "reduce" -> NewReader(Dealt(NumShards, ReduceShards, s), <<>>)
    [] OTHER         -> NoSlice
ShardsOf(st) ==
  CASE st = "reduce" -> 1..ReduceShards [] st = "over" -> {} [] OTHER -> ShuffleShards

Content(f) ==
  CASE stage = "hash" -> mapped[f]
    [] stage = "sort" -> written["hash"][f]
    [] OTHER          -> written["merge"][f]
Remaining ==
  IF reader.files = <<>> THEN <<>>
  ELSE SubSeq(Content(Head(reader.files)), reader.position + 1,
              Len(Content(Head(reader.files))))

(* The first pair of each sorted chunk that is not merged yet, and the     *)
(* least of them, by key, value and place.                                 *)
Heads == {i \in DOMAIN reader.offsets :
            reader.offsets[i] < Len(chunks[serving][i])}
HeadOf(i) == chunks[serving][i][reader.offsets[i] + 1]
Least ==
  CHOOSE i \in Heads : \A j \in Heads :
    LET p == HeadOf(i)
        q == HeadOf(j)
    IN  \/ p[1] < q[1]
        \/ p[1] = q[1] /\ p[2] < q[2]
        \/ p = q /\ i <= j

(* Output ----------------------------------------------------------------*)

NoOutput == [f \in ShuffleShards |-> <<>>]
Emit(f, item) == pool' = [pool EXCEPT ![f] = Append(@, item)]

(* Only the pools of the hash phase are open to other shards; without the  *)
(* lock an append whose answer was lost is made once more.                 *)
Repeated(failed) ==
  IF stage = "hash" /\ failures + failed < MaxFailures THEN SUBSET ShuffleShards ELSE {{}}

(* An append to a finalized file raises FinalizationError.                 *)
CanFlush == stage = "merge" /\ serving \in final => pool = NoOutput

(* Mutant: what is in the pools is not flushed.                            *)
FlushPoolsForgotten(failed) ==
  CanFlush /\ failures' = failures + failed /\ UNCHANGED <<written, pool>>

(* A flush, of a slice that fails after it if "failed" is 1.               *)
FlushPools(failed) ==
  /\ CanFlush
  /\ \E twice \in Repeated(failed) :
       /\ IF stage \in WritingStages
          THEN written' = [written EXCEPT ![stage] = [f \in ShuffleShards |->
                 @[f] \o pool[f] \o (IF f \in twice THEN pool[f] ELSE <<>>)]]
          ELSE UNCHANGED written
       /\ failures' = failures + failed + (IF twice = {} THEN 0 ELSE 1)
  /\ pool' = NoOutput

(* Slices ----------------------------------------------------------------*)

ShuffleInit ==
  /\ mapped \in MapOutputs
  /\ stage = "hash"
  /\ written = [st \in WritingStages |-> [f \in ShuffleShards |-> <<>>]]
  /\ chunks = [f \in ShuffleShards |-> <<>>]
  /\ final = {}
  /\ active = ShuffleShards
  /\ stored = [s \in ShuffleShards |-> NewReader(Dealt(Len(mapped), NumShards, s), <<>>)]
  /\ serving = 0 /\ reader = NoSlice /\ pool = NoOutput
  /\ failures = 0 /\ dropped = FALSE

(* The reader is made of its JSON and iterated: __iter__ of the reducer's  *)
(* reader sets aside the key and the values from_json() restored.          *)
BeginSlice(s) ==
  /\ serving = 0 /\ s \in active
  /\ serving' = s
  /\ reader' = [stored[s] EXCEPT !.key = NoKey, !.values = <<>>]
  /\ dropped' = (dropped \/ (stage = "reduce" /\ stored[s].key # NoKey))
  /\ UNCHANGED <<mapped, stage, written, chunks, final, active, stored, pool, failures>>

(* _hashing_map and _HashingBlobstoreOutputWriter.write of one record.     *)
HashRecord ==
  /\ serving # 0 /\ stage = "hash" /\ Remaining # <<>>
  /\ Emit(Hash(Head(Remaining)[1]), Head(Remaining))
  /\ reader' = [reader EXCEPT !.position = @ + 1, !.some = TRUE]
  /\ UNCHANGED <<mapped, stage, written, chunks, final, active, stored, serving,
                 failures, dropped>>

(* One batch is sorted into a file of its own, finalized and recorded      *)
(* before the next is read.  Its pool has no lock either.                  *)
SortedOrders(batch) ==
  {p \in [DOMAIN batch -> DOMAIN batch] : \A i, j \in DOMAIN batch : i < j =>
     \/ batch[p[i]][1] < batch[p[j]][1]
     \/ batch[p[i]][1] = batch[p[j]][1] /\ p[i] < p[j]}
SortBatch ==
  /\ serving # 0 /\ stage = "sort" /\ Remaining # <<>>
  /\ LET n == IF Len(Remaining) < BatchSize THEN Len(Remaining) ELSE BatchSize
         batch == SubSeq(Remaining, 1, n)
     IN  \E p \in SortedOrders(batch) : LET sorted == [i \in DOMAIN batch |-> batch[p[i]]] IN
         /\ \/ chunks' = [chunks EXCEPT ![serving] = Append(@, sorted)]
               /\ UNCHANGED failures
            \/ chunks' = [chunks EXCEPT ![serving] = Append(@, sorted \o sorted)]
               /\ failures < MaxFailures /\ failures' = failures + 1
         /\ reader' = IF n < BatchSize
                      THEN [reader EXCEPT !.files = Tail(@), !.position = 0, !.some = TRUE]
                      ELSE [reader EXCEPT !.position = @ + n, !.some = TRUE]
  /\ UNCHANGED <<mapped, stage, written, final, active, stored, serving, pool, dropped>>

(* A record the merge has completed is yielded when the next pair has      *)
(* another key, or is one too many, or when there is none.  The pair is    *)
(* not taken yet: the slice may end here.                                  *)
Full == Len(reader.values) >= MaxValues

MoreOfKey == Heads # {} /\ HeadOf(Least)[1] = reader.key
MergeYield ==
  /\ serving # 0 /\ stage = "merge" /\ reader.key # NoKey
  /\ MoreOfKey => Full
  /\ Emit(serving, [key |-> reader.key, values |-> reader.values, partial |-> MoreOfKey])
  /\ reader' = [reader EXCEPT !.key = NoKey, !.values = <<>>, !.some = TRUE]
  /\ UNCHANGED <<mapped, stage, written, chunks, final, active, stored, serving,
                 failures, dropped>>
MergeTake ==
  /\ serving # 0 /\ stage = "merge" /\ Heads # {}
  /\ LET p == HeadOf(Least)
     IN  /\ reader.key = NoKey \/ (reader.key = p[1] /\ ~Full)
         /\ reader' = [reader EXCEPT !.key = p[1], !.values = Append(@, p[2]),
                                     !.offsets[Least] = @ + 1]
  /\ UNCHANGED <<mapped, stage, written, chunks, final, active, stored, serving,
                 pool, failures, dropped>>

(* The reducer's reader collects the values of a key up to a record that   *)
(* is not partial, and lets the slice end after one that is.  Another key  *)
(* in between fails its assertion.                                         *)
KeyExpected == reader.key \in {NoKey, Head(Remaining).key}
ReduceRecord ==
  /\ serving # 0 /\ stage = "reduce" /\ Remaining # <<>> /\ KeyExpected
  /\ LET r == Head(Remaining)
         values == reader.values \o r.values
     IN  IF r.partial
         THEN /\ reader' = [reader EXCEPT !.position = @ + 1, !.some = TRUE,
                                          !.key = r.key, !.values = values]
              /\ UNCHANGED pool
         ELSE /\ Emit(serving, <<r.key, values>>)
              /\ reader' = [reader EXCEPT !.position = @ + 1, !.some = TRUE,
                                          !.key = NoKey, !.values = <<>>]
  /\ UNCHANGED <<mapped, stage, written, chunks, final, active, stored, serving,
                 failures, dropped>>

(* Mutant: the next file is read from where the last one ended.            *)
NextFileOn ==
  /\ serving # 0 /\ reader.files # <<>> /\ Remaining = <<>>
  /\ reader' = [reader EXCEPT !.files = Tail(@), !.some = FALSE]
  /\ UNCHANGED <<mapped, stage, written, chunks, final, active, stored, serving,
                 pool, failures, dropped>>

(* The reader finds the end of a file and goes on with the next.           *)
NextFile ==
  /\ serving # 0 /\ reader.files # <<>> /\ Remaining = <<>>
  /\ reader' = [reader EXCEPT !.files = Tail(@), !.position = 0, !.some = FALSE]
  /\ UNCHANGED <<mapped, stage, written, chunks, final, active, stored, serving,
                 pool, failures, dropped>>

(* Mutant: the slice may also end while a record is being merged.          *)
CheckpointAnywhere == reader.some

(* Time is up after an item: the output is flushed and the next task made. *)
CheckpointAllowed == reader.some /\ (stage = "merge" => reader.key = NoKey)
EndShuffleSlice ==
  /\ serving # 0 /\ CheckpointAllowed
  /\ FlushPools(0)
  /\ stored' = [stored EXCEPT ![serving] = [reader EXCEPT !.some = FALSE]]
  /\ serving' = 0 /\ reader' = NoSlice
  /\ UNCHANGED <<mapped, stage, chunks, final, active, dropped>>

(* Nothing is left to read: flush, finalize, and the shard has ended --    *)
(* unless the task fails between the last two.                             *)
AtEnd == reader.files = <<>> /\ Heads = {} /\ (stage = "merge" => reader.key = NoKey)
Finalized == IF stage = "merge" THEN final \union {serving} ELSE final
EndShard ==
  /\ serving # 0 /\ AtEnd
  /\ FlushPools(0)
  /\ final' = Finalized
  /\ active' = active \ {serving}
  /\ stored' = [stored EXCEPT ![serving] = NoSlice]
  /\ serving' = 0 /\ reader' = NoSlice
  /\ UNCHANGED <<mapped, stage, chunks, dropped>>
EndUnrecorded ==
  /\ serving # 0 /\ AtEnd /\ failures < MaxFailures
  /\ FlushPools(1)
  /\ final' = Finalized
  /\ serving' = 0 /\ reader' = NoSlice
  /\ UNCHANGED <<mapped, stage, chunks, active, stored, dropped>>

(* A slice fails, or the instance dies: each of its files holds what was   *)
(* flushed when a pool was full, or before the failure.  The task is run   *)
(* again from the same JSON.                                               *)
FailSlice ==
  /\ serving # 0 /\ failures < MaxFailures
  /\ \E cut \in [ShuffleShards -> UNION {0..Len(pool[f]) : f \in ShuffleShards}] :
       /\ \A f \in ShuffleShards : cut[f] <= Len(pool[f]) /\ (~CanFlush => cut[f] = 0)
       /\ IF stage \in WritingStages
          THEN written' = [written EXCEPT ![stage] = [f \in ShuffleShards |->
                             @[f] \o SubSeq(pool[f], 1, cut[f])]]
          ELSE UNCHANGED written
  /\ failures' = failures + 1
  /\ serving' = 0 /\ reader' = NoSlice /\ pool' = NoOutput
  /\ UNCHANGED <<mapped, stage, chunks, final, active, stored, dropped>>

(* The pipelines start the next job when the shards of one have ended.     *)
NextStage ==
  /\ serving = 0 /\ active = {} /\ stage # "over"
  /\ stage' = Follows[stage]
  /\ active' = ShardsOf(Follows[stage])
  /\ UNCHANGED <<mapped, written, chunks, final, serving, reader, pool, failures, dropped>>
  /\ stored' = [s \in ShuffleShards |-> IF s \in ShardsOf(Follows[stage])
                                THEN ReaderOf(Follows[stage], s) ELSE NoSlice]

ShuffleNext ==
  \/ \E s \in ShuffleShards : BeginSlice(s)
  \/ HashRecord \/ SortBatch \/ MergeYield \/ MergeTake \/ ReduceRecord
  \/ NextFile \/ EndShuffleSlice \/ EndShard \/ EndUnrecorded \/ FailSlice \/ NextStage

ShuffleSpec == ShuffleInit /\ [][ShuffleNext]_shuffleVars

-----------------------------------------------------------------------------
(* Properties.                                                             *)

Pairs == UNION {{mapped[f][i] : i \in DOMAIN mapped[f]} : f \in DOMAIN mapped}
Reduced == UNION {{<<s, i>> : i \in DOMAIN written["reduce"][s]} : s \in ShuffleShards}
Call(c) == written["reduce"][c[1]][c[2]]
ValuesOf(seq) == {seq[i] : i \in DOMAIN seq}

ShuffleTypeOK ==
  /\ stage \in DOMAIN Follows \union {"over"}
  /\ serving \in {0} \union active /\ active \subseteq ShuffleShards /\ final \subseteq ShuffleShards
  /\ \A s \in ShuffleShards : \A x \in ValuesOf(written["hash"][s]) : x \in Pairs
  /\ \A s \in ShuffleShards : \A x \in ValuesOf(written["merge"][s]) :
       x.values # <<>> /\ \A v \in ValuesOf(x.values) : <<x.key, v>> \in Pairs
  /\ serving = 0 => pool = NoOutput /\ reader = NoSlice
  /\ failures \in 0..MaxFailures /\ dropped \in BOOLEAN

(* Whatever slices failed and were run again, every value a mapper wrote   *)
(* reaches a call of the reducer for its key -- unless a slice of the      *)
(* reducer ended between the records of one key (_ReducerReader).  Without *)
(* a failure, however the work is cut into slices, the reducer is called   *)
(* once for a key, with each of its values once (ShufflePipeline: "all     *)
(* values collated to a single key").                                      *)
ValuesReachReducer ==
  stage = "over" /\ ~dropped =>
    /\ \A p \in Pairs : \E c \in Reduced :
         Call(c)[1] = p[1] /\ p[2] \in ValuesOf(Call(c)[2])
    /\ failures = 0 => \A c \in Reduced :
         /\ \A d \in Reduced : Call(c)[1] = Call(d)[1] => c = d
         /\ Len(Call(c)[2]) = Cardinality({p \in Pairs : p[1] = Call(c)[1]})

-----------------------------------------------------------------------------
(* The inductive invariant.                                                *)

(* The input of a job and its output are files of items, each with pairs.  *)
Input(st) ==
  CASE st = "hash" -> mapped [] st = "sort" -> written["hash"] [] st = "merge" -> chunks
    [] st = "reduce" -> written["merge"] [] OTHER -> written["reduce"]
Output == IF stage = "sort" THEN chunks ELSE written[stage]
Produced == IF stage = "sort" THEN chunks
            ELSE [f \in ShuffleShards |-> written[stage][f] \o pool[f]]

PairsOf(st, x) ==
  CASE st \in {"hash", "sort"} -> <<x>>
    [] st = "merge"  -> x
    [] st = "reduce" -> [j \in DOMAIN x.values |-> <<x.key, x.values[j]>>]
    [] OTHER         -> [j \in DOMAIN x[2] |-> <<x[1], x[2][j]>>]

Has(st, files, p) ==
  \E f \in DOMAIN files : \E x \in ValuesOf(files[f]) : p \in ValuesOf(PairsOf(st, x))

Distinct(st, files) ==
  \A f, g \in DOMAIN files : \A i \in DOMAIN files[f], k \in DOMAIN files[g] :
    \A j \in DOMAIN PairsOf(st, files[f][i]), l \in DOMAIN PairsOf(st, files[g][k]) :
      PairsOf(st, files[f][i])[j] = PairsOf(st, files[g][k])[l] => f = g /\ i = k /\ j = l

(* What a reader has still to read: the j-th pair of the i-th item of f.   *)
InFiles(rd, f, i) ==
  /\ rd.files # <<>>
  /\ \/ f = rd.files[1] /\ i > rd.position
     \/ \E n \in 2..Len(rd.files) : f = rd.files[n]
Left(s, rd, f, i, j) ==
  IF stage = "merge" THEN f = s /\ j > rd.offsets[i] ELSE InFiles(rd, f, i)
Held(rd, p) == rd.key = p[1] /\ p[2] \in ValuesOf(rd.values)
ReaderNow(s) == IF s = serving THEN reader ELSE stored[s]

(* Types. *)
PairsFor(f) == {p \in Pairs : Hash(p[1]) = f}
Merged(f) ==
  {x \in [key : Nat \ {NoKey}, values : Seq(Nat), partial : BOOLEAN] :
     x.values # <<>> /\ \A v \in ValuesOf(x.values) : <<x.key, v>> \in PairsFor(f)}
Calls ==
  {c \in (Nat \ {NoKey}) \X Seq(Nat) : \A v \in ValuesOf(c[2]) : <<c[1], v>> \in Pairs}
ItemsOf(st, f) ==
  CASE st = "hash" -> PairsFor(f) [] st = "merge" -> Merged(f) [] OTHER -> Calls

Readers == [files : Seq(Nat), position : Nat, offsets : Seq(Nat),
            key : Nat, values : Seq(Nat), some : BOOLEAN]

OutputsType ==
  /\ mapped \in MapOutputs
  /\ stage \in DOMAIN Follows \union {"over"}
  /\ \A st \in WritingStages : \A f \in ShuffleShards :
       written[st][f] \in Seq(ItemsOf(st, f))
  /\ \A f \in ShuffleShards : chunks[f] \in Seq(Seq(PairsFor(f)))
  /\ stage = "hash" => chunks = NoOutput
  /\ stage \in {"hash", "sort"} => written["merge"] = NoOutput
  /\ stage \in {"hash", "sort", "merge"} => written["reduce"] = NoOutput
  /\ \A f \in ShuffleShards :
       IF stage \in WritingStages THEN pool[f] \in Seq(ItemsOf(stage, f)) ELSE pool[f] = <<>>
  /\ DOMAIN chunks = ShuffleShards /\ pool = [f \in ShuffleShards |-> pool[f]]
  /\ DOMAIN written = WritingStages /\ \A st \in WritingStages : DOMAIN written[st] = ShuffleShards

SlicesType ==
  /\ active \subseteq ShardsOf(stage) /\ final \subseteq ShuffleShards
  /\ serving \in {0} \union active
  /\ stored \in [ShuffleShards -> Readers] /\ reader \in Readers
  /\ serving = 0 => pool = NoOutput /\ reader = NoSlice
  /\ stage = "merge" => \A f \in ShuffleShards \ {serving} : pool[f] = <<>>
  /\ failures \in 0..MaxFailures /\ dropped \in BOOLEAN
  /\ dropped => stage \in {"reduce", "over"}

(* The reader of a shard points into the input of the job. *)
Points(s, rd) ==
  /\ \A n \in DOMAIN rd.files : rd.files[n] \in DOMAIN Input(stage)
  /\ stage = "sort" => rd.files \in {<<>>, <<s>>}
  /\ rd.files # <<>> => rd.position <= Len(Input(stage)[rd.files[1]])
  /\ IF stage = "merge"
     THEN /\ rd.files = <<>> /\ DOMAIN rd.offsets = DOMAIN chunks[s]
          /\ \A i \in DOMAIN rd.offsets : rd.offsets[i] <= Len(chunks[s][i])
     ELSE rd.offsets = <<>>
  /\ rd.key = NoKey <=> rd.values = <<>>
  /\ rd.key # NoKey => stage \in {"merge", "reduce"}
  /\ \A v \in ValuesOf(rd.values) : <<rd.key, v>> \in Pairs
  /\ stage = "merge" /\ rd.key # NoKey => Hash(rd.key) = s

ReadersPoint ==
  \A s \in active : /\ Points(s, stored[s]) /\ Points(s, ReaderNow(s))
                    /\ stage = "merge" => stored[s].key = NoKey
                    /\ stage = "merge" => \A i \in DOMAIN stored[s].offsets :
                         stored[s].offsets[i] <= ReaderNow(s).offsets[i]

(* A partial record is not the last of its file, when the merge has ended: *)
(* the reducer has no values in hand when it comes to the end.             *)
EndsPartial(records) == records # <<>> /\ records[Len(records)].partial
MoreStored(s) == \E i \in DOMAIN stored[s].offsets : stored[s].offsets[i] < Len(chunks[s][i])

PartialsInv ==
  /\ \A f \in ShuffleShards : EndsPartial(written["merge"][f]) =>
       stage = "merge" /\ f \in active /\ MoreStored(f)
  /\ stage = "merge" /\ serving # 0 =>
       /\ EndsPartial(Produced[serving]) => Heads # {} \/ reader.key # NoKey
       /\ pool[serving] # <<>> \/ reader.key # NoKey => MoreStored(serving)
  /\ stage = "reduce" /\ serving # 0 /\ reader.key # NoKey => Remaining # <<>>

(* No pair is lost: what is not in the output is still to be read. *)
Excused(s) == stage = "reduce" /\ (dropped \/ stored[s].key # NoKey)

NothingLost ==
  /\ ~(stage = "over" /\ dropped) => \A p \in Pairs : Has(stage, Input(stage), p)
  /\ stage # "over" =>
       \A f \in DOMAIN Input(stage) : \A i \in DOMAIN Input(stage)[f] :
       \A j \in DOMAIN PairsOf(stage, Input(stage)[f][i]) :
         LET p == PairsOf(stage, Input(stage)[f][i])[j]
         IN  /\ \/ Has(Follows[stage], Output, p)
                \/ dropped
                \/ \E s \in active : Left(s, stored[s], f, i, j) \/ Excused(s)
             /\ serving # 0 /\ ~dropped /\ Left(serving, stored[serving], f, i, j) =>
                  \/ Has(Follows[stage], Output, p) \/ Has(Follows[stage], pool, p)
                  \/ Held(reader, p) \/ Left(serving, reader, f, i, j)
  /\ serving # 0 /\ ~dropped => stored[serving].key = NoKey

(* Without failures no pair is doubled, and the keys of what is merged and *)
(* reduced go up.                                                          *)
FilesApart ==
  /\ \A s, t \in active : \A m \in DOMAIN ReaderNow(s).files, n \in DOMAIN ReaderNow(t).files :
       ReaderNow(s).files[m] = ReaderNow(t).files[n] => s = t /\ m = n

NothingDoubled ==
  /\ Distinct(stage, Input(stage))
  /\ stage # "over" =>
       /\ Distinct(Follows[stage], Produced)
       /\ \A f \in DOMAIN Input(stage) : \A i \in DOMAIN Input(stage)[f] :
          \A j \in DOMAIN PairsOf(stage, Input(stage)[f][i]) :
            LET p == PairsOf(stage, Input(stage)[f][i])[j]
            IN  \A s \in active : Left(s, ReaderNow(s), f, i, j) =>
                  ~Has(Follows[stage], Produced, p) /\ ~Held(reader, p)
       /\ \A p \in Pairs : Held(reader, p) => ~Has(Follows[stage], Produced, p)
       /\ \A m, n \in DOMAIN reader.values : reader.values[m] = reader.values[n] => m = n

Upto(records, key) ==
  \A a \in DOMAIN records :
    records[a].key <= key /\ (records[a].key = key => records[a].partial)
KeysGoUp(records) ==
  \A a, b \in DOMAIN records : a < b =>
    /\ records[a].key <= records[b].key
    /\ records[a].key = records[b].key => records[a].partial

MergeInOrder ==
  /\ stage \in {"sort", "merge"} => \A f \in ShuffleShards : \A c \in DOMAIN chunks[f] :
       \A a, b \in DOMAIN chunks[f][c] : a < b => chunks[f][c][a][1] <= chunks[f][c][b][1]
  /\ stage = "merge" => \A f \in ShuffleShards : KeysGoUp(Produced[f])
  /\ stage = "merge" => \A s \in active : \A c \in DOMAIN chunks[s] :
       \A i \in DOMAIN chunks[s][c] : Left(s, ReaderNow(s), s, c, i) =>
         /\ Upto(Produced[s], chunks[s][c][i][1])
         /\ s = serving => reader.key <= chunks[s][c][i][1]
  /\ stage = "merge" /\ serving # 0 /\ reader.key # NoKey =>
       Upto(Produced[serving], reader.key)

Called(files, key) == \E f \in DOMAIN files : \E i \in DOMAIN files[f] : files[f][i][1] = key
CalledOnce(files) ==
  \A f, g \in DOMAIN files : \A i \in DOMAIN files[f], k \in DOMAIN files[g] :
    files[f][i][1] = files[g][k][1] => f = g /\ i = k

ReduceInOrder ==
  /\ stage = "reduce" => \A f \in ShuffleShards : KeysGoUp(written["merge"][f])
  /\ stage = "reduce" => CalledOnce(Produced)
  /\ stage = "over" => CalledOnce(written["reduce"])
  /\ stage = "reduce" =>
       /\ \A s \in active : \A f \in ShuffleShards : \A i \in DOMAIN written["merge"][f] :
            InFiles(ReaderNow(s), f, i) => ~Called(Produced, written["merge"][f][i].key)
       /\ ~Called(Produced, reader.key)

TypesInv == OutputsType /\ SlicesType /\ ReadersPoint

ShuffleInv ==
  /\ TypesInv /\ PartialsInv /\ NothingLost
  /\ failures = 0 => FilesApart /\ NothingDoubled /\ MergeInOrder /\ ReduceInOrder
=============================================================================
