-------------------------------- MODULE Quota ---------------------------------
(***************************************************************************)
(* The quota of a shard (quota.py): a bucket in memcache that the          *)
(* controller of the job refills and the slices of the shard consume from, *)
(* by the batch, giving back what they do not use (handlers.py).  A slice  *)
(* that is delivered again runs beside the first: the bucket has several   *)
(* consumers.  memcache counts in unsigned integers, so that a bucket of   *)
(* _OFFSET is empty; here it is the difference.  Each call of memcache is  *)
(* one step.                                                               *)
(***************************************************************************)
EXTENDS Integers, FiniteSets, FiniteSetsExt

CONSTANTS
  NumConsumers,    \* tasks that serve the shard at a time
  Batch,           \* _QUOTA_BATCH_SIZE
  Refill,          \* quota_refill of one poll of the controller
  Entities,        \* entities the reader of a slice has
  MaxRefills,      \* bound on refills
  MaxSlices,       \* bound on slices
  MaxLosses        \* bound on failures

ASSUME QuotaAssumption ==
  /\ NumConsumers \in Nat \ {0} /\ Batch \in Nat \ {0} /\ Refill \in Nat
  /\ Entities \in Nat /\ MaxRefills \in Nat /\ MaxSlices \in Nat /\ MaxLosses \in Nat

Consumers == 1..NumConsumers

VARIABLES
  bucket,          \* the bucket, less _OFFSET; 0 when memcache has no such key
  refilled,        \* how often it was refilled
  slice,           \* what the handler of each consumer does
  held,            \* QuotaConsumer.quota
  owed,            \* what consume() is about to put back
  got,             \* what it will return after that
  unread,          \* entities its reader has left
  served,          \* entities given to the handler's user function
  slices,          \* slices begun
  lost,            \* quota of slices that were killed
  unreliable       \* memcache dropped the bucket, or a call of decr failed

quotaVars == <<bucket, refilled, slice, held, owed, got, unread, served, slices,
               lost, unreliable>>

QuotaInit ==
  /\ bucket = Refill /\ refilled = 1
  /\ slice = [c \in Consumers |-> "none"]
  /\ held = [c \in Consumers |-> 0]
  /\ owed = [c \in Consumers |-> 0] /\ got = [c \in Consumers |-> 0]
  /\ unread = [c \in Consumers |-> 0]
  /\ served = 0 /\ slices = 0 /\ lost = 0 /\ unreliable = 0

Go(c, what) == slice' = [slice EXCEPT ![c] = what]

(* refill_quotas, for this shard.                                          *)
RefillQuota ==
  /\ refilled < MaxRefills
  /\ bucket' = bucket + Refill /\ refilled' = refilled + 1
  /\ UNCHANGED <<slice, held, owed, got, unread, served, slices, lost, unreliable>>

(* The slice begins: check() reads the bucket.                             *)
Check(c) ==
  /\ slice[c] = "none" /\ slices < MaxSlices
  /\ slices' = slices + 1
  /\ unread' = [unread EXCEPT ![c] = Entities]
  /\ Go(c, IF bucket >= 1 THEN "consume" ELSE "dispose")
  /\ UNCHANGED <<bucket, refilled, held, owed, got, served, lost, unreliable>>

(* QuotaConsumer.consume(1).                                               *)
TakeHeld(c) ==
  /\ slice[c] = "consume" /\ held[c] >= 1
  /\ held' = [held EXCEPT ![c] = @ - 1]
  /\ Go(c, "next")
  /\ UNCHANGED <<bucket, refilled, owed, got, unread, served, slices, lost, unreliable>>

(* QuotaManager.consume(Batch, consume_some=True): decr, and what it says  *)
(* of the bucket after it; what is not granted is to be put back.          *)
Granted(short) ==
  IF short <= 0 THEN Batch ELSE IF short < Batch THEN Batch - short ELSE 0
TakeBatch(c) ==
  /\ slice[c] = "consume" /\ held[c] < 1
  /\ bucket' = bucket - Batch
  /\ LET granted == Granted(Batch - bucket)
     IN  \/ /\ granted = Batch
            /\ held' = [held EXCEPT ![c] = @ + Batch]
            /\ UNCHANGED <<slice, owed, got>>
         \/ /\ granted < Batch
            /\ owed' = [owed EXCEPT ![c] = Batch - granted]
            /\ got' = [got EXCEPT ![c] = granted]
            /\ Go(c, "put") /\ UNCHANGED held
  /\ UNCHANGED <<refilled, unread, served, slices, lost, unreliable>>

(* A decr that failed returns None: the batch is put back all the same.    *)
TakeFails(c) ==
  /\ slice[c] = "consume" /\ held[c] < 1 /\ unreliable < MaxLosses
  /\ unreliable' = unreliable + 1
  /\ owed' = [owed EXCEPT ![c] = Batch]
  /\ got' = [got EXCEPT ![c] = 0]
  /\ Go(c, "put")
  /\ UNCHANGED <<bucket, refilled, held, unread, served, slices, lost>>

PutBack(c) ==
  /\ slice[c] = "put"
  /\ bucket' = bucket + owed[c]
  /\ owed' = [owed EXCEPT ![c] = 0]
  /\ held' = [held EXCEPT ![c] = @ + got[c]]
  /\ got' = [got EXCEPT ![c] = 0]
  /\ Go(c, IF got[c] = 0 THEN "dispose" ELSE "consume")
  /\ UNCHANGED <<refilled, unread, served, slices, lost, unreliable>>

(* The reader gives an entity, which is served: the slice goes on to       *)
(* consume for the next, unless its time is up.  Or there is none left,    *)
(* and the item is given back.                                             *)
NextEntity(c) ==
  /\ slice[c] = "next"
  /\ IF unread[c] = 0
     THEN /\ held' = [held EXCEPT ![c] = @ + 1]
          /\ Go(c, "dispose")
          /\ UNCHANGED <<unread, served>>
     ELSE /\ unread' = [unread EXCEPT ![c] = @ - 1]
          /\ served' = served + 1
          /\ Go(c, "consume") \/ Go(c, "dispose")
          /\ UNCHANGED held
  /\ UNCHANGED <<bucket, refilled, owed, got, slices, lost, unreliable>>

(* Mutant: what is held is thrown away.                                    *)
DisposeForgets(c) ==
  /\ slice[c] = "dispose"
  /\ held' = [held EXCEPT ![c] = 0]
  /\ Go(c, "none")
  /\ UNCHANGED <<bucket, refilled, owed, got, unread, served, slices, lost, unreliable>>

(* The finally of the handler: all that is held goes back.                 *)
Dispose(c) ==
  /\ slice[c] = "dispose"
  /\ bucket' = bucket + held[c]
  /\ held' = [held EXCEPT ![c] = 0]
  /\ Go(c, "none")
  /\ UNCHANGED <<refilled, owed, got, unread, served, slices, lost, unreliable>>

(* The instance dies, without its finally.                                 *)
Taken(c) == held[c] + owed[c] + got[c] + (IF slice[c] = "next" THEN 1 ELSE 0)
Die(c) ==
  /\ slice[c] # "none"
  /\ lost' = lost + Taken(c)
  /\ held' = [held EXCEPT ![c] = 0]
  /\ owed' = [owed EXCEPT ![c] = 0] /\ got' = [got EXCEPT ![c] = 0]
  /\ Go(c, "none")
  /\ UNCHANGED <<bucket, refilled, unread, served, slices, unreliable>>

(* memcache drops the bucket.                                              *)
Evict ==
  /\ unreliable < MaxLosses
  /\ unreliable' = unreliable + 1 /\ bucket' = 0
  /\ UNCHANGED <<refilled, slice, held, owed, got, unread, served, slices, lost>>

QuotaNext ==
  \/ RefillQuota \/ Evict
  \/ \E c \in Consumers : \/ Check(c) \/ TakeHeld(c) \/ TakeBatch(c) \/ TakeFails(c)
                          \/ PutBack(c) \/ NextEntity(c) \/ Dispose(c) \/ Die(c)

QuotaSpec == QuotaInit /\ [][QuotaNext]_quotaVars

-----------------------------------------------------------------------------
(* Properties.                                                             *)

TakenBy == [c \in Consumers |-> Taken(c)]
Total(f) == MapThenSumSet(LAMBDA c : f[c], Consumers)

QuotaTypeOK ==
  /\ bucket \in Int /\ served \in Nat /\ lost \in Nat
  /\ \A c \in Consumers :
       /\ held[c] \in 0..Batch /\ owed[c] \in 0..Batch /\ got[c] \in 0..Batch
       /\ slice[c] \in {"none", "consume", "put", "next", "dispose"}
       /\ slice[c] # "put" => owed[c] = 0 /\ got[c] = 0

(* quota.py: "It is safe to use a single bucket from multiple clients      *)
(* simultaneously": while memcache keeps the bucket, whatever several      *)
(* consumers take below zero and put back, no quota is made or lost but    *)
(* with a slice that is killed.                                            *)
QuotaConserved ==
  unreliable = 0 => bucket + Total(TakenBy) + served + lost = refilled * Refill

-----------------------------------------------------------------------------
(* QuotaConserved rests on these: a consumer puts back what it has been    *)
(* refused before it does anything else, so that no later answer takes the *)
(* place of an earlier one; and it asks for a batch when it holds nothing. *)
CountsAreNumbers ==
  /\ bucket \in Int /\ refilled \in Nat
  /\ served \in Nat /\ lost \in Nat /\ unreliable \in Nat

ConsumersType ==
  /\ slice \in [Consumers -> {"none", "consume", "put", "next", "dispose"}]
  /\ held \in [Consumers -> 0..Batch]
  /\ owed \in [Consumers -> 0..Batch] /\ got \in [Consumers -> 0..Batch]

PutsBackFirst ==
  \A c \in Consumers : /\ slice[c] = "put" => held[c] = 0
                       /\ slice[c] # "put" => owed[c] = 0 /\ got[c] = 0
                       /\ slice[c] = "next" => held[c] < Batch

QuotaInv == CountsAreNumbers /\ ConsumersType /\ PutsBackFirst /\ QuotaConserved
=============================================================================
