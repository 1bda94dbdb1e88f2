---------------------------- MODULE InputReaders ----------------------------
(***************************************************************************)
(* How a MapReduce job divides the datastore: DatastoreInputReader         *)
(* (server/mapreduce/input_readers.py) over key ranges                     *)
(* (lib/key_range/__init__.py) or ranges of namespaces                     *)
(* (namespace_range.py).                                                   *)
(*                                                                         *)
(* The kickoff splits the input into readers; every slice of a shard makes *)
(* its reader from the JSON that the slice before it left, reads on, and   *)
(* leaves JSON in its turn.  The split asks the datastore several times    *)
(* while entities come and go.  A namespace is the sequence of its         *)
(* characters, a key its rank in the namespace.  A batch that a query has  *)
(* fetched is read at once here, and queries see every entity.             *)
(***************************************************************************)
EXTENDS Integers, Sequences, FiniteSets, SequencesExt, FiniteSetsExt

CONSTANTS
  Characters,     \* number of NAMESPACE_CHARACTERS
  MaxLength,      \* MAX_NAMESPACE_LENGTH
  NumKeys,        \* keys of a namespace: 1..NumKeys
  Inputs,         \* what the datastore may hold when a job begins
  ShardCount,     \* shards that the job asks for
  MaxNamespaces,  \* MAX_NAMESPACES_FOR_KEY_SHARD
  MaxQueries,     \* queries that splits may make in the life of a process
  Volatile,       \* bound: entities that may come or go during the job
  MaxEvents       \* bound: how often they do, or a slice is run again

ASSUME ReadersNumbers ==
  /\ Characters \in Nat \ {0} /\ MaxLength \in Nat \ {0}
  /\ NumKeys \in Nat /\ ShardCount \in Nat \ {0}
  /\ MaxNamespaces \in Nat /\ MaxQueries \in Nat /\ MaxEvents \in Nat

Keys == 1..NumKeys
Shards == 1..ShardCount

-----------------------------------------------------------------------------
(* Namespaces and their ordinals.                                          *)

Namespaces == UNION {[1..n -> 1..Characters] : n \in 0..MaxLength}
MinNamespace == <<>>
MaxNamespace == [i \in 1..MaxLength |-> Characters]

ASSUME ReadersEntities ==
  /\ Inputs \subseteq SUBSET (Namespaces \X Keys)
  /\ Volatile \subseteq Namespaces \X Keys

(* The elements of a set in an order.                                      *)
InOrder(S, atMost(_, _)) ==
  [i \in 1..Cardinality(S) |->
     CHOOSE x \in S : Cardinality({y \in S : atMost(y, x)}) = i]

(* _LEX_DISTANCE: how far apart two strings are that differ by one in the  *)
(* character at this distance from the longest string's end.               *)
LexDistance[i \in 0..(MaxLength - 1)] ==
  IF i = 0 THEN 1 ELSE LexDistance[i - 1] * Characters + 1

Ordinals == 0..(Characters * LexDistance[MaxLength - 1])

(* _ord_to_namespace, for strings of at most "max" characters; of none     *)
(* there is one only.                                                      *)
OrdToNamespaceOf[max \in 0..MaxLength] ==
  [n \in Ordinals |->
     IF n = 0 \/ max = 0 THEN <<>>
     ELSE <<1 + (n - 1) \div LexDistance[max - 1]>>
            \o OrdToNamespaceOf[max - 1][(n - 1) % LexDistance[max - 1]]]
OrdToNamespace(n) == OrdToNamespaceOf[MaxLength][n]

(* _namespace_to_ord.                                                      *)
Digits(ns) == [i \in DOMAIN ns |-> LexDistance[MaxLength - i] * (ns[i] - 1) + 1]
NamespaceToOrd ==
  [ns \in Namespaces |-> MapThenSumSet(LAMBDA i : Digits(ns)[i], DOMAIN ns)]

(* The order of the datastore: at the first difference, or the shorter.    *)
Precedes(a, b) ==
  \E n \in 0..(Len(b) - 1) :
    /\ n <= Len(a) /\ SubSeq(a, 1, n) = SubSeq(b, 1, n)
    /\ n = Len(a) \/ (n < Len(a) /\ a[n + 1] < b[n + 1])
Order == {pair \in Namespaces \X Namespaces : Precedes(pair[1], pair[2])}
Before(a, b) == <<a, b>> \in Order
AtMost(a, b) == a = b \/ Before(a, b)

Span(start, end) == [start |-> start, end |-> end]
Everything == Span(MinNamespace, MaxNamespace)
Holds(range, ns) == AtMost(range.start, ns) /\ AtMost(ns, range.end)

-----------------------------------------------------------------------------
(* Key ranges.  0 is no bound; key_end is never included.                  *)

KeyRange(ns, start, inclusive, end) ==
  [ns |-> ns, start |-> start, inclusive |-> inclusive, end |-> end]
AllKeys(ns) == KeyRange(ns, 0, TRUE, 0)
NoKeyRange == KeyRange(<<>>, 0, FALSE, -1)

Within(k, range) ==
  /\ range.start = 0 \/ range.start < k \/ (range.inclusive /\ range.start = k)
  /\ range.end = 0 \/ k < range.end

(* _choose_split_points, by round(), which rounds halves up.               *)
ChooseSplitPoints(keys) ==
  [i \in 1..(ShardCount - 1) |->
     keys[1 + (2 * Len(keys) * i + ShardCount) \div (2 * ShardCount)]]

(* Mutant: the second and later ranges leave out the key they start at.    *)
KeyRangesOfOpen(ns, sample) ==
  LET keys == InOrder(sample, <=)
      points == IF Len(keys) >= ShardCount THEN ChooseSplitPoints(keys) ELSE keys
      n == IF ShardCount = 1 THEN 0 ELSE Len(points)
      bound(i) == IF i \in 1..n THEN points[i] ELSE 0
  IN  [s \in Shards |-> IF s > n + 1 THEN NoKeyRange
                        ELSE KeyRange(ns, bound(s - 1), n = 0, bound(s))]

(* _split_input_from_namespace: the ranges of a namespace between the keys *)
(* of a random sample.  A range that is missing is None.                   *)
KeyRangesOf(ns, sample) ==
  LET keys == InOrder(sample, <=)
      points == IF Len(keys) >= ShardCount THEN ChooseSplitPoints(keys) ELSE keys
      n == IF ShardCount = 1 THEN 0 ELSE Len(points)
      bound(i) == IF i \in 1..n THEN points[i] ELSE 0
  IN  [s \in Shards |-> IF s > n + 1 THEN NoKeyRange
                        ELSE KeyRange(ns, bound(s - 1), n = 0 \/ s > 1, bound(s))]

(* A reader has a stack of key ranges, or a range of namespaces, and the   *)
(* key range that it is in.                                                *)
Reader(byKeys, ranges, ns, current) ==
  [byKeys |-> byKeys, ranges |-> ranges, ns |-> ns, current |-> current]
ByKeys(ranges) == Reader(TRUE, Reverse(ranges), Everything, NoKeyRange)
ByNamespaces(span) == Reader(FALSE, <<>>, span, NoKeyRange)
NoReader == ByKeys(<<>>)

(* to_json and from_json: the constructor turns the stack over each time.  *)
FromJson(json) == [json EXCEPT !.ranges = Reverse(@)]

-----------------------------------------------------------------------------
VARIABLES
  entities,  \* pairs of a namespace and a key
  splitting, \* how far the kickoff is: "start", "first", "split", "done"
  queries,   \* what is left of can_query's budget
  spans,     \* NamespaceRange.split: ranges that it may split further
  singles,   \* and those of one namespace
  live,      \* Shards -> the reader that its slice has
  saved,     \* Shards -> the JSON with which the slice began
  ended,     \* shards whose reader is at its end
  read,      \* entities -> how often they were read, counted to 2
  changed,   \* history: entities that came or went during the job
  again      \* history: number of slices that were run again

readVars == <<live, saved, ended, read, again>>
splitVars == <<splitting, queries, spans, singles>>
readerVars == <<entities, splitVars, readVars, changed>>

ReadersInit ==
  /\ entities \in Inputs
  /\ splitting = "start"
  /\ queries \in 0..MaxQueries
  /\ spans = <<>> /\ singles = {}
  /\ live = [s \in Shards |-> NoReader]
  /\ saved = [s \in Shards |-> NoReader]
  /\ ended = {}
  /\ read = [e \in Namespaces \X Keys |-> 0]
  /\ changed = {}
  /\ again = 0

Stored(range) == {ns \in Namespaces : /\ Holds(range, ns)
                                      /\ \E k \in Keys : <<ns, k>> \in entities}
First(namespaces) == CHOOSE ns \in namespaces : \A m \in namespaces : AtMost(ns, m)

Change(e) ==
  /\ Cardinality(changed) + again < MaxEvents
  /\ changed' = changed \union {e}
  /\ entities' = IF e \in entities THEN entities \ {e} ELSE entities \union {e}
  /\ UNCHANGED <<splitVars, readVars>>

-----------------------------------------------------------------------------
(* split_input.                                                            *)

(* The kickoff saves the readers, and starts a slice for each.             *)
Start(readers) ==
  LET of(s) == IF s <= Len(readers) THEN readers[s] ELSE NoReader IN
  /\ splitting' = "done"
  /\ saved' = [s \in Shards |-> of(s)]
  /\ live' = [s \in Shards |-> FromJson(of(s))]
  /\ ended' = {s \in Shards : s > Len(readers)}
  /\ UNCHANGED <<entities, read, again, changed>>

SplitNothing ==
  /\ splitting = "start"
  /\ entities = {}
  /\ Start(<<ByNamespaces(Everything)>>)
  /\ UNCHANGED <<queries, spans, singles>>

(* Few namespaces: their ranges are dealt out to the shards in turn, of    *)
(* each namespace one to every shard.                                      *)
SplitByKeys(sample) ==
  LET namespaces == InOrder(Stored(Everything), AtMost) IN
  /\ splitting = "start"
  /\ Len(namespaces) \in 1..MaxNamespaces
  /\ sample \subseteq entities
  /\ Start([s \in Shards |->
             ByKeys([i \in 1..Len(namespaces) |->
               LET ns == namespaces[i]
               IN  KeyRangesOf(ns, {k \in Keys : <<ns, k>> \in sample})[s]])])
  /\ UNCHANGED <<queries, spans, singles>>

ManyNamespaces ==
  /\ splitting = "start"
  /\ Cardinality(Stored(Everything)) > MaxNamespaces
  /\ splitting' = "first"
  /\ UNCHANGED <<entities, queries, spans, singles, readVars, changed>>

(* can_query: a budget that is spent from when the process starts.         *)
CanQuery == queries > 0
SpendQuery == queries' = IF CanQuery THEN queries - 1 ELSE 0

Normalized(range) == Span(First(Stored(range)), range.end)

(* NamespaceRange.split before its loop.                                   *)
FirstSpan ==
  /\ splitting = "first"
  /\ SpendQuery
  /\ \/ /\ CanQuery /\ Stored(Everything) = {}
        /\ Start(<<ByNamespaces(Everything)>>)
        /\ UNCHANGED spans
     \/ /\ ~(CanQuery /\ Stored(Everything) = {})
        /\ spans' = <<IF CanQuery THEN Normalized(Everything) ELSE Everything>>
        /\ splitting' = "split"
        /\ UNCHANGED <<entities, readVars, changed>>
  /\ UNCHANGED singles

MoreSplits == spans # <<>> /\ Len(spans) + Cardinality(singles) < ShardCount

KeepSingle ==
  /\ splitting = "split" /\ MoreSplits
  /\ Head(spans).start = Head(spans).end
  /\ singles' = singles \union {Head(spans)}
  /\ spans' = Tail(spans)
  /\ UNCHANGED <<entities, splitting, queries, readVars, changed>>

(* split_range; the right half is cut to what is stored, if we may ask.    *)
SplitSpan ==
  LET span == Head(spans)
      mid == (NamespaceToOrd[span.start] + NamespaceToOrd[span.end]) \div 2
      left == Span(span.start, OrdToNamespace(mid))
      right == Span(OrdToNamespace(mid + 1), span.end)
  IN
  /\ splitting = "split" /\ MoreSplits
  /\ span.start # span.end
  /\ SpendQuery
  /\ spans' = Tail(spans)
       \o (IF CanQuery THEN IF Stored(right) = {} THEN <<>> ELSE <<Normalized(right)>>
           ELSE <<right>>)
       \o <<left>>
  /\ UNCHANGED <<entities, splitting, singles, readVars, changed>>

(* "contiguous": each range is made to reach to the next.                  *)
Contiguous(sorted) ==
  [i \in 1..Len(sorted) |->
     Span(IF i = 1 THEN MinNamespace ELSE sorted[i].start,
          IF i = Len(sorted) THEN MaxNamespace
          ELSE OrdToNamespace(NamespaceToOrd[sorted[i + 1].start] - 1))]

SplitByNamespaces ==
  LET sorted == InOrder(ToSet(spans) \union singles,
                        LAMBDA a, b : AtMost(a.start, b.start))
      contiguous == Contiguous(sorted)
  IN
  /\ splitting = "split" /\ ~MoreSplits
  /\ Start([i \in 1..Len(contiguous) |-> ByNamespaces(contiguous[i])])
  /\ spans' = <<>> /\ singles' = {}
  /\ UNCHANGED queries

-----------------------------------------------------------------------------
(* __iter__ in a slice of shard "s".                                       *)

Reads(s) == splitting = "done" /\ s \notin ended
Current(s) == live[s].current
Unread(s) == {k \in Keys : /\ <<Current(s).ns, k>> \in entities
                           /\ Within(k, Current(s))}

(* _iter_key_range, and "advance" before the entity is yielded.            *)
ReadEntity(s) ==
  /\ Reads(s)
  /\ Current(s) # NoKeyRange
  /\ Unread(s) # {}
  /\ LET k == Min(Unread(s)) IN
       /\ live' = [live EXCEPT ![s].current.start = k, ![s].current.inclusive = FALSE]
       /\ read' = [read EXCEPT ![<<Current(s).ns, k>>] = IF @ = 2 THEN 2 ELSE @ + 1]
  /\ UNCHANGED <<entities, splitVars, saved, ended, changed, again>>

(* _iter_key_ranges between two ranges; None is popped and passed over.    *)
NextKeyRange(s) ==
  /\ Reads(s)
  /\ live[s].byKeys
  /\ Unread(s) = {}
  /\ IF live[s].ranges = <<>>
     THEN ended' = ended \union {s} /\ UNCHANGED live
     ELSE /\ live' = [live EXCEPT ![s].current = Last(live[s].ranges),
                                  ![s].ranges = Front(@)]
          /\ UNCHANGED ended
  /\ UNCHANGED <<entities, splitVars, saved, read, changed, again>>

(* _iter_ns_range: the next namespace that is stored.                      *)
NextNamespace(s) ==
  /\ Reads(s)
  /\ ~live[s].byKeys
  /\ Current(s) = NoKeyRange
  /\ IF Stored(live[s].ns) = {}
     THEN ended' = ended \union {s} /\ UNCHANGED live
     ELSE /\ live' = [live EXCEPT ![s].current = AllKeys(First(Stored(live[s].ns)))]
          /\ UNCHANGED ended
  /\ UNCHANGED <<entities, splitVars, saved, read, changed, again>>

(* Mutant: the range of namespaces still begins with the one just read.    *)
LeaveNamespaceStay(s) ==
  /\ Reads(s)
  /\ ~live[s].byKeys
  /\ Current(s) # NoKeyRange
  /\ Unread(s) = {}
  /\ IF live[s].ns.start = live[s].ns.end \/ Current(s).ns = live[s].ns.end
     THEN ended' = ended \union {s} /\ UNCHANGED live
     ELSE /\ live' = [live EXCEPT ![s].ns.start = Current(s).ns,
                                  ![s].current = NoKeyRange]
          /\ UNCHANGED ended
  /\ UNCHANGED <<entities, splitVars, saved, read, changed, again>>

(* _iter_ns_range after the last entity of a namespace: with_start_after.  *)
LeaveNamespace(s) ==
  /\ Reads(s)
  /\ ~live[s].byKeys
  /\ Current(s) # NoKeyRange
  /\ Unread(s) = {}
  /\ IF live[s].ns.start = live[s].ns.end \/ Current(s).ns = live[s].ns.end
     THEN ended' = ended \union {s} /\ UNCHANGED live
     ELSE /\ live' = [live EXCEPT
               ![s].ns.start = OrdToNamespace(NamespaceToOrd[Current(s).ns] + 1),
               ![s].current = NoKeyRange]
          /\ UNCHANGED ended
  /\ UNCHANGED <<entities, splitVars, saved, read, changed, again>>

(* After an entity, or ALLOW_CHECKPOINT, the slice may end.                *)
EndSlice(s) ==
  /\ Reads(s)
  /\ Current(s) # NoKeyRange
  /\ live[s] # FromJson(saved[s])
  /\ saved' = [saved EXCEPT ![s] = live[s]]
  /\ live' = [live EXCEPT ![s] = FromJson(live[s])]
  /\ UNCHANGED <<entities, splitVars, ended, read, changed, again>>

(* The slice fails and its task is served again.                           *)
RunAgain(s) ==
  /\ Reads(s)
  /\ Cardinality(changed) + again < MaxEvents
  /\ again' = again + 1
  /\ live' = [live EXCEPT ![s] = FromJson(saved[s])]
  /\ UNCHANGED <<entities, splitVars, saved, ended, read, changed>>

-----------------------------------------------------------------------------
SplitStep ==
  \/ SplitNothing
  \/ \E sample \in SUBSET entities : SplitByKeys(sample)
  \/ ManyNamespaces \/ FirstSpan \/ KeepSingle \/ SplitSpan \/ SplitByNamespaces
ReadStep(s) == ReadEntity(s) \/ NextKeyRange(s) \/ NextNamespace(s) \/ LeaveNamespace(s)

ReadersNext ==
  \/ SplitStep
  \/ \E s \in Shards : ReadStep(s) \/ EndSlice(s) \/ RunAgain(s)
  \/ \E e \in Volatile : Change(e)

ReadersSpec == ReadersInit /\ [][ReadersNext]_readerVars

-----------------------------------------------------------------------------
Spans == [start : Namespaces, end : Namespaces]
KeyRanges == [ns : Namespaces, start : Keys \union {0}, inclusive : BOOLEAN,
              end : Keys \union {0, -1}]
IsReader(r) ==
  /\ DOMAIN r = {"byKeys", "ranges", "ns", "current"}
  /\ r.byKeys \in BOOLEAN
  /\ ToSet(r.ranges) \subseteq KeyRanges
  /\ r.ns \in Spans /\ AtMost(r.ns.start, r.ns.end)
  /\ r.current \in KeyRanges

(* The types of the variables; no range of namespaces ends before it       *)
(* starts, which NamespaceRange refuses with a ValueError.                 *)
ReadersTypeOK ==
  /\ entities \subseteq Namespaces \X Keys
  /\ splitting \in {"start", "first", "split", "done"}
  /\ queries \in 0..MaxQueries
  /\ \A span \in ToSet(spans) \union singles :
       span \in Spans /\ AtMost(span.start, span.end)
  /\ \A s \in Shards : IsReader(live[s]) /\ IsReader(saved[s])
  /\ ended \subseteq Shards
  /\ read \in [Namespaces \X Keys -> 0..2]
  /\ changed \subseteq Namespaces \X Keys
  /\ again \in 0..MaxEvents

Steady == entities \ changed

(* When all readers are at their end, every entity that was there all the  *)
(* time was read, through whatever cuts into slices, slices run again and  *)
(* entities and namespaces that came and went; and nothing is read twice,  *)
(* by one shard or by two, unless a slice was run again.                   *)
EachReadOnce ==
  /\ ended = Shards => \A e \in Steady : read[e] > 0
  /\ again = 0 => \A e \in DOMAIN read : read[e] < 2
=============================================================================
