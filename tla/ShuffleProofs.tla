---------------------------- MODULE ShuffleProofs ----------------------------
(***************************************************************************)
(* The invariants of Shuffle, for any map output, any number of shards and *)
(* of reducers, any sizes of batches and records, any number of failures.  *)
(***************************************************************************)
EXTENDS Shuffle, SetFacts, SequenceTheorems, TLAPS

-----------------------------------------------------------------------------
(* Sequences.                                                              *)

LEMMA ValuesOfEmpty == ValuesOf(<<>>) = {}
  BY DEF ValuesOf

LEMMA ValuesInSeq ==
  ASSUME NEW S, NEW s \in Seq(S)
  PROVE  ValuesOf(s) \subseteq S
  BY DEF ValuesOf

LEMMA ValuesOfConcat ==
  ASSUME NEW S, NEW s \in Seq(S), NEW t \in Seq(S)
  PROVE  /\ s \o t \in Seq(S)
         /\ ValuesOf(s \o t) = ValuesOf(s) \union ValuesOf(t)
<1> DEFINE u == s \o t
<1>1. /\ u \in Seq(S) /\ Len(u) = Len(s) + Len(t)
      /\ \A i \in 1..Len(s) + Len(t) : u[i] = IF i <= Len(s) THEN s[i] ELSE t[i - Len(s)]
  BY ConcatProperties
<1>2. /\ DOMAIN u = 1..Len(u) /\ DOMAIN s = 1..Len(s) /\ DOMAIN t = 1..Len(t)
      /\ Len(s) \in Nat /\ Len(t) \in Nat
  BY <1>1, LenProperties
<1> HIDE DEF u
<1>3. ASSUME NEW x \in ValuesOf(u) PROVE x \in ValuesOf(s) \union ValuesOf(t)
  <2>1. PICK i \in DOMAIN u : x = u[i]
    BY DEF ValuesOf
  <2>2. CASE i <= Len(s)
    BY <2>1, <2>2, <1>1, <1>2 DEF ValuesOf
  <2>3. CASE i > Len(s)
    <3>1. i - Len(s) \in 1..Len(t) /\ x = t[i - Len(s)]
      BY <2>1, <2>3, <1>1, <1>2
    <3> QED
      BY <3>1, <1>2 DEF ValuesOf
  <2> QED
    BY <2>1, <2>2, <2>3, <1>2
<1>4. ASSUME NEW i \in DOMAIN s PROVE s[i] \in ValuesOf(u)
  BY <1>1, <1>2 DEF ValuesOf
<1>5. ASSUME NEW i \in DOMAIN t PROVE t[i] \in ValuesOf(u)
  <2>1. /\ Len(s) + i \in 1..Len(s) + Len(t) /\ ~(Len(s) + i <= Len(s))
        /\ Len(s) + i - Len(s) = i
    BY <1>2
  <2>2. u[Len(s) + i] = t[i] /\ Len(s) + i \in DOMAIN u
    BY <2>1, <1>1, <1>2
  <2> QED
    BY <2>2 DEF ValuesOf
<1> QED
  BY <1>1, <1>3, <1>4, <1>5 DEF ValuesOf, u

LEMMA SeqAt ==
  ASSUME NEW S, NEW s \in Seq(S), NEW i \in DOMAIN s
  PROVE  s[i] \in S
  OBVIOUS

LEMMA SeqNarrow ==
  ASSUME NEW S, NEW T, NEW s \in Seq(S), \A i \in DOMAIN s : s[i] \in T
  PROVE  s \in Seq(T)
  OBVIOUS

LEMMA ValuesOfAppend ==
  ASSUME NEW S, NEW s \in Seq(S), NEW x \in S
  PROVE  /\ Append(s, x) \in Seq(S)
         /\ ValuesOf(Append(s, x)) = ValuesOf(s) \union {x}
<1>1. Append(s, x) = s \o <<x>>
  BY AppendIsConcat
<1>3. <<x>> \in Seq(S)
  OBVIOUS
<1>2. ValuesOf(<<x>>) = {x}
  BY DEF ValuesOf
<1> DEFINE t == <<x>>
<1>4. t \in Seq(S) /\ ValuesOf(t) = {x} /\ Append(s, x) = s \o t
  BY <1>1, <1>2, <1>3
<1> HIDE DEF t
<1> QED
  BY <1>4, ValuesOfConcat

LEMMA AppendPlaces ==
  ASSUME NEW S, NEW s \in Seq(S), NEW x \in S
  PROVE  /\ Append(s, x) \in Seq(S) /\ Append(s, x) # <<>>
         /\ Len(s) \in Nat /\ DOMAIN s = 1..Len(s)
         /\ DOMAIN Append(s, x) = 1..Len(s) + 1 /\ Len(Append(s, x)) = Len(s) + 1
         /\ \A i \in 1..Len(s) : Append(s, x)[i] = s[i]
         /\ Append(s, x)[Len(s) + 1] = x
  BY AppendProperties, LenProperties

LEMMA TailFacts ==
  ASSUME NEW S, NEW s \in Seq(S), s # <<>>
  PROVE  /\ Tail(s) \in Seq(S) /\ Head(s) = s[1] /\ s[1] \in S
         /\ Len(s) \in Nat \ {0} /\ DOMAIN s = 1..Len(s)
         /\ Len(Tail(s)) = Len(s) - 1 /\ DOMAIN Tail(s) = 1..Len(s) - 1
         /\ \A i \in 1..Len(s) - 1 : Tail(s)[i] = s[i + 1]
<1>1. Len(s) \in Nat \ {0} /\ DOMAIN s = 1..Len(s)
  BY EmptySeq, LenProperties
<1> QED
  BY <1>1, HeadTailProperties, LenProperties

-----------------------------------------------------------------------------
(* Constants and types.                                                    *)

LEMMA Shards ==
  /\ NumShards \in Nat \ {0} /\ ShuffleShards = 1..NumShards
  /\ ReduceShards \in 1..NumShards
  /\ BatchSize \in Nat \ {0} /\ MaxValues \in Nat \ {0} /\ MaxFailures \in Nat
  /\ 0 \notin ShuffleShards /\ NoKey = 0
  BY ShuffleAssumption DEF ShuffleShards, NoKey

LEMMA MappedType ==
  ASSUME mapped \in MapOutputs
  PROVE  /\ Pairs \subseteq (Nat \ {0}) \X Nat
         /\ mapped \in Seq(Seq(Pairs))
         /\ \A f, g \in DOMAIN mapped :
              \A i \in DOMAIN mapped[f], j \in DOMAIN mapped[g] :
                mapped[f][i] = mapped[g][j] => f = g /\ i = j
<1> DEFINE T == (Nat \ {0}) \X Nat
<1>1. mapped \in Seq(Seq(T))
  BY ShuffleAssumption DEF NoKey
<1>2. DOMAIN mapped = 1..Len(mapped) /\ Len(mapped) \in Nat
      /\ \A f \in DOMAIN mapped : mapped[f] \in Seq(T)
  BY <1>1, LenProperties, ElementOfSeq
<1>3. \A f \in DOMAIN mapped : \A i \in DOMAIN mapped[f] : mapped[f][i] \in T
  BY <1>2, LenProperties, ElementOfSeq
<1>4. Pairs \subseteq T
  BY <1>3 DEF Pairs
<1>5. \A f \in DOMAIN mapped : mapped[f] \in Seq(Pairs)
  <2> SUFFICES ASSUME NEW f \in DOMAIN mapped PROVE mapped[f] \in Seq(Pairs)
    OBVIOUS
  <2>1. \A i \in DOMAIN mapped[f] : mapped[f][i] \in Pairs
    BY DEF Pairs
  <2>2. mapped[f] \in Seq(T)
    BY <1>2
  <2> HIDE DEF T
  <2> QED
    BY <2>1, <2>2
<1>6. mapped \in Seq(Seq(Pairs))
  BY <1>5, <1>1, SeqNarrow
<1> QED
  BY <1>4, <1>6, ShuffleAssumption

LEMMA HashType ==
  ASSUME NEW k \in Nat
  PROVE  Hash(k) \in ShuffleShards
<1>1. k % NumShards \in 0..NumShards - 1
  BY Shards
<1> QED
  BY <1>1, Shards DEF Hash

-----------------------------------------------------------------------------
(* Files and the pairs in them.                                            *)

IsFiles(S, files) ==
  DOMAIN files = ShuffleShards /\ \A f \in ShuffleShards : files[f] \in Seq(S)

LEMMA HasJoined ==
  ASSUME NEW S, NEW st, NEW a, NEW b, NEW c, IsFiles(S, a), IsFiles(S, b),
         DOMAIN c = ShuffleShards, \A f \in ShuffleShards : c[f] = a[f] \o b[f]
  PROVE  /\ IsFiles(S, c)
         /\ \A p : Has(st, c, p) <=> Has(st, a, p) \/ Has(st, b, p)
<1>1. \A f \in ShuffleShards :
        c[f] \in Seq(S) /\ ValuesOf(c[f]) = ValuesOf(a[f]) \union ValuesOf(b[f])
  <2> SUFFICES ASSUME NEW f \in ShuffleShards
               PROVE  c[f] \in Seq(S) /\ ValuesOf(c[f]) = ValuesOf(a[f]) \union ValuesOf(b[f])
    OBVIOUS
  <2>1. a[f] \in Seq(S) /\ b[f] \in Seq(S) /\ c[f] = a[f] \o b[f]
    BY DEF IsFiles
  <2> QED
    BY <2>1, ValuesOfConcat
<1> QED
  BY <1>1 DEF Has, IsFiles

(* One more item x in file g. *)
IsAdded(S, a, g, x, b) ==
  /\ IsFiles(S, a) /\ g \in ShuffleShards /\ x \in S
  /\ b = [a EXCEPT ![g] = Append(@, x)]

LEMMA HasAdded ==
  ASSUME NEW S, NEW st, NEW a, NEW g, NEW x, NEW b, IsAdded(S, a, g, x, b)
  PROVE  /\ IsFiles(S, b)
         /\ \A p : Has(st, b, p) <=> Has(st, a, p) \/ p \in ValuesOf(PairsOf(st, x))
<1>1. /\ b[g] = Append(a[g], x) /\ DOMAIN b = ShuffleShards /\ DOMAIN a = ShuffleShards
      /\ \A f \in ShuffleShards \ {g} : b[f] = a[f]
      /\ g \in ShuffleShards /\ x \in S
  BY DEF IsAdded, IsFiles
<1>2. b[g] \in Seq(S) /\ ValuesOf(b[g]) = ValuesOf(a[g]) \union {x}
  BY <1>1, ValuesOfAppend DEF IsAdded, IsFiles
<1>3. IsFiles(S, b)
  BY <1>1, <1>2 DEF IsAdded, IsFiles
<1>4. ASSUME NEW p, Has(st, b, p)
      PROVE  Has(st, a, p) \/ p \in ValuesOf(PairsOf(st, x))
  <2>1. PICK f \in ShuffleShards : \E y \in ValuesOf(b[f]) : p \in ValuesOf(PairsOf(st, y))
    BY <1>4, <1>1 DEF Has
  <2> QED
    BY <2>1, <1>1, <1>2 DEF Has
<1>5. ASSUME NEW p, Has(st, a, p) \/ p \in ValuesOf(PairsOf(st, x))
      PROVE  Has(st, b, p)
  BY <1>5, <1>1, <1>2 DEF Has
<1> QED
  BY <1>3, <1>4, <1>5

LEMMA HasNone == \A st, p : ~Has(st, NoOutput, p)
  BY ValuesOfEmpty DEF Has, NoOutput

LEMMA DistinctNone == \A st : Distinct(st, NoOutput)
  BY DEF Distinct, NoOutput

(* The pairs of an item that is added are to differ from each other. *)
Differ(s) == \A j, l \in DOMAIN s : s[j] = s[l] => j = l

LEMMA DistinctAdded ==
  ASSUME NEW S, NEW st, NEW a, NEW g, NEW x, NEW b, IsAdded(S, a, g, x, b),
         Distinct(st, a), Differ(PairsOf(st, x)),
         \A p \in ValuesOf(PairsOf(st, x)) : ~Has(st, a, p)
  PROVE  Distinct(st, b)
<1> DEFINE n == Len(a[g]) + 1
           P(y) == PairsOf(st, y)
<1>1. /\ b[g] = Append(a[g], x) /\ DOMAIN b = ShuffleShards /\ DOMAIN a = ShuffleShards
      /\ \A f \in ShuffleShards \ {g} : b[f] = a[f]
      /\ g \in ShuffleShards /\ x \in S /\ a[g] \in Seq(S)
  BY DEF IsAdded, IsFiles
<1>2. /\ DOMAIN a[g] = 1..Len(a[g]) /\ Len(a[g]) \in Nat /\ DOMAIN b[g] = 1..n
      /\ \A i \in DOMAIN a[g] : b[g][i] = a[g][i]
      /\ b[g][n] = x
  BY <1>1, AppendPlaces
<1>3. n \notin DOMAIN a[g] /\ DOMAIN b[g] = DOMAIN a[g] \union {n}
  BY <1>2
<1> HIDE DEF n
<1>4. ASSUME NEW f \in ShuffleShards, NEW i \in DOMAIN b[f], ~(f = g /\ i = n)
      PROVE  i \in DOMAIN a[f] /\ b[f][i] = a[f][i]
  BY <1>1, <1>2, <1>3, <1>4
<1>5. ASSUME NEW f \in ShuffleShards, NEW i \in DOMAIN b[f], NEW j \in DOMAIN P(b[f][i]),
             ~(f = g /\ i = n)
      PROVE  Has(st, a, P(b[f][i])[j])
  BY <1>4, <1>5, <1>1 DEF Has, ValuesOf
<1>6. ASSUME NEW f \in ShuffleShards, NEW h \in ShuffleShards,
             NEW i \in DOMAIN b[f], NEW k \in DOMAIN b[h],
             NEW j \in DOMAIN P(b[f][i]), NEW l \in DOMAIN P(b[h][k]),
             P(b[f][i])[j] = P(b[h][k])[l]
      PROVE  f = h /\ i = k /\ j = l
  <2>1. CASE f = g /\ i = n /\ h = g /\ k = n
    BY <2>1, <1>2, <1>6 DEF Differ
  <2>2. CASE f = g /\ i = n /\ ~(h = g /\ k = n)
    <3>1. P(b[f][i])[j] \in ValuesOf(P(x))
      BY <2>2, <1>2 DEF ValuesOf
    <3>2. Has(st, a, P(b[h][k])[l])
      BY <2>2, <1>5
    <3> QED
      BY <3>1, <3>2, <1>6
  <2>3. CASE ~(f = g /\ i = n) /\ h = g /\ k = n
    <3>1. P(b[h][k])[l] \in ValuesOf(P(x))
      BY <2>3, <1>2 DEF ValuesOf
    <3>2. Has(st, a, P(b[f][i])[j])
      BY <2>3, <1>5
    <3> QED
      BY <3>1, <3>2, <1>6
  <2>4. CASE ~(f = g /\ i = n) /\ ~(h = g /\ k = n)
    <3>1. i \in DOMAIN a[f] /\ b[f][i] = a[f][i] /\ k \in DOMAIN a[h] /\ b[h][k] = a[h][k]
      BY <2>4, <1>4
    <3> HIDE DEF P
    <3> QED
      BY <3>1, <1>6, <1>1 DEF Distinct, P
  <2> QED
    BY <2>1, <2>2, <2>3, <2>4
<1> QED
  BY <1>1, <1>6 DEF Distinct

-----------------------------------------------------------------------------
(* What the types say of the files of a stage.                             *)

AllItems(st) == UNION {ItemsOf(st, f) : f \in ShuffleShards}

LEMMA StageFacts ==
  /\ stage = "hash" =>
       /\ Input(stage) = mapped /\ Output = written["hash"] /\ Follows[stage] = "sort"
       /\ Produced = [f \in ShuffleShards |-> written["hash"][f] \o pool[f]]
  /\ stage = "sort" =>
       /\ Input(stage) = written["hash"] /\ Output = chunks /\ Follows[stage] = "merge"
       /\ Produced = chunks
  /\ stage = "merge" =>
       /\ Input(stage) = chunks /\ Output = written["merge"] /\ Follows[stage] = "reduce"
       /\ Produced = [f \in ShuffleShards |-> written["merge"][f] \o pool[f]]
  /\ stage = "reduce" =>
       /\ Input(stage) = written["merge"] /\ Output = written["reduce"]
       /\ Follows[stage] = "over"
       /\ Produced = [f \in ShuffleShards |-> written["reduce"][f] \o pool[f]]
  /\ stage = "over" => Input(stage) = written["reduce"]
  /\ WritingStages = {"hash", "merge", "reduce"}
  /\ DOMAIN Follows = {"hash", "sort", "merge", "reduce"}
<1>1. DOMAIN Follows = {"hash", "sort", "merge", "reduce"}
      /\ Follows["hash"] = "sort" /\ Follows["sort"] = "merge"
      /\ Follows["merge"] = "reduce" /\ Follows["reduce"] = "over"
  BY DEF Follows
<1>2. ASSUME stage = "hash"
      PROVE  /\ Input(stage) = mapped /\ Output = written["hash"]
             /\ Produced = [f \in ShuffleShards |-> written["hash"][f] \o pool[f]]
  BY <1>2 DEF Input, Output, Produced
<1>3. ASSUME stage = "sort"
      PROVE  /\ Input(stage) = written["hash"] /\ Output = chunks /\ Produced = chunks
  BY <1>3 DEF Input, Output, Produced
<1>4. ASSUME stage = "merge"
      PROVE  /\ Input(stage) = chunks /\ Output = written["merge"]
             /\ Produced = [f \in ShuffleShards |-> written["merge"][f] \o pool[f]]
  BY <1>4 DEF Input, Output, Produced
<1>5. ASSUME stage = "reduce"
      PROVE  /\ Input(stage) = written["merge"] /\ Output = written["reduce"]
             /\ Produced = [f \in ShuffleShards |-> written["reduce"][f] \o pool[f]]
  BY <1>5 DEF Input, Output, Produced
<1>6. stage = "over" => Input(stage) = written["reduce"]
  BY DEF Input
<1> QED
  BY <1>1, <1>2, <1>3, <1>4, <1>5, <1>6 DEF WritingStages

LEMMA PairsFacts ==
  /\ \A x : PairsOf("hash", x) = <<x>> /\ PairsOf("sort", x) = <<x>> /\ PairsOf("merge", x) = x
  /\ \A x : PairsOf("reduce", x) = [j \in DOMAIN x.values |-> <<x.key, x.values[j]>>]
  /\ \A x : PairsOf("over", x) = [j \in DOMAIN x[2] |-> <<x[1], x[2][j]>>]
  BY DEF PairsOf

LEMMA WrittenFiles ==
  ASSUME OutputsType
  PROVE  /\ \A st \in WritingStages : IsFiles(AllItems(st), written[st])
         /\ stage \in WritingStages => IsFiles(AllItems(stage), pool)
         /\ stage \notin WritingStages => pool = NoOutput
         /\ IsFiles(Seq(Pairs), chunks)
<1>1. \A st : \A f \in ShuffleShards : ItemsOf(st, f) \subseteq AllItems(st)
  BY DEF AllItems
<1>2. \A st : \A f \in ShuffleShards : Seq(ItemsOf(st, f)) \subseteq Seq(AllItems(st))
  BY <1>1, SeqMonotonic
<1>3. \A f \in ShuffleShards : PairsFor(f) \subseteq Pairs
  BY DEF PairsFor
<1>4. \A f \in ShuffleShards : Seq(PairsFor(f)) \subseteq Seq(Pairs)
  BY <1>3, SeqMonotonic
<1>5. \A f \in ShuffleShards : Seq(Seq(PairsFor(f))) \subseteq Seq(Seq(Pairs))
  BY <1>4, SeqMonotonic
<1>6. stage \notin WritingStages => pool = NoOutput
  BY DEF OutputsType, NoOutput
<1> QED
  BY <1>2, <1>5, <1>6 DEF OutputsType, IsFiles

LEMMA ItemPairs ==
  /\ \A f : \A x \in PairsFor(f) : ValuesOf(PairsOf("sort", x)) \subseteq PairsFor(f)
  /\ \A f : \A x \in Seq(PairsFor(f)) : ValuesOf(PairsOf("merge", x)) \subseteq PairsFor(f)
  /\ \A f : \A x \in Merged(f) : ValuesOf(PairsOf("reduce", x)) \subseteq PairsFor(f)
  /\ \A x \in Calls : ValuesOf(PairsOf("over", x)) \subseteq Pairs
<1>1. \A f : \A x \in PairsFor(f) : ValuesOf(PairsOf("sort", x)) \subseteq PairsFor(f)
  BY DEF PairsOf, ValuesOf
<1>2. \A f : \A x \in Seq(PairsFor(f)) : ValuesOf(PairsOf("merge", x)) \subseteq PairsFor(f)
  BY PairsFacts, ValuesInSeq
<1>3. ASSUME NEW f, NEW x \in Merged(f)
      PROVE  ValuesOf(PairsOf("reduce", x)) \subseteq PairsFor(f)
  <2>1. \A v \in ValuesOf(x.values) : <<x.key, v>> \in PairsFor(f)
    BY DEF Merged
  <2>2. PairsOf("reduce", x) = [j \in DOMAIN x.values |-> <<x.key, x.values[j]>>]
    BY PairsFacts
  <2>3. \A j \in DOMAIN x.values : <<x.key, x.values[j]>> \in PairsFor(f)
    BY <2>1 DEF ValuesOf
  <2> QED
    BY <2>2, <2>3 DEF ValuesOf
<1>4. ASSUME NEW x \in Calls
      PROVE  ValuesOf(PairsOf("over", x)) \subseteq Pairs
  <2>1. \A v \in ValuesOf(x[2]) : <<x[1], v>> \in Pairs
    BY DEF Calls
  <2>2. PairsOf("over", x) = [j \in DOMAIN x[2] |-> <<x[1], x[2][j]>>]
    BY PairsFacts
  <2>3. \A j \in DOMAIN x[2] : <<x[1], x[2][j]>> \in Pairs
    BY <2>1 DEF ValuesOf
  <2> QED
    BY <2>2, <2>3 DEF ValuesOf
<1> QED
  BY <1>1, <1>2, <1>3, <1>4

(* The files a job reads are sequences, of as many as its readers are dealt. *)
LEMMA InputSeqs ==
  ASSUME OutputsType
  PROVE  \A f \in DOMAIN Input(stage) :
           \E S : Input(stage)[f] \in Seq(S)
<1> SUFFICES ASSUME NEW f \in DOMAIN Input(stage)
             PROVE  \E S : Input(stage)[f] \in Seq(S)
  OBVIOUS
<1>1. CASE stage = "hash"
  BY <1>1, StageFacts, MappedType, LenProperties, ElementOfSeq DEF OutputsType
<1>2. CASE stage # "hash"
  BY <1>2, StageFacts, WrittenFiles DEF OutputsType, IsFiles
<1> QED
  BY <1>1, <1>2

ReadsFiles == stage \in {"hash", "sort", "reduce"}

LEMMA ContentIsInput ==
  ASSUME ReadsFiles
  PROVE  \A f : Content(f) = Input(stage)[f]
  BY StageFacts DEF Content, ReadsFiles

LEMMA ServedPoints ==
  ASSUME SlicesType, ReadersPoint, serving # 0
  PROVE  /\ serving \in active /\ ReaderNow(serving) = reader
         /\ Points(serving, reader) /\ Points(serving, stored[serving])
         /\ reader \in Readers /\ stored[serving] \in Readers
         /\ active \subseteq ShuffleShards /\ serving \in ShuffleShards
<1>1. serving \in active /\ ReaderNow(serving) = reader
  BY DEF SlicesType, ReaderNow
<1>2. ShardsOf(stage) \subseteq ShuffleShards
  BY Shards DEF ShardsOf
<1> QED
  BY <1>1, <1>2 DEF SlicesType, ReadersPoint

LEMMA RemainingFacts ==
  ASSUME OutputsType, SlicesType, ReadersPoint, serving # 0, Remaining # <<>>
  PROVE  LET f == reader.files[1]
             n == reader.position
             c == Input(stage)[f]
         IN  /\ reader.files # <<>> /\ ReadsFiles
             /\ f \in DOMAIN Input(stage) /\ f = Head(reader.files)
             /\ n \in Nat /\ Len(c) \in Nat /\ n < Len(c) /\ DOMAIN c = 1..Len(c)
             /\ n + 1 \in DOMAIN c
             /\ Remaining = SubSeq(c, n + 1, Len(c)) /\ Len(Remaining) = Len(c) - n
             /\ Head(Remaining) = c[n + 1]
<1> DEFINE f == reader.files[1]
           n == reader.position
           c == Input(stage)[f]
<1>1. Points(serving, reader) /\ reader \in Readers
  BY ServedPoints
<1>2. reader.files # <<>>
  BY DEF Remaining
<1>3. stage # "merge"
  BY <1>1, <1>2 DEF Points
<1>4. f \in DOMAIN Input(stage) /\ f = Head(reader.files) /\ n \in Nat /\ n <= Len(c)
  BY <1>1, <1>2, TailFacts DEF Points, Readers
<1>5. PICK S : c \in Seq(S)
  BY <1>4, InputSeqs
<1>6. Len(c) \in Nat /\ DOMAIN c = 1..Len(c)
  BY <1>5, LenProperties
<1>7. stage # "over"
  BY <1>1, ServedPoints DEF SlicesType, ShardsOf
<1>8. ReadsFiles
  BY <1>3, <1>7, StageFacts DEF ReadsFiles, OutputsType
<1>9. Remaining = SubSeq(c, n + 1, Len(c))
  BY <1>2, <1>4, <1>8, ContentIsInput DEF Remaining
<1> HIDE DEF c, n
<1>10. n < Len(c)
  BY <1>4, <1>6, <1>9, SubSeqEmpty
<1>11. \A i \in n + 1..Len(c) : c[i] \in S
  BY <1>4, <1>5, <1>6, ElementOfSeq
<1>12. /\ SubSeq(c, n + 1, Len(c)) \in Seq(S)
       /\ Len(SubSeq(c, n + 1, Len(c))) = Len(c) - n
       /\ SubSeq(c, n + 1, Len(c))[1] = c[n + 1]
  <2>1. /\ SubSeq(c, n + 1, Len(c)) \in Seq(S)
        /\ Len(SubSeq(c, n + 1, Len(c))) =
             IF n + 1 <= Len(c) THEN Len(c) - (n + 1) + 1 ELSE 0
        /\ \A i \in 1..Len(c) - (n + 1) + 1 :
             SubSeq(c, n + 1, Len(c))[i] = c[n + 1 + i - 1]
    BY <1>4, <1>6, <1>11, SubSeqProperties
  <2>2. 1 \in 1..Len(c) - (n + 1) + 1 /\ n + 1 + 1 - 1 = n + 1
        /\ n + 1 <= Len(c) /\ Len(c) - (n + 1) + 1 = Len(c) - n
    BY <1>4, <1>6, <1>10
  <2> QED
    BY <2>1, <2>2
<1>13. Head(Remaining) = Remaining[1]
  BY <1>9, <1>12, TailFacts
<1> QED
  BY <1>2, <1>4, <1>6, <1>8, <1>9, <1>10, <1>12, <1>13 DEF c, n

LEMMA NothingRemains ==
  ASSUME OutputsType, SlicesType, ReadersPoint, serving # 0,
         Remaining = <<>>, reader.files # <<>>
  PROVE  LET f == reader.files[1]
         IN  /\ ReadsFiles /\ f \in DOMAIN Input(stage)
             /\ reader.position \in Nat /\ Len(Input(stage)[f]) \in Nat
             /\ DOMAIN Input(stage)[f] = 1..Len(Input(stage)[f])
             /\ reader.position >= Len(Input(stage)[f])
<1> DEFINE f == reader.files[1]
           n == reader.position
           c == Input(stage)[f]
<1>1. Points(serving, reader) /\ reader \in Readers
  BY ServedPoints
<1>3. stage # "merge"
  BY <1>1 DEF Points
<1>4. f \in DOMAIN Input(stage) /\ f = Head(reader.files) /\ n \in Nat /\ n <= Len(c)
  BY <1>1, TailFacts DEF Points, Readers
<1>5. PICK S : c \in Seq(S)
  BY <1>4, InputSeqs
<1>6. Len(c) \in Nat /\ DOMAIN c = 1..Len(c)
  BY <1>5, LenProperties
<1>7. stage # "over"
  BY <1>1, ServedPoints DEF SlicesType, ShardsOf
<1>8. ReadsFiles
  BY <1>3, <1>7, StageFacts DEF ReadsFiles, OutputsType
<1>9. Remaining = SubSeq(c, n + 1, Len(c))
  BY <1>4, <1>8, ContentIsInput DEF Remaining
<1> HIDE DEF c, n
<1>10. ~(n < Len(c))
  <2> SUFFICES ASSUME n < Len(c) PROVE FALSE
    OBVIOUS
  <2>1. \A i \in n + 1..Len(c) : c[i] \in S
    BY <1>4, <1>5, <1>6, ElementOfSeq
  <2>2. Len(SubSeq(c, n + 1, Len(c))) =
             IF n + 1 <= Len(c) THEN Len(c) - (n + 1) + 1 ELSE 0
    BY <1>4, <1>6, <2>1, SubSeqProperties
  <2>3. Len(Remaining) = 0
    BY EmptySeq
  <2> QED
    BY SMTT(30), <2>2, <2>3, <1>9, <1>4, <1>6
<1> QED
  BY <1>4, <1>6, <1>8, <1>10 DEF c, n

-----------------------------------------------------------------------------
(* Steps that read: they change the reader of the slice that runs, its     *)
(* output, and the chunks of the sort.                                     *)

PoolType ==
  /\ \A f \in ShuffleShards :
       IF stage \in WritingStages THEN pool[f] \in Seq(ItemsOf(stage, f)) ELSE pool[f] = <<>>
  /\ pool = [f \in ShuffleShards |-> pool[f]]
  /\ stage = "merge" => \A f \in ShuffleShards \ {serving} : pool[f] = <<>>
ChunksType ==
  DOMAIN chunks = ShuffleShards /\ \A f \in ShuffleShards : chunks[f] \in Seq(Seq(PairsFor(f)))

Reading ==
  /\ serving # 0
  /\ UNCHANGED <<mapped, stage, written, final, active, stored, serving, dropped>>
  /\ stage # "sort" => UNCHANGED chunks

LEMMA ReadingKeepsInput ==
  ASSUME Reading
  PROVE  /\ Input(stage)' = Input(stage) /\ Input(stage') = Input(stage)
         /\ Pairs' = Pairs /\ \A f : PairsFor(f)' = PairsFor(f)
         /\ \A st, f : ItemsOf(st, f)' = ItemsOf(st, f)
<1>1. Input(stage)' = Input(stage)
  <2>1. CASE stage = "merge"
    BY <2>1 DEF Input, Reading
  <2>2. CASE stage # "merge"
    BY <2>2 DEF Input, Reading
  <2> QED
    BY <2>1, <2>2
<1>2. Pairs' = Pairs
  BY DEF Pairs, Reading
<1> QED
  BY <1>1, <1>2 DEF Reading, PairsFor, ItemsOf, Merged, Calls

LEMMA ReadingOutputs ==
  ASSUME OutputsType, SlicesType, Reading, PoolType', ChunksType'
  PROVE  OutputsType'
<1>1. /\ mapped' = mapped /\ stage' = stage /\ written' = written
      /\ stage # "sort" => chunks' = chunks
  BY DEF Reading
<1>2. \A st, f : ItemsOf(st, f)' = ItemsOf(st, f)
  BY ReadingKeepsInput
<1>3. \A f \in ShuffleShards :
        IF stage' \in WritingStages THEN pool'[f] \in Seq(ItemsOf(stage, f)') ELSE pool'[f] = <<>>
  BY <1>1 DEF PoolType
<1>4. \A st \in WritingStages : \A f \in ShuffleShards :
        written'[st][f] \in Seq(ItemsOf(st, f)')
  BY <1>1, <1>2 DEF OutputsType
<1>5. /\ \A f \in ShuffleShards : chunks'[f] \in Seq(Seq(PairsFor(f)'))
      /\ DOMAIN chunks' = ShuffleShards
  BY DEF ChunksType
<1>6. pool' = [f \in ShuffleShards |-> pool'[f]]
  BY DEF PoolType
<1> QED
  BY <1>1, <1>3, <1>4, <1>5, <1>6 DEF OutputsType

LEMMA ReadingSlices ==
  ASSUME SlicesType, Reading, PoolType', reader' \in Readers, failures' \in 0..MaxFailures
  PROVE  SlicesType'
<1>1. /\ stage' = stage /\ final' = final /\ active' = active /\ stored' = stored
      /\ serving' = serving /\ serving # 0 /\ dropped' = dropped
  BY DEF Reading
<1>2. ShardsOf(stage') = ShardsOf(stage)
  BY <1>1
<1>3. stage' = "merge" => \A f \in ShuffleShards \ {serving'} : pool'[f] = <<>>
  BY DEF PoolType
<1> QED
  BY <1>1, <1>2, <1>3 DEF SlicesType

LEMMA ReadingPoints ==
  ASSUME OutputsType, SlicesType, ReadersPoint, Reading, Points(serving, reader)',
         stage = "merge" => \A i \in DOMAIN stored[serving].offsets :
                              stored[serving].offsets[i] <= reader'.offsets[i]
  PROVE  ReadersPoint'
<1>1. /\ stage' = stage /\ active' = active /\ stored' = stored
      /\ serving' = serving /\ serving # 0
      /\ stage # "sort" => chunks' = chunks
  BY DEF Reading
<1>2. Input(stage)' = Input(stage) /\ Pairs' = Pairs
  BY ReadingKeepsInput
<1>3. \A s, rd : Points(s, rd) =>
        /\ \A n \in DOMAIN rd.files : rd.files[n] \in DOMAIN Input(stage)'
        /\ stage' = "sort" => rd.files \in {<<>>, <<s>>}
        /\ rd.files # <<>> => rd.position <= Len(Input(stage)'[rd.files[1]])
        /\ IF stage' = "merge"
           THEN /\ rd.files = <<>> /\ DOMAIN rd.offsets = DOMAIN chunks'[s]
                /\ \A i \in DOMAIN rd.offsets : rd.offsets[i] <= Len(chunks'[s][i])
           ELSE rd.offsets = <<>>
        /\ rd.key = NoKey <=> rd.values = <<>>
        /\ rd.key # NoKey => stage' \in {"merge", "reduce"}
        /\ \A v \in ValuesOf(rd.values) : <<rd.key, v>> \in Pairs'
        /\ stage' = "merge" /\ rd.key # NoKey => Hash(rd.key) = s
  <2> SUFFICES ASSUME NEW s, NEW rd, Points(s, rd)
        PROVE
        /\ \A n \in DOMAIN rd.files : rd.files[n] \in DOMAIN Input(stage)'
        /\ stage' = "sort" => rd.files \in {<<>>, <<s>>}
        /\ rd.files # <<>> => rd.position <= Len(Input(stage)'[rd.files[1]])
        /\ IF stage' = "merge"
           THEN /\ rd.files = <<>> /\ DOMAIN rd.offsets = DOMAIN chunks'[s]
                /\ \A i \in DOMAIN rd.offsets : rd.offsets[i] <= Len(chunks'[s][i])
           ELSE rd.offsets = <<>>
        /\ rd.key = NoKey <=> rd.values = <<>>
        /\ rd.key # NoKey => stage' \in {"merge", "reduce"}
        /\ \A v \in ValuesOf(rd.values) : <<rd.key, v>> \in Pairs'
        /\ stage' = "merge" /\ rd.key # NoKey => Hash(rd.key) = s
    OBVIOUS
  <2>1. stage = "merge" => chunks' = chunks
    BY <1>1
  <2> QED
    BY <1>1, <1>2, <2>1 DEF Points
<1>4. ASSUME NEW s \in active
      PROVE  Points(s, stored[s])'
  BY <1>1, <1>3 DEF ReadersPoint, Points, Hash
<1>5. ASSUME NEW s \in active
      PROVE  Points(s, ReaderNow(s))'
  <2>1. CASE s = serving
    <3>1. ReaderNow(s)' = reader'
      BY <1>1, <2>1 DEF ReaderNow
    <3> QED
      BY <3>1, <1>1, <2>1 DEF Points
  <2>2. CASE s # serving
    <3>1. ReaderNow(s)' = stored[s]'
      BY <1>1, <2>2 DEF ReaderNow
    <3> QED
      BY <3>1, <1>4 DEF Points
  <2> QED
    BY <2>1, <2>2
<1>6. ASSUME NEW s \in active, stage = "merge"
      PROVE  \A i \in DOMAIN stored[s].offsets :
               stored[s].offsets[i] <= ReaderNow(s)'.offsets[i]
  <2>1. CASE s = serving
    BY <1>1, <1>6, <2>1 DEF ReaderNow
  <2>2. CASE s # serving
    <3>1. ReaderNow(s)' = ReaderNow(s)
      BY <1>1, <2>2 DEF ReaderNow
    <3> QED
      BY <3>1, <1>6 DEF ReadersPoint
  <2> QED
    BY <2>1, <2>2
<1>7. \A s \in active : stage = "merge" => stored[s].key = NoKey
  BY DEF ReadersPoint
<1> QED
  BY <1>1, <1>4, <1>5, <1>6, <1>7 DEF ReadersPoint

(* The keys, and the pairs, are numbers. *)
LEMMA PairNumbers ==
  ASSUME OutputsType, NEW p \in Pairs
  PROVE  /\ p = <<p[1], p[2]>> /\ p[1] \in Nat /\ p[1] # NoKey /\ p[1] # 0 /\ p[2] \in Nat
         /\ Hash(p[1]) \in ShuffleShards /\ p \in PairsFor(Hash(p[1]))
<1>1. Pairs \subseteq (Nat \ {0}) \X Nat
  BY MappedType DEF OutputsType
<1>2. p = <<p[1], p[2]>> /\ p[1] \in Nat /\ p[1] # 0 /\ p[2] \in Nat
  BY <1>1
<1> QED
  BY <1>2, HashType DEF NoKey, PairsFor

(* One more item in one pool. *)
LEMMA PoolAdded ==
  ASSUME OutputsType, SlicesType, stage \in WritingStages, UNCHANGED <<mapped, stage, serving>>,
         NEW g \in ShuffleShards, NEW x \in ItemsOf(stage, g), Emit(g, x),
         stage = "merge" => g = serving
  PROVE  /\ IsAdded(AllItems(stage), pool, g, x, pool') /\ PoolType'
<1>1. IsFiles(AllItems(stage), pool)
  BY WrittenFiles
<1>2. x \in AllItems(stage)
  BY DEF AllItems
<1>3. pool' = [pool EXCEPT ![g] = Append(@, x)]
  BY DEF Emit
<1>4. pool[g] \in Seq(ItemsOf(stage, g)) /\ DOMAIN pool = ShuffleShards
  BY <1>1 DEF OutputsType, IsFiles
<1>5. pool'[g] = Append(pool[g], x)
  BY <1>3, <1>4
<1>6. pool'[g] \in Seq(ItemsOf(stage, g))
  BY <1>4, <1>5
<1>7. \A f \in ShuffleShards \ {g} : pool'[f] = pool[f]
  BY <1>3, <1>4
<1>8. \A st, f : ItemsOf(st, f)' = ItemsOf(st, f)
  <2>1. Pairs' = Pairs
    BY DEF Pairs
  <2> QED
    BY <2>1 DEF ItemsOf, PairsFor, Merged, Calls
<1>9. \A f \in ShuffleShards : pool'[f] \in Seq(ItemsOf(stage, f))
  BY <1>6, <1>7 DEF OutputsType
<1>10. pool' = [f \in ShuffleShards |-> pool'[f]]
  BY <1>3, <1>4
<1>11. stage = "merge" => \A f \in ShuffleShards \ {serving} : pool'[f] = <<>>
  BY <1>7 DEF SlicesType
<1>12. PoolType'
  <2>1. \A f \in ShuffleShards : pool'[f] \in Seq(ItemsOf(stage, f)')
    BY <1>8, <1>9
  <2> QED
    BY <1>10, <1>11, <2>1 DEF PoolType
<1> QED
  BY <1>1, <1>2, <1>3, <1>12 DEF IsAdded

LEMMA HashStep ==
  ASSUME TypesInv, HashRecord
  PROVE  LET f == reader.files[1]
             n == reader.position + 1
             p == mapped[f][n]
         IN  /\ stage = "hash" /\ Reading /\ chunks' = chunks /\ failures' = failures
             /\ reader.files # <<>> /\ f \in DOMAIN mapped /\ n \in DOMAIN mapped[f]
             /\ p \in Pairs /\ reader.position \in Nat
             /\ IsAdded(AllItems(stage), pool, Hash(p[1]), p, pool')
             /\ reader' = [reader EXCEPT !.position = n, !.some = TRUE]
             /\ TypesInv'
<1> DEFINE f == reader.files[1]
           n == reader.position + 1
           p == mapped[f][n]
<1>0. OutputsType /\ SlicesType /\ ReadersPoint
  BY DEF TypesInv
<1>1. stage = "hash" /\ serving # 0 /\ Remaining # <<>> /\ Emit(Hash(Head(Remaining)[1]), Head(Remaining))
      /\ reader' = [reader EXCEPT !.position = n, !.some = TRUE]
      /\ UNCHANGED <<mapped, stage, written, chunks, final, active, stored, serving,
                     failures, dropped>>
  BY DEF HashRecord
<1>2. Reading /\ Input(stage) = mapped
  BY <1>1, StageFacts DEF Reading
<1>3. /\ reader.files # <<>> /\ f \in DOMAIN mapped /\ n \in DOMAIN mapped[f]
      /\ reader.position \in Nat /\ n <= Len(mapped[f])
      /\ Head(Remaining) = p
  BY <1>0, <1>1, <1>2, RemainingFacts
<1>4. p \in Pairs
  BY <1>3 DEF Pairs
<1> HIDE DEF p
<1>5. Hash(p[1]) \in ShuffleShards /\ p \in PairsFor(Hash(p[1]))
  BY <1>0, <1>4, PairNumbers
<1>6. p \in ItemsOf(stage, Hash(p[1])) /\ stage \in WritingStages
  BY <1>1, <1>5, StageFacts DEF ItemsOf
<1>7. Emit(Hash(p[1]), p)
  BY <1>1, <1>3
<1>8. IsAdded(AllItems(stage), pool, Hash(p[1]), p, pool') /\ PoolType'
  BY <1>0, <1>1, <1>5, <1>6, <1>7, PoolAdded
<1>9. Points(serving, reader) /\ reader \in Readers
  BY <1>0, <1>1, ServedPoints
<1>10. reader' \in Readers
  <2>1. n \in Nat
    BY <1>3
  <2> HIDE DEF n
  <2> QED
    BY <2>1, <1>9, <1>1 DEF Readers
<1>11. /\ reader'.files = reader.files /\ reader'.position = n /\ reader'.offsets = reader.offsets
       /\ reader'.key = reader.key /\ reader'.values = reader.values
  BY <1>9, <1>1 DEF Readers
<1>12. Points(serving, reader)'
  <2>1. Input(stage)' = Input(stage) /\ Pairs' = Pairs
    BY <1>2, ReadingKeepsInput
  <2>2. n <= Len(Input(stage)'[reader'.files[1]])
    BY <2>1, <1>2, <1>3, <1>11
  <2> QED
    BY <2>1, <2>2, <1>1, <1>9, <1>11 DEF Points
<1>13. ChunksType'
  <2>1. \A g : PairsFor(g)' = PairsFor(g)
    BY <1>2, ReadingKeepsInput
  <2> QED
    BY <2>1, <1>0, <1>1 DEF ChunksType, OutputsType
<1>14. failures' \in 0..MaxFailures
  BY <1>0, <1>1 DEF SlicesType
<1>15. TypesInv'
  BY <1>0, <1>1, <1>2, <1>8, <1>10, <1>12, <1>13, <1>14,
     ReadingOutputs, ReadingSlices, ReadingPoints DEF TypesInv
<1> QED
  BY <1>1, <1>2, <1>3, <1>4, <1>8, <1>15 DEF p

-----------------------------------------------------------------------------
(* Sorting a batch.                                                        *)

LEMMA OrdersPermute ==
  ASSUME NEW n \in Nat, NEW b, DOMAIN b = 1..n, \A i \in 1..n : b[i][1] \in Nat,
         NEW p \in SortedOrders(b)
  PROVE  /\ p \in [1..n -> 1..n]
         /\ \A i, j \in 1..n : p[i] = p[j] => i = j
         /\ \A k \in 1..n : \E i \in 1..n : p[i] = k
         /\ \A i, j \in 1..n : i < j => b[p[i]][1] <= b[p[j]][1]
<1>1. /\ p \in [1..n -> 1..n]
      /\ \A i, j \in 1..n : i < j =>
           \/ b[p[i]][1] < b[p[j]][1]
           \/ b[p[i]][1] = b[p[j]][1] /\ p[i] < p[j]
  BY DEF SortedOrders
<1>2. ASSUME NEW i \in 1..n, NEW j \in 1..n, i < j
      PROVE  p[i] # p[j] /\ b[p[i]][1] <= b[p[j]][1]
  <2>1. PICK k, l, x, y : /\ k = p[i] /\ l = p[j] /\ x = b[k][1] /\ y = b[l][1]
                          /\ k \in 1..n /\ l \in 1..n
    BY <1>1
  <2>2. x \in Nat /\ y \in Nat
    BY <2>1
  <2>3. x < y \/ (x = y /\ k < l)
    BY <1>1, <1>2, <2>1
  <2>4. x <= y
    BY <2>2, <2>3
  <2>5. k # l
    <3> SUFFICES ASSUME k = l PROVE FALSE
      OBVIOUS
    <3>1. x = y
      BY <2>1
    <3> QED
      BY <3>1, <2>1, <2>2, <2>3
  <2> QED
    BY <2>1, <2>4, <2>5
<1>3. ASSUME NEW i \in 1..n, NEW j \in 1..n, p[i] = p[j] PROVE i = j
  <2>1. i < j \/ j < i \/ i = j
    OBVIOUS
  <2> QED
    BY <2>1, <1>2, <1>3
<1>4. p \in Injection(1..n, 1..n)
  BY <1>1, <1>3 DEF Injection, IsInjective
<1>5. IsFiniteSet(1..n)
  <2>1. 1 \in Int /\ n \in Int
    OBVIOUS
  <2> QED
    BY <2>1, FS_Interval
<1>6. p \in Surjection(1..n, 1..n)
  <2> DEFINE S == 1..n
  <2>1. p \in Injection(S, S) /\ IsFiniteSet(S)
    BY <1>4, <1>5
  <2> HIDE DEF S
  <2>2. p \in Surjection(S, S)
    BY <2>1, FS_Injection
  <2> QED
    BY <2>2 DEF S
<1>7. \A k \in 1..n : \E i \in 1..n : p[i] = k
  BY <1>6 DEF Surjection
<1> QED
  BY <1>1, <1>2, <1>3, <1>7

(* The first items that remain, as many as a batch takes. *)
LEMMA BatchFacts ==
  ASSUME OutputsType, SlicesType, ReadersPoint, serving # 0, Remaining # <<>>,
         NEW n \in Nat, n <= Len(Remaining), n > 0
  PROVE  LET f == reader.files[1]
             c == Input(stage)[f]
             b == SubSeq(Remaining, 1, n)
         IN  /\ DOMAIN b = 1..n
             /\ \A i \in 1..n : b[i] = c[reader.position + i]
             /\ reader.position + n <= Len(c)
<1> DEFINE f == reader.files[1]
           c == Input(stage)[f]
           m == reader.position
           r == Remaining
<1>1. /\ f \in DOMAIN Input(stage) /\ m \in Nat /\ Len(c) \in Nat /\ DOMAIN c = 1..Len(c)
      /\ r = SubSeq(c, m + 1, Len(c)) /\ Len(r) = Len(c) - m /\ m < Len(c)
  BY RemainingFacts
<1>2. PICK S : c \in Seq(S)
  BY <1>1, InputSeqs
<1>3. PICK d : d = c
  OBVIOUS
<1>31. PICK l \in Nat, k \in Nat : l = Len(c) /\ k = m
  BY <1>1
<1>4. /\ k < l /\ DOMAIN d = 1..l /\ d \in Seq(S)
      /\ r = SubSeq(d, k + 1, l) /\ Len(r) = l - k /\ n <= l - k
  BY <1>1, <1>2, <1>3, <1>31
<1> HIDE DEF c, m, r
<1>5. \A i \in k + 1..l : d[i] \in S
  <2>1. \A i \in k + 1..l : i \in 1..l
    OBVIOUS
  <2>2. \A i \in 1..l : d[i] \in S
    BY <1>3, <1>4, ElementOfSeq
  <2> QED
    BY <2>1, <2>2
<1>6. /\ SubSeq(d, k + 1, l) \in Seq(S)
      /\ \A i \in 1..l - (k + 1) + 1 : SubSeq(d, k + 1, l)[i] = d[k + 1 + i - 1]
  <2>1. k + 1 \in Nat
    OBVIOUS
  <2> QED
    BY <2>1, <1>5, SubSeqProperties
<1>7. r \in Seq(S) /\ \A i \in 1..l - k : r[i] = d[k + i]
  <2>1. \A i \in 1..l - k : i \in 1..l - (k + 1) + 1 /\ k + 1 + i - 1 = k + i
    OBVIOUS
  <2> QED
    BY <1>4, <1>6, <2>1
<1>9. \A i \in 1..n : r[i] \in S
  <2>1. \A i \in 1..n : i \in 1..Len(r)
    BY <1>4
  <2> QED
    BY <2>1, <1>7, ElementOfSeq
<1>10. /\ SubSeq(r, 1, n) \in Seq(S) /\ Len(SubSeq(r, 1, n)) = n
       /\ \A i \in 1..n : SubSeq(r, 1, n)[i] = r[i]
  <2>1. /\ SubSeq(r, 1, n) \in Seq(S)
        /\ Len(SubSeq(r, 1, n)) = IF 1 <= n THEN n - 1 + 1 ELSE 0
        /\ \A i \in 1..n - 1 + 1 : SubSeq(r, 1, n)[i] = r[1 + i - 1]
    BY <1>9, SubSeqProperties
  <2>2. n - 1 + 1 = n /\ \A i \in 1..n : 1 + i - 1 = i
    OBVIOUS
  <2> QED
    BY <2>1, <2>2
<1>11. k + n <= l /\ \A i \in 1..n : i \in 1..l - k
  BY <1>4
<1>12. DOMAIN SubSeq(r, 1, n) = 1..n
  BY <1>10, LenProperties
<1> QED
  BY <1>3, <1>31, <1>7, <1>10, <1>11, <1>12 DEF c, m, r

(* What a batch of n items from place m of file c becomes. *)
SortedFrom(new, c, m, n) ==
  /\ DOMAIN new = 1..n
  /\ \A i, j \in 1..n : i < j => new[i][1] <= new[j][1]
  /\ \E p \in [1..n -> 1..n] : /\ \A i, j \in 1..n : p[i] = p[j] => i = j
                               /\ \A i \in 1..n : new[i] = c[m + p[i]]

BatchBy(b, p) == [i \in DOMAIN b |-> b[p[i]]]

LEMMA Sorting ==
  ASSUME NEW S, NEW c \in Seq(S), \A x \in S : x[1] \in Nat,
         NEW m \in Nat, NEW n \in Nat, m + n <= Len(c),
         NEW b, DOMAIN b = 1..n, \A i \in 1..n : b[i] = c[m + i],
         NEW p \in SortedOrders(b), NEW new, new = BatchBy(b, p)
  PROVE  /\ new \in Seq(S) /\ SortedFrom(new, c, m, n)
         /\ \A i \in 1..n : c[m + i] \in ValuesOf(new)
<1>1. \A i \in 1..n : m + i \in 1..Len(c)
  BY LenProperties
<1>2. \A i \in 1..n : c[m + i] \in S
  BY <1>1, ElementOfSeq
<1>3. \A i \in 1..n : b[i] \in S /\ b[i][1] \in Nat
  BY <1>2
<1>4. /\ p \in [1..n -> 1..n]
      /\ \A i, j \in 1..n : p[i] = p[j] => i = j
      /\ \A k \in 1..n : \E i \in 1..n : p[i] = k
      /\ \A i, j \in 1..n : i < j => b[p[i]][1] <= b[p[j]][1]
  BY <1>3, OrdersPermute
<1>5. new = [i \in 1..n |-> b[p[i]]]
  BY DEF BatchBy
<1>6. DOMAIN new = 1..n /\ \A i \in 1..n : new[i] = b[p[i]]
  BY <1>5
<1>7. \A i \in 1..n : new[i] \in S /\ new[i] = c[m + p[i]]
  BY <1>3, <1>4, <1>6
<1>8. new \in Seq(S)
  <2>1. new \in [1..n -> S]
    BY <1>5, <1>7
  <2> QED
    BY <2>1
<1>9. \A i, j \in 1..n : i < j => new[i][1] <= new[j][1]
  <2> SUFFICES ASSUME NEW i \in 1..n, NEW j \in 1..n, i < j
               PROVE  new[i][1] <= new[j][1]
    OBVIOUS
  <2>1. b[p[i]][1] <= b[p[j]][1]
    BY <1>4
  <2> QED
    BY <2>1, <1>6
<1>10. SortedFrom(new, c, m, n)
  BY <1>4, <1>6, <1>7, <1>9 DEF SortedFrom
<1>11. ASSUME NEW k \in 1..n PROVE c[m + k] \in ValuesOf(new)
  <2>1. PICK i \in 1..n : p[i] = k
    BY <1>4
  <2>2. new[i] = c[m + k]
    BY <1>7, <2>1
  <2> QED
    BY <2>2, <1>6 DEF ValuesOf
<1> QED
  BY <1>8, <1>10, <1>11

SortMade(n, new) ==
  LET m == reader.position
      c == written["hash"][serving]
  IN  /\ stage = "sort" /\ Reading /\ pool' = pool /\ reader.files = <<serving>>
      /\ c \in Seq(PairsFor(serving)) /\ m \in Nat /\ n \in Nat \ {0} /\ m + n <= Len(c)
      /\ IsAdded(Seq(Pairs), chunks, serving, new, chunks')
      /\ new \in Seq(PairsFor(serving))
      /\ \A i \in 1..n : c[m + i] \in ValuesOf(new)
      /\ reader'.files \in {<<>>, <<serving>>} /\ reader'.key = NoKey /\ reader'.values = <<>>
      /\ \A i \in DOMAIN c : InFiles(reader', serving, i) <=> i > m + n
      /\ failures' = 0 => failures = 0 /\ SortedFrom(new, c, m, n)

LEMMA SortStep ==
  ASSUME TypesInv, SortBatch
  PROVE  TypesInv' /\ \E n, new : SortMade(n, new)
<1> DEFINE m == reader.position
           c == written["hash"][serving]
           n == IF Len(Remaining) < BatchSize THEN Len(Remaining) ELSE BatchSize
           b == SubSeq(Remaining, 1, n)
<1>0. OutputsType /\ SlicesType /\ ReadersPoint
  BY DEF TypesInv
<1>1. stage = "sort" /\ serving # 0 /\ Remaining # <<>>
      /\ UNCHANGED <<mapped, stage, written, final, active, stored, serving, pool, dropped>>
  BY DEF SortBatch
<1>2. PICK p \in SortedOrders(b) :
        LET sorted == [i \in DOMAIN b |-> b[p[i]]] IN
        /\ \/ chunks' = [chunks EXCEPT ![serving] = Append(@, sorted)]
              /\ UNCHANGED failures
           \/ chunks' = [chunks EXCEPT ![serving] = Append(@, sorted \o sorted)]
              /\ failures < MaxFailures /\ failures' = failures + 1
        /\ reader' = IF n < BatchSize
                     THEN [reader EXCEPT !.files = Tail(@), !.position = 0, !.some = TRUE]
                     ELSE [reader EXCEPT !.position = @ + n, !.some = TRUE]
  BY DEF SortBatch
<1> DEFINE sorted == [i \in DOMAIN b |-> b[p[i]]]
<1>3. Reading /\ Input(stage) = written["hash"]
  BY <1>1, StageFacts DEF Reading
<1>4. /\ Points(serving, reader) /\ reader \in Readers /\ serving \in ShuffleShards
      /\ serving \in active
  BY <1>0, <1>1, ServedPoints
<1>5. /\ reader.files # <<>> /\ m \in Nat /\ Len(Remaining) = Len(Input(stage)[reader.files[1]]) - m
      /\ Len(Input(stage)[reader.files[1]]) \in Nat /\ m < Len(Input(stage)[reader.files[1]])
  BY <1>0, <1>1, RemainingFacts
<1>6. reader.files = <<serving>> /\ reader.files[1] = serving
  BY <1>1, <1>4, <1>5 DEF Points
<1>7. /\ m \in Nat /\ Len(Remaining) = Len(c) - m /\ Len(c) \in Nat /\ m < Len(c)
  BY <1>3, <1>5, <1>6
<1>8. /\ n \in Nat /\ n > 0 /\ n <= Len(Remaining)
      /\ n < BatchSize => n = Len(c) - m
      /\ m + n <= Len(c)
  BY <1>7, Shards
<1> HIDE DEF n
<1>9. DOMAIN b = 1..n /\ \A i \in 1..n : b[i] = c[m + i]
  <2>1. \A i \in 1..n : b[i] = Input(stage)[reader.files[1]][m + i]
    BY <1>0, <1>1, <1>8, BatchFacts
  <2>2. DOMAIN b = 1..n
    BY <1>0, <1>1, <1>8, BatchFacts
  <2> QED
    BY <2>1, <2>2, <1>3, <1>6
<1>10. c \in Seq(PairsFor(serving)) /\ \A x \in PairsFor(serving) : x[1] \in Nat
  <2>1. c \in Seq(ItemsOf("hash", serving))
    BY <1>0, <1>4, StageFacts DEF OutputsType
  <2>2. ItemsOf("hash", serving) = PairsFor(serving)
    BY DEF ItemsOf
  <2>3. \A x \in PairsFor(serving) : x[1] \in Nat
    BY <1>0, PairNumbers DEF PairsFor
  <2> QED
    BY <2>1, <2>2, <2>3
<1> HIDE DEF b, m, c
<1>11. /\ sorted \in Seq(PairsFor(serving)) /\ SortedFrom(sorted, c, m, n)
       /\ \A i \in 1..n : c[m + i] \in ValuesOf(sorted)
  <2>1. p \in SortedOrders(b)
    BY <1>2
  <2>2. m \in Nat /\ n \in Nat /\ m + n <= Len(c)
    BY <1>7, <1>8
  <2>3. sorted = BatchBy(b, p)
    BY DEF BatchBy
  <2>4. PICK cc, mm, bb, T : cc = c /\ mm = m /\ bb = b /\ T = PairsFor(serving)
    OBVIOUS
  <2>5. /\ mm \in Nat /\ mm + n <= Len(cc) /\ p \in SortedOrders(bb) /\ DOMAIN bb = 1..n
        /\ \A i \in 1..n : bb[i] = cc[mm + i]
        /\ cc \in Seq(T) /\ \A x \in T : x[1] \in Nat
    BY <2>1, <2>2, <2>4, <1>9, <1>10
  <2> DEFINE new == BatchBy(bb, p)
  <2> HIDE DEF sorted, new
  <2>6. /\ new \in Seq(T) /\ SortedFrom(new, cc, mm, n)
        /\ \A i \in 1..n : cc[mm + i] \in ValuesOf(new)
    BY <2>2, <2>5, Sorting DEF new
  <2> QED
    BY <2>3, <2>4, <2>6 DEF new
<1>12. /\ \/ chunks' = [chunks EXCEPT ![serving] = Append(@, sorted)]
             /\ UNCHANGED failures
          \/ chunks' = [chunks EXCEPT ![serving] = Append(@, sorted \o sorted)]
             /\ failures < MaxFailures /\ failures' = failures + 1
       /\ reader' = IF n < BatchSize
                    THEN [reader EXCEPT !.files = Tail(@), !.position = 0, !.some = TRUE]
                    ELSE [reader EXCEPT !.position = @ + n, !.some = TRUE]
  BY <1>2
<1> HIDE DEF sorted
<1>13. PICK new : /\ chunks' = [chunks EXCEPT ![serving] = Append(@, new)]
                  /\ \/ new = sorted /\ failures' = failures
                     \/ new = sorted \o sorted /\ failures < MaxFailures /\ failures' = failures + 1
  BY <1>12
<1>14. new \in Seq(PairsFor(serving)) /\ ValuesOf(new) = ValuesOf(sorted)
  <2>1. /\ sorted \o sorted \in Seq(PairsFor(serving))
        /\ ValuesOf(sorted \o sorted) = ValuesOf(sorted) \union ValuesOf(sorted)
    BY <1>11, ValuesOfConcat
  <2>2. CASE new = sorted
    BY <2>2, <1>11
  <2>3. CASE new = sorted \o sorted
    BY <2>1, <2>3
  <2> QED
    BY <2>2, <2>3, <1>13
<1>15. failures' \in 0..MaxFailures /\ (failures' = 0 => failures = 0 /\ new = sorted)
  <2>1. failures \in 0..MaxFailures /\ MaxFailures \in Nat
    BY <1>0, Shards DEF SlicesType
  <2>2. CASE failures' = failures /\ new = sorted
    BY <2>1, <2>2
  <2>3. CASE failures < MaxFailures /\ failures' = failures + 1
    BY <2>1, <2>3
  <2> QED
    BY <1>13, <2>2, <2>3
<1>16. /\ IsAdded(Seq(Pairs), chunks, serving, new, chunks')
       /\ ChunksType'
  <2>1. IsFiles(Seq(Pairs), chunks)
    BY <1>0, WrittenFiles
  <2>2. PairsFor(serving) \subseteq Pairs
    BY DEF PairsFor
  <2>3. new \in Seq(Pairs)
    BY <1>14, <2>2, SeqMonotonic
  <2>4. chunks[serving] \in Seq(Seq(PairsFor(serving))) /\ DOMAIN chunks = ShuffleShards
    BY <1>0, <1>4 DEF OutputsType
  <2>5. /\ chunks'[serving] = Append(chunks[serving], new)
        /\ \A f \in ShuffleShards \ {serving} : chunks'[f] = chunks[f]
        /\ DOMAIN chunks' = ShuffleShards
    BY <1>13, <2>4, <1>4
  <2>6. chunks'[serving] \in Seq(Seq(PairsFor(serving)))
    BY <2>4, <2>5, <1>14
  <2>7. \A f \in ShuffleShards : chunks'[f] \in Seq(Seq(PairsFor(f)))
    BY <2>5, <2>6, <1>0 DEF OutputsType
  <2>8. \A g : PairsFor(g)' = PairsFor(g)
    BY <1>3, ReadingKeepsInput
  <2>9. ChunksType'
    <3>1. \A f \in ShuffleShards : Seq(Seq(PairsFor(f)')) = Seq(Seq(PairsFor(f)))
      BY <2>8
    <3>2. \A f \in ShuffleShards : chunks'[f] \in Seq(Seq(PairsFor(f)'))
      BY <2>7, <3>1
    <3> QED
      BY <2>5, <3>2 DEF ChunksType
  <2> QED
    BY <1>4, <1>13, <2>1, <2>3, <2>9 DEF IsAdded
<1>17. PoolType'
  <2>1. \A f \in ShuffleShards : pool[f] = <<>>
    BY <1>0, <1>1 DEF OutputsType, WritingStages
  <2>2. pool = [f \in ShuffleShards |-> pool[f]]
    BY <1>0 DEF OutputsType
  <2> QED
    BY <2>1, <2>2, <1>1 DEF PoolType, WritingStages
<1>18. /\ reader' \in Readers /\ reader'.files \in {<<>>, <<serving>>}
       /\ reader'.key = reader.key /\ reader'.values = reader.values
       /\ reader'.offsets = reader.offsets
       /\ n < BatchSize => reader'.files = <<>>
       /\ ~(n < BatchSize) => reader'.files = <<serving>> /\ reader'.position = m + n
  <2>1. Tail(<<serving>>) = <<>>
    OBVIOUS
  <2>2. CASE n < BatchSize
    <3>1. reader' = [reader EXCEPT !.files = <<>>, !.position = 0, !.some = TRUE]
      BY <2>1, <2>2, <1>6, <1>12
    <3>2. <<>> \in Seq(Nat)
      OBVIOUS
    <3> QED
      BY <3>1, <3>2, <2>2, <1>4 DEF Readers
  <2>3. CASE ~(n < BatchSize)
    <3>1. PICK k \in Nat : k = m + n
      BY <1>7, <1>8
    <3>2. reader' = [reader EXCEPT !.position = k, !.some = TRUE]
      BY <2>3, <3>1, <1>12 DEF m
    <3> QED
      BY <3>1, <3>2, <2>3, <1>4, <1>6 DEF Readers
  <2> QED
    BY <2>2, <2>3
<1>19. reader.key = NoKey /\ reader.values = <<>> /\ reader.offsets = <<>>
  BY <1>1, <1>4 DEF Points
<1>20. Points(serving, reader)'
  <2>1. Input(stage)' = Input(stage) /\ Pairs' = Pairs
    BY <1>3, ReadingKeepsInput
  <2>2. reader'.files # <<>> => reader'.position <= Len(c)
    BY <1>8, <1>18
  <2>3. Input(stage)'[serving] = c /\ serving \in DOMAIN Input(stage)'
    BY <2>1, <1>3, <1>4, <1>6 DEF c, Points
  <2>4. /\ \A i \in DOMAIN reader'.files : reader'.files[i] = serving
        /\ reader'.files # <<>> => reader'.files[1] = serving
    BY <1>18
  <2>5. /\ reader'.key = NoKey /\ reader'.values = <<>> /\ reader'.offsets = <<>>
    BY <1>18, <1>19
  <2> QED
    BY <2>2, <2>3, <2>4, <2>5, <1>1, <1>18, ValuesOfEmpty DEF Points
<1>21. TypesInv'
  BY <1>0, <1>1, <1>3, <1>15, <1>16, <1>17, <1>18, <1>20,
     ReadingOutputs, ReadingSlices, ReadingPoints DEF TypesInv
<1>22. ASSUME NEW i \in DOMAIN c
       PROVE  InFiles(reader', serving, i) <=> i > m + n
  <2>1. DOMAIN c = 1..Len(c)
    BY <1>10, LenProperties
  <2>2. CASE n < BatchSize
    <3>1. ~(i > m + n)
      BY <1>7, <1>8, <2>1, <2>2
    <3> QED
      BY <3>1, <2>2, <1>18 DEF InFiles
  <2>3. CASE ~(n < BatchSize)
    <3>1. Len(reader'.files) = 1 /\ reader'.files[1] = serving /\ reader'.files # <<>>
      <4>1. PICK fs : fs = reader'.files
        OBVIOUS
      <4>2. fs = <<serving>>
        BY <4>1, <2>3, <1>18
      <4>3. Len(fs) = 1 /\ fs[1] = serving /\ fs # <<>>
        BY <4>2
      <4> QED
        BY <4>1, <4>3
    <3>2. 2..Len(reader'.files) = {}
      BY <3>1
    <3> QED
      BY <3>1, <3>2, <2>3, <1>18 DEF InFiles
  <2> QED
    BY <2>2, <2>3
<1>23. SortMade(n, new)
  BY <1>1, <1>3, <1>6, <1>7, <1>8, <1>10, <1>11, <1>14, <1>15, <1>16, <1>18, <1>19, <1>22
     DEF SortMade, m, c
<1> QED
  BY <1>21, <1>23

-----------------------------------------------------------------------------
(* The least of the pairs that wait to be merged.                          *)

LEMMA FirstExists ==
  ASSUME NEW S, IsFiniteSet(S), S # {}, NEW f, \A t \in S : f[t] \in Int
  PROVE  \E t \in S : \A u \in S : f[t] <= f[u]
<1> DEFINE g == [t \in S |-> 0 - f[t]]
<1>1. \A t \in S : g[t] \in Int /\ g[t] = 0 - f[t]
  OBVIOUS
<1> HIDE DEF g
<1>2. PICK t \in S : \A u \in S : g[u] <= g[t]
  BY <1>1, LastExists DEF HasLast
<1>3. ASSUME NEW u \in S PROVE f[t] <= f[u]
  <2>1. PICK x \in Int, y \in Int : x = f[t] /\ y = f[u]
    OBVIOUS
  <2>2. 0 - y <= 0 - x
    BY <1>1, <1>2, <2>1
  <2>3. x <= y
    BY <2>2
  <2> QED
    BY <2>1, <2>3
<1> QED
  BY <1>3

Precedes(i, j) ==
  LET p == HeadOf(i)
      q == HeadOf(j)
  IN  \/ p[1] < q[1]
      \/ p[1] = q[1] /\ p[2] < q[2]
      \/ p = q /\ i <= j

LEMMA LeastExists ==
  ASSUME NEW S, IsFiniteSet(S), S # {}, S \subseteq Nat, \A i \in S : HeadOf(i) \in Nat \X Nat
  PROVE  \E i \in S : \A j \in S : Precedes(i, j)
<1> DEFINE f == [i \in S |-> HeadOf(i)[1]]
           g == [i \in S |-> HeadOf(i)[2]]
           h == [i \in S |-> i]
<1>1. \A i \in S : /\ f[i] = HeadOf(i)[1] /\ g[i] = HeadOf(i)[2] /\ h[i] = i
                   /\ f[i] \in Int /\ g[i] \in Int /\ h[i] \in Int
                   /\ HeadOf(i) = <<HeadOf(i)[1], HeadOf(i)[2]>>
  OBVIOUS
<1> HIDE DEF f, g, h
<1>2. PICK a \in S : \A u \in S : f[a] <= f[u]
  BY <1>1, FirstExists
<1> DEFINE T == {i \in S : f[i] = f[a]}
<1>3. IsFiniteSet(T) /\ T # {} /\ T \subseteq S
  BY FS_Subset
<1>4. PICK b \in T : \A u \in T : g[b] <= g[u]
  <2>1. \A u \in T : g[u] \in Int
    BY <1>1
  <2> HIDE DEF T
  <2> QED
    BY <1>3, <2>1, FirstExists
<1> DEFINE U == {i \in T : g[i] = g[b]}
<1>5. IsFiniteSet(U) /\ U # {} /\ U \subseteq T
  BY <1>3, FS_Subset
<1>6. PICK c \in U : \A u \in U : h[c] <= h[u]
  <2>1. \A u \in U : h[u] \in Int
    BY <1>1
  <2> HIDE DEF T, U
  <2> QED
    BY <1>5, <2>1, FirstExists
<1>7. c \in S /\ f[c] = f[a] /\ g[c] = g[b]
  OBVIOUS
<1>8. ASSUME NEW j \in S PROVE Precedes(c, j)
  <2>1. PICK x \in Int, y \in Int : x = f[c] /\ y = f[j]
    BY <1>1
  <2>2. x <= y
    BY <1>2, <1>7, <2>1
  <2>3. CASE x < y
    BY <1>1, <2>1, <2>3 DEF Precedes
  <2>4. CASE x = y
    <3>1. j \in T
      BY <1>7, <2>1, <2>4
    <3>2. PICK v \in Int, w \in Int : v = g[c] /\ w = g[j]
      BY <1>1
    <3>3. v <= w
      BY <1>4, <1>7, <3>1, <3>2
    <3>4. CASE v < w
      BY <1>1, <2>1, <2>4, <3>2, <3>4 DEF Precedes
    <3>5. CASE v = w
      <4>1. j \in U
        BY <1>7, <3>1, <3>2, <3>5
      <4>2. c <= j
        BY <1>1, <1>6, <1>7, <4>1
      <4>3. HeadOf(c) = HeadOf(j)
        BY <1>1, <1>7, <2>1, <2>4, <3>2, <3>5
      <4> QED
        BY <4>2, <4>3 DEF Precedes
    <3> QED
      BY <3>3, <3>4, <3>5
  <2> QED
    BY <2>2, <2>3, <2>4
<1> QED
  BY <1>7, <1>8

LEMMA HeadFacts ==
  ASSUME TypesInv, serving # 0, stage = "merge"
  PROVE  /\ chunks[serving] \in Seq(Seq(PairsFor(serving)))
         /\ DOMAIN reader.offsets = DOMAIN chunks[serving] /\ reader.files = <<>>
         /\ \A i \in DOMAIN chunks[serving] :
              /\ reader.offsets[i] \in Nat /\ chunks[serving][i] \in Seq(PairsFor(serving))
              /\ Len(chunks[serving][i]) \in Nat /\ reader.offsets[i] <= Len(chunks[serving][i])
              /\ DOMAIN chunks[serving][i] = 1..Len(chunks[serving][i])
         /\ \A i \in Heads : i \in DOMAIN chunks[serving] /\ i \in Nat
         /\ \A i \in DOMAIN chunks[serving] :
              i \in Heads <=> reader.offsets[i] < Len(chunks[serving][i])
         /\ \A i \in Heads : /\ reader.offsets[i] + 1 \in DOMAIN chunks[serving][i]
                             /\ HeadOf(i) = chunks[serving][i][reader.offsets[i] + 1]
                             /\ HeadOf(i) \in PairsFor(serving)
         /\ Heads # {} => /\ Least \in Heads
                          /\ \A j \in Heads : HeadOf(Least)[1] <= HeadOf(j)[1]
<1>0. OutputsType /\ SlicesType /\ ReadersPoint
  BY DEF TypesInv
<1>1. Points(serving, reader) /\ reader \in Readers /\ serving \in ShuffleShards
  BY <1>0, ServedPoints
<1>2. /\ DOMAIN reader.offsets = DOMAIN chunks[serving] /\ reader.files = <<>>
      /\ \A i \in DOMAIN reader.offsets : reader.offsets[i] <= Len(chunks[serving][i])
  BY <1>1 DEF Points
<1>3. reader.offsets \in Seq(Nat)
  BY <1>1 DEF Readers
<1>4. chunks[serving] \in Seq(Seq(PairsFor(serving)))
  BY <1>0, <1>1 DEF OutputsType
<1>5. \A i \in DOMAIN chunks[serving] :
        /\ reader.offsets[i] \in Nat /\ chunks[serving][i] \in Seq(PairsFor(serving))
        /\ Len(chunks[serving][i]) \in Nat
        /\ DOMAIN chunks[serving][i] = 1..Len(chunks[serving][i])
  <2> SUFFICES ASSUME NEW i \in DOMAIN chunks[serving]
               PROVE  /\ reader.offsets[i] \in Nat /\ chunks[serving][i] \in Seq(PairsFor(serving))
                      /\ Len(chunks[serving][i]) \in Nat
                      /\ DOMAIN chunks[serving][i] = 1..Len(chunks[serving][i])
    OBVIOUS
  <2>1. chunks[serving][i] \in Seq(PairsFor(serving)) /\ reader.offsets[i] \in Nat
    BY <1>2, <1>3, <1>4, LenProperties, ElementOfSeq
  <2> QED
    BY <2>1, LenProperties
<1>6. ASSUME NEW i \in Heads
      PROVE  /\ i \in DOMAIN chunks[serving] /\ i \in Nat
             /\ reader.offsets[i] + 1 \in DOMAIN chunks[serving][i]
             /\ HeadOf(i) = chunks[serving][i][reader.offsets[i] + 1]
             /\ HeadOf(i) \in PairsFor(serving)
  <2>1. i \in DOMAIN chunks[serving] /\ reader.offsets[i] < Len(chunks[serving][i])
    BY <1>2 DEF Heads
  <2>2. i \in Nat
    BY <2>1, <1>4, LenProperties
  <2>3. PICK n \in Nat, m \in Nat : n = reader.offsets[i] /\ m = Len(chunks[serving][i])
    BY <1>5, <2>1
  <2>4. n + 1 \in 1..m
    BY <2>1, <2>3
  <2>5. reader.offsets[i] + 1 \in DOMAIN chunks[serving][i]
    BY <1>5, <2>1, <2>3, <2>4
  <2>6. chunks[serving][i][reader.offsets[i] + 1] \in PairsFor(serving)
    BY <1>5, <2>1, <2>5, LenProperties, ElementOfSeq
  <2> QED
    BY <2>1, <2>2, <2>5, <2>6 DEF HeadOf
<1>7. \A i \in DOMAIN chunks[serving] :
        i \in Heads <=> reader.offsets[i] < Len(chunks[serving][i])
  BY <1>2 DEF Heads
<1>8. ASSUME Heads # {}
      PROVE  /\ Least \in Heads
             /\ \A j \in Heads : HeadOf(Least)[1] <= HeadOf(j)[1]
  <2>1. \A i \in Heads : /\ HeadOf(i) \in Nat \X Nat
                         /\ HeadOf(i)[1] \in Nat
    BY <1>0, <1>6, PairNumbers DEF PairsFor
  <2>2. IsFiniteSet(Heads)
    <3>1. IsFiniteSet(DOMAIN reader.offsets)
      <4>1. Len(reader.offsets) \in Int /\ 1 \in Int
        BY <1>3, LenProperties
      <4> QED
        BY <1>3, <4>1, LenProperties, FS_Interval
    <3>2. Heads \subseteq DOMAIN reader.offsets
      BY DEF Heads
    <3> QED
      BY <3>1, <3>2, FS_Subset
  <2>3. \E i \in Heads : \A j \in Heads : Precedes(i, j)
    BY <1>6, <1>8, <2>1, <2>2, LeastExists
  <2>4. Least \in Heads /\ \A j \in Heads : Precedes(Least, j)
    BY <2>3 DEF Precedes, Least
  <2>5. ASSUME NEW j \in Heads PROVE HeadOf(Least)[1] <= HeadOf(j)[1]
    <3>1. PICK x \in Nat, y \in Nat : x = HeadOf(Least)[1] /\ y = HeadOf(j)[1]
      BY <2>1, <2>4
    <3>2. x < y \/ x = y
      BY <2>4, <3>1 DEF Precedes
    <3>3. x <= y
      BY <3>2
    <3> QED
      BY <3>1, <3>3
  <2> QED
    BY <2>4, <2>5
<1> QED
  BY <1>2, <1>4, <1>5, <1>6, <1>7, <1>8

MergeYielded(x) ==
  /\ stage = "merge" /\ Reading /\ chunks' = chunks /\ failures' = failures
  /\ reader.key # NoKey
  /\ MoreOfKey => Full
  /\ x = [key |-> reader.key, values |-> reader.values, partial |-> MoreOfKey]
  /\ x \in Merged(serving) /\ IsAdded(AllItems(stage), pool, serving, x, pool')
  /\ reader' = [reader EXCEPT !.key = NoKey, !.values = <<>>, !.some = TRUE]

LEMMA YieldStep ==
  ASSUME TypesInv, MergeYield
  PROVE  TypesInv' /\ \E x : MergeYielded(x)
<1> DEFINE x == [key |-> reader.key, values |-> reader.values, partial |-> MoreOfKey]
<1>0. OutputsType /\ SlicesType /\ ReadersPoint
  BY DEF TypesInv
<1>1. /\ stage = "merge" /\ serving # 0 /\ reader.key # NoKey
      /\ MoreOfKey => Full
      /\ Emit(serving, x)
      /\ reader' = [reader EXCEPT !.key = NoKey, !.values = <<>>, !.some = TRUE]
      /\ UNCHANGED <<mapped, stage, written, chunks, final, active, stored, serving,
                     failures, dropped>>
  BY DEF MergeYield
<1>2. Reading
  BY <1>1 DEF Reading
<1>3. /\ Points(serving, reader) /\ reader \in Readers /\ serving \in ShuffleShards
  BY <1>0, <1>1, ServedPoints
<1>4. MoreOfKey \in BOOLEAN
  BY DEF MoreOfKey
<1>5. x \in Merged(serving)
  <2>1. /\ x.key = reader.key /\ x.values = reader.values
        /\ x \in [key : Nat \ {NoKey}, values : Seq(Nat), partial : BOOLEAN]
    BY <1>1, <1>3, <1>4 DEF Readers
  <2>2. x.values # <<>> /\ Hash(x.key) = serving
    BY <2>1, <1>1, <1>3 DEF Points
  <2>3. \A v \in ValuesOf(x.values) : <<x.key, v>> \in Pairs
    BY <2>1, <1>3 DEF Points
  <2> HIDE DEF x
  <2>4. \A v \in ValuesOf(x.values) : <<x.key, v>> \in PairsFor(serving)
    BY <2>2, <2>3 DEF PairsFor
  <2> QED
    BY <2>1, <2>2, <2>4 DEF Merged
<1> HIDE DEF x
<1>6. x \in ItemsOf(stage, serving) /\ stage \in WritingStages
  BY <1>1, <1>5 DEF ItemsOf, WritingStages
<1>7. IsAdded(AllItems(stage), pool, serving, x, pool') /\ PoolType'
  BY <1>0, <1>1, <1>3, <1>6, PoolAdded
<1>8. /\ reader' \in Readers /\ reader'.files = reader.files /\ reader'.position = reader.position
      /\ reader'.offsets = reader.offsets /\ reader'.key = NoKey /\ reader'.values = <<>>
  <2>1. NoKey \in Nat /\ <<>> \in Seq(Nat)
    BY DEF NoKey
  <2> QED
    BY <2>1, <1>1, <1>3 DEF Readers
<1>9. Points(serving, reader)'
  <2>1. Input(stage)' = Input(stage) /\ Pairs' = Pairs
    BY <1>2, ReadingKeepsInput
  <2> QED
    BY <2>1, <1>1, <1>3, <1>8, ValuesOfEmpty DEF Points
<1>10. ChunksType'
  <2>1. \A g : PairsFor(g)' = PairsFor(g)
    BY <1>2, ReadingKeepsInput
  <2> QED
    BY <2>1, <1>0, <1>1 DEF ChunksType, OutputsType
<1>11. failures' \in 0..MaxFailures
  BY <1>0, <1>1 DEF SlicesType
<1>12. \A i \in DOMAIN stored[serving].offsets : stored[serving].offsets[i] <= reader'.offsets[i]
  <2>1. serving \in active /\ ReaderNow(serving) = reader
    BY <1>0, <1>1, ServedPoints
  <2> QED
    BY <2>1, <1>0, <1>1, <1>8 DEF ReadersPoint
<1>13. TypesInv'
  BY <1>0, <1>1, <1>2, <1>7, <1>8, <1>9, <1>10, <1>11, <1>12,
     ReadingOutputs, ReadingSlices, ReadingPoints DEF TypesInv
<1>14. MergeYielded(x)
  BY <1>1, <1>2, <1>5, <1>7 DEF MergeYielded, x
<1> QED
  BY <1>13, <1>14

MergeTaken(i, p) ==
  /\ stage = "merge" /\ Reading /\ chunks' = chunks /\ failures' = failures /\ pool' = pool
  /\ i = Least /\ i \in Heads /\ p = HeadOf(i)
  /\ \/ reader.key = NoKey /\ reader.values = <<>>
     \/ reader.key = p[1] /\ reader.key # NoKey /\ ~Full
  /\ reader.values \in Seq(Nat) /\ p[2] \in Nat /\ p[1] # NoKey
  /\ reader'.key = p[1] /\ reader'.values = Append(reader.values, p[2])
  /\ reader'.offsets = [reader.offsets EXCEPT ![i] = @ + 1]
  /\ reader'.files = reader.files /\ reader.files = <<>>

LEMMA TakeStep ==
  ASSUME TypesInv, MergeTake
  PROVE  TypesInv' /\ \E i, p : MergeTaken(i, p)
<1> DEFINE i == Least
           p == HeadOf(Least)
<1>0. OutputsType /\ SlicesType /\ ReadersPoint
  BY DEF TypesInv
<1>1. /\ stage = "merge" /\ serving # 0 /\ Heads # {}
      /\ reader.key = NoKey \/ (reader.key = p[1] /\ ~Full)
      /\ reader' = [reader EXCEPT !.key = p[1], !.values = Append(@, p[2]),
                                  !.offsets[i] = @ + 1]
      /\ UNCHANGED <<mapped, stage, written, chunks, final, active, stored, serving,
                     pool, failures, dropped>>
  BY DEF MergeTake
<1>2. Reading
  BY <1>1 DEF Reading
<1>3. /\ Points(serving, reader) /\ reader \in Readers /\ serving \in ShuffleShards
      /\ serving \in active /\ ReaderNow(serving) = reader
  BY <1>0, <1>1, ServedPoints
<1>4. /\ i \in Heads /\ i \in DOMAIN chunks[serving] /\ p \in PairsFor(serving)
      /\ i \in DOMAIN reader.offsets /\ DOMAIN reader.offsets = DOMAIN chunks[serving]
      /\ reader.offsets[i] \in Nat /\ Len(chunks[serving][i]) \in Nat
      /\ reader.offsets[i] < Len(chunks[serving][i])
  BY <1>1, HeadFacts
<1>5. /\ p \in Pairs /\ p[1] \in Nat /\ p[2] \in Nat /\ p[1] # NoKey /\ Hash(p[1]) = serving
      /\ p = <<p[1], p[2]>>
  BY <1>0, <1>4, PairNumbers DEF PairsFor
<1> HIDE DEF i, p
<1>6. reader.offsets \in Seq(Nat) /\ reader.values \in Seq(Nat)
  BY <1>3 DEF Readers
<1>7. PICK n \in Nat : n = reader.offsets[i] + 1
  BY <1>4
<1> DEFINE offsets == [reader.offsets EXCEPT ![i] = n]
           values == Append(reader.values, p[2])
<1>8. /\ offsets \in Seq(Nat) /\ DOMAIN offsets = DOMAIN reader.offsets /\ offsets[i] = n
      /\ \A j \in DOMAIN reader.offsets \ {i} : offsets[j] = reader.offsets[j]
      /\ offsets = [reader.offsets EXCEPT ![i] = @ + 1]
  BY <1>4, <1>6, <1>7, ExceptSeq
<1>9. /\ values \in Seq(Nat) /\ values # <<>>
      /\ ValuesOf(values) = ValuesOf(reader.values) \union {p[2]}
  <2>1. values \in Seq(Nat) /\ ValuesOf(values) = ValuesOf(reader.values) \union {p[2]}
    BY SMTT(30), <1>5, <1>6, ValuesOfAppend
  <2>2. values # <<>>
    <3>1. PICK s \in Seq(Nat), x \in Nat : s = reader.values /\ x = p[2]
      BY <1>5, <1>6
    <3>2. Append(s, x) # <<>>
      OBVIOUS
    <3> QED
      BY <3>1, <3>2
  <2> QED
    BY <2>1, <2>2
<1>10. reader' = [reader EXCEPT !.key = p[1], !.values = values, !.offsets = offsets]
  BY <1>1, <1>7
<1> HIDE DEF offsets, values
<1>11. /\ reader' \in Readers /\ reader'.files = reader.files /\ reader'.position = reader.position
       /\ reader'.offsets = offsets /\ reader'.key = p[1] /\ reader'.values = values
  BY <1>3, <1>5, <1>8, <1>9, <1>10 DEF Readers
<1>12. \A j \in DOMAIN offsets : offsets[j] <= Len(chunks[serving][j])
  <2> SUFFICES ASSUME NEW j \in DOMAIN offsets PROVE offsets[j] <= Len(chunks[serving][j])
    OBVIOUS
  <2>1. CASE j = i
    <3>1. PICK m \in Nat, l \in Nat : m = reader.offsets[i] /\ l = Len(chunks[serving][i])
      BY <1>4
    <3>2. m < l /\ n = m + 1
      BY <3>1, <1>4, <1>7
    <3>3. n <= l
      BY <3>2
    <3> QED
      BY <3>1, <3>3, <2>1, <1>8
  <2>2. CASE j # i
    BY <2>2, <1>1, <1>3, <1>8 DEF Points
  <2> QED
    BY <2>1, <2>2
<1>13. \A v \in ValuesOf(values) : <<p[1], v>> \in Pairs
  <2>1. ASSUME NEW v \in ValuesOf(reader.values) PROVE <<p[1], v>> \in Pairs
    <3>1. reader.values # <<>>
      BY ValuesOfEmpty
    <3>2. reader.key = p[1]
      BY <3>1, <1>1, <1>3 DEF Points
    <3> QED
      BY <3>2, <1>3 DEF Points
  <2> QED
    BY <2>1, <1>5, <1>9
<1>14. Points(serving, reader)'
  <2>1. Input(stage)' = Input(stage) /\ Pairs' = Pairs
    BY <1>2, ReadingKeepsInput
  <2>2. reader.files = <<>>
    BY <1>1, <1>3 DEF Points
  <2>3. Hash(reader'.key) = serving
    BY <1>5, <1>11
  <2>4. /\ reader'.key # NoKey /\ reader'.values # <<>> /\ reader'.files = <<>>
        /\ \A v \in ValuesOf(reader'.values) : <<reader'.key, v>> \in Pairs'
        /\ DOMAIN reader'.offsets = DOMAIN chunks'[serving]
        /\ \A j \in DOMAIN reader'.offsets : reader'.offsets[j] <= Len(chunks'[serving][j])
    <3>1. reader'.key # NoKey /\ reader'.values # <<>> /\ reader'.files = <<>>
      BY <2>2, <1>5, <1>9, <1>11
    <3>2. \A v \in ValuesOf(reader'.values) : <<reader'.key, v>> \in Pairs'
      BY <2>1, <1>11, <1>13
    <3>3. chunks' = chunks /\ reader'.offsets = offsets /\ DOMAIN offsets = DOMAIN chunks[serving]
      BY <1>1, <1>4, <1>8, <1>11
    <3> QED
      BY <3>1, <3>2, <3>3, <1>12
  <2>5. stage' = "merge" /\ serving' = serving
    BY <1>1
  <2>6. Hash(reader.key)' = Hash(reader'.key)
    BY DEF Hash
  <2> QED
    BY <2>3, <2>4, <2>5, <2>6 DEF Points
<1>15. ChunksType'
  <2>1. \A g : PairsFor(g)' = PairsFor(g)
    BY <1>2, ReadingKeepsInput
  <2> QED
    BY <2>1, <1>0, <1>1 DEF ChunksType, OutputsType
<1>16. failures' \in 0..MaxFailures
  BY <1>0, <1>1 DEF SlicesType
<1>17. PoolType'
  <2>1. \A st, f : ItemsOf(st, f)' = ItemsOf(st, f)
    BY <1>2, ReadingKeepsInput
  <2>2. \A f \in ShuffleShards : pool'[f] \in Seq(ItemsOf(stage, f)')
    BY <2>1, <1>0, <1>1 DEF OutputsType, WritingStages
  <2>3. pool' = [f \in ShuffleShards |-> pool'[f]]
    BY <1>0, <1>1 DEF OutputsType
  <2>4. \A f \in ShuffleShards \ {serving'} : pool'[f] = <<>>
    BY <1>0, <1>1 DEF SlicesType
  <2> QED
    BY <2>2, <2>3, <2>4, <1>1 DEF PoolType, WritingStages
<1>18. \A j \in DOMAIN stored[serving].offsets : stored[serving].offsets[j] <= reader'.offsets[j]
  <2> SUFFICES ASSUME NEW j \in DOMAIN stored[serving].offsets
               PROVE  stored[serving].offsets[j] <= reader'.offsets[j]
    OBVIOUS
  <2>1. stored[serving].offsets[j] <= reader.offsets[j]
    BY <1>0, <1>1, <1>3 DEF ReadersPoint
  <2>2. DOMAIN stored[serving].offsets = DOMAIN reader.offsets
        /\ stored[serving] \in Readers
    BY <1>0, <1>1, <1>3, ServedPoints DEF Points
  <2>3. PICK a \in Nat, b \in Nat, c \in Nat :
          a = stored[serving].offsets[j] /\ b = reader.offsets[j] /\ c = offsets[j]
    <3>1. stored[serving].offsets \in Seq(Nat)
      BY <2>2 DEF Readers
    <3>2. j \in DOMAIN stored[serving].offsets /\ j \in DOMAIN reader.offsets /\ j \in DOMAIN offsets
      BY <2>2, <1>8
    <3>3. stored[serving].offsets[j] \in Nat
      BY <3>1, <3>2, SeqAt
    <3>4. reader.offsets[j] \in Nat /\ offsets[j] \in Nat
      BY <3>2, <1>6, <1>8, SeqAt
    <3> QED
      BY <3>3, <3>4
  <2>4. b <= c
    <3>1. CASE j = i
      BY <3>1, <2>3, <1>7, <1>8
    <3>2. CASE j # i
      BY <3>2, <2>2, <2>3, <1>8
    <3> QED
      BY <3>1, <3>2
  <2>5. a <= c
    BY <2>1, <2>3, <2>4
  <2> QED
    BY <2>3, <2>5, <1>11
<1>19. TypesInv'
  BY <1>0, <1>1, <1>2, <1>11, <1>14, <1>15, <1>16, <1>17, <1>18,
     ReadingOutputs, ReadingSlices, ReadingPoints DEF TypesInv
<1>20. MergeTaken(i, p)
  <2>1. reader.key = NoKey <=> reader.values = <<>>
    BY <1>3 DEF Points
  <2>2. reader.files = <<>>
    BY <1>1, <1>3 DEF Points
  <2> QED
    BY <2>1, <2>2, <1>1, <1>2, <1>4, <1>5, <1>6, <1>8, <1>11
       DEF MergeTaken, i, p, offsets, values
<1> QED
  BY <1>19, <1>20

ReduceRead(f, n, r) ==
  /\ stage = "reduce" /\ Reading /\ chunks' = chunks /\ failures' = failures
  /\ reader.files # <<>> /\ f = reader.files[1] /\ f \in ShuffleShards
  /\ reader.position \in Nat /\ n = reader.position + 1 /\ n \in DOMAIN written["merge"][f]
  /\ r = written["merge"][f][n] /\ r \in Merged(f)
  /\ \/ reader.key = NoKey /\ reader.values = <<>>
     \/ reader.key = r.key /\ reader.key # NoKey
  /\ reader.values \in Seq(Nat)
  /\ reader'.files = reader.files /\ reader'.position = n
  /\ IF r.partial
     THEN reader'.key = r.key /\ reader'.values = reader.values \o r.values /\ pool' = pool
     ELSE /\ reader'.key = NoKey /\ reader'.values = <<>>
          /\ IsAdded(AllItems(stage), pool, serving, <<r.key, reader.values \o r.values>>, pool')

LEMMA ReduceStep ==
  ASSUME TypesInv, ReduceRecord
  PROVE  TypesInv' /\ \E f, n, r : ReduceRead(f, n, r)
<1> DEFINE f == reader.files[1]
           n == reader.position + 1
           r == Head(Remaining)
           values == reader.values \o r.values
<1>0. OutputsType /\ SlicesType /\ ReadersPoint
  BY DEF TypesInv
<1>1. /\ stage = "reduce" /\ serving # 0 /\ Remaining # <<>> /\ KeyExpected
      /\ IF r.partial
         THEN /\ reader' = [reader EXCEPT !.position = @ + 1, !.some = TRUE,
                                          !.key = r.key, !.values = values]
              /\ UNCHANGED pool
         ELSE /\ Emit(serving, <<r.key, values>>)
              /\ reader' = [reader EXCEPT !.position = @ + 1, !.some = TRUE,
                                          !.key = NoKey, !.values = <<>>]
      /\ UNCHANGED <<mapped, stage, written, chunks, final, active, stored, serving,
                     failures, dropped>>
  BY DEF ReduceRecord
<1>2. Reading /\ Input(stage) = written["merge"]
  BY <1>1, StageFacts DEF Reading
<1>3. /\ Points(serving, reader) /\ reader \in Readers /\ serving \in ShuffleShards
  BY <1>0, <1>1, ServedPoints
<1>4. IsFiles(AllItems("merge"), written["merge"])
  BY <1>0, WrittenFiles, StageFacts
<1>5. /\ reader.files # <<>> /\ f \in ShuffleShards /\ n \in DOMAIN written["merge"][f]
      /\ reader.position \in Nat /\ n <= Len(written["merge"][f])
      /\ r = written["merge"][f][n]
  BY <1>0, <1>1, <1>2, <1>4, RemainingFacts DEF IsFiles
<1>6. r \in Merged(f)
  <2>1. written["merge"][f] \in Seq(ItemsOf("merge", f))
    BY <1>0, <1>5, StageFacts DEF OutputsType
  <2>2. ItemsOf("merge", f) = Merged(f)
    BY DEF ItemsOf
  <2> QED
    BY <2>1, <2>2, <1>5, SeqAt
<1>7. reader.key \in {NoKey, r.key}
  BY <1>1 DEF KeyExpected
<1> HIDE DEF r
<1>8. /\ r.key \in Nat /\ r.key # NoKey /\ r.values \in Seq(Nat) /\ r.values # <<>>
      /\ r.partial \in BOOLEAN
      /\ \A v \in ValuesOf(r.values) : <<r.key, v>> \in Pairs
  BY <1>6 DEF Merged, PairsFor
<1>9. reader.values \in Seq(Nat) /\ (reader.key = NoKey <=> reader.values = <<>>)
  BY <1>3 DEF Readers, Points
<1>10. /\ values \in Seq(Nat)
       /\ ValuesOf(values) = ValuesOf(reader.values) \union ValuesOf(r.values)
  BY <1>8, <1>9, ValuesOfConcat
<1>11. values # <<>>
  <2>1. ValuesOf(r.values) # {}
    <3>1. Len(r.values) \in Nat /\ Len(r.values) # 0 /\ DOMAIN r.values = 1..Len(r.values)
      BY <1>8, EmptySeq, LenProperties
    <3>2. 1 \in DOMAIN r.values
      BY <3>1
    <3> QED
      BY <3>2 DEF ValuesOf
  <2> QED
    BY <2>1, <1>10, ValuesOfEmpty
<1>12. \A v \in ValuesOf(values) : <<r.key, v>> \in Pairs
  <2>1. ASSUME NEW v \in ValuesOf(reader.values) PROVE <<r.key, v>> \in Pairs
    <3>1. reader.key = r.key
      BY <1>7, <1>9, ValuesOfEmpty
    <3> QED
      BY <3>1, <1>3 DEF Points
  <2> QED
    BY <2>1, <1>8, <1>10
<1> HIDE DEF values
<1>13. PICK k \in Nat : k = n
  BY <1>5
<1> DEFINE Moved == /\ PoolType' /\ reader' \in Readers /\ Points(serving, reader)'
                    /\ ReduceRead(f, n, r)
<1>14. ASSUME r.partial PROVE Moved
  <2>1. reader' = [reader EXCEPT !.position = k, !.some = TRUE, !.key = r.key, !.values = values]
        /\ pool' = pool
    BY <1>1, <1>13, <1>14
  <2>2. /\ reader' \in Readers /\ reader'.files = reader.files /\ reader'.position = n
        /\ reader'.offsets = reader.offsets /\ reader'.key = r.key /\ reader'.values = values
    BY <2>1, <1>3, <1>8, <1>10, <1>13 DEF Readers
  <2>3. PoolType'
    <3>1. \A st, g : ItemsOf(st, g)' = ItemsOf(st, g)
      BY <1>2, ReadingKeepsInput
    <3>2. \A g \in ShuffleShards : pool'[g] \in Seq(ItemsOf(stage, g)')
      BY <2>1, <3>1, <1>0, <1>1 DEF OutputsType, WritingStages
    <3>3. pool' = [g \in ShuffleShards |-> pool'[g]]
      BY <2>1, <1>0 DEF OutputsType
    <3> QED
      BY <3>2, <3>3, <1>1 DEF PoolType, WritingStages
  <2>4. ReduceRead(f, n, r)
    BY <2>1, <2>2, <1>1, <1>2, <1>5, <1>6, <1>7, <1>8, <1>9, <1>14 DEF ReduceRead, values
  <2>5. Points(serving, reader)'
    <3>1. Input(stage)' = Input(stage) /\ Pairs' = Pairs
      BY <1>2, ReadingKeepsInput
    <3>2. n <= Len(Input(stage)'[reader'.files[1]])
      BY <2>2, <3>1, <1>2, <1>5
    <3>3. \A v \in ValuesOf(reader'.values) : <<reader'.key, v>> \in Pairs'
      BY <3>1, <2>2, <1>12
    <3>4. reader'.key # NoKey /\ reader'.values # <<>>
      BY <2>2, <1>8, <1>11
    <3> QED
      BY <2>2, <3>1, <3>2, <3>3, <3>4, <1>1, <1>3 DEF Points
  <2> QED
    BY <2>2, <2>3, <2>4, <2>5
<1>15. ASSUME ~r.partial PROVE Moved
  <2>1. reader' = [reader EXCEPT !.position = k, !.some = TRUE, !.key = NoKey, !.values = <<>>]
        /\ Emit(serving, <<r.key, values>>)
    BY <1>1, <1>13, <1>15
  <2>2. /\ reader' \in Readers /\ reader'.files = reader.files /\ reader'.position = n
        /\ reader'.offsets = reader.offsets /\ reader'.key = NoKey /\ reader'.values = <<>>
    <3>1. NoKey \in Nat /\ <<>> \in Seq(Nat)
      BY DEF NoKey
    <3> QED
      BY <2>1, <3>1, <1>3, <1>13 DEF Readers
  <2> DEFINE x == <<r.key, values>>
  <2>3. x \in ItemsOf(stage, serving) /\ stage \in WritingStages
    <3>1. x \in (Nat \ {NoKey}) \X Seq(Nat) /\ x[1] = r.key /\ x[2] = values
      BY <1>8, <1>10
    <3> HIDE DEF x
    <3>2. x \in Calls
      BY <3>1, <1>12 DEF Calls
    <3> QED
      BY <3>2, <1>1 DEF ItemsOf, WritingStages
  <2>4. Emit(serving, x)
    BY <2>1
  <2> HIDE DEF x
  <2>5. IsAdded(AllItems(stage), pool, serving, x, pool') /\ PoolType'
    BY <2>3, <2>4, <1>0, <1>1, <1>3, PoolAdded
  <2>6. ReduceRead(f, n, r)
    BY <2>2, <2>5, <1>1, <1>2, <1>5, <1>6, <1>7, <1>8, <1>9, <1>15 DEF ReduceRead, values, x
  <2>7. Points(serving, reader)'
    <3>1. Input(stage)' = Input(stage) /\ Pairs' = Pairs
      BY <1>2, ReadingKeepsInput
    <3>2. n <= Len(Input(stage)'[reader'.files[1]])
      BY <2>2, <3>1, <1>2, <1>5
    <3> QED
      BY <2>2, <3>1, <3>2, <1>1, <1>3, ValuesOfEmpty DEF Points
  <2> QED
    BY <2>2, <2>5, <2>6, <2>7
<1>16. ChunksType'
  <2>1. \A g : PairsFor(g)' = PairsFor(g)
    BY <1>2, ReadingKeepsInput
  <2> QED
    BY <2>1, <1>0, <1>1 DEF ChunksType, OutputsType
<1>17. failures' \in 0..MaxFailures
  BY <1>0, <1>1 DEF SlicesType
<1>18. Moved
  BY <1>14, <1>15, <1>8
<1>19. TypesInv'
  BY <1>0, <1>1, <1>2, <1>16, <1>17, <1>18,
     ReadingOutputs, ReadingSlices, ReadingPoints DEF TypesInv
<1> QED
  BY <1>18, <1>19

FileEnded ==
  /\ ReadsFiles /\ Reading /\ chunks' = chunks /\ failures' = failures /\ pool' = pool
  /\ reader.files # <<>>
  /\ reader'.key = reader.key /\ reader'.values = reader.values
  /\ \A n \in DOMAIN reader'.files : /\ n + 1 \in DOMAIN reader.files
                                     /\ reader'.files[n] = reader.files[n + 1]
  /\ \A f \in DOMAIN Input(stage) : \A i \in DOMAIN Input(stage)[f] :
       InFiles(reader', f, i) <=> InFiles(reader, f, i)

LEMMA FileStep ==
  ASSUME TypesInv, NextFile
  PROVE  TypesInv' /\ FileEnded
<1> DEFINE f == reader.files[1]
           t == Tail(reader.files)
<1>0. OutputsType /\ SlicesType /\ ReadersPoint
  BY DEF TypesInv
<1>1. /\ serving # 0 /\ reader.files # <<>> /\ Remaining = <<>>
      /\ reader' = [reader EXCEPT !.files = t, !.position = 0, !.some = FALSE]
      /\ UNCHANGED <<mapped, stage, written, chunks, final, active, stored, serving,
                     pool, failures, dropped>>
  BY DEF NextFile
<1>2. Reading
  BY <1>1 DEF Reading
<1>3. /\ Points(serving, reader) /\ reader \in Readers /\ serving \in ShuffleShards
  BY <1>0, <1>1, ServedPoints
<1>4. /\ ReadsFiles /\ f \in DOMAIN Input(stage)
      /\ reader.position \in Nat /\ Len(Input(stage)[f]) \in Nat
      /\ DOMAIN Input(stage)[f] = 1..Len(Input(stage)[f])
      /\ reader.position >= Len(Input(stage)[f])
  BY <1>0, <1>1, NothingRemains
<1>5. reader.files \in Seq(Nat)
  BY <1>3 DEF Readers
<1>6. /\ t \in Seq(Nat) /\ DOMAIN reader.files = 1..Len(reader.files)
      /\ Len(reader.files) \in Nat \ {0}
      /\ Len(t) = Len(reader.files) - 1 /\ DOMAIN t = 1..Len(reader.files) - 1
      /\ \A i \in 1..Len(reader.files) - 1 : t[i] = reader.files[i + 1]
  BY <1>1, <1>5, TailFacts
<1> HIDE DEF t
<1>7. /\ reader' \in Readers /\ reader'.files = t /\ reader'.position = 0
      /\ reader'.offsets = reader.offsets /\ reader'.key = reader.key
      /\ reader'.values = reader.values
  BY <1>1, <1>3, <1>6 DEF Readers
<1>8. \A n \in DOMAIN t : n + 1 \in DOMAIN reader.files /\ t[n] = reader.files[n + 1]
  BY <1>6
<1>9. \A n \in 2..Len(reader.files) : n - 1 \in DOMAIN t /\ t[n - 1] = reader.files[n]
  <2> SUFFICES ASSUME NEW n \in 2..Len(reader.files)
               PROVE  n - 1 \in DOMAIN t /\ t[n - 1] = reader.files[n]
    OBVIOUS
  <2>1. n - 1 \in 1..Len(reader.files) - 1 /\ n - 1 + 1 = n
    BY <1>6
  <2> QED
    BY <2>1, <1>6
<1>10. ASSUME NEW g \in DOMAIN Input(stage), NEW i \in DOMAIN Input(stage)[g]
       PROVE  InFiles(reader', g, i) <=> InFiles(reader, g, i)
  <2>0. i \in Nat /\ i > 0
    <3>1. PICK S : Input(stage)[g] \in Seq(S)
      BY <1>0, InputSeqs
    <3> QED
      BY <3>1, LenProperties
  <2>1. InFiles(reader, g, i) <=> \E n \in 2..Len(reader.files) : g = reader.files[n]
    <3>1. ~(g = reader.files[1] /\ i > reader.position)
      <4> SUFFICES ASSUME g = reader.files[1] PROVE ~(i > reader.position)
        OBVIOUS
      <4>1. i \in 1..Len(Input(stage)[f])
        BY <1>4
      <4> QED
        BY <4>1, <1>4
    <3> QED
      BY <3>1, <1>1 DEF InFiles
  <2>2. InFiles(reader', g, i) <=> \E n \in DOMAIN t : g = t[n]
    <3>1. InFiles(reader', g, i) <=>
            t # <<>> /\ (g = t[1] \/ \E n \in 2..Len(t) : g = t[n])
      BY <2>0, <1>7 DEF InFiles
    <3>2. DOMAIN t = 1..Len(t) /\ Len(t) \in Nat
      BY <1>6, LenProperties
    <3>3. t # <<>> => 1 \in DOMAIN t
      BY <3>2, <1>6, EmptySeq
    <3>4. \A n \in DOMAIN t : t # <<>> /\ (n = 1 \/ n \in 2..Len(t))
      BY <3>2
    <3>5. \A n \in 2..Len(t) : n \in DOMAIN t
      BY <3>2
    <3> QED
      BY <3>1, <3>3, <3>4, <3>5
  <2>3. \A n \in DOMAIN t : n + 1 \in 2..Len(reader.files)
    BY <1>6
  <2> QED
    BY <2>1, <2>2, <2>3, <1>8, <1>9
<1>11. Points(serving, reader)'
  <2>1. Input(stage)' = Input(stage) /\ Pairs' = Pairs
    BY <1>2, ReadingKeepsInput
  <2>2. \A n \in DOMAIN t : t[n] \in DOMAIN Input(stage)
    BY <1>3, <1>8 DEF Points
  <2>3. t # <<>> => 0 <= Len(Input(stage)[t[1]])
    <3> SUFFICES ASSUME t # <<>> PROVE 0 <= Len(Input(stage)[t[1]])
      OBVIOUS
    <3>1. 1 \in DOMAIN t
      BY <1>6, EmptySeq, LenProperties
    <3>2. t[1] \in DOMAIN Input(stage)
      BY <2>2, <3>1
    <3>3. PICK S : Input(stage)[t[1]] \in Seq(S)
      BY <3>2, <1>0, InputSeqs
    <3> QED
      BY <3>3, LenProperties
  <2>4. stage = "sort" => t = <<>>
    <3> SUFFICES ASSUME stage = "sort" PROVE t = <<>>
      OBVIOUS
    <3>1. reader.files = <<serving>>
      BY <1>1, <1>3 DEF Points
    <3> QED
      BY <3>1 DEF t
  <2>5. stage # "merge"
    BY <1>4 DEF ReadsFiles
  <2> QED
    BY <2>1, <2>2, <2>3, <2>4, <2>5, <1>1, <1>3, <1>7 DEF Points
<1>12. ChunksType'
  <2>1. \A g : PairsFor(g)' = PairsFor(g)
    BY <1>2, ReadingKeepsInput
  <2> QED
    BY <2>1, <1>0, <1>1 DEF ChunksType, OutputsType
<1>13. failures' \in 0..MaxFailures
  BY <1>0, <1>1 DEF SlicesType
<1>14. PoolType'
  <2>1. \A st, g : ItemsOf(st, g)' = ItemsOf(st, g)
    BY <1>2, ReadingKeepsInput
  <2>2. \A g \in ShuffleShards :
          IF stage' \in WritingStages THEN pool'[g] \in Seq(ItemsOf(stage, g)')
          ELSE pool'[g] = <<>>
    BY <2>1, <1>0, <1>1 DEF OutputsType
  <2>3. pool' = [g \in ShuffleShards |-> pool'[g]]
    BY <1>0, <1>1 DEF OutputsType
  <2>4. stage' # "merge"
    BY <1>1, <1>4 DEF ReadsFiles
  <2> QED
    BY <2>2, <2>3, <2>4, <1>1 DEF PoolType
<1>15. TypesInv'
  <2>1. stage # "merge"
    BY <1>4 DEF ReadsFiles
  <2> QED
    BY <2>1, <1>0, <1>2, <1>7, <1>11, <1>12, <1>13, <1>14,
       ReadingOutputs, ReadingSlices, ReadingPoints DEF TypesInv
<1>16. FileEnded
  BY <1>1, <1>2, <1>4, <1>7, <1>8, <1>10 DEF FileEnded
<1> QED
  BY <1>15, <1>16

-----------------------------------------------------------------------------
(* The ends of slices: some of the pools is appended to the files, and the *)
(* slice is over.                                                          *)

Ended(ext) ==
  /\ serving # 0 /\ serving' = 0 /\ reader' = NoSlice /\ pool' = NoOutput
  /\ mapped' = mapped /\ stage' = stage /\ chunks' = chunks /\ dropped' = dropped
  /\ DOMAIN ext = ShuffleShards
  /\ \A f \in ShuffleShards : /\ ValuesOf(ext[f]) \subseteq ValuesOf(pool[f])
                              /\ stage \in WritingStages => ext[f] \in Seq(ItemsOf(stage, f))
  /\ written' = IF stage \in WritingStages
                THEN [written EXCEPT ![stage] = [f \in ShuffleShards |-> @[f] \o ext[f]]]
                ELSE written
  /\ failures' \in 0..MaxFailures
  /\ failures' = 0 => failures = 0 /\ ext = pool

LEMMA EndedOutput ==
  ASSUME OutputsType, NEW ext, Ended(ext)
  PROVE  /\ Input(stage)' = Input(stage) /\ Pairs' = Pairs
         /\ \A st, f : ItemsOf(st, f)' = ItemsOf(st, f) /\ PairsFor(f)' = PairsFor(f)
         /\ \A st \in WritingStages : DOMAIN written'[st] = ShuffleShards
         /\ DOMAIN written' = WritingStages
         /\ \A st \in WritingStages \ {stage} : written'[st] = written[st]
         /\ stage \in WritingStages => \A f \in ShuffleShards :
              /\ written'[stage][f] = written[stage][f] \o ext[f]
              /\ written'[stage][f] \in Seq(ItemsOf(stage, f))
<1>1. Pairs' = Pairs
  BY DEF Pairs, Ended
<1>2. \A st, f : ItemsOf(st, f)' = ItemsOf(st, f) /\ PairsFor(f)' = PairsFor(f)
  BY <1>1 DEF ItemsOf, PairsFor, Merged, Calls
<1>3. DOMAIN written = WritingStages /\ \A st \in WritingStages : DOMAIN written[st] = ShuffleShards
  BY DEF OutputsType
<1>4. \A st \in WritingStages \ {stage} : written'[st] = written[st]
  BY <1>3 DEF Ended
<1>5. stage \in WritingStages => written'[stage] = [f \in ShuffleShards |-> written[stage][f] \o ext[f]]
  BY <1>3 DEF Ended
<1>6. DOMAIN written' = WritingStages
  BY <1>3 DEF Ended
<1>7. ASSUME stage \in WritingStages, NEW f \in ShuffleShards
      PROVE  written'[stage][f] \in Seq(ItemsOf(stage, f))
  <2>1. written[stage][f] \in Seq(ItemsOf(stage, f)) /\ ext[f] \in Seq(ItemsOf(stage, f))
    BY <1>7 DEF OutputsType, Ended
  <2>2. written'[stage][f] = written[stage][f] \o ext[f]
    BY <1>5, <1>7
  <2> QED
    BY <2>1, <2>2, ValuesOfConcat
<1>8. stage' = stage /\ mapped' = mapped /\ chunks' = chunks
  BY DEF Ended
<1>9. Input(stage)' = Input(stage)
  <2>1. CASE stage \in {"hash", "merge"}
    BY <2>1, <1>8 DEF Input
  <2>2. CASE stage = "sort"
    BY <2>2, <1>4, <1>8 DEF Input, WritingStages
  <2>3. CASE stage = "reduce"
    BY <2>3, <1>4, <1>8 DEF Input, WritingStages
  <2>4. CASE stage = "over"
    BY <2>4, <1>4, <1>8 DEF Input, WritingStages
  <2> QED
    BY <2>1, <2>2, <2>3, <2>4, StageFacts DEF OutputsType
<1> QED
  BY <1>1, <1>2, <1>3, <1>4, <1>5, <1>6, <1>7, <1>9

LEMMA EndTypes ==
  ASSUME TypesInv, NEW ext, Ended(ext), stored' \in [ShuffleShards -> Readers],
         active' \subseteq active, final' \subseteq ShuffleShards,
         \A s \in active' : /\ Points(s, stored'[s])
                            /\ stage = "merge" => stored'[s].key = NoKey
  PROVE  TypesInv'
<1>0. OutputsType /\ SlicesType /\ ReadersPoint
  BY DEF TypesInv
<1>1. /\ Input(stage)' = Input(stage) /\ Pairs' = Pairs
      /\ \A st, f : ItemsOf(st, f)' = ItemsOf(st, f) /\ PairsFor(f)' = PairsFor(f)
      /\ \A st \in WritingStages : DOMAIN written'[st] = ShuffleShards
      /\ DOMAIN written' = WritingStages
      /\ \A st \in WritingStages \ {stage} : written'[st] = written[st]
      /\ stage \in WritingStages => \A f \in ShuffleShards :
           written'[stage][f] \in Seq(ItemsOf(stage, f))
  BY <1>0, EndedOutput
<1>2. /\ serving # 0 /\ serving' = 0 /\ reader' = NoSlice /\ pool' = NoOutput
      /\ mapped' = mapped /\ stage' = stage /\ chunks' = chunks /\ dropped' = dropped
      /\ failures' \in 0..MaxFailures
  BY DEF Ended
<1>3. OutputsType'
  <2>1. \A st \in WritingStages : \A f \in ShuffleShards :
          written'[st][f] \in Seq(ItemsOf(st, f)')
    BY <1>0, <1>1 DEF OutputsType
  <2>2. \A f \in ShuffleShards : chunks'[f] \in Seq(Seq(PairsFor(f)'))
    <3>1. \A f \in ShuffleShards : Seq(Seq(PairsFor(f)')) = Seq(Seq(PairsFor(f)))
      BY <1>1
    <3> QED
      BY <3>1, <1>0, <1>2 DEF OutputsType
  <2>3. /\ stage' = "hash" => chunks' = NoOutput
        /\ stage' \in {"hash", "sort"} => written'["merge"] = NoOutput
        /\ stage' \in {"hash", "sort", "merge"} => written'["reduce"] = NoOutput
    BY <1>0, <1>1, <1>2 DEF OutputsType, WritingStages
  <2>4. \A f \in ShuffleShards : pool'[f] = <<>>
    BY <1>2 DEF NoOutput
  <2>5. pool' = [f \in ShuffleShards |-> pool'[f]]
    BY <1>2 DEF NoOutput
  <2>6. \A f \in ShuffleShards :
          IF stage' \in WritingStages THEN pool'[f] \in Seq(ItemsOf(stage, f)') ELSE pool'[f] = <<>>
    <3>1. \A S : <<>> \in Seq(S)
      OBVIOUS
    <3> QED
      BY <2>4, <3>1
  <2>7. mapped' \in MapOutputs /\ stage' \in DOMAIN Follows \union {"over"}
        /\ DOMAIN chunks' = ShuffleShards
    BY <1>0, <1>2 DEF OutputsType
  <2> QED
    BY <2>1, <2>2, <2>3, <2>5, <2>6, <2>7, <1>1 DEF OutputsType
<1>4. SlicesType'
  <2>1. NoSlice \in Readers
    BY DEF NoSlice, NewReader, Readers, NoKey
  <2>2. ShardsOf(stage') = ShardsOf(stage)
    BY <1>2
  <2>3. stage' = "merge" => \A f \in ShuffleShards \ {serving'} : pool'[f] = <<>>
    BY <1>2 DEF NoOutput
  <2> QED
    BY <2>1, <2>2, <2>3, <1>0, <1>2 DEF SlicesType
<1>5. ReadersPoint'
  <2> SUFFICES ASSUME NEW s \in active'
               PROVE  /\ Points(s, stored[s])'
                      /\ ReaderNow(s)' = stored'[s]
                      /\ stage = "merge" => stored'[s].key = NoKey
                      /\ stored'[s] \in Readers
    <3>1. \A s \in active' : stage' = "merge" => \A i \in DOMAIN stored'[s].offsets :
            stored'[s].offsets[i] <= stored'[s].offsets[i]
      <4> SUFFICES ASSUME NEW s \in active', NEW i \in DOMAIN stored'[s].offsets
                   PROVE  stored'[s].offsets[i] <= stored'[s].offsets[i]
        OBVIOUS
      <4>1. s \in ShuffleShards
        BY <1>0, Shards DEF SlicesType, ShardsOf
      <4>2. stored'[s].offsets \in Seq(Nat)
        BY <4>1 DEF Readers
      <4>3. stored'[s].offsets[i] \in Nat
        BY <4>2, SeqAt
      <4> QED
        BY <4>3
    <3> QED
      BY <3>1, <1>2 DEF ReadersPoint, Points
  <2>1. s \in active /\ s \in ShuffleShards /\ s # 0
    BY <1>0, Shards DEF SlicesType, ShardsOf
  <2>2. ReaderNow(s)' = stored'[s]
    BY <2>1, <1>2 DEF ReaderNow
  <2>3. Points(s, stored'[s])
    OBVIOUS
  <2>4. Points(s, stored[s])'
    BY <2>3, <1>1, <1>2 DEF Points, Hash
  <2>5. stored'[s] \in Readers
    BY <2>1
  <2> QED
    BY <2>2, <2>4, <2>5
<1> QED
  BY <1>3, <1>4, <1>5 DEF TypesInv

Kept(ext) ==
  /\ \A f \in ShuffleShards : ValuesOf(ext[f]) = ValuesOf(pool[f])
  /\ stage # "hash" => ext = pool

LEMMA PoolFacts ==
  ASSUME TypesInv, stage \in WritingStages, NEW f \in ShuffleShards
  PROVE  pool[f] \in Seq(ItemsOf(stage, f))
  BY DEF TypesInv, OutputsType

LEMMA PoolFunction ==
  ASSUME TypesInv
  PROVE  DOMAIN pool = ShuffleShards /\ pool = [f \in ShuffleShards |-> pool[f]]
  BY DEF TypesInv, OutputsType

LEMMA Flushed ==
  ASSUME TypesInv, serving # 0, NEW failed \in {0, 1}, failed = 1 => failures < MaxFailures,
         FlushPools(failed), serving' = 0, reader' = NoSlice,
         UNCHANGED <<mapped, stage, chunks, dropped>>
  PROVE  \E ext : Ended(ext) /\ Kept(ext) /\ (failed = 1 => failures' # 0)
<1>1. PICK twice \in Repeated(failed) :
        /\ IF stage \in WritingStages
           THEN written' = [written EXCEPT ![stage] = [f \in ShuffleShards |->
                  @[f] \o pool[f] \o (IF f \in twice THEN pool[f] ELSE <<>>)]]
           ELSE UNCHANGED written
        /\ failures' = failures + failed + (IF twice = {} THEN 0 ELSE 1)
  BY DEF FlushPools
<1>2. pool' = NoOutput
  BY DEF FlushPools
<1>3. failures \in Nat /\ failures <= MaxFailures /\ MaxFailures \in Nat
  BY Shards DEF TypesInv, SlicesType
<1>4. twice # {} => failures + failed < MaxFailures
  BY DEF Repeated
<1>5. /\ failures' \in 0..MaxFailures
      /\ failures' = 0 => failures = 0 /\ twice = {}
      /\ failed = 1 => failures' # 0
  <2>1. failures' = failures + failed + (IF twice = {} THEN 0 ELSE 1)
    BY <1>1
  <2>2. CASE twice = {}
    BY <2>1, <2>2, <1>3
  <2>3. CASE twice # {}
    BY <2>1, <2>3, <1>3, <1>4
  <2> QED
    BY <2>2, <2>3
<1> DEFINE ext == [f \in ShuffleShards |-> IF f \in twice THEN pool[f] \o pool[f] ELSE pool[f]]
<1>6. DOMAIN ext = ShuffleShards
      /\ \A f \in ShuffleShards : ext[f] = IF f \in twice THEN pool[f] \o pool[f] ELSE pool[f]
  OBVIOUS
<1>7. twice = {} => ext = pool
  BY PoolFunction
<1> HIDE DEF ext
<1>8. PICK A : \A f \in ShuffleShards : pool[f] \in Seq(A)
  <2>1. CASE stage \in WritingStages
    BY <2>1, WrittenFiles DEF TypesInv, IsFiles
  <2>2. CASE stage \notin WritingStages
    <3>1. \A f \in ShuffleShards : pool[f] = <<>>
      BY <2>2 DEF TypesInv, OutputsType
    <3>2. <<>> \in Seq({})
      OBVIOUS
    <3> QED
      BY <3>1, <3>2
  <2> QED
    BY <2>1, <2>2
<1>9. ASSUME NEW f \in ShuffleShards
      PROVE  /\ ValuesOf(ext[f]) = ValuesOf(pool[f])
             /\ stage \in WritingStages => ext[f] \in Seq(ItemsOf(stage, f))
             /\ stage \in WritingStages =>
                  written[stage][f] \o pool[f] \o (IF f \in twice THEN pool[f] ELSE <<>>) =
                    written[stage][f] \o ext[f]
  <2>1. CASE f \in twice
    <3>1. ext[f] = pool[f] \o pool[f]
      BY <2>1, <1>6
    <3>2. ValuesOf(pool[f] \o pool[f]) = ValuesOf(pool[f]) \union ValuesOf(pool[f])
      BY <1>8, ValuesOfConcat
    <3>3. ASSUME stage \in WritingStages
          PROVE  /\ ext[f] \in Seq(ItemsOf(stage, f))
                 /\ written[stage][f] \o pool[f] \o pool[f] = written[stage][f] \o ext[f]
      <4>1. written[stage][f] \in Seq(ItemsOf(stage, f)) /\ pool[f] \in Seq(ItemsOf(stage, f))
        BY <3>3 DEF TypesInv, OutputsType
      <4>2. pool[f] \o pool[f] \in Seq(ItemsOf(stage, f))
        BY <4>1, ConcatProperties
      <4>3. (written[stage][f] \o pool[f]) \o pool[f] = written[stage][f] \o (pool[f] \o pool[f])
        <5>1. PICK T, a, b : T = ItemsOf(stage, f) /\ a = written[stage][f] /\ b = pool[f]
          OBVIOUS
        <5>2. a \in Seq(T) /\ b \in Seq(T)
          BY <4>1, <5>1
        <5>3. (a \o b) \o b = a \o (b \o b)
          BY <5>2, ConcatAssociative
        <5> QED
          BY <5>1, <5>3
      <4> QED
        BY <4>2, <4>3, <3>1
    <3> QED
      BY <2>1, <3>1, <3>2, <3>3
  <2>2. CASE f \notin twice
    <3>1. ext[f] = pool[f]
      BY <2>2, <1>6
    <3>2. ASSUME stage \in WritingStages
          PROVE  /\ ext[f] \in Seq(ItemsOf(stage, f))
                 /\ written[stage][f] \o pool[f] \o <<>> = written[stage][f] \o ext[f]
      <4>1. written[stage][f] \in Seq(ItemsOf(stage, f)) /\ pool[f] \in Seq(ItemsOf(stage, f))
        BY <3>2 DEF TypesInv, OutputsType
      <4>2. written[stage][f] \o pool[f] \in Seq(ItemsOf(stage, f))
        BY <4>1, ConcatProperties
      <4> QED
        BY <4>1, <4>2, <3>1, ConcatEmptySeq
    <3> QED
      BY <2>2, <3>1, <3>2
  <2> QED
    BY <2>1, <2>2
<1>10. written' = IF stage \in WritingStages
                  THEN [written EXCEPT ![stage] = [f \in ShuffleShards |-> @[f] \o ext[f]]]
                  ELSE written
  BY <1>1, <1>9
<1>11. Ended(ext)
  BY <1>2, <1>5, <1>6, <1>7, <1>9, <1>10 DEF Ended
<1>12. stage # "hash" => ext = pool
  BY <1>7 DEF Repeated
<1> QED
  BY <1>5, <1>9, <1>11, <1>12 DEF Kept

(* How the slice of a shard ends: with another to follow, with the shard,  *)
(* or with the same slice to run again.                                    *)
Continues(ext) ==
  /\ Ended(ext) /\ Kept(ext)
  /\ stage = "merge" => reader.key = NoKey
  /\ stored' = [stored EXCEPT ![serving] = [reader EXCEPT !.some = FALSE]]
  /\ active' = active /\ serving \in active
Finishes(ext) ==
  /\ Ended(ext) /\ Kept(ext) /\ AtEnd
  /\ stored' = [stored EXCEPT ![serving] = NoSlice]
  /\ active' = active \ {serving} /\ serving \in active
Repeats(ext) ==
  /\ Ended(ext) /\ failures' # 0
  /\ stored' = stored /\ active' = active

LEMMA NoSliceType == NoSlice \in Readers /\ NoSlice.files = <<>> /\ NoSlice.offsets = <<>>
                     /\ NoSlice.key = NoKey /\ NoSlice.values = <<>>
  BY DEF NoSlice, NewReader, Readers, NoKey

LEMMA StoredPoints ==
  ASSUME TypesInv
  PROVE  /\ stored \in [ShuffleShards -> Readers]
         /\ \A s \in active : /\ Points(s, stored[s])
                              /\ stage = "merge" => stored[s].key = NoKey
         /\ final \subseteq ShuffleShards /\ active \subseteq ShuffleShards
<1>1. active \subseteq ShuffleShards
  BY Shards DEF TypesInv, SlicesType, ShardsOf
<1> QED
  BY <1>1 DEF TypesInv, SlicesType, ReadersPoint

LEMMA ContinueStep ==
  ASSUME TypesInv, EndShuffleSlice
  PROVE  TypesInv' /\ \E ext : Continues(ext)
<1> DEFINE rd == [reader EXCEPT !.some = FALSE]
<1>1. /\ serving # 0 /\ CheckpointAllowed /\ FlushPools(0)
      /\ stored' = [stored EXCEPT ![serving] = rd]
      /\ serving' = 0 /\ reader' = NoSlice
      /\ UNCHANGED <<mapped, stage, chunks, final, active, dropped>>
  BY DEF EndShuffleSlice
<1>2. PICK ext : Ended(ext) /\ Kept(ext)
  <2>1. 0 \in {0, 1} /\ 0 # 1
    OBVIOUS
  <2> QED
    BY <1>1, <2>1, Flushed
<1>3. /\ serving \in active /\ Points(serving, reader) /\ reader \in Readers
      /\ serving \in ShuffleShards
  BY <1>1, ServedPoints DEF TypesInv
<1>4. stage = "merge" => reader.key = NoKey
  BY <1>1 DEF CheckpointAllowed
<1>5. /\ rd \in Readers /\ rd.key = reader.key /\ rd.files = reader.files
      /\ rd.position = reader.position /\ rd.offsets = reader.offsets
      /\ rd.values = reader.values
  BY <1>3 DEF Readers
<1> HIDE DEF rd
<1>6. Points(serving, rd)
  BY <1>3, <1>5 DEF Points
<1>7. /\ stored' \in [ShuffleShards -> Readers]
      /\ stored'[serving] = rd /\ \A s \in ShuffleShards \ {serving} : stored'[s] = stored[s]
  BY <1>1, <1>3, <1>5, StoredPoints
<1>8. \A s \in active : /\ Points(s, stored'[s])
                        /\ stage = "merge" => stored'[s].key = NoKey
  <2> SUFFICES ASSUME NEW s \in active
               PROVE  Points(s, stored'[s]) /\ (stage = "merge" => stored'[s].key = NoKey)
    OBVIOUS
  <2>1. CASE s = serving
    BY <2>1, <1>4, <1>5, <1>6, <1>7
  <2>2. CASE s # serving
    BY <2>2, <1>7, StoredPoints
  <2> QED
    BY <2>1, <2>2
<1>9. TypesInv'
  <2>1. active' \subseteq active /\ active' = active /\ final' \subseteq ShuffleShards
    BY <1>1, StoredPoints
  <2> QED
    BY <2>1, <1>2, <1>7, <1>8, EndTypes
<1>10. Continues(ext)
  BY <1>1, <1>2, <1>3, <1>4 DEF Continues, rd
<1> QED
  BY <1>9, <1>10

LEMMA FinishStep ==
  ASSUME TypesInv, EndShard
  PROVE  TypesInv' /\ \E ext : Finishes(ext)
<1>1. /\ serving # 0 /\ AtEnd /\ FlushPools(0)
      /\ final' = Finalized /\ active' = active \ {serving}
      /\ stored' = [stored EXCEPT ![serving] = NoSlice]
      /\ serving' = 0 /\ reader' = NoSlice
      /\ UNCHANGED <<mapped, stage, chunks, dropped>>
  BY DEF EndShard
<1>2. PICK ext : Ended(ext) /\ Kept(ext)
  <2>1. 0 \in {0, 1} /\ 0 # 1
    OBVIOUS
  <2> QED
    BY <1>1, <2>1, Flushed
<1>3. serving \in active /\ serving \in ShuffleShards
  BY <1>1, ServedPoints DEF TypesInv
<1>4. /\ stored' \in [ShuffleShards -> Readers]
      /\ \A s \in ShuffleShards \ {serving} : stored'[s] = stored[s]
  BY <1>1, <1>3, StoredPoints, NoSliceType
<1>5. \A s \in active' : /\ Points(s, stored'[s])
                         /\ stage = "merge" => stored'[s].key = NoKey
  BY <1>1, <1>4, StoredPoints
<1>6. TypesInv'
  <2>1. active' \subseteq active /\ final' \subseteq ShuffleShards
    BY <1>1, <1>3, StoredPoints DEF Finalized
  <2> QED
    BY <2>1, <1>2, <1>4, <1>5, EndTypes
<1>7. Finishes(ext)
  BY <1>1, <1>2, <1>3 DEF Finishes
<1> QED
  BY <1>6, <1>7

LEMMA RepeatStep ==
  ASSUME TypesInv, EndUnrecorded \/ FailSlice
  PROVE  TypesInv' /\ \E ext : Repeats(ext)
<1>0. stored' = stored /\ active' = active /\ serving # 0 /\ failures < MaxFailures
      /\ serving' = 0 /\ reader' = NoSlice
      /\ UNCHANGED <<mapped, stage, chunks, dropped>>
  BY DEF EndUnrecorded, FailSlice
<1>1. \E ext : Ended(ext) /\ failures' # 0
  <2>1. CASE EndUnrecorded
    <3>1. FlushPools(1)
      BY <2>1 DEF EndUnrecorded
    <3>2. 1 \in {0, 1}
      OBVIOUS
    <3> QED
      BY <3>1, <3>2, <1>0, Flushed
  <2>2. CASE FailSlice
    <3>1. PICK cut \in [ShuffleShards -> UNION {0..Len(pool[f]) : f \in ShuffleShards}] :
            /\ \A f \in ShuffleShards : cut[f] <= Len(pool[f]) /\ (~CanFlush => cut[f] = 0)
            /\ IF stage \in WritingStages
               THEN written' = [written EXCEPT ![stage] = [f \in ShuffleShards |->
                                  @[f] \o SubSeq(pool[f], 1, cut[f])]]
               ELSE UNCHANGED written
      BY <2>2 DEF FailSlice
    <3>2. failures' = failures + 1 /\ pool' = NoOutput
      BY <2>2 DEF FailSlice
    <3> DEFINE ext == [f \in ShuffleShards |-> SubSeq(pool[f], 1, cut[f])]
    <3>3. DOMAIN ext = ShuffleShards
          /\ \A f \in ShuffleShards : ext[f] = SubSeq(pool[f], 1, cut[f])
      OBVIOUS
    <3> HIDE DEF ext
    <3>4. ASSUME NEW f \in ShuffleShards
          PROVE  /\ ValuesOf(ext[f]) \subseteq ValuesOf(pool[f])
                 /\ stage \in WritingStages => ext[f] \in Seq(ItemsOf(stage, f))
      <4>1. PICK S : /\ pool[f] \in Seq(S)
                     /\ stage \in WritingStages => S = ItemsOf(stage, f)
        <5>1. CASE stage \in WritingStages
          BY <5>1, PoolFacts
        <5>2. CASE stage \notin WritingStages
          <6>1. pool[f] = <<>>
            BY <5>2 DEF TypesInv, OutputsType
          <6>2. <<>> \in Seq({})
            OBVIOUS
          <6> QED
            BY <5>2, <6>1, <6>2
        <5> QED
          BY <5>1, <5>2
      <4>2. PICK q, n : q = pool[f] /\ n = cut[f]
        OBVIOUS
      <4>3. q \in Seq(S) /\ n <= Len(q) /\ n \in Nat /\ Len(q) \in Nat /\ DOMAIN q = 1..Len(q)
        <5>1. \A g \in ShuffleShards : Len(pool[g]) \in Nat
          <6> SUFFICES ASSUME NEW g \in ShuffleShards PROVE Len(pool[g]) \in Nat
            OBVIOUS
          <6>1. CASE stage \in WritingStages
            BY <6>1, PoolFacts, LenProperties
          <6>2. CASE stage \notin WritingStages
            <7>1. pool[g] = <<>>
              BY <6>2 DEF TypesInv, OutputsType
            <7> QED
              BY <7>1
          <6> QED
            BY <6>1, <6>2
        <5>2. n \in UNION {0..Len(pool[g]) : g \in ShuffleShards}
          BY <4>2
        <5>3. n \in Nat
          BY <5>1, <5>2
        <5> QED
          BY <5>3, <4>1, <4>2, <3>1, LenProperties
      <4>4. \A i \in 1..n : i \in 1..Len(q)
        BY <4>3
      <4>5. \A i \in 1..n : q[i] \in S /\ q[i] \in ValuesOf(q)
        BY <4>3, <4>4, SeqAt DEF ValuesOf
      <4>6. /\ SubSeq(q, 1, n) \in Seq(S)
            /\ \A i \in DOMAIN SubSeq(q, 1, n) : SubSeq(q, 1, n)[i] \in ValuesOf(q)
        <5>1. /\ SubSeq(q, 1, n) \in Seq(S)
              /\ Len(SubSeq(q, 1, n)) = IF 1 <= n THEN n - 1 + 1 ELSE 0
              /\ \A i \in 1..n - 1 + 1 : SubSeq(q, 1, n)[i] = q[1 + i - 1]
          BY <4>3, <4>5, SubSeqProperties
        <5>2. /\ n - 1 + 1 = n /\ (IF 1 <= n THEN n - 1 + 1 ELSE 0) = n
              /\ \A i \in 1..n : 1 + i - 1 = i
          BY <4>3
        <5>3. DOMAIN SubSeq(q, 1, n) = 1..n
          BY <5>1, <5>2, LenProperties
        <5> QED
          BY <5>1, <5>2, <5>3, <4>5
      <4>7. ext[f] = SubSeq(q, 1, n)
        BY <3>3, <4>2
      <4>8. ValuesOf(SubSeq(q, 1, n)) \subseteq ValuesOf(q)
        BY <4>6 DEF ValuesOf
      <4> QED
        BY <4>1, <4>2, <4>6, <4>7, <4>8
    <3>5. written' = IF stage \in WritingStages
                     THEN [written EXCEPT ![stage] = [f \in ShuffleShards |-> @[f] \o ext[f]]]
                     ELSE written
      BY <3>1, <3>3
    <3>6. failures' \in 0..MaxFailures /\ failures' # 0
      <4>1. failures \in Nat /\ MaxFailures \in Nat
        BY Shards DEF TypesInv, SlicesType
      <4> QED
        BY <4>1, <3>2, <1>0
    <3>7. Ended(ext)
      BY <1>0, <3>2, <3>3, <3>4, <3>5, <3>6 DEF Ended
    <3> QED
      BY <3>6, <3>7
  <2> QED
    BY <2>1, <2>2
<1>2. PICK ext : Ended(ext) /\ failures' # 0
  BY <1>1
<1>3. final' \subseteq ShuffleShards
  <2>1. serving \in ShuffleShards
    BY <1>0, ServedPoints DEF TypesInv
  <2> QED
    BY <2>1, StoredPoints DEF EndUnrecorded, FailSlice, Finalized
<1>4. TypesInv'
  <2>1. active' \subseteq active
    BY <1>0
  <2>2. /\ stored' \in [ShuffleShards -> Readers]
        /\ \A s \in active' : /\ Points(s, stored'[s])
                              /\ stage = "merge" => stored'[s].key = NoKey
    BY <1>0, StoredPoints
  <2> QED
    BY <2>1, <2>2, <1>2, <1>3, EndTypes
<1> QED
  BY <1>0, <1>2, <1>4 DEF Repeats

-----------------------------------------------------------------------------
(* Files dealt out to the shards.                                          *)

LEMMA DealtLength ==
  ASSUME NEW count \in Nat, NEW n \in Nat \ {0}, NEW s \in 1..n
  PROVE  /\ (count + n - s) \div n \in Nat
         /\ n * ((count + n - s) \div n) <= count + n - s
         /\ count + n - s < n * ((count + n - s) \div n) + n
<1>1. PICK a \in Nat : a = count + n - s
  OBVIOUS
<1>2. a \div n \in Nat /\ n * (a \div n) <= a /\ a < n * (a \div n) + n
  OBVIOUS
<1> QED
  BY <1>1, <1>2

LEMMA TimesGrows ==
  ASSUME NEW a \in Nat, NEW b \in Nat, NEW n \in Nat, a <= b
  PROVE  n * a <= n * b
  OBVIOUS

LEMMA TimesSucc ==
  ASSUME NEW a \in Nat, NEW n \in Nat
  PROVE  n * (a + 1) = n * a + n /\ a * n = n * a /\ n * a \in Nat
  OBVIOUS

LEMMA DealtFacts ==
  ASSUME NEW count \in Nat, NEW n \in Nat \ {0}, NEW s \in 1..n
  PROVE  /\ Dealt(count, n, s) \in Seq(Nat)
         /\ DOMAIN Dealt(count, n, s) = 1..(count + n - s) \div n
         /\ \A j \in DOMAIN Dealt(count, n, s) :
              Dealt(count, n, s)[j] \in 1..count /\ Dealt(count, n, s)[j] = s + n * (j - 1)
<1>1. PICK q \in Nat : q = (count + n - s) \div n
  BY DealtLength
<1>2. n * q <= count + n - s
  BY <1>1, DealtLength
<1>3. ASSUME NEW j \in 1..q
      PROVE  s + (j - 1) * n \in 1..count /\ s + (j - 1) * n = s + n * (j - 1)
  <2>1. PICK k \in Nat : j = k + 1
    <3>1. j - 1 \in Nat /\ j = (j - 1) + 1
      OBVIOUS
    <3> QED
      BY <3>1
  <2>2. k + 1 <= q
    BY <2>1
  <2>3. n * (k + 1) <= n * q
    BY <2>2, TimesGrows
  <2>4. n * (k + 1) = n * k + n /\ k * n = n * k /\ n * k \in Nat
    BY TimesSucc
  <2>5. PICK x \in Nat, y \in Nat : x = n * k /\ y = n * q
    BY <2>4
  <2>6. x + n <= y /\ y <= count + n - s
    BY <1>2, <2>3, <2>4, <2>5
  <2>7. s + x \in 1..count
    BY <2>6
  <2>8. j - 1 = k
    BY <2>1
  <2> QED
    BY <2>4, <2>5, <2>7, <2>8
<1>4. Dealt(count, n, s) = [j \in 1..q |-> s + (j - 1) * n]
  BY <1>1 DEF Dealt
<1>5. \A j \in 1..q : s + (j - 1) * n \in Nat
  BY <1>3
<1>6. Dealt(count, n, s) \in Seq(Nat)
  BY <1>4, <1>5
<1> QED
  BY <1>1, <1>3, <1>4, <1>6

LEMMA DealtApart ==
  ASSUME NEW count \in Nat, NEW n \in Nat \ {0}, NEW s \in 1..n, NEW t \in 1..n,
         NEW j \in DOMAIN Dealt(count, n, s), NEW k \in DOMAIN Dealt(count, n, t),
         Dealt(count, n, s)[j] = Dealt(count, n, t)[k]
  PROVE  s = t /\ j = k
<1>1. s + n * (j - 1) = t + n * (k - 1) /\ j \in Nat \ {0} /\ k \in Nat \ {0}
  <2>1. Dealt(count, n, s)[j] = s + n * (j - 1) /\ Dealt(count, n, t)[k] = t + n * (k - 1)
    BY DealtFacts
  <2>2. j \in Nat \ {0} /\ k \in Nat \ {0}
    <3>1. /\ DOMAIN Dealt(count, n, s) = 1..(count + n - s) \div n
          /\ DOMAIN Dealt(count, n, t) = 1..(count + n - t) \div n
      BY DealtFacts
    <3>2. PICK x, y : x = (count + n - s) \div n /\ y = (count + n - t) \div n
      OBVIOUS
    <3>3. j \in 1..x /\ k \in 1..y
      BY <3>1, <3>2
    <3> QED
      BY <3>3
  <2> QED
    BY <2>1, <2>2
<1>2. PICK a \in Nat, b \in Nat : a = j - 1 /\ b = k - 1
  BY <1>1
<1>3. s + n * a = t + n * b
  BY <1>1, <1>2
<1>4. a = b
  <2>1. ASSUME NEW c \in Nat, NEW d \in Nat, c < d, NEW u \in 1..n, NEW v \in 1..n,
               u + n * c = v + n * d
        PROVE  FALSE
    <3>1. n * (c + 1) <= n * d
      <4>1. c + 1 <= d /\ c + 1 \in Nat
        BY <2>1
      <4> QED
        BY <4>1, TimesGrows
    <3>2. n * (c + 1) = n * c + n /\ n * c \in Nat /\ n * d \in Nat
      BY TimesSucc
    <3>3. PICK x \in Nat, y \in Nat : x = n * c /\ y = n * d
      BY <3>2
    <3>4. x + n <= y /\ u + x = v + y
      BY <2>1, <3>1, <3>2, <3>3
    <3> QED
      BY <3>4
  <2>2. a < b \/ b < a \/ a = b
    OBVIOUS
  <2>3. t + n * b = s + n * a
    BY <1>3
  <2> QED
    BY <2>1, <2>2, <2>3, <1>3
<1>5. j = k
  BY <1>1, <1>2, <1>4
<1>6. PICK x \in Nat : x = n * a /\ x = n * b
  BY <1>4, TimesSucc
<1>7. s = t
  BY <1>3, <1>6
<1> QED
  BY <1>5, <1>7

LEMMA DealtCovers ==
  ASSUME NEW count \in Nat, NEW n \in Nat \ {0}, NEW f \in 1..count
  PROVE  \E s \in 1..n : \E j \in DOMAIN Dealt(count, n, s) : Dealt(count, n, s)[j] = f
<1>1. PICK e \in Nat : e = f - 1
  OBVIOUS
<1>2. PICK a \in Nat, r \in Nat : a = e \div n /\ r = e % n
  OBVIOUS
<1>3. e = n * a + r /\ r < n
  BY <1>2
<1>4. r + 1 \in 1..n
  BY <1>3
<1>5. PICK s \in 1..n : s = r + 1
  BY <1>4
<1>6. PICK q \in Nat : q = (count + n - s) \div n
  BY DealtLength
<1>7. count + n - s < n * q + n
  BY <1>6, DealtLength
<1>8. a + 1 <= q
  <2> SUFFICES ASSUME q <= a PROVE FALSE
    OBVIOUS
  <2>1. n * q <= n * a
    BY TimesGrows
  <2>2. PICK x \in Nat, y \in Nat : x = n * q /\ y = n * a
    BY TimesSucc
  <2> QED
    BY <2>1, <2>2, <1>1, <1>3, <1>5, <1>7
<1>90. /\ DOMAIN Dealt(count, n, s) = 1..(count + n - s) \div n
       /\ \A j \in DOMAIN Dealt(count, n, s) : Dealt(count, n, s)[j] = s + n * (j - 1)
  BY DealtFacts
<1>91. DOMAIN Dealt(count, n, s) = 1..q
  BY <1>6, <1>90
<1>92. a + 1 \in 1..q
  BY <1>8
<1>9. a + 1 \in DOMAIN Dealt(count, n, s)
  BY <1>91, <1>92
<1>10. Dealt(count, n, s)[a + 1] = s + n * (a + 1 - 1)
  BY <1>9, <1>90
<1>11. a + 1 - 1 = a
  OBVIOUS
<1>12. s + n * a = f
  <2>1. PICK y \in Nat : y = n * a
    BY TimesSucc
  <2> QED
    BY <2>1, <1>1, <1>3, <1>5
<1> QED
  BY <1>9, <1>10, <1>11, <1>12

-----------------------------------------------------------------------------
(* The start of slices, of jobs and of the whole.                          *)

Begun(s) ==
  /\ serving = 0 /\ s \in active /\ serving' = s /\ s # 0
  /\ UNCHANGED <<mapped, stage, written, chunks, final, active, stored, pool, failures>>
  /\ dropped' = (dropped \/ (stage = "reduce" /\ stored[s].key # NoKey))
  /\ reader'.files = stored[s].files /\ reader'.position = stored[s].position
  /\ reader'.offsets = stored[s].offsets /\ reader'.key = NoKey /\ reader'.values = <<>>

LEMMA SameStage ==
  ASSUME UNCHANGED <<mapped, stage, written, chunks>>
  PROVE  /\ Input(stage)' = Input(stage) /\ Input(stage') = Input(stage) /\ Pairs' = Pairs
         /\ \A st, f : ItemsOf(st, f)' = ItemsOf(st, f) /\ PairsFor(f)' = PairsFor(f)
         /\ \A s, rd : Points(s, rd) =>
              /\ \A n \in DOMAIN rd.files : rd.files[n] \in DOMAIN Input(stage)'
              /\ stage' = "sort" => rd.files \in {<<>>, <<s>>}
              /\ rd.files # <<>> => rd.position <= Len(Input(stage)'[rd.files[1]])
              /\ IF stage' = "merge"
                 THEN /\ rd.files = <<>> /\ DOMAIN rd.offsets = DOMAIN chunks'[s]
                      /\ \A i \in DOMAIN rd.offsets : rd.offsets[i] <= Len(chunks'[s][i])
                 ELSE rd.offsets = <<>>
<1>1. Input(stage)' = Input(stage)
  <2>1. CASE stage = "hash"
    BY <2>1 DEF Input
  <2>2. CASE stage # "hash"
    BY <2>2 DEF Input
  <2> QED
    BY <2>1, <2>2
<1>2. Pairs' = Pairs
  BY DEF Pairs
<1>3. \A st, f : ItemsOf(st, f)' = ItemsOf(st, f) /\ PairsFor(f)' = PairsFor(f)
  BY <1>2 DEF ItemsOf, PairsFor, Merged, Calls
<1> QED
  BY <1>1, <1>2, <1>3 DEF Points

LEMMA BeginStep ==
  ASSUME TypesInv, NEW s \in ShuffleShards, BeginSlice(s)
  PROVE  TypesInv' /\ Begun(s)
<1>1. /\ serving = 0 /\ s \in active /\ serving' = s
      /\ reader' = [stored[s] EXCEPT !.key = NoKey, !.values = <<>>]
      /\ dropped' = (dropped \/ (stage = "reduce" /\ stored[s].key # NoKey))
      /\ UNCHANGED <<mapped, stage, written, chunks, final, active, stored, pool, failures>>
  BY DEF BeginSlice
<1>2. s # 0
  BY Shards
<1>3. stored[s] \in Readers /\ Points(s, stored[s])
  BY <1>1, StoredPoints
<1>4. /\ reader' \in Readers
      /\ reader'.files = stored[s].files /\ reader'.position = stored[s].position
      /\ reader'.offsets = stored[s].offsets /\ reader'.key = NoKey /\ reader'.values = <<>>
  <2>1. NoKey \in Nat /\ <<>> \in Seq(Nat)
    BY DEF NoKey
  <2> QED
    BY <2>1, <1>1, <1>3 DEF Readers
<1>5. Begun(s)
  BY <1>1, <1>2, <1>4 DEF Begun
<1>6. \A st, f : ItemsOf(st, f)' = ItemsOf(st, f) /\ PairsFor(f)' = PairsFor(f)
  BY <1>1, SameStage
<1>7. OutputsType'
  <2>1. \A st \in WritingStages : \A f \in ShuffleShards :
          written'[st][f] \in Seq(ItemsOf(st, f)')
    BY <1>1, <1>6 DEF TypesInv, OutputsType
  <2>2. \A f \in ShuffleShards : chunks'[f] \in Seq(Seq(PairsFor(f)'))
    <3>1. \A f \in ShuffleShards : Seq(Seq(PairsFor(f)')) = Seq(Seq(PairsFor(f)))
      BY <1>6
    <3> QED
      BY <3>1, <1>1 DEF TypesInv, OutputsType
  <2>3. \A f \in ShuffleShards :
          IF stage' \in WritingStages THEN pool'[f] \in Seq(ItemsOf(stage, f)') ELSE pool'[f] = <<>>
    BY <1>1, <1>6 DEF TypesInv, OutputsType
  <2>4. /\ mapped' \in MapOutputs /\ stage' \in DOMAIN Follows \union {"over"}
        /\ stage' = "hash" => chunks' = NoOutput
        /\ stage' \in {"hash", "sort"} => written'["merge"] = NoOutput
        /\ stage' \in {"hash", "sort", "merge"} => written'["reduce"] = NoOutput
        /\ DOMAIN chunks' = ShuffleShards /\ pool' = [f \in ShuffleShards |-> pool'[f]]
        /\ DOMAIN written' = WritingStages
        /\ \A st \in WritingStages : DOMAIN written'[st] = ShuffleShards
    BY <1>1 DEF TypesInv, OutputsType
  <2> QED
    BY <2>1, <2>2, <2>3, <2>4 DEF OutputsType
<1>8. SlicesType'
  <2>1. \A f \in ShuffleShards : pool'[f] = <<>>
    BY <1>1 DEF TypesInv, SlicesType, NoOutput
  <2>2. ShardsOf(stage') = ShardsOf(stage)
    BY <1>1
  <2> QED
    BY <2>1, <2>2, <1>1, <1>2, <1>4 DEF TypesInv, SlicesType
<1>9. ReadersPoint'
  <2> SUFFICES ASSUME NEW t \in active
               PROVE  /\ Points(t, stored[t])' /\ Points(t, ReaderNow(t))'
                      /\ stage = "merge" => stored[t].key = NoKey
                      /\ stage = "merge" => \A i \in DOMAIN stored[t].offsets :
                           stored[t].offsets[i] <= ReaderNow(t)'.offsets[i]
    BY <1>1 DEF ReadersPoint
  <2>1. Points(t, stored[t]) /\ (stage = "merge" => stored[t].key = NoKey)
    BY StoredPoints
  <2>2. Points(t, stored[t])'
    BY <2>1, <1>1, SameStage DEF Points, Hash
  <2>3. /\ ReaderNow(t)'.files = stored[t].files /\ ReaderNow(t)'.position = stored[t].position
        /\ ReaderNow(t)'.offsets = stored[t].offsets
        /\ \/ ReaderNow(t)' = stored[t]
           \/ ReaderNow(t)'.key = NoKey /\ ReaderNow(t)'.values = <<>>
    BY <1>1, <1>4 DEF ReaderNow
  <2>4. Points(t, ReaderNow(t))'
    <3>1. CASE ReaderNow(t)' = stored[t]
      BY <3>1, <2>2, <1>1 DEF Points, Hash
    <3>2. CASE ReaderNow(t)'.key = NoKey /\ ReaderNow(t)'.values = <<>>
      BY <3>2, <2>1, <2>3, <1>1, SameStage, ValuesOfEmpty DEF Points
    <3> QED
      BY <2>3, <3>1, <3>2
  <2>5. \A i \in DOMAIN stored[t].offsets : stored[t].offsets[i] <= ReaderNow(t)'.offsets[i]
    <3> SUFFICES ASSUME NEW i \in DOMAIN stored[t].offsets
                 PROVE  stored[t].offsets[i] <= stored[t].offsets[i]
      BY <2>3
    <3>1. stored[t].offsets \in Seq(Nat)
      BY StoredPoints DEF Readers
    <3>2. stored[t].offsets[i] \in Nat
      BY <3>1, SeqAt
    <3> QED
      BY <3>2
  <2> QED
    BY <2>1, <2>2, <2>4, <2>5
<1> QED
  BY <1>5, <1>7, <1>8, <1>9 DEF TypesInv

(* The readers that a job starts with. *)
LEMMA FirstReader ==
  ASSUME NEW names, names \in Seq(Nat), NEW rd, rd = NewReader(names, <<>>)
  PROVE  /\ rd \in Readers /\ rd.files = names /\ rd.position = 0 /\ rd.offsets = <<>>
         /\ rd.key = NoKey /\ rd.values = <<>>
<1>1. NoKey \in Nat /\ <<>> \in Seq(Nat)
  BY DEF NoKey
<1> QED
  BY <1>1 DEF NewReader, Readers

LEMMA OffsetsReader ==
  ASSUME NEW offsets, offsets \in Seq(Nat), NEW rd, rd = NewReader(<<>>, offsets)
  PROVE  /\ rd \in Readers /\ rd.files = <<>> /\ rd.position = 0 /\ rd.offsets = offsets
         /\ rd.key = NoKey /\ rd.values = <<>>
<1>1. NoKey \in Nat /\ <<>> \in Seq(Nat)
  BY DEF NoKey
<1> QED
  BY <1>1 DEF NewReader, Readers

Advanced ==
  /\ serving = 0 /\ active = {} /\ stage \in {"hash", "sort", "merge", "reduce"}
  /\ stage' = Follows[stage] /\ active' = ShardsOf(stage')
  /\ UNCHANGED <<mapped, written, chunks, final, serving, reader, pool, failures, dropped>>
  /\ Input(stage)' = Output
  /\ stored' \in [ShuffleShards -> Readers]
  /\ \A s \in active' :
       /\ stored'[s].position = 0 /\ stored'[s].key = NoKey /\ stored'[s].values = <<>>
       /\ stage' = "sort" => stored'[s].files = <<s>>
       /\ stage' = "merge" =>
            /\ stored'[s].files = <<>> /\ DOMAIN stored'[s].offsets = DOMAIN chunks[s]
            /\ \A i \in DOMAIN chunks[s] : stored'[s].offsets[i] = 0
       /\ stage' # "merge" => stored'[s].offsets = <<>>
       /\ stage' = "reduce" => stored'[s].files = Dealt(NumShards, ReduceShards, s)

LEMMA ShardsFacts ==
  /\ \A st : ShardsOf(st) \subseteq ShuffleShards
  /\ \A st : st \in {"hash", "sort", "merge"} => ShardsOf(st) = ShuffleShards
  /\ ShardsOf("reduce") = 1..ReduceShards /\ ShardsOf("over") = {}
  BY Shards DEF ShardsOf

LEMMA AdvanceStep ==
  ASSUME TypesInv, NextStage
  PROVE  TypesInv' /\ Advanced
<1>0. OutputsType /\ SlicesType /\ ReadersPoint
  BY DEF TypesInv
<1>1. /\ serving = 0 /\ active = {} /\ stage # "over"
      /\ stage' = Follows[stage] /\ active' = ShardsOf(Follows[stage])
      /\ UNCHANGED <<mapped, written, chunks, final, serving, reader, pool, failures, dropped>>
      /\ stored' = [s \in ShuffleShards |-> IF s \in ShardsOf(Follows[stage])
                                    THEN ReaderOf(Follows[stage], s) ELSE NoSlice]
  BY DEF NextStage
<1>2. stage \in {"hash", "sort", "merge", "reduce"}
  BY <1>0, <1>1, StageFacts DEF OutputsType
<1>3. /\ stage' = Follows[stage] /\ stage' \in {"sort", "merge", "reduce", "over"}
      /\ stage = "hash" <=> stage' = "sort"
      /\ stage = "sort" <=> stage' = "merge"
      /\ stage = "merge" <=> stage' = "reduce"
      /\ stage = "reduce" <=> stage' = "over"
  BY <1>1, <1>2, StageFacts
<1>4. Input(stage)' = Output
  BY <1>1, <1>2, <1>3, StageFacts DEF Input, Output
<1>5. pool = NoOutput /\ reader = NoSlice
  BY <1>0, <1>1 DEF SlicesType
<1>6. DOMAIN chunks = ShuffleShards /\ \A f \in ShuffleShards : chunks[f] \in Seq(Seq(PairsFor(f)))
  BY <1>0 DEF OutputsType
<1>7. ASSUME NEW s \in ShardsOf(stage'), NEW rd, rd = ReaderOf(stage', s)
      PROVE  /\ rd \in Readers
             /\ rd.position = 0 /\ rd.key = NoKey /\ rd.values = <<>>
             /\ stage' = "sort" => rd.files = <<s>>
             /\ stage' = "merge" =>
                  /\ rd.files = <<>> /\ DOMAIN rd.offsets = DOMAIN chunks[s]
                  /\ \A i \in DOMAIN chunks[s] : rd.offsets[i] = 0
             /\ stage' # "merge" => rd.offsets = <<>>
             /\ stage' = "reduce" => rd.files = Dealt(NumShards, ReduceShards, s)
  <2>0. s \in ShuffleShards /\ s \in Nat /\ <<>> \in Seq(Nat)
    BY ShardsFacts, Shards
  <2>1. CASE stage' = "sort"
    <3> DEFINE names == <<s>>
    <3>1. rd = NewReader(names, <<>>)
      BY <2>1, <1>7 DEF ReaderOf
    <3>2. names \in Seq(Nat)
      BY <2>0
    <3> HIDE DEF names
    <3>3. /\ rd \in Readers /\ rd.files = names /\ rd.position = 0 /\ rd.offsets = <<>>
          /\ rd.key = NoKey /\ rd.values = <<>>
      BY <3>1, <3>2, FirstReader
    <3> QED
      BY <2>1, <3>3 DEF names
  <2>2. CASE stage' = "merge"
    <3> DEFINE zeros == [i \in DOMAIN chunks[s] |-> 0]
    <3>1. rd = NewReader(<<>>, zeros)
      BY <2>2, <1>1, <1>7 DEF ReaderOf
    <3>2. zeros \in Seq(Nat) /\ DOMAIN zeros = DOMAIN chunks[s]
          /\ \A i \in DOMAIN chunks[s] : zeros[i] = 0
      <4>1. DOMAIN chunks[s] = 1..Len(chunks[s]) /\ Len(chunks[s]) \in Nat
        BY <1>6, <2>0, LenProperties
      <4>2. zeros = [i \in 1..Len(chunks[s]) |-> 0]
        BY <4>1
      <4>3. zeros \in Seq(Nat)
        BY <4>1, <4>2
      <4> QED
        BY <4>3
    <3> HIDE DEF zeros
    <3>3. /\ rd \in Readers /\ rd.files = <<>> /\ rd.position = 0 /\ rd.offsets = zeros
          /\ rd.key = NoKey /\ rd.values = <<>>
      BY <3>1, <3>2, OffsetsReader
    <3> QED
      BY <2>2, <3>2, <3>3
  <2>3. CASE stage' = "reduce"
    <3> DEFINE names == Dealt(NumShards, ReduceShards, s)
    <3>1. rd = NewReader(names, <<>>)
      BY <2>3, <1>7 DEF ReaderOf
    <3>2. names \in Seq(Nat)
      <4>1. s \in 1..ReduceShards /\ NumShards \in Nat /\ ReduceShards \in Nat \ {0}
        BY <2>3, ShardsFacts, Shards
      <4> QED
        BY <4>1, DealtFacts
    <3> HIDE DEF names
    <3>3. /\ rd \in Readers /\ rd.files = names /\ rd.position = 0 /\ rd.offsets = <<>>
          /\ rd.key = NoKey /\ rd.values = <<>>
      BY <3>1, <3>2, FirstReader
    <3> QED
      BY <2>3, <3>3 DEF names
  <2>4. CASE stage' = "over"
    BY <2>4, ShardsFacts
  <2> QED
    BY <1>3, <2>1, <2>2, <2>3, <2>4
<1>8. /\ stored' \in [ShuffleShards -> Readers]
      /\ \A s \in active' : stored'[s] = ReaderOf(stage', s) /\ s \in ShuffleShards
  <2>1. \A s \in ShuffleShards :
          (IF s \in ShardsOf(stage') THEN ReaderOf(stage', s) ELSE NoSlice) \in Readers
    BY <1>7, NoSliceType
  <2>2. stored' = [s \in ShuffleShards |-> IF s \in ShardsOf(stage')
                                   THEN ReaderOf(stage', s) ELSE NoSlice]
    BY <1>1
  <2>3. active' = ShardsOf(stage')
    BY <1>1
  <2> QED
    BY <2>1, <2>2, <2>3, ShardsFacts
<1>9. Advanced
  <2>1. active' = ShardsOf(stage')
    BY <1>1
  <2>2. ASSUME NEW s \in active'
        PROVE  /\ stored'[s].position = 0 /\ stored'[s].key = NoKey /\ stored'[s].values = <<>>
               /\ stage' = "sort" => stored'[s].files = <<s>>
               /\ stage' = "merge" =>
                    /\ stored'[s].files = <<>> /\ DOMAIN stored'[s].offsets = DOMAIN chunks[s]
                    /\ \A i \in DOMAIN chunks[s] : stored'[s].offsets[i] = 0
               /\ stage' # "merge" => stored'[s].offsets = <<>>
               /\ stage' = "reduce" => stored'[s].files = Dealt(NumShards, ReduceShards, s)
    <3>1. stored'[s] = ReaderOf(stage', s) /\ s \in ShardsOf(stage')
      BY <2>1, <1>8
    <3> QED
      BY <3>1, <1>7
  <2> QED
    BY <2>1, <2>2, <1>1, <1>2, <1>4, <1>8 DEF Advanced
<1>10. Pairs' = Pairs /\ \A st, f : ItemsOf(st, f)' = ItemsOf(st, f) /\ PairsFor(f)' = PairsFor(f)
  <2>1. Pairs' = Pairs
    BY <1>1 DEF Pairs
  <2> QED
    BY <2>1 DEF ItemsOf, PairsFor, Merged, Calls
<1>11. OutputsType'
  <2>1. \A st \in WritingStages : \A f \in ShuffleShards :
          written'[st][f] \in Seq(ItemsOf(st, f)')
    BY <1>0, <1>1, <1>10 DEF OutputsType
  <2>2. \A f \in ShuffleShards : chunks'[f] \in Seq(Seq(PairsFor(f)'))
    <3>1. \A f \in ShuffleShards : Seq(Seq(PairsFor(f)')) = Seq(Seq(PairsFor(f)))
      BY <1>10
    <3> QED
      BY <3>1, <1>1, <1>6
  <2>3. \A f \in ShuffleShards : pool'[f] = <<>> /\ \A S : <<>> \in Seq(S)
    BY <1>1, <1>5 DEF NoOutput
  <2>4. \A f \in ShuffleShards :
          IF stage' \in WritingStages THEN pool'[f] \in Seq(ItemsOf(stage, f)') ELSE pool'[f] = <<>>
    BY <2>3
  <2>5. pool' = [f \in ShuffleShards |-> pool'[f]]
    BY <1>1, <1>5 DEF NoOutput
  <2>6. /\ mapped' \in MapOutputs /\ stage' \in DOMAIN Follows \union {"over"}
        /\ DOMAIN chunks' = ShuffleShards
        /\ DOMAIN written' = WritingStages
        /\ \A st \in WritingStages : DOMAIN written'[st] = ShuffleShards
    BY <1>0, <1>1, <1>3, StageFacts DEF OutputsType
  <2>7. /\ stage' = "hash" => chunks' = NoOutput
        /\ stage' \in {"hash", "sort"} => written'["merge"] = NoOutput
        /\ stage' \in {"hash", "sort", "merge"} => written'["reduce"] = NoOutput
    BY <1>0, <1>1, <1>2, <1>3 DEF OutputsType
  <2> QED
    BY <2>1, <2>2, <2>4, <2>5, <2>6, <2>7 DEF OutputsType
<1>12. SlicesType'
  <2>1. \A f \in ShuffleShards : pool'[f] = <<>>
    BY <1>1, <1>5 DEF NoOutput
  <2>2. dropped' => stage' \in {"reduce", "over"}
    BY <1>0, <1>1, <1>2, <1>3 DEF SlicesType
  <2> QED
    BY <2>1, <2>2, <1>0, <1>1, <1>8 DEF SlicesType
<1>13. ReadersPoint'
  <2> SUFFICES ASSUME NEW s \in active'
               PROVE  /\ Points(s, stored[s])' /\ ReaderNow(s)' = stored'[s]
                      /\ stage' = "merge" => stored'[s].key = NoKey
                      /\ stage' = "merge" => \A i \in DOMAIN stored'[s].offsets :
                           stored'[s].offsets[i] <= stored'[s].offsets[i]
    BY DEF ReadersPoint, Points
  <2>0. s \in ShuffleShards /\ s \in ShardsOf(stage')
    BY <1>1, <1>8
  <2>1. ReaderNow(s)' = stored'[s]
    BY <2>0, <1>1, Shards DEF ReaderNow
  <2>2. /\ stored'[s].position = 0 /\ stored'[s].key = NoKey /\ stored'[s].values = <<>>
        /\ stage' = "sort" => stored'[s].files = <<s>>
        /\ stage' = "merge" =>
             /\ stored'[s].files = <<>> /\ DOMAIN stored'[s].offsets = DOMAIN chunks[s]
             /\ \A i \in DOMAIN chunks[s] : stored'[s].offsets[i] = 0
        /\ stage' # "merge" => stored'[s].offsets = <<>>
        /\ stage' = "reduce" => stored'[s].files = Dealt(NumShards, ReduceShards, s)
    BY <1>9 DEF Advanced
  <2>3. stage' # "over"
    BY <2>0, ShardsFacts
  <2>4. stage' \in {"sort", "reduce"} => DOMAIN Input(stage)' = ShuffleShards
    <3>1. stage \in {"hash", "merge"} => Output = written[stage]
      BY DEF Output
    <3> QED
      BY <3>1, <1>0, <1>3, <1>4 DEF OutputsType, WritingStages
  <2>5. stage' # "merge" => \A n \in DOMAIN stored'[s].files :
                              stored'[s].files[n] \in DOMAIN Input(stage)'
    <3>1. CASE stage' = "sort"
      <4>1. \A n \in DOMAIN <<s>> : <<s>>[n] = s
        OBVIOUS
      <4> QED
        BY <3>1, <4>1, <2>0, <2>2, <2>4
    <3>2. CASE stage' = "reduce"
      <4>1. s \in 1..ReduceShards /\ NumShards \in Nat /\ ReduceShards \in Nat \ {0}
        BY <3>2, <2>0, ShardsFacts, Shards
      <4>2. \A j \in DOMAIN Dealt(NumShards, ReduceShards, s) :
              Dealt(NumShards, ReduceShards, s)[j] \in ShuffleShards
        BY <4>1, DealtFacts, Shards
      <4> QED
        BY <3>2, <4>2, <2>2, <2>4
    <3> QED
      BY <3>1, <3>2, <2>3, <1>3
  <2>6. stage' # "merge" /\ stored'[s].files # <<>> =>
          0 <= Len(Input(stage)'[stored'[s].files[1]])
    <3> SUFFICES ASSUME stage' # "merge", stored'[s].files # <<>>
                 PROVE  0 <= Len(Input(stage)'[stored'[s].files[1]])
      OBVIOUS
    <3>1. stored'[s].files \in Seq(Nat)
      BY <2>0, <1>8 DEF Readers
    <3>2. 1 \in DOMAIN stored'[s].files
      BY <3>1, EmptySeq, LenProperties
    <3>3. stored'[s].files[1] \in DOMAIN Input(stage)'
      BY <2>5, <3>2
    <3>4. (\A f \in DOMAIN Input(stage) : \E S : Input(stage)[f] \in Seq(S))'
      BY <1>11, InputSeqs, PTL
    <3>5. PICK S : Input(stage)'[stored'[s].files[1]] \in Seq(S)
      BY <3>3, <3>4
    <3> QED
      BY <3>5, LenProperties
  <2>7. stage' = "merge" => \A i \in DOMAIN stored'[s].offsets :
          /\ stored'[s].offsets[i] <= Len(chunks'[s][i])
          /\ stored'[s].offsets[i] <= stored'[s].offsets[i]
    <3> SUFFICES ASSUME stage' = "merge", NEW i \in DOMAIN stored'[s].offsets
                 PROVE  /\ stored'[s].offsets[i] <= Len(chunks'[s][i])
                        /\ stored'[s].offsets[i] <= stored'[s].offsets[i]
      OBVIOUS
    <3>1. stored'[s].offsets[i] = 0 /\ chunks'[s][i] = chunks[s][i] /\ i \in DOMAIN chunks[s]
      BY <1>1, <2>2
    <3>2. chunks[s][i] \in Seq(PairsFor(s))
      BY <3>1, <2>0, <1>6, SeqAt
    <3>3. Len(chunks[s][i]) \in Nat
      BY <3>2, LenProperties
    <3> QED
      BY <3>1, <3>3
  <2>8. Points(s, stored[s])'
    <3>1. CASE stage' = "merge"
      BY <3>1, <2>2, <2>7, <1>1, ValuesOfEmpty DEF Points
    <3>2. CASE stage' # "merge"
      BY <3>2, <2>2, <2>5, <2>6, <1>1, <1>3, ValuesOfEmpty DEF Points
    <3> QED
      BY <3>1, <3>2
  <2> QED
    BY <2>1, <2>2, <2>7, <2>8
<1> QED
  BY <1>9, <1>11, <1>12, <1>13 DEF TypesInv

LEMMA InitTypes ==
  ASSUME ShuffleInit
  PROVE  TypesInv
<1> DEFINE names(s) == Dealt(Len(mapped), NumShards, s)
<1>1. /\ mapped \in MapOutputs /\ stage = "hash"
      /\ written = [st \in WritingStages |-> [f \in ShuffleShards |-> <<>>]]
      /\ chunks = [f \in ShuffleShards |-> <<>>]
      /\ final = {} /\ active = ShuffleShards
      /\ stored = [s \in ShuffleShards |-> NewReader(names(s), <<>>)]
      /\ serving = 0 /\ reader = NoSlice /\ pool = NoOutput
      /\ failures = 0 /\ dropped = FALSE
  BY DEF ShuffleInit
<1>2. \A S : <<>> \in Seq(S)
  OBVIOUS
<1>3. mapped \in Seq(Seq(Pairs)) /\ Len(mapped) \in Nat /\ DOMAIN mapped = 1..Len(mapped)
  BY <1>1, MappedType, LenProperties
<1>4. OutputsType
  BY <1>1, <1>2, StageFacts DEF OutputsType, NoOutput
<1>5. ASSUME NEW s \in ShuffleShards
      PROVE  /\ names(s) \in Seq(Nat)
             /\ \A n \in DOMAIN names(s) : names(s)[n] \in DOMAIN mapped
  <2>1. s \in 1..NumShards /\ NumShards \in Nat \ {0}
    BY Shards
  <2> QED
    BY <2>1, <1>3, DealtFacts
<1> HIDE DEF names
<1>6. ASSUME NEW s \in ShuffleShards
      PROVE  /\ stored[s] \in Readers /\ stored[s].files = names(s) /\ stored[s].position = 0
             /\ stored[s].offsets = <<>> /\ stored[s].key = NoKey /\ stored[s].values = <<>>
  BY <1>1, <1>5, FirstReader
<1>7. SlicesType
  <2>1. stored \in [ShuffleShards -> Readers]
    BY <1>1, <1>6
  <2>2. active \subseteq ShardsOf(stage)
    BY <1>1, ShardsFacts
  <2>3. 0 \in 0..MaxFailures
    BY Shards
  <2> QED
    BY <2>1, <2>2, <2>3, <1>1, NoSliceType DEF SlicesType
<1>8. ReadersPoint
  <2> SUFFICES ASSUME NEW s \in ShuffleShards
               PROVE  Points(s, stored[s]) /\ ReaderNow(s) = stored[s]
    BY <1>1 DEF ReadersPoint
  <2>1. Input(stage) = mapped
    BY <1>1, StageFacts
  <2>2. names(s) # <<>> => 0 <= Len(mapped[names(s)[1]])
    <3> SUFFICES ASSUME names(s) # <<>> PROVE 0 <= Len(mapped[names(s)[1]])
      OBVIOUS
    <3>1. 1 \in DOMAIN names(s)
      BY <1>5, EmptySeq, LenProperties
    <3>2. mapped[names(s)[1]] \in Seq(Pairs)
      BY <1>3, <1>5, <3>1, SeqAt
    <3> QED
      BY <3>2, LenProperties
  <2>3. Points(s, stored[s])
    BY <2>1, <2>2, <1>1, <1>5, <1>6, ValuesOfEmpty DEF Points
  <2> QED
    BY <2>3, <1>1, Shards DEF ReaderNow
<1> QED
  BY <1>4, <1>7, <1>8 DEF TypesInv

Reads == HashRecord \/ SortBatch \/ MergeYield \/ MergeTake \/ ReduceRecord \/ NextFile

LEMMA TypesStutter ==
  ASSUME TypesInv, UNCHANGED shuffleVars
  PROVE  TypesInv'
<1>1. Input(stage)' = Input(stage) /\ Pairs' = Pairs
      /\ \A st, f : ItemsOf(st, f)' = ItemsOf(st, f) /\ PairsFor(f)' = PairsFor(f)
  BY SameStage DEF shuffleVars
<1>2. OutputsType'
  <2>1. \A f \in ShuffleShards : Seq(Seq(PairsFor(f)')) = Seq(Seq(PairsFor(f)))
    BY <1>1
  <2>2. \A f \in ShuffleShards : chunks'[f] \in Seq(Seq(PairsFor(f)'))
    BY <2>1 DEF shuffleVars, TypesInv, OutputsType
  <2>3. \A st \in WritingStages : \A f \in ShuffleShards :
          written'[st][f] \in Seq(ItemsOf(st, f)')
    BY <1>1 DEF shuffleVars, TypesInv, OutputsType
  <2>4. \A f \in ShuffleShards :
          IF stage' \in WritingStages THEN pool'[f] \in Seq(ItemsOf(stage, f)') ELSE pool'[f] = <<>>
    BY <1>1 DEF shuffleVars, TypesInv, OutputsType
  <2> QED
    BY <2>2, <2>3, <2>4 DEF shuffleVars, TypesInv, OutputsType
<1>3. SlicesType'
  BY DEF shuffleVars, TypesInv, SlicesType, ShardsOf
<1>4. ReadersPoint'
  <2>1. \A s : ReaderNow(s)' = ReaderNow(s)
    BY DEF ReaderNow, shuffleVars
  <2>2. \A s \in active : Points(s, stored[s])' /\ Points(s, ReaderNow(s))'
    BY <2>1, <1>1 DEF shuffleVars, TypesInv, ReadersPoint, Points, Hash
  <2> QED
    BY <2>1, <2>2 DEF shuffleVars, TypesInv, ReadersPoint
<1> QED
  BY <1>2, <1>3, <1>4 DEF TypesInv

LEMMA TypesNext ==
  ASSUME TypesInv, [ShuffleNext]_shuffleVars
  PROVE  TypesInv'
<1>1. CASE \E s \in ShuffleShards : BeginSlice(s)
  BY <1>1, BeginStep
<1>2. CASE HashRecord
  BY <1>2, HashStep
<1>3. CASE SortBatch
  BY <1>3, SortStep
<1>4. CASE MergeYield
  BY <1>4, YieldStep
<1>5. CASE MergeTake
  BY <1>5, TakeStep
<1>6. CASE ReduceRecord
  BY <1>6, ReduceStep
<1>7. CASE NextFile
  BY <1>7, FileStep
<1>8. CASE EndShuffleSlice
  BY <1>8, ContinueStep
<1>9. CASE EndShard
  BY <1>9, FinishStep
<1>10. CASE EndUnrecorded \/ FailSlice
  BY <1>10, RepeatStep
<1>11. CASE NextStage
  BY <1>11, AdvanceStep
<1>12. CASE UNCHANGED shuffleVars
  BY <1>12, TypesStutter
<1> QED
  BY <1>1, <1>2, <1>3, <1>4, <1>5, <1>6, <1>7, <1>8, <1>9, <1>10, <1>11, <1>12
     DEF ShuffleNext

-----------------------------------------------------------------------------
(* Partial records.                                                        *)

PartialsStored ==
  \A f \in ShuffleShards : EndsPartial(written["merge"][f]) =>
    stage = "merge" /\ f \in active /\ MoreStored(f)
PartialsServed ==
  /\ stage = "merge" /\ serving # 0 =>
       /\ EndsPartial(Produced[serving]) => Heads # {} \/ reader.key # NoKey
       /\ pool[serving] # <<>> \/ reader.key # NoKey => MoreStored(serving)
  /\ stage = "reduce" /\ serving # 0 /\ reader.key # NoKey => Remaining # <<>>

LEMMA PartialsParts == PartialsInv <=> PartialsStored /\ PartialsServed
  BY DEF PartialsInv, PartialsStored, PartialsServed

LEMMA ReadingPartials ==
  ASSUME PartialsStored, Reading
  PROVE  PartialsStored'
<1>1. /\ stage' = stage /\ written' = written /\ active' = active /\ stored' = stored
      /\ stage # "sort" => chunks' = chunks
  BY DEF Reading
<1>2. CASE stage = "merge"
  <2>1. \A f : MoreStored(f)' <=> MoreStored(f)
    BY <1>1, <1>2 DEF MoreStored
  <2> QED
    BY <1>1, <2>1 DEF PartialsStored
<1>3. CASE stage # "merge"
  BY <1>1, <1>3 DEF PartialsStored
<1> QED
  BY <1>2, <1>3

LEMMA BeginPartials ==
  ASSUME TypesInv, PartialsInv, NEW s, Begun(s), SlicesType'
  PROVE  PartialsInv'
<1>1. /\ serving = 0 /\ s \in active /\ serving' = s /\ s # 0
      /\ UNCHANGED <<mapped, stage, written, chunks, final, active, stored, pool, failures>>
      /\ reader'.files = stored[s].files /\ reader'.position = stored[s].position
      /\ reader'.offsets = stored[s].offsets /\ reader'.key = NoKey /\ reader'.values = <<>>
  BY DEF Begun
<1>2. PartialsStored'
  BY <1>1 DEF PartialsInv, PartialsStored, EndsPartial, MoreStored
<1>3. s \in ShuffleShards
  BY <1>1, StoredPoints
<1>4. pool = NoOutput /\ pool[s] = <<>>
  <2>1. pool = NoOutput
    BY <1>1 DEF TypesInv, SlicesType
  <2> QED
    BY <2>1, <1>3 DEF NoOutput
<1>5. ASSUME stage = "merge"
      PROVE  /\ EndsPartial(Produced[serving])' => Heads' # {}
             /\ pool'[s] = <<>>
  <2>1. Produced'[s] = written["merge"][s] \o pool[s]
    BY <1>1, <1>3, <1>5 DEF Produced
  <2>2. written["merge"][s] \in Seq(ItemsOf("merge", s))
    BY <1>3, StageFacts DEF TypesInv, OutputsType
  <2>3. Produced'[s] = written["merge"][s]
    BY <2>1, <2>2, <1>4, ConcatEmptySeq
  <2>4. ASSUME EndsPartial(written["merge"][s])
        PROVE  Heads' # {}
    <3>1. MoreStored(s)
      BY <2>4, <1>3 DEF PartialsInv
    <3>2. PICK i \in DOMAIN stored[s].offsets : stored[s].offsets[i] < Len(chunks[s][i])
      BY <3>1 DEF MoreStored
    <3>3. i \in Heads'
      BY <3>2, <1>1 DEF Heads
    <3> QED
      BY <3>3
  <2> QED
    BY <2>3, <2>4, <1>1, <1>4
<1>6. PartialsServed'
  BY <1>1, <1>5, <1>4 DEF PartialsServed
<1> QED
  BY <1>2, <1>6, PartialsParts DEF PartialsInv, PartialsStored, PartialsServed

LEMMA ReadPartials ==
  ASSUME TypesInv, PartialsInv, HashRecord \/ SortBatch
  PROVE  PartialsInv'
<1>1. Reading /\ stage \in {"hash", "sort"}
  BY HashStep, SortStep DEF SortMade
<1>2. stage' \in {"hash", "sort"}
  BY <1>1 DEF Reading
<1>3. PartialsServed'
  BY <1>2 DEF PartialsServed
<1> QED
  BY <1>1, <1>3, ReadingPartials, PartialsParts DEF PartialsInv, PartialsStored, PartialsServed

LEMMA FilePartials ==
  ASSUME TypesInv, PartialsInv, NextFile
  PROVE  PartialsInv'
<1>1. FileEnded /\ Remaining = <<>> /\ serving # 0
  BY FileStep DEF NextFile
<1>2. Reading /\ stage # "merge" /\ reader'.key = reader.key
  BY <1>1 DEF FileEnded, ReadsFiles
<1>3. stage' = stage /\ serving' = serving
  BY <1>2 DEF Reading
<1>4. stage = "reduce" => reader.key = NoKey
  BY <1>1 DEF PartialsInv
<1>5. PartialsServed'
  BY <1>2, <1>3, <1>4 DEF PartialsServed
<1> QED
  BY <1>2, <1>5, ReadingPartials, PartialsParts DEF PartialsInv, PartialsStored, PartialsServed

LEMMA YieldPartials ==
  ASSUME TypesInv, PartialsInv, NEW x, MergeYielded(x)
  PROVE  PartialsInv'
<1>1. /\ stage = "merge" /\ Reading /\ chunks' = chunks /\ reader.key # NoKey
      /\ x = [key |-> reader.key, values |-> reader.values, partial |-> MoreOfKey]
      /\ x \in Merged(serving) /\ IsAdded(AllItems(stage), pool, serving, x, pool')
      /\ reader' = [reader EXCEPT !.key = NoKey, !.values = <<>>, !.some = TRUE]
  BY DEF MergeYielded
<1>2. /\ stage' = stage /\ written' = written /\ stored' = stored /\ serving' = serving
      /\ serving # 0
  BY <1>1 DEF Reading
<1>3. MoreStored(serving)
  BY <1>1, <1>2 DEF PartialsInv
<1>4. MoreStored(serving)'
  BY <1>1, <1>2, <1>3 DEF MoreStored
<1>5. /\ reader \in Readers /\ serving \in ShuffleShards
  BY <1>2, ServedPoints DEF TypesInv
<1>6. Heads' = Heads
  <2>1. reader'.offsets = reader.offsets
    BY <1>1, <1>5 DEF Readers
  <2> QED
    BY <2>1, <1>1, <1>2 DEF Heads
<1>7. ASSUME EndsPartial(Produced[serving])' PROVE Heads' # {}
  <2>1. PICK w, q, q2 : w = written["merge"][serving] /\ q = pool[serving] /\ q2 = pool'[serving]
    OBVIOUS
  <2>2. w \in Seq(AllItems("merge")) /\ q \in Seq(AllItems("merge"))
    BY <1>1, <1>5, <2>1, WrittenFiles, StageFacts DEF TypesInv, IsFiles
  <2>3. q2 = Append(q, x) /\ x \in AllItems("merge")
    BY <1>1, <1>5, <2>1 DEF IsAdded, IsFiles
  <2>4. Produced'[serving] = w \o q2
    BY <1>1, <1>2, <1>5, <2>1 DEF Produced
  <2>5. w \o q2 = Append(w \o q, x)
    BY <2>2, <2>3
  <2>6. /\ w \o q \in Seq(AllItems("merge"))
    BY <2>2, ConcatProperties
  <2>7. PICK r : r = Append(w \o q, x)
    OBVIOUS
  <2>8. r[Len(r)] = x
    BY <2>3, <2>6, <2>7, AppendPlaces
  <2>9. EndsPartial(r)
    BY <1>7, <2>4, <2>5, <2>7, <1>2
  <2>10. x.partial
    BY <2>8, <2>9 DEF EndsPartial
  <2>11. MoreOfKey
    BY <2>10, <1>1
  <2> QED
    BY <2>11, <1>6 DEF MoreOfKey
<1>8. PartialsServed'
  BY <1>1, <1>2, <1>4, <1>7 DEF PartialsServed
<1> QED
  BY <1>1, <1>8, ReadingPartials, PartialsParts DEF PartialsInv, PartialsStored, PartialsServed

LEMMA TakePartials ==
  ASSUME TypesInv, PartialsInv, NEW j, NEW p, MergeTaken(j, p)
  PROVE  PartialsInv'
<1>1. /\ stage = "merge" /\ Reading /\ chunks' = chunks /\ j \in Heads
      /\ reader'.key = p[1] /\ p[1] # NoKey
  BY DEF MergeTaken
<1>2. /\ stage' = stage /\ written' = written /\ stored' = stored /\ serving' = serving
      /\ serving # 0
  BY <1>1 DEF Reading
<1>3. MoreStored(serving)'
  <2>1. /\ serving \in active /\ ReaderNow(serving) = reader /\ Points(serving, stored[serving])
        /\ stored[serving] \in Readers /\ reader \in Readers
    BY <1>2, ServedPoints DEF TypesInv
  <2>2. /\ j \in DOMAIN chunks[serving] /\ reader.offsets[j] < Len(chunks[serving][j])
        /\ reader.offsets[j] \in Nat /\ Len(chunks[serving][j]) \in Nat
    BY <1>1, <1>2, HeadFacts
  <2>3. DOMAIN stored[serving].offsets = DOMAIN chunks[serving]
    BY <2>1, <1>1 DEF Points
  <2>4. stored[serving].offsets[j] <= reader.offsets[j]
    BY <2>1, <2>2, <2>3, <1>1 DEF TypesInv, ReadersPoint
  <2>5. stored[serving].offsets[j] \in Nat
    <3>1. stored[serving].offsets \in Seq(Nat)
      BY <2>1 DEF Readers
    <3> QED
      BY <3>1, <2>2, <2>3, SeqAt
  <2>6. stored[serving].offsets[j] < Len(chunks[serving][j])
    BY <2>2, <2>4, <2>5
  <2> QED
    BY <2>2, <2>3, <2>6, <1>1, <1>2 DEF MoreStored
<1>4. PartialsServed'
  BY <1>1, <1>2, <1>3 DEF PartialsServed
<1> QED
  BY <1>1, <1>4, ReadingPartials, PartialsParts DEF PartialsInv, PartialsStored, PartialsServed

LEMMA ReducePartials ==
  ASSUME TypesInv, PartialsInv, ReduceRecord
  PROVE  PartialsInv'
<1>0. PICK f, n, r : ReduceRead(f, n, r)
  BY ReduceStep
<1>1. /\ stage = "reduce" /\ Reading /\ reader.files # <<>> /\ f = reader.files[1]
      /\ f \in ShuffleShards /\ reader'.files = reader.files /\ reader'.position = n
      /\ n \in DOMAIN written["merge"][f] /\ r = written["merge"][f][n]
      /\ ~r.partial => reader'.key = NoKey
  BY <1>0 DEF ReduceRead
<1>2. stage' = stage /\ serving' = serving /\ written' = written
  BY <1>1 DEF Reading
<1>3. ASSUME r.partial PROVE Remaining' # <<>>
  <2>1. PICK c : c = written["merge"][f]
    OBVIOUS
  <2>2. c \in Seq(ItemsOf("merge", f))
    BY <1>1, <2>1, StageFacts DEF TypesInv, OutputsType
  <2>3. ~EndsPartial(c)
    BY <1>1, <2>1 DEF PartialsInv
  <2>4. n \in 1..Len(c) /\ Len(c) \in Nat /\ c[n].partial
    BY <1>1, <1>3, <2>1, <2>2, LenProperties
  <2>5. c # <<>>
    BY <2>2, <2>4, EmptySeq
  <2>6. n # Len(c)
    BY <2>3, <2>4, <2>5 DEF EndsPartial
  <2>7. n + 1 <= Len(c)
    BY <2>4, <2>6
  <2>8. Content(Head(reader.files))' = c
    <3>1. reader'.files # <<>>
      BY <1>1
    <3>2. Head(reader.files) = f
      <4>1. reader.files \in Seq(Nat)
        BY <1>1, ServedPoints DEF TypesInv, Readers, Reading
      <4> QED
        BY <4>1, <1>1, TailFacts
    <3> QED
      BY <3>2, <1>1, <1>2, <2>1 DEF Content
  <2>9. Remaining' = SubSeq(c, n + 1, Len(c))
    BY <1>1, <2>8 DEF Remaining
  <2>10. Len(SubSeq(c, n + 1, Len(c))) = Len(c) - n
    <3>1. n \in Nat /\ n + 1 \in Int /\ n + 1 <= Len(c)
      BY <2>4, <2>7
    <3> QED
      BY <2>2, <2>4, <2>7, <3>1, SubSeqProperties
  <2>11. Len(c) - n # 0
    BY <2>4, <2>6
  <2> QED
    BY <2>9, <2>10, <2>11, EmptySeq
<1>4. PartialsServed'
  BY <1>1, <1>2, <1>3 DEF PartialsServed
<1> QED
  BY <1>1, <1>4, ReadingPartials, PartialsParts DEF PartialsInv, PartialsStored, PartialsServed

(* The files of the merge change only with a slice of it. *)
LEMMA EndedMerge ==
  ASSUME TypesInv, NEW ext, Ended(ext), NEW f \in ShuffleShards
  PROVE  /\ stage # "merge" => written'["merge"][f] = written["merge"][f]
         /\ f # serving => written'["merge"][f] = written["merge"][f]
         /\ stage = "merge" /\ pool[f] = <<>> => written'["merge"][f] = written["merge"][f]
         /\ stage = "merge" /\ ext = pool => written'["merge"][f] = Produced[f]
<1>1. /\ \A st \in WritingStages \ {stage} : written'[st] = written[st]
      /\ stage \in WritingStages => written'[stage][f] = written[stage][f] \o ext[f]
  BY EndedOutput DEF TypesInv
<1>2. "merge" \in WritingStages
  BY StageFacts
<1>3. ASSUME stage = "merge", pool[f] = <<>>
      PROVE  written'["merge"][f] = written["merge"][f]
  <2>1. PICK w, e : w = written["merge"][f] /\ e = ext[f]
    OBVIOUS
  <2>2. w \in Seq(ItemsOf("merge", f)) /\ e \in Seq(ItemsOf("merge", f))
    BY <1>2, <1>3, <2>1 DEF TypesInv, OutputsType, Ended
  <2>3. ValuesOf(e) = {}
    BY <1>3, <2>1, ValuesOfEmpty DEF Ended
  <2>4. e = <<>>
    <3> SUFFICES ASSUME e # <<>> PROVE FALSE
      OBVIOUS
    <3>1. Len(e) \in Nat \ {0} /\ DOMAIN e = 1..Len(e)
      BY <2>2, TailFacts
    <3>2. 1 \in DOMAIN e
      BY <3>1
    <3> QED
      BY <3>2, <2>3 DEF ValuesOf
  <2>5. written'["merge"][f] = w \o e
    BY <1>1, <1>2, <1>3, <2>1
  <2> QED
    BY <2>1, <2>2, <2>4, <2>5, ConcatEmptySeq
<1>4. ASSUME f # serving, stage = "merge" PROVE pool[f] = <<>>
  BY <1>4 DEF TypesInv, SlicesType
<1>5. ASSUME stage = "merge", ext = pool PROVE written'["merge"][f] = Produced[f]
  BY <1>1, <1>2, <1>5 DEF Produced
<1> QED
  BY <1>1, <1>2, <1>3, <1>4, <1>5

LEMMA EndPartials ==
  ASSUME TypesInv, PartialsInv, NEW ext, Continues(ext) \/ Finishes(ext) \/ Repeats(ext)
  PROVE  PartialsInv'
<1>1. /\ Ended(ext) /\ serving # 0 /\ serving' = 0 /\ stage' = stage /\ chunks' = chunks
  BY DEF Continues, Finishes, Repeats, Ended
<1>2. PartialsServed'
  BY <1>1 DEF PartialsServed
<1>3. ASSUME NEW f \in ShuffleShards, EndsPartial(written'["merge"][f]),
             stage = "merge" => f = serving
      PROVE  stage = "merge" /\ f \in active' /\ MoreStored(f)'
  <2>1. stage = "merge" /\ f = serving
    BY <1>1, <1>3, EndedMerge DEF PartialsInv
  <2>2. CASE Continues(ext) \/ Finishes(ext)
    <3>1. ext = pool
      BY <2>1, <2>2 DEF Continues, Finishes, Kept
    <3>2. EndsPartial(Produced[serving])
      BY <1>1, <1>3, <2>1, <3>1, EndedMerge
    <3>3. Heads # {} \/ reader.key # NoKey
      BY <3>2, <2>1, <1>1 DEF PartialsInv
    <3>4. Continues(ext)
      BY <2>1, <2>2, <3>3 DEF Finishes, AtEnd
    <3>5. reader.key = NoKey /\ active' = active /\ serving \in active
          /\ stored' = [stored EXCEPT ![serving] = [reader EXCEPT !.some = FALSE]]
      BY <3>4, <2>1 DEF Continues
    <3>6. PICK i : i \in Heads
      BY <3>3, <3>5
    <3>7. stored'[serving].offsets = reader.offsets
      BY <3>5, <1>1, <2>1, StoredPoints, ServedPoints DEF TypesInv, Readers
    <3>8. MoreStored(f)'
      BY <3>6, <3>7, <2>1, <1>1 DEF Heads, MoreStored
    <3> QED
      BY <3>5, <3>8, <2>1
  <2>3. CASE Repeats(ext)
    <3>1. active' = active /\ stored' = stored
      BY <2>3 DEF Repeats
    <3>2. f \in active /\ MoreStored(f)
      <4>1. CASE pool[f] = <<>>
        <5>1. EndsPartial(written["merge"][f])
          BY <4>1, <1>1, <1>3, <2>1, EndedMerge
        <5> QED
          BY <5>1 DEF PartialsInv
      <4>2. CASE pool[f] # <<>>
        BY <4>2, <2>1, <1>1, ServedPoints DEF PartialsInv, TypesInv
      <4> QED
        BY <4>1, <4>2
    <3> QED
      BY <3>1, <3>2, <2>1, <1>1 DEF MoreStored
  <2> QED
    BY <2>2, <2>3
<1>4. ASSUME NEW f \in ShuffleShards, EndsPartial(written'["merge"][f]),
             stage = "merge", f # serving
      PROVE  f \in active' /\ MoreStored(f)'
  <2>1. f \in active /\ MoreStored(f)
    BY <1>1, <1>4, EndedMerge DEF PartialsInv
  <2>2. f \in active' /\ stored'[f] = stored[f]
    BY <2>1, <1>4, StoredPoints DEF Continues, Finishes, Repeats
  <2> QED
    BY <2>1, <2>2, <1>1 DEF MoreStored
<1>5. PartialsStored'
  BY <1>1, <1>3, <1>4 DEF PartialsStored
<1> QED
  BY <1>2, <1>5, PartialsParts DEF PartialsInv, PartialsStored, PartialsServed

LEMMA AdvancePartials ==
  ASSUME PartialsInv, Advanced
  PROVE  PartialsInv'
<1>1. serving' = 0 /\ active = {} /\ written' = written
  BY DEF Advanced
<1>2. \A f \in ShuffleShards : ~EndsPartial(written'["merge"][f])
  BY <1>1 DEF PartialsInv
<1> QED
  BY <1>1, <1>2 DEF PartialsInv

LEMMA InitPartials ==
  ASSUME ShuffleInit
  PROVE  PartialsInv
<1>1. serving = 0 /\ \A f \in ShuffleShards : written["merge"][f] = <<>>
  BY StageFacts DEF ShuffleInit
<1> QED
  BY <1>1 DEF PartialsInv, EndsPartial

LEMMA PartialsStutter ==
  ASSUME PartialsInv, UNCHANGED shuffleVars
  PROVE  PartialsInv'
<1>1. Produced' = Produced /\ Heads' = Heads /\ Remaining' = Remaining
      /\ \A f : MoreStored(f)' <=> MoreStored(f)
  BY DEF shuffleVars, Produced, Heads, Remaining, Content, MoreStored
<1> QED
  BY <1>1 DEF shuffleVars, PartialsInv

LEMMA PartialsNext ==
  ASSUME TypesInv, PartialsInv, [ShuffleNext]_shuffleVars
  PROVE  PartialsInv'
<1>0. TypesInv'
  BY TypesNext
<1>1. ASSUME NEW s \in ShuffleShards, BeginSlice(s)
      PROVE  PartialsInv'
  BY <1>0, <1>1, BeginStep, BeginPartials DEF TypesInv
<1>2. CASE HashRecord \/ SortBatch
  BY <1>2, ReadPartials
<1>3. CASE MergeYield
  BY <1>3, YieldStep, YieldPartials
<1>4. CASE MergeTake
  BY <1>4, TakeStep, TakePartials
<1>5. CASE ReduceRecord
  BY <1>5, ReducePartials
<1>6. CASE NextFile
  BY <1>6, FilePartials
<1>7. CASE EndShuffleSlice
  BY <1>7, ContinueStep, EndPartials
<1>8. CASE EndShard
  BY <1>8, FinishStep, EndPartials
<1>9. CASE EndUnrecorded \/ FailSlice
  BY <1>9, RepeatStep, EndPartials
<1>10. CASE NextStage
  BY <1>10, AdvanceStep, AdvancePartials
<1>11. CASE UNCHANGED shuffleVars
  BY <1>11, PartialsStutter
<1> QED
  BY <1>1, <1>2, <1>3, <1>4, <1>5, <1>6, <1>7, <1>8, <1>9, <1>10, <1>11 DEF ShuffleNext

-----------------------------------------------------------------------------
(* Nothing is lost.                                                        *)

(* The places of the pairs in the input of the job. *)
Item(f, i, j) ==
  /\ f \in DOMAIN Input(stage) /\ i \in DOMAIN Input(stage)[f]
  /\ j \in DOMAIN PairsOf(stage, Input(stage)[f][i])
PairAt(f, i, j) == PairsOf(stage, Input(stage)[f][i])[j]

Out(p) == Has(Follows[stage], Output, p)
InPool(p) == Has(Follows[stage], pool, p)

Safe(f, i, j) ==
  \/ Out(PairAt(f, i, j)) \/ dropped
  \/ \E s \in active : Left(s, stored[s], f, i, j) \/ Excused(s)
InHand(f, i, j) ==
  \/ Out(PairAt(f, i, j)) \/ InPool(PairAt(f, i, j))
  \/ Held(reader, PairAt(f, i, j)) \/ Left(serving, reader, f, i, j)

InputWhole == ~(stage = "over" /\ dropped) => \A p \in Pairs : Has(stage, Input(stage), p)
AllSafe == stage # "over" => \A f, i, j : Item(f, i, j) => Safe(f, i, j)
AllInHand ==
  stage # "over" /\ serving # 0 /\ ~dropped =>
    \A f, i, j : Item(f, i, j) /\ Left(serving, stored[serving], f, i, j) => InHand(f, i, j)
NoneRestored == serving # 0 /\ ~dropped => stored[serving].key = NoKey

LEMMA LostParts ==
  NothingLost <=> InputWhole /\ AllSafe /\ AllInHand /\ NoneRestored
<1>1. ASSUME NothingLost PROVE InputWhole /\ AllSafe /\ AllInHand /\ NoneRestored
  <2>1. InputWhole /\ NoneRestored
    BY <1>1 DEF NothingLost, InputWhole, NoneRestored
  <2>2. AllSafe
    BY <1>1 DEF NothingLost, AllSafe, Item, Safe, PairAt, Out
  <2>3. AllInHand
    BY <1>1 DEF NothingLost, AllInHand, Item, InHand, PairAt, Out, InPool
  <2> QED
    BY <2>1, <2>2, <2>3
<1>2. ASSUME InputWhole, AllSafe, AllInHand, NoneRestored PROVE NothingLost
  <2> SUFFICES ASSUME stage # "over", NEW f \in DOMAIN Input(stage),
                      NEW i \in DOMAIN Input(stage)[f],
                      NEW j \in DOMAIN PairsOf(stage, Input(stage)[f][i])
               PROVE  /\ Safe(f, i, j)
                      /\ serving # 0 /\ ~dropped /\ Left(serving, stored[serving], f, i, j) =>
                           InHand(f, i, j)
    BY <1>2 DEF NothingLost, InputWhole, NoneRestored, Safe, InHand, PairAt, Out, InPool
  <2> QED
    BY <1>2 DEF AllSafe, AllInHand, Item
<1> QED
  BY <1>1, <1>2

LEMMA PairAtIsPair ==
  ASSUME TypesInv, NEW f, NEW i, NEW j, Item(f, i, j)
  PROVE  PairAt(f, i, j) \in Pairs
<1>1. /\ f \in DOMAIN Input(stage) /\ i \in DOMAIN Input(stage)[f]
      /\ j \in DOMAIN PairsOf(stage, Input(stage)[f][i])
  BY DEF Item
<1>2. CASE stage = "hash"
  <2>1. PairAt(f, i, j) = mapped[f][i]
    BY <1>1, <1>2, StageFacts, PairsFacts DEF PairAt
  <2> QED
    BY <2>1, <1>1, <1>2, StageFacts DEF Pairs
<1>3. ASSUME NEW st, NEW S, Input(stage)[f] \in Seq(S),
             \A x \in S : ValuesOf(PairsOf(stage, x)) \subseteq Pairs
      PROVE  PairAt(f, i, j) \in Pairs
  <2>1. Input(stage)[f][i] \in S
    BY <1>1, <1>3, SeqAt
  <2> QED
    BY <2>1, <1>1, <1>3 DEF PairAt, ValuesOf
<1>4. \A g : PairsFor(g) \subseteq Pairs
  BY DEF PairsFor
<1>5. CASE stage = "sort"
  <2>1. Input(stage)[f] \in Seq(PairsFor(f))
    BY <1>1, <1>5, StageFacts DEF TypesInv, OutputsType, ItemsOf
  <2> QED
    BY <2>1, <1>3, <1>4, <1>5, ItemPairs
<1>6. CASE stage = "merge"
  <2>1. Input(stage)[f] \in Seq(Seq(PairsFor(f)))
    BY <1>1, <1>6, StageFacts DEF TypesInv, OutputsType
  <2> QED
    BY <2>1, <1>3, <1>4, <1>6, ItemPairs
<1>7. CASE stage = "reduce"
  <2>1. Input(stage)[f] \in Seq(Merged(f))
    BY <1>1, <1>7, StageFacts DEF TypesInv, OutputsType, ItemsOf
  <2> QED
    BY <2>1, <1>3, <1>4, <1>7, ItemPairs
<1>8. CASE stage = "over"
  <2>1. Input(stage)[f] \in Seq(Calls)
    BY <1>1, <1>8, StageFacts DEF TypesInv, OutputsType, ItemsOf
  <2> QED
    BY <2>1, <1>3, <1>8, ItemPairs
<1> QED
  BY <1>2, <1>5, <1>6, <1>7, <1>8, StageFacts DEF TypesInv, OutputsType

(* What a step that reads does with a pair: it is not out of hand. *)
Carries ==
  /\ \A p \in Pairs : /\ Out(p) => Out(p)'
                      /\ InPool(p) => InPool(p)'
                      /\ Held(reader, p) => Held(reader', p) \/ InPool(p)'
  /\ \A f, i, j, p : Item(f, i, j) /\ p = PairAt(f, i, j) /\ Left(serving, reader, f, i, j) =>
       Left(serving, reader', f, i, j) \/ Held(reader', p) \/ InPool(p)' \/ Out(p)'

LEMMA ReadingLost ==
  ASSUME TypesInv, NothingLost, Reading, Carries
  PROVE  NothingLost'
<1>1. /\ stage' = stage /\ active' = active /\ stored' = stored /\ serving' = serving
      /\ dropped' = dropped
  BY DEF Reading
<1>2. /\ Input(stage)' = Input(stage) /\ Pairs' = Pairs
  BY ReadingKeepsInput
<1>3. \A f, i, j : /\ Item(f, i, j)' <=> Item(f, i, j)
                   /\ PairAt(f, i, j)' = PairAt(f, i, j)
  BY <1>1, <1>2 DEF Item, PairAt
<1>4. \A s, rd, f, i, j : Left(s, rd, f, i, j) <=>
        IF stage' = "merge" THEN f = s /\ j > rd.offsets[i] ELSE InFiles(rd, f, i)
  BY <1>1 DEF Left
<1>5. \A s : Excused(s)' <=> Excused(s)
  BY <1>1 DEF Excused
<1>6. InputWhole /\ AllSafe /\ AllInHand /\ NoneRestored
  BY LostParts
<1>7. InputWhole' /\ NoneRestored'
  BY <1>1, <1>2, <1>6 DEF InputWhole, NoneRestored
<1>8. AllSafe'
  <2> SUFFICES ASSUME stage' # "over", NEW f, NEW i, NEW j, Item(f, i, j)'
               PROVE  Safe(f, i, j)'
    BY DEF AllSafe
  <2>1. Item(f, i, j) /\ Safe(f, i, j) /\ PairAt(f, i, j) \in Pairs
    BY <1>1, <1>3, <1>6, PairAtIsPair DEF AllSafe
  <2>2. PICK p \in Pairs : p = PairAt(f, i, j)
    BY <2>1
  <2>3. Out(p) => Out(p)'
    BY DEF Carries
  <2>4. PairAt(f, i, j)' = p
    BY <1>3, <2>2
  <2>5. CASE Out(p)
    BY <2>3, <2>4, <2>5 DEF Safe
  <2>6. CASE dropped
    BY <2>6, <1>1 DEF Safe
  <2>7. CASE \E s \in active : Left(s, stored[s], f, i, j) \/ Excused(s)
    <3>1. \E s \in active' : Left(s, stored[s], f, i, j)' \/ Excused(s)'
      BY <2>7, <1>1, <1>4, <1>5 DEF Left
    <3> QED
      BY <3>1 DEF Safe
  <2> QED
    BY <2>1, <2>2, <2>5, <2>6, <2>7 DEF Safe
<1>9. AllInHand'
  <2> SUFFICES ASSUME stage' # "over", serving' # 0, ~dropped', NEW f, NEW i, NEW j,
                      Item(f, i, j)', Left(serving, stored[serving], f, i, j)'
               PROVE  InHand(f, i, j)'
    BY DEF AllInHand
  <2>1. Item(f, i, j) /\ PairAt(f, i, j) \in Pairs
    BY <1>3, PairAtIsPair
  <2>2. Left(serving, stored[serving], f, i, j)
    BY <1>1 DEF Left
  <2>3. InHand(f, i, j)
    BY <1>1, <1>6, <2>1, <2>2 DEF AllInHand
  <2>4. PICK p \in Pairs : p = PairAt(f, i, j) /\ PairAt(f, i, j)' = p
    BY <2>1, <1>3
  <2>5. /\ Out(p) => Out(p)'
        /\ InPool(p) => InPool(p)'
        /\ Held(reader, p) => Held(reader', p) \/ InPool(p)'
    BY DEF Carries
  <2>6. Left(serving, reader, f, i, j) =>
          Left(serving, reader', f, i, j) \/ Held(reader', p) \/ InPool(p)' \/ Out(p)'
    BY <2>1, <2>4 DEF Carries
  <2>7. Left(serving, reader', f, i, j) => Left(serving, reader, f, i, j)'
    BY <1>1 DEF Left
  <2>8. Held(reader', p) => Held(reader, p)'
    BY DEF Held
  <2> QED
    BY <2>3, <2>4, <2>5, <2>6, <2>7, <2>8 DEF InHand
<1>10. (NothingLost <=> InputWhole /\ AllSafe /\ AllInHand /\ NoneRestored)'
  BY LostParts, PTL
<1> QED
  BY <1>7, <1>8, <1>9, <1>10

(* Out and InPool when an item is added, and when none is. *)
LEMMA OutAlone ==
  ASSUME Reading, chunks' = chunks, NEW p
  PROVE  Out(p)' <=> Out(p)
<1>1. stage' = stage /\ written' = written
  BY DEF Reading
<1>2. Output' = Output
  BY <1>1 DEF Output
<1> QED
  BY <1>1, <1>2 DEF Out

LEMMA PoolAlone ==
  ASSUME Reading, pool' = pool, NEW p
  PROVE  InPool(p)' <=> InPool(p)
<1>1. stage' = stage
  BY DEF Reading
<1> QED
  BY <1>1 DEF InPool

LEMMA PoolMore ==
  ASSUME Reading, NEW S, NEW g, NEW x, IsAdded(S, pool, g, x, pool')
  PROVE  \A p : InPool(p)' <=> InPool(p) \/ p \in ValuesOf(PairsOf(Follows[stage], x))
<1>1. stage' = stage
  BY DEF Reading
<1>2. PICK st, b : st = Follows[stage] /\ b = pool'
  OBVIOUS
<1>3. \A p : Has(st, b, p) <=> Has(st, pool, p) \/ p \in ValuesOf(PairsOf(st, x))
  BY <1>2, HasAdded
<1> QED
  BY <1>1, <1>2, <1>3 DEF InPool

LEMMA NotHeld ==
  ASSUME TypesInv, serving # 0, NEW p \in Pairs, Held(reader, p)
  PROVE  reader.key = p[1] /\ reader.key # NoKey /\ stage \in {"merge", "reduce"}
<1>1. p[1] # NoKey
  BY PairNumbers DEF TypesInv
<1> QED
  BY <1>1, ServedPoints DEF TypesInv, Points, Held

LEMMA HashCarries ==
  ASSUME TypesInv, HashRecord
  PROVE  Reading /\ Carries
<1>1. PICK f, n, p : /\ f = reader.files[1] /\ n = reader.position + 1 /\ p = mapped[f][n]
  OBVIOUS
<1>2. /\ stage = "hash" /\ Reading /\ chunks' = chunks
      /\ reader.files # <<>> /\ f \in DOMAIN mapped /\ n \in DOMAIN mapped[f]
      /\ p \in Pairs /\ reader.position \in Nat
      /\ IsAdded(AllItems(stage), pool, Hash(p[1]), p, pool')
      /\ reader' = [reader EXCEPT !.position = n, !.some = TRUE]
  BY <1>1, HashStep
<1>3. serving # 0 /\ reader \in Readers
  BY <1>2, ServedPoints DEF Reading, TypesInv
<1>4. reader'.files = reader.files /\ reader'.position = n
  BY <1>2, <1>3 DEF Readers
<1>5. \A q : InPool(q)' <=> InPool(q) \/ q \in ValuesOf(PairsOf("sort", p))
  BY <1>2, PoolMore, StageFacts
<1>6. p \in ValuesOf(PairsOf("sort", p))
  <2>1. PairsOf("sort", p) = <<p>>
    BY PairsFacts
  <2>2. 1 \in DOMAIN <<p>> /\ <<p>>[1] = p
    OBVIOUS
  <2> QED
    BY <2>1, <2>2 DEF ValuesOf
<1>7. ASSUME NEW g, NEW i, NEW j, NEW q, Item(g, i, j), q = PairAt(g, i, j),
             Left(serving, reader, g, i, j), ~Left(serving, reader', g, i, j)
      PROVE  InPool(q)'
  <2>1. InFiles(reader, g, i) /\ ~InFiles(reader', g, i)
    BY <1>2, <1>7 DEF Left
  <2>2. g = f /\ i > reader.position /\ ~(i > n)
    BY <2>1, <1>1, <1>4 DEF InFiles
  <2>3. i \in DOMAIN mapped[g] /\ g \in DOMAIN mapped
    BY <1>2, <1>7, StageFacts DEF Item
  <2>4. i \in Nat
    <3>1. mapped[g] \in Seq(Pairs)
      BY <2>3, MappedType DEF TypesInv, OutputsType
    <3> QED
      BY <3>1, <2>3, LenProperties
  <2>5. i = n
    BY <2>2, <2>4, <1>1, <1>2
  <2>6. j \in DOMAIN <<p>> /\ PairAt(g, i, j) = <<p>>[j]
    BY <1>1, <1>2, <1>7, <2>2, <2>5, StageFacts, PairsFacts DEF Item, PairAt
  <2>7. PairAt(g, i, j) = p
    BY <2>6
  <2>8. InPool(p)'
    BY <1>5, <1>6
  <2> QED
    BY <2>7, <2>8, <1>7
<1>8. ASSUME NEW q \in Pairs PROVE ~Held(reader, q)
  BY <1>2, <1>3, <1>8, NotHeld
<1> QED
  BY <1>2, <1>5, <1>7, <1>8, OutAlone DEF Carries

LEMMA SortCarries ==
  ASSUME TypesInv, SortBatch
  PROVE  Reading /\ Carries
<1>0. PICK n, new : SortMade(n, new)
  BY SortStep
<1>1. PICK m, c : m = reader.position /\ c = written["hash"][serving]
  OBVIOUS
<1>2. /\ stage = "sort" /\ Reading /\ pool' = pool /\ reader.files = <<serving>>
      /\ c \in Seq(PairsFor(serving)) /\ m \in Nat /\ n \in Nat \ {0} /\ m + n <= Len(c)
      /\ IsAdded(Seq(Pairs), chunks, serving, new, chunks')
      /\ \A i \in 1..n : c[m + i] \in ValuesOf(new)
      /\ \A i \in DOMAIN c : InFiles(reader', serving, i) <=> i > m + n
  BY <1>0, <1>1 DEF SortMade
<1>3. serving # 0 /\ stage' = stage
  BY <1>2 DEF Reading
<1>4. \A q : Out(q)' <=> Out(q) \/ q \in ValuesOf(new)
  <2>1. PICK b : b = chunks'
    OBVIOUS
  <2>2. \A q : Has("merge", b, q) <=> Has("merge", chunks, q) \/ q \in ValuesOf(PairsOf("merge", new))
    BY <1>2, <2>1, HasAdded
  <2>3. PairsOf("merge", new) = new
    BY PairsFacts
  <2>4. Output = chunks /\ Output' = b
    BY <1>2, <1>3, <2>1 DEF Output
  <2> QED
    BY <2>2, <2>3, <2>4, <1>2, <1>3, StageFacts DEF Out
<1>5. ASSUME NEW g, NEW i, NEW j, NEW q, Item(g, i, j), q = PairAt(g, i, j),
             Left(serving, reader, g, i, j), ~Left(serving, reader', g, i, j)
      PROVE  Out(q)'
  <2>1. InFiles(reader, g, i) /\ ~InFiles(reader', g, i)
    BY <1>2, <1>5 DEF Left
  <2>2. g = serving /\ i > m
    <3>1. Len(reader.files) = 1 /\ reader.files[1] = serving /\ 2..1 = {}
      BY <1>2
    <3> QED
      BY <2>1, <3>1, <1>1 DEF InFiles
  <2>3. i \in DOMAIN c /\ j \in DOMAIN <<c[i]>> /\ q = <<c[i]>>[j]
    BY <1>1, <1>2, <1>5, <2>2, StageFacts, PairsFacts DEF Item, PairAt
  <2>4. i \in Nat /\ ~(i > m + n)
    <3>1. i \in Nat
      BY <1>2, <2>3, LenProperties
    <3> QED
      BY <3>1, <2>1, <2>2, <2>3, <1>2
  <2>5. PICK k \in 1..n : i = m + k
    <3>1. i - m \in 1..n /\ i = m + (i - m)
      BY <2>2, <2>4, <1>2
    <3> QED
      BY <3>1
  <2>6. q = c[m + k]
    BY <2>3, <2>5
  <2> QED
    BY <2>6, <1>2, <1>4
<1>6. ASSUME NEW q \in Pairs PROVE ~Held(reader, q)
  BY <1>2, <1>3, <1>6, NotHeld
<1> QED
  BY <1>2, <1>4, <1>5, <1>6, PoolAlone DEF Carries

LEMMA YieldCarries ==
  ASSUME TypesInv, MergeYield
  PROVE  Reading /\ Carries
<1>0. PICK x : MergeYielded(x)
  BY YieldStep
<1>1. /\ stage = "merge" /\ Reading /\ chunks' = chunks
      /\ x = [key |-> reader.key, values |-> reader.values, partial |-> MoreOfKey]
      /\ IsAdded(AllItems(stage), pool, serving, x, pool')
      /\ reader' = [reader EXCEPT !.key = NoKey, !.values = <<>>, !.some = TRUE]
  BY <1>0 DEF MergeYielded
<1>2. serving # 0 /\ reader \in Readers
  BY <1>1, ServedPoints DEF Reading, TypesInv
<1>3. reader'.offsets = reader.offsets
  BY <1>1, <1>2 DEF Readers
<1>4. \A q : InPool(q)' <=> InPool(q) \/ q \in ValuesOf(PairsOf("reduce", x))
  BY <1>1, PoolMore, StageFacts
<1>5. \A f, i, j : Left(serving, reader', f, i, j) <=> Left(serving, reader, f, i, j)
  BY <1>1, <1>3 DEF Left
<1>6. ASSUME NEW q \in Pairs, Held(reader, q)
      PROVE  q \in ValuesOf(PairsOf("reduce", x))
  <2>1. PICK j \in DOMAIN reader.values : q[2] = reader.values[j]
    BY <1>6 DEF Held, ValuesOf
  <2>2. x.key = q[1] /\ x.values = reader.values
    BY <1>1, <1>6 DEF Held
  <2>3. PairsOf("reduce", x) = [k \in DOMAIN x.values |-> <<x.key, x.values[k]>>]
    BY PairsFacts
  <2>4. j \in DOMAIN PairsOf("reduce", x) /\ PairsOf("reduce", x)[j] = <<q[1], q[2]>>
    BY <2>1, <2>2, <2>3
  <2>5. q = <<q[1], q[2]>>
    BY PairNumbers DEF TypesInv
  <2> QED
    BY <2>4, <2>5 DEF ValuesOf
<1> QED
  BY <1>1, <1>4, <1>5, <1>6, OutAlone DEF Carries

LEMMA TakeCarries ==
  ASSUME TypesInv, MergeTake
  PROVE  Reading /\ Carries
<1>0. PICK k, p : MergeTaken(k, p)
  BY TakeStep
<1>1. /\ stage = "merge" /\ Reading /\ chunks' = chunks /\ pool' = pool
      /\ k \in Heads /\ p = HeadOf(k)
      /\ \/ reader.key = NoKey /\ reader.values = <<>>
         \/ reader.key = p[1] /\ reader.key # NoKey /\ ~Full
      /\ reader.values \in Seq(Nat) /\ p[2] \in Nat
      /\ reader'.key = p[1] /\ reader'.values = Append(reader.values, p[2])
      /\ reader'.offsets = [reader.offsets EXCEPT ![k] = @ + 1]
  BY <1>0 DEF MergeTaken
<1>2. serving # 0
  BY <1>1 DEF Reading
<1>3. /\ k \in DOMAIN chunks[serving] /\ DOMAIN reader.offsets = DOMAIN chunks[serving]
      /\ reader.offsets[k] \in Nat /\ p = chunks[serving][k][reader.offsets[k] + 1]
      /\ \A i \in DOMAIN chunks[serving] :
           DOMAIN chunks[serving][i] = 1..Len(chunks[serving][i])
  BY <1>1, <1>2, HeadFacts
<1>4. /\ reader'.offsets[k] = reader.offsets[k] + 1
      /\ \A i \in DOMAIN chunks[serving] \ {k} : reader'.offsets[i] = reader.offsets[i]
  BY <1>1, <1>3
<1>5. ValuesOf(reader'.values) = ValuesOf(reader.values) \union {p[2]}
  BY <1>1, ValuesOfAppend
<1>6. Held(reader', p)
  BY <1>1, <1>5 DEF Held
<1>7. ASSUME NEW q \in Pairs, Held(reader, q) PROVE Held(reader', q)
  <2>1. reader.key = q[1] /\ reader.key # NoKey
    BY <1>2, <1>7, NotHeld
  <2> QED
    BY <2>1, <1>1, <1>5, <1>7 DEF Held
<1>8. ASSUME NEW f, NEW i, NEW j, NEW q, Item(f, i, j), q = PairAt(f, i, j),
             Left(serving, reader, f, i, j), ~Left(serving, reader', f, i, j)
      PROVE  Held(reader', q)
  <2>1. f = serving /\ j > reader.offsets[i] /\ ~(j > reader'.offsets[i])
    BY <1>1, <1>8 DEF Left
  <2>2. i \in DOMAIN chunks[serving] /\ j \in DOMAIN chunks[serving][i]
        /\ q = chunks[serving][i][j]
    BY <1>1, <1>8, <2>1, StageFacts, PairsFacts DEF Item, PairAt
  <2>3. i = k
    BY <2>1, <2>2, <1>4
  <2>4. j \in Nat
    BY <2>2, <1>3
  <2>5. j = reader.offsets[k] + 1
    <3>1. PICK a \in Nat : a = reader.offsets[k] /\ reader'.offsets[k] = a + 1
      BY <1>3, <1>4
    <3> QED
      BY <3>1, <2>1, <2>3, <2>4
  <2>6. q = p
    BY <2>2, <2>3, <2>5, <1>3
  <2> QED
    BY <2>6, <1>6
<1> QED
  BY <1>1, <1>7, <1>8, OutAlone, PoolAlone DEF Carries

LEMMA ReduceCarries ==
  ASSUME TypesInv, ReduceRecord
  PROVE  Reading /\ Carries
<1>0. PICK f, n, r : ReduceRead(f, n, r)
  BY ReduceStep
<1>1. /\ stage = "reduce" /\ Reading /\ chunks' = chunks
      /\ reader.files # <<>> /\ f = reader.files[1] /\ f \in ShuffleShards
      /\ reader.position \in Nat /\ n = reader.position + 1 /\ n \in DOMAIN written["merge"][f]
      /\ r = written["merge"][f][n] /\ r \in Merged(f)
      /\ \/ reader.key = NoKey /\ reader.values = <<>>
         \/ reader.key = r.key /\ reader.key # NoKey
      /\ reader.values \in Seq(Nat)
      /\ reader'.files = reader.files /\ reader'.position = n
  BY <1>0 DEF ReduceRead
<1>2. serving # 0
  BY <1>1 DEF Reading
<1>3. PICK vs : vs = reader.values \o r.values
  OBVIOUS
<1>4. r.values \in Seq(Nat)
  BY <1>1 DEF Merged
<1>5. vs \in Seq(Nat) /\ ValuesOf(vs) = ValuesOf(reader.values) \union ValuesOf(r.values)
  <2>1. PICK a, b : a = reader.values /\ b = r.values
    OBVIOUS
  <2>2. a \in Seq(Nat) /\ b \in Seq(Nat) /\ vs = a \o b
    BY <2>1, <1>1, <1>3, <1>4
  <2>3. ValuesOf(a \o b) = ValuesOf(a) \union ValuesOf(b) /\ a \o b \in Seq(Nat)
    BY <2>2, ValuesOfConcat
  <2> QED
    BY <2>1, <2>2, <2>3
<1>6. ASSUME r.partial
      PROVE  /\ \A q : InPool(q) => InPool(q)'
             /\ \A q \in Pairs : q[1] = r.key /\ q[2] \in ValuesOf(vs) => Held(reader', q)
  <2>1. reader'.key = r.key /\ reader'.values = vs /\ pool' = pool
    BY <1>0, <1>3, <1>6 DEF ReduceRead
  <2>2. \A q : q[1] = r.key /\ q[2] \in ValuesOf(vs) => Held(reader', q)
    BY <2>1 DEF Held
  <2>3. \A q : InPool(q) => InPool(q)'
    BY <2>1, <1>1, PoolAlone
  <2> QED
    BY <2>2, <2>3
<1>7. ASSUME ~r.partial
      PROVE  /\ \A q : InPool(q) => InPool(q)'
             /\ \A q \in Pairs : q[1] = r.key /\ q[2] \in ValuesOf(vs) => InPool(q)'
  <2>1. PICK x : x = <<r.key, vs>>
    OBVIOUS
  <2>2. IsAdded(AllItems(stage), pool, serving, x, pool')
    BY <1>0, <1>3, <1>7, <2>1 DEF ReduceRead
  <2>3. \A q : InPool(q)' <=> InPool(q) \/ q \in ValuesOf(PairsOf("over", x))
    BY <1>1, <2>2, PoolMore, StageFacts
  <2>4. x[1] = r.key /\ x[2] = vs
    BY <2>1
  <2>5. PairsOf("over", x) = [j \in DOMAIN vs |-> <<r.key, vs[j]>>]
    <3>1. PairsOf("over", x) = [j \in DOMAIN x[2] |-> <<x[1], x[2][j]>>]
      BY PairsFacts
    <3> QED
      BY <2>4, <3>1
  <2>6. ASSUME NEW q \in Pairs, q[1] = r.key, q[2] \in ValuesOf(vs)
        PROVE  InPool(q)'
    <3>1. PICK j \in DOMAIN vs : q[2] = vs[j]
      BY <2>6 DEF ValuesOf
    <3>2. q = <<q[1], q[2]>>
      BY PairNumbers DEF TypesInv
    <3>3. j \in DOMAIN PairsOf("over", x) /\ PairsOf("over", x)[j] = q
      BY <2>5, <2>6, <3>1, <3>2
    <3> QED
      BY <2>3, <3>3 DEF ValuesOf
  <2> QED
    BY <2>3, <2>6
<1>8. /\ \A q : InPool(q) => InPool(q)'
      /\ \A q \in Pairs : q[1] = r.key /\ q[2] \in ValuesOf(vs) => Held(reader', q) \/ InPool(q)'
  BY <1>6, <1>7
<1>9. ASSUME NEW q \in Pairs, Held(reader, q) PROVE Held(reader', q) \/ InPool(q)'
  <2>1. reader.key = q[1] /\ reader.key # NoKey
    BY <1>2, <1>9, NotHeld
  <2>2. q[1] = r.key /\ q[2] \in ValuesOf(vs)
    BY <2>1, <1>1, <1>5, <1>9 DEF Held
  <2> QED
    BY <2>2, <1>8
<1>10. ASSUME NEW g, NEW i, NEW j, NEW q, Item(g, i, j), q = PairAt(g, i, j),
              Left(serving, reader, g, i, j), ~Left(serving, reader', g, i, j)
       PROVE  Held(reader', q) \/ InPool(q)'
  <2>1. InFiles(reader, g, i) /\ ~InFiles(reader', g, i)
    BY <1>1, <1>10 DEF Left
  <2>2. g = f /\ i > reader.position /\ ~(i > n)
    BY <2>1, <1>1 DEF InFiles
  <2>3. /\ i \in DOMAIN written["merge"][f]
        /\ j \in DOMAIN PairsOf("reduce", written["merge"][f][i])
        /\ q = PairsOf("reduce", written["merge"][f][i])[j]
    BY <1>1, <1>10, <2>2, StageFacts DEF Item, PairAt
  <2>4. i \in Nat
    <3>1. written["merge"][f] \in Seq(ItemsOf("merge", f))
      BY <1>1, StageFacts DEF TypesInv, OutputsType
    <3> QED
      BY <3>1, <2>3, LenProperties
  <2>5. i = n
    BY <2>2, <2>4, <1>1
  <2>6. PairsOf("reduce", r) = [k \in DOMAIN r.values |-> <<r.key, r.values[k]>>]
    BY PairsFacts
  <2>7. j \in DOMAIN r.values /\ q = <<r.key, r.values[j]>>
    BY <2>3, <2>5, <2>6, <1>1
  <2>8. q[1] = r.key /\ q[2] \in ValuesOf(vs)
    BY <2>7, <1>5 DEF ValuesOf
  <2>9. q \in Pairs
    BY <1>10, PairAtIsPair
  <2> QED
    BY <2>8, <2>9, <1>8
<1> QED
  BY <1>1, <1>8, <1>9, <1>10, OutAlone DEF Carries

LEMMA FileCarries ==
  ASSUME TypesInv, NextFile
  PROVE  Reading /\ Carries
<1>1. /\ ReadsFiles /\ Reading /\ chunks' = chunks /\ pool' = pool
      /\ reader'.key = reader.key /\ reader'.values = reader.values
      /\ \A f \in DOMAIN Input(stage) : \A i \in DOMAIN Input(stage)[f] :
           InFiles(reader', f, i) <=> InFiles(reader, f, i)
  BY FileStep DEF FileEnded
<1>2. stage # "merge"
  BY <1>1 DEF ReadsFiles
<1>3. \A f, i, j : Item(f, i, j) /\ Left(serving, reader, f, i, j) =>
        Left(serving, reader', f, i, j)
  BY <1>1, <1>2 DEF Item, Left
<1>4. \A p : Held(reader, p) => Held(reader', p)
  BY <1>1 DEF Held
<1> QED
  BY <1>1, <1>3, <1>4, OutAlone, PoolAlone DEF Carries

(* The ends of slices. *)
LEMMA EndedPlaces ==
  ASSUME TypesInv, NEW ext, Ended(ext)
  PROVE  /\ Input(stage)' = Input(stage) /\ Pairs' = Pairs
         /\ \A f, i, j : /\ Item(f, i, j)' <=> Item(f, i, j)
                         /\ PairAt(f, i, j)' = PairAt(f, i, j)
<1>1. /\ Input(stage)' = Input(stage) /\ Pairs' = Pairs /\ stage' = stage
  BY EndedOutput DEF TypesInv, Ended
<1> QED
  BY <1>1 DEF Item, PairAt

LEMMA EndedHas ==
  ASSUME TypesInv, NEW ext, Ended(ext), NEW p
  PROVE  /\ Out(p) => Out(p)'
         /\ Kept(ext) /\ InPool(p) => Out(p)'
<1>1. stage' = stage /\ chunks' = chunks /\ DOMAIN ext = ShuffleShards
  BY DEF Ended
<1>2. CASE stage \in WritingStages
  <2>1. PICK a, c, st : a = written[stage] /\ c = written'[stage] /\ st = Follows[stage]
    OBVIOUS
  <2>2. IsFiles(AllItems(stage), a)
    BY <1>2, <2>1, WrittenFiles DEF TypesInv
  <2>3. \A f \in ShuffleShards : ItemsOf(stage, f) \subseteq AllItems(stage)
    BY DEF AllItems
  <2>4. \A f \in ShuffleShards : Seq(ItemsOf(stage, f)) \subseteq Seq(AllItems(stage))
    BY <2>3, SeqMonotonic
  <2>5. IsFiles(AllItems(stage), ext)
    BY <1>2, <2>4 DEF IsFiles, Ended
  <2>6. DOMAIN c = ShuffleShards /\ \A f \in ShuffleShards : c[f] = a[f] \o ext[f]
    BY <1>2, <2>1, EndedOutput DEF TypesInv
  <2>7. Has(st, c, p) <=> Has(st, a, p) \/ Has(st, ext, p)
    BY <2>2, <2>5, <2>6, HasJoined
  <2>8. Output = a /\ Output' = c
    BY <1>1, <1>2, <2>1 DEF Output, WritingStages
  <2>9. Kept(ext) /\ Has(st, pool, p) => Has(st, ext, p)
    BY PoolFunction, <1>1 DEF Kept, Has
  <2> QED
    BY <2>1, <2>7, <2>8, <2>9, <1>1 DEF Out, InPool
<1>3. CASE stage \notin WritingStages
  <2>1. written' = written /\ pool = NoOutput
    BY <1>3, WrittenFiles DEF Ended, TypesInv
  <2>2. Output' = Output
    BY <2>1, <1>1 DEF Output
  <2>3. ~InPool(p)
    BY <2>1, HasNone DEF InPool
  <2> QED
    BY <2>2, <2>3, <1>1 DEF Out
<1> QED
  BY <1>2, <1>3

(* What is left of the slice that ends: nothing, or what its shard is to   *)
(* read yet.                                                               *)
LEMMA EndedLeft ==
  ASSUME TypesInv, PartialsInv, NEW ext, Continues(ext) \/ Finishes(ext),
         NEW f, NEW i, NEW j, Item(f, i, j), NEW p \in Pairs,
         Held(reader, p) \/ Left(serving, reader, f, i, j)
  PROVE  \E s \in active' : Left(s, stored[s], f, i, j)' \/ Excused(s)'
<1>1. /\ Ended(ext) /\ serving # 0 /\ stage' = stage /\ serving \in active
  BY DEF Continues, Finishes, Ended
<1>2. serving \in ShuffleShards /\ stored \in [ShuffleShards -> Readers] /\ reader \in Readers
  BY <1>1, StoredPoints, ServedPoints DEF TypesInv
<1>3. CASE Continues(ext)
  <2>1. /\ stored'[serving] = [reader EXCEPT !.some = FALSE] /\ serving \in active'
        /\ stage = "merge" => reader.key = NoKey
    BY <1>2, <1>3 DEF Continues
  <2>2. /\ stored'[serving].files = reader.files /\ stored'[serving].position = reader.position
        /\ stored'[serving].offsets = reader.offsets /\ stored'[serving].key = reader.key
    BY <2>1, <1>2 DEF Readers
  <2>3. CASE Held(reader, p)
    <3>1. reader.key # NoKey /\ stage = "reduce"
      BY <2>1, <2>3, <1>1, NotHeld
    <3> QED
      BY <3>1, <2>1, <2>2, <1>1 DEF Excused
  <2>4. CASE Left(serving, reader, f, i, j)
    <3>1. PICK s : s = serving
      OBVIOUS
    <3>2. Left(s, stored[s], f, i, j)'
      BY <3>1, <2>2, <2>4, <1>1 DEF Left, InFiles
    <3> QED
      BY <3>1, <3>2, <2>1
  <2> QED
    BY <2>3, <2>4
<1>4. CASE Finishes(ext)
  <2>1. reader.files = <<>> /\ Heads = {} /\ (stage = "merge" => reader.key = NoKey)
    BY <1>4 DEF Finishes, AtEnd
  <2>2. Remaining = <<>>
    BY <2>1 DEF Remaining
  <2>3. ~Held(reader, p)
    BY <1>1, <2>1, <2>2, NotHeld DEF PartialsInv
  <2>4. stage = "merge" /\ f = serving /\ j > reader.offsets[i]
    BY <2>1, <2>3 DEF Left, InFiles
  <2>5. i \in DOMAIN chunks[serving] /\ j \in DOMAIN chunks[serving][i]
    BY <2>4, StageFacts, PairsFacts DEF Item
  <2>6. /\ reader.offsets[i] \in Nat /\ DOMAIN chunks[serving][i] = 1..Len(chunks[serving][i])
        /\ Len(chunks[serving][i]) \in Nat
        /\ i \in Heads <=> reader.offsets[i] < Len(chunks[serving][i])
    BY <1>1, <2>4, <2>5, HeadFacts
  <2>7. reader.offsets[i] < Len(chunks[serving][i])
    BY <2>4, <2>5, <2>6
  <2> QED
    BY <2>1, <2>6, <2>7
<1> QED
  BY <1>3, <1>4

LEMMA EndLost ==
  ASSUME TypesInv, PartialsInv, NothingLost, NEW ext,
         Continues(ext) \/ Finishes(ext) \/ Repeats(ext)
  PROVE  NothingLost'
<1>1. /\ Ended(ext) /\ serving # 0 /\ serving' = 0 /\ stage' = stage /\ dropped' = dropped
  BY DEF Continues, Finishes, Repeats, Ended
<1>2. /\ Input(stage)' = Input(stage) /\ Pairs' = Pairs
      /\ \A f, i, j : /\ Item(f, i, j)' <=> Item(f, i, j)
                      /\ PairAt(f, i, j)' = PairAt(f, i, j)
  BY <1>1, EndedPlaces
<1>3. InputWhole /\ AllSafe /\ AllInHand /\ NoneRestored
  BY LostParts
<1>4. InputWhole' /\ NoneRestored' /\ AllInHand'
  BY <1>1, <1>2, <1>3 DEF InputWhole, NoneRestored, AllInHand
<1>5. AllSafe'
  <2> SUFFICES ASSUME stage # "over", NEW f, NEW i, NEW j, Item(f, i, j)
               PROVE  Safe(f, i, j)'
    BY <1>1, <1>2 DEF AllSafe
  <2>1. PICK p \in Pairs : p = PairAt(f, i, j) /\ PairAt(f, i, j)' = p
    BY <1>2, PairAtIsPair
  <2>2. /\ Out(p) => Out(p)'
        /\ Kept(ext) /\ InPool(p) => Out(p)'
    BY <1>1, EndedHas
  <2>3. Out(p)' => Safe(f, i, j)'
    BY <2>1 DEF Safe
  <2>4. dropped => Safe(f, i, j)'
    BY <1>1 DEF Safe
  <2>5. ASSUME NEW s \in active, Left(s, stored[s], f, i, j) \/ Excused(s), ~dropped, ~Out(p)
        PROVE  Safe(f, i, j)'
    <3>1. CASE s # serving \/ Repeats(ext)
      <4>1. s \in active' /\ stored'[s] = stored[s]
        BY <3>1, StoredPoints DEF Continues, Finishes, Repeats
      <4>2. Left(s, stored[s], f, i, j)' \/ Excused(s)'
        BY <4>1, <2>5, <1>1 DEF Left, Excused
      <4> QED
        BY <4>1, <4>2 DEF Safe
    <3>2. CASE s = serving /\ (Continues(ext) \/ Finishes(ext))
      <4>1. stored[serving].key = NoKey
        BY <1>1, <1>3, <2>5 DEF NoneRestored
      <4>2. Left(serving, stored[serving], f, i, j)
        BY <4>1, <3>2, <2>5 DEF Excused
      <4>3. InHand(f, i, j)
        BY <4>2, <1>1, <1>3, <2>5 DEF AllInHand
      <4>4. Kept(ext)
        BY <3>2 DEF Continues, Finishes
      <4>5. CASE InPool(p)
        BY <4>4, <4>5, <2>2, <2>3
      <4>6. CASE Held(reader, p) \/ Left(serving, reader, f, i, j)
        <5>1. \E t \in active' : Left(t, stored[t], f, i, j)' \/ Excused(t)'
          BY <3>2, <4>6, EndedLeft
        <5> QED
          BY <5>1 DEF Safe
      <4> QED
        BY <4>3, <4>5, <4>6, <2>1, <2>5 DEF InHand
    <3> QED
      BY <3>1, <3>2, <2>5
  <2>6. Safe(f, i, j)
    BY <1>3 DEF AllSafe
  <2> QED
    BY <2>1, <2>2, <2>3, <2>4, <2>5, <2>6 DEF Safe
<1>6. (NothingLost <=> InputWhole /\ AllSafe /\ AllInHand /\ NoneRestored)'
  BY LostParts, PTL
<1> QED
  BY <1>4, <1>5, <1>6

LEMMA SamePlaces ==
  ASSUME UNCHANGED <<mapped, stage, written, chunks>>
  PROVE  /\ Input(stage)' = Input(stage) /\ Pairs' = Pairs
         /\ \A f, i, j : /\ Item(f, i, j)' <=> Item(f, i, j)
                         /\ PairAt(f, i, j)' = PairAt(f, i, j)
         /\ \A p : Out(p)' <=> Out(p)
<1>1. /\ Input(stage)' = Input(stage) /\ Pairs' = Pairs
  BY SameStage
<1>2. Output' = Output
  BY DEF Output
<1> QED
  BY <1>1, <1>2 DEF Item, PairAt, Out

LEMMA BeginLost ==
  ASSUME TypesInv, NothingLost, NEW s, Begun(s)
  PROVE  NothingLost'
<1>1. /\ serving = 0 /\ s \in active /\ serving' = s /\ s # 0
      /\ UNCHANGED <<mapped, stage, written, chunks, final, active, stored, pool, failures>>
      /\ dropped' = (dropped \/ (stage = "reduce" /\ stored[s].key # NoKey))
      /\ reader'.files = stored[s].files /\ reader'.position = stored[s].position
      /\ reader'.offsets = stored[s].offsets
  BY DEF Begun
<1>2. /\ Input(stage)' = Input(stage) /\ Pairs' = Pairs
      /\ \A f, i, j : /\ Item(f, i, j)' <=> Item(f, i, j)
                      /\ PairAt(f, i, j)' = PairAt(f, i, j)
      /\ \A p : Out(p)' <=> Out(p)
  BY <1>1, SamePlaces
<1>3. InputWhole /\ AllSafe
  BY LostParts
<1>4. dropped => dropped'
  BY <1>1
<1>5. InputWhole'
  BY <1>1, <1>2, <1>3, <1>4 DEF InputWhole
<1>6. NoneRestored'
  <2>1. Points(s, stored[s]) /\ (stage = "merge" => stored[s].key = NoKey)
    BY <1>1, StoredPoints
  <2>2. stored[s].key # NoKey => dropped'
    BY <2>1, <1>1 DEF Points
  <2> QED
    BY <2>2, <1>1 DEF NoneRestored
<1>7. AllSafe'
  <2> SUFFICES ASSUME stage # "over", NEW f, NEW i, NEW j, Item(f, i, j)
               PROVE  Safe(f, i, j)'
    BY <1>1, <1>2 DEF AllSafe
  <2>1. Safe(f, i, j)
    BY <1>3 DEF AllSafe
  <2>2. Out(PairAt(f, i, j))' <=> Out(PairAt(f, i, j))
    <3>1. PICK p : p = PairAt(f, i, j) /\ PairAt(f, i, j)' = p
      BY <1>2
    <3> QED
      BY <3>1, <1>2
  <2>3. \A t : (Left(t, stored[t], f, i, j)' <=> Left(t, stored[t], f, i, j))
               /\ (Excused(t) => Excused(t)')
    BY <1>1 DEF Left, Excused
  <2> QED
    BY <2>1, <2>2, <2>3, <1>1, <1>4 DEF Safe
<1>8. AllInHand'
  <2>1. \A f, i, j : Left(serving, stored[serving], f, i, j)' => Left(serving, reader, f, i, j)'
    BY <1>1 DEF Left, InFiles
  <2> QED
    BY <2>1 DEF AllInHand, InHand
<1>9. (NothingLost <=> InputWhole /\ AllSafe /\ AllInHand /\ NoneRestored)'
  BY LostParts, PTL
<1> QED
  BY <1>5, <1>6, <1>7, <1>8, <1>9

(* A reader that is dealt files has all of each to read. *)
LEMMA DealtLeft ==
  ASSUME NEW count \in Nat, NEW n \in Nat \ {0}, NEW s \in 1..n, NEW rd,
         rd.files = Dealt(count, n, s), rd.position = 0,
         NEW j \in DOMAIN Dealt(count, n, s), NEW i \in Nat \ {0}
  PROVE  InFiles(rd, Dealt(count, n, s)[j], i)
<1>1. PICK d : d = Dealt(count, n, s)
  OBVIOUS
<1>2. d \in Seq(Nat)
  BY <1>1, DealtFacts
<1>3. DOMAIN d = 1..Len(d) /\ Len(d) \in Nat /\ j \in 1..Len(d)
  BY <1>1, <1>2, LenProperties
<1>4. d # <<>>
  BY <1>2, <1>3, EmptySeq
<1>5. j = 1 \/ j \in 2..Len(d)
  BY <1>3
<1> QED
  BY <1>1, <1>4, <1>5 DEF InFiles

InputIsSeqs == \A f \in DOMAIN Input(stage) : \E S : Input(stage)[f] \in Seq(S)

LEMMA InputAlwaysSeqs == OutputsType => InputIsSeqs
  BY InputSeqs DEF InputIsSeqs

LEMMA AdvanceLost ==
  ASSUME TypesInv, NothingLost, Advanced, TypesInv'
  PROVE  NothingLost'
<1>1. /\ serving' = 0 /\ active = {} /\ stage \in {"hash", "sort", "merge", "reduce"}
      /\ stage' = Follows[stage] /\ active' = ShardsOf(stage')
      /\ UNCHANGED <<mapped, written, chunks, dropped>>
      /\ Input(stage)' = Output
      /\ \A s \in active' :
           /\ stored'[s].position = 0
           /\ stage' = "sort" => stored'[s].files = <<s>>
           /\ stage' = "merge" =>
                \A i \in DOMAIN chunks[s] : stored'[s].offsets[i] = 0
           /\ stage' = "reduce" => stored'[s].files = Dealt(NumShards, ReduceShards, s)
  BY DEF Advanced
<1>2. Pairs' = Pairs
  BY <1>1 DEF Pairs
<1>3. InputWhole /\ AllSafe
  BY LostParts
<1>4. dropped => stage = "reduce"
  BY <1>1 DEF TypesInv, SlicesType
<1>5. stage = "reduce" => stage' = "over"
  BY <1>1, StageFacts
<1>6. InputWhole'
  <2> SUFFICES ASSUME ~(stage' = "over" /\ dropped), NEW p \in Pairs
               PROVE  Has(Follows[stage], Output, p)
    BY <1>1, <1>2 DEF InputWhole
  <2>1. ~dropped
    BY <1>4, <1>5
  <2>2. Has(stage, Input(stage), p)
    BY <1>1, <1>3 DEF InputWhole
  <2>3. PICK f \in DOMAIN Input(stage) :
          \E x \in ValuesOf(Input(stage)[f]) : p \in ValuesOf(PairsOf(stage, x))
    BY <2>2 DEF Has
  <2>4. PICK i \in DOMAIN Input(stage)[f] : p \in ValuesOf(PairsOf(stage, Input(stage)[f][i]))
    BY <2>3 DEF ValuesOf
  <2>5. PICK j \in DOMAIN PairsOf(stage, Input(stage)[f][i]) :
          p = PairsOf(stage, Input(stage)[f][i])[j]
    BY <2>4 DEF ValuesOf
  <2>6. Item(f, i, j) /\ p = PairAt(f, i, j)
    BY <2>3, <2>4, <2>5 DEF Item, PairAt
  <2>7. Safe(f, i, j)
    BY <2>6, <1>1, <1>3 DEF AllSafe
  <2> QED
    BY <2>1, <2>6, <2>7, <1>1 DEF Safe, Out
<1>7. AllSafe'
  <2> SUFFICES ASSUME stage' # "over", NEW f, NEW i, NEW j, Item(f, i, j)'
               PROVE  \E s \in active' : Left(s, stored[s], f, i, j)'
    BY DEF AllSafe, Safe
  <2>1. /\ f \in DOMAIN Input(stage)' /\ i \in DOMAIN Input(stage)'[f]
        /\ j \in DOMAIN PairsOf(stage', Input(stage)'[f][i])
    BY DEF Item
  <2>2. f \in ShuffleShards
    <3>1. stage \in {"hash", "sort", "merge"}
      BY <1>1, <1>5
    <3> QED
      BY <2>1, <3>1, <1>1, StageFacts DEF TypesInv, OutputsType
  <2>3. i \in Nat \ {0}
    <3>1. PICK S, c : c = Input(stage)'[f] /\ c \in Seq(S)
      <4>1. (OutputsType => InputIsSeqs)'
        BY InputAlwaysSeqs, PTL
      <4> QED
        BY <4>1, <2>1 DEF TypesInv, InputIsSeqs
    <3>2. i \in 1..Len(c) /\ Len(c) \in Nat
      BY <2>1, <3>1, LenProperties
    <3> QED
      BY <3>2
  <2>4. CASE stage' = "sort"
    <3>1. f \in active' /\ stored'[f].files = <<f>> /\ stored'[f].position = 0
      BY <2>2, <2>4, <1>1, ShardsFacts
    <3>2. InFiles(stored'[f], f, i)
      <4>1. <<f>>[1] = f /\ <<f>> # <<>> /\ i > 0
        BY <2>3
      <4> QED
        BY <3>1, <4>1 DEF InFiles
    <3> QED
      BY <3>1, <3>2, <2>4 DEF Left
  <2>5. CASE stage' = "merge"
    <3>1. stage = "sort"
      BY <2>5, <1>1, StageFacts
    <3>2. Input(stage)' = chunks
      BY <3>1, <1>1, StageFacts
    <3>3. i \in DOMAIN chunks[f] /\ j \in DOMAIN chunks[f][i]
      BY <3>2, <2>1, <2>5, PairsFacts
    <3>4. chunks[f][i] \in Seq(PairsFor(f))
      BY <3>3, <2>2, SeqAt DEF TypesInv, OutputsType
    <3>5. j > 0
      BY <3>3, <3>4, LenProperties
    <3>6. f \in active' /\ stored'[f].offsets[i] = 0
      BY <3>3, <2>2, <2>5, <1>1, ShardsFacts
    <3> QED
      BY <3>5, <3>6, <2>5 DEF Left
  <2>6. CASE stage' = "reduce"
    <3>1. PICK s \in 1..ReduceShards : \E k \in DOMAIN Dealt(NumShards, ReduceShards, s) :
            Dealt(NumShards, ReduceShards, s)[k] = f
      <4>1. NumShards \in Nat /\ ReduceShards \in Nat \ {0} /\ f \in 1..NumShards
        BY <2>2, Shards
      <4> QED
        BY <4>1, DealtCovers
    <3>2. PICK k \in DOMAIN Dealt(NumShards, ReduceShards, s) :
            Dealt(NumShards, ReduceShards, s)[k] = f
      BY <3>1
    <3>3. s \in active'
      BY <2>6, <1>1, ShardsFacts
    <3>4. PICK rd : rd = stored'[s]
      OBVIOUS
    <3>5. rd.files = Dealt(NumShards, ReduceShards, s) /\ rd.position = 0
      BY <3>3, <3>4, <2>6, <1>1
    <3>6. NumShards \in Nat /\ ReduceShards \in Nat \ {0}
      BY Shards
    <3>7. InFiles(rd, f, i)
      BY <3>2, <3>5, <3>6, <2>3, DealtLeft
    <3> QED
      BY <3>3, <3>4, <3>7, <2>6 DEF Left
  <2> QED
    BY <2>4, <2>5, <2>6, <1>1, StageFacts
<1>8. AllInHand' /\ NoneRestored'
  BY <1>1 DEF AllInHand, NoneRestored
<1>9. (NothingLost <=> InputWhole /\ AllSafe /\ AllInHand /\ NoneRestored)'
  BY LostParts, PTL
<1> QED
  BY <1>6, <1>7, <1>8, <1>9

LEMMA InitLost ==
  ASSUME ShuffleInit
  PROVE  NothingLost
<1>1. /\ mapped \in MapOutputs /\ stage = "hash" /\ active = ShuffleShards /\ serving = 0
      /\ stored = [s \in ShuffleShards |-> NewReader(Dealt(Len(mapped), NumShards, s), <<>>)]
  BY DEF ShuffleInit
<1>2. Input(stage) = mapped
  BY <1>1, StageFacts
<1>3. mapped \in Seq(Seq(Pairs))
  BY <1>1, MappedType
<1>4. InputWhole
  <2> SUFFICES ASSUME NEW p \in Pairs PROVE Has("hash", mapped, p)
    BY <1>1, <1>2 DEF InputWhole
  <2>1. PICK f \in DOMAIN mapped : \E i \in DOMAIN mapped[f] : p = mapped[f][i]
    BY DEF Pairs
  <2>2. p \in ValuesOf(mapped[f])
    BY <2>1 DEF ValuesOf
  <2>3. p \in ValuesOf(PairsOf("hash", p))
    <3>1. PairsOf("hash", p) = <<p>>
      BY PairsFacts
    <3>2. 1 \in DOMAIN <<p>> /\ <<p>>[1] = p
      OBVIOUS
    <3> QED
      BY <3>1, <3>2 DEF ValuesOf
  <2> QED
    BY <2>2, <2>3 DEF Has
<1>5. AllSafe
  <2> SUFFICES ASSUME NEW f, NEW i, NEW j, Item(f, i, j)
               PROVE  \E s \in active : Left(s, stored[s], f, i, j)
    BY DEF AllSafe, Safe
  <2>1. f \in DOMAIN mapped /\ i \in DOMAIN mapped[f]
    BY <1>2 DEF Item
  <2>2. Len(mapped) \in Nat /\ f \in 1..Len(mapped) /\ i \in Nat \ {0}
    <3>1. Len(mapped) \in Nat /\ f \in 1..Len(mapped) /\ mapped[f] \in Seq(Pairs)
      BY <2>1, <1>3, LenProperties, SeqAt
    <3> QED
      BY <3>1, <2>1, LenProperties
  <2>3. NumShards \in Nat \ {0} /\ ShuffleShards = 1..NumShards
    BY Shards
  <2>4. PICK s \in 1..NumShards : \E k \in DOMAIN Dealt(Len(mapped), NumShards, s) :
          Dealt(Len(mapped), NumShards, s)[k] = f
    BY <2>2, <2>3, DealtCovers
  <2>5. PICK k \in DOMAIN Dealt(Len(mapped), NumShards, s) :
          Dealt(Len(mapped), NumShards, s)[k] = f
    BY <2>4
  <2>6. PICK rd : rd = stored[s]
    OBVIOUS
  <2>7. rd.files = Dealt(Len(mapped), NumShards, s) /\ rd.position = 0
    BY <2>3, <2>6, <1>1 DEF NewReader
  <2>8. InFiles(rd, f, i)
    BY <2>2, <2>3, <2>5, <2>7, DealtLeft
  <2> QED
    BY <2>3, <2>6, <2>8, <1>1 DEF Left
<1> QED
  BY <1>1, <1>4, <1>5, LostParts DEF AllInHand, NoneRestored

LEMMA LostStutter ==
  ASSUME NothingLost, UNCHANGED shuffleVars
  PROVE  NothingLost'
<1>1. /\ Input(stage)' = Input(stage) /\ Pairs' = Pairs
      /\ \A f, i, j : /\ Item(f, i, j)' <=> Item(f, i, j)
                      /\ PairAt(f, i, j)' = PairAt(f, i, j)
      /\ \A p : Out(p)' <=> Out(p)
  BY SamePlaces DEF shuffleVars
<1>2. /\ \A p : InPool(p)' <=> InPool(p)
      /\ \A s, f, i, j : /\ Left(s, stored[s], f, i, j)' <=> Left(s, stored[s], f, i, j)
                         /\ Left(s, reader, f, i, j)' <=> Left(s, reader, f, i, j)
      /\ \A s : Excused(s)' <=> Excused(s)
  BY DEF shuffleVars, InPool, Left, Excused
<1>3. InputWhole /\ AllSafe /\ AllInHand /\ NoneRestored
  BY LostParts
<1>4. InputWhole' /\ NoneRestored'
  BY <1>1, <1>3 DEF shuffleVars, InputWhole, NoneRestored
<1>5. ASSUME NEW f, NEW i, NEW j, Item(f, i, j)
      PROVE  /\ Safe(f, i, j) => Safe(f, i, j)'
             /\ InHand(f, i, j) => InHand(f, i, j)'
             /\ Left(serving, stored[serving], f, i, j)' <=>
                  Left(serving, stored[serving], f, i, j)
  <2>1. PICK p : p = PairAt(f, i, j) /\ PairAt(f, i, j)' = p
    BY <1>1
  <2>2. /\ Out(PairAt(f, i, j))' <=> Out(PairAt(f, i, j))
        /\ InPool(PairAt(f, i, j))' <=> InPool(PairAt(f, i, j))
        /\ Held(reader, PairAt(f, i, j))' <=> Held(reader, PairAt(f, i, j))
    BY <2>1, <1>1, <1>2 DEF shuffleVars, Held
  <2>3. Safe(f, i, j) => Safe(f, i, j)'
    BY <2>2, <1>2 DEF shuffleVars, Safe
  <2>4. serving' = serving
    BY DEF shuffleVars
  <2>5. InHand(f, i, j) => InHand(f, i, j)'
    BY <2>2, <2>4, <1>2 DEF InHand
  <2> QED
    BY <2>3, <2>4, <2>5, <1>2
<1>6. AllSafe'
  BY <1>1, <1>3, <1>5 DEF shuffleVars, AllSafe
<1>7. AllInHand'
  BY <1>1, <1>3, <1>5 DEF shuffleVars, AllInHand
<1>8. (NothingLost <=> InputWhole /\ AllSafe /\ AllInHand /\ NoneRestored)'
  BY LostParts, PTL
<1> QED
  BY <1>4, <1>6, <1>7, <1>8

LEMMA LostNext ==
  ASSUME TypesInv, PartialsInv, NothingLost, [ShuffleNext]_shuffleVars
  PROVE  NothingLost'
<1>0. TypesInv'
  BY TypesNext
<1>1. ASSUME NEW s \in ShuffleShards, BeginSlice(s)
      PROVE  NothingLost'
  BY <1>1, BeginStep, BeginLost
<1>2. CASE HashRecord
  BY <1>2, HashCarries, ReadingLost
<1>3. CASE SortBatch
  BY <1>3, SortCarries, ReadingLost
<1>4. CASE MergeYield
  BY <1>4, YieldCarries, ReadingLost
<1>5. CASE MergeTake
  BY <1>5, TakeCarries, ReadingLost
<1>6. CASE ReduceRecord
  BY <1>6, ReduceCarries, ReadingLost
<1>7. CASE NextFile
  BY <1>7, FileCarries, ReadingLost
<1>8. CASE EndShuffleSlice
  BY <1>8, ContinueStep, EndLost
<1>9. CASE EndShard
  BY <1>9, FinishStep, EndLost
<1>10. CASE EndUnrecorded \/ FailSlice
  BY <1>10, RepeatStep, EndLost
<1>11. CASE NextStage
  BY <1>0, <1>11, AdvanceStep, AdvanceLost
<1>12. CASE UNCHANGED shuffleVars
  BY <1>12, LostStutter
<1> QED
  BY <1>1, <1>2, <1>3, <1>4, <1>5, <1>6, <1>7, <1>8, <1>9, <1>10, <1>11, <1>12 DEF ShuffleNext

-----------------------------------------------------------------------------
(* Without failures nothing is doubled.                                    *)

Made(p) == Has(Follows[stage], Produced, p)

InputDistinct == Distinct(stage, Input(stage))
MadeDistinct == stage # "over" => Distinct(Follows[stage], Produced)
FreshLeft ==
  stage # "over" =>
    \A f, i, j, p : Item(f, i, j) /\ p = PairAt(f, i, j) =>
      \A s \in active : Left(s, ReaderNow(s), f, i, j) => ~Made(p) /\ ~Held(reader, p)
FreshHeld == stage # "over" => \A p \in Pairs : Held(reader, p) => ~Made(p)
HeldOnce ==
  stage # "over" =>
    \A m, n \in DOMAIN reader.values : reader.values[m] = reader.values[n] => m = n

LEMMA DoubledParts ==
  NothingDoubled <=> InputDistinct /\ MadeDistinct /\ FreshLeft /\ FreshHeld /\ HeldOnce
<1>1. ASSUME NothingDoubled
      PROVE  InputDistinct /\ MadeDistinct /\ FreshLeft /\ FreshHeld /\ HeldOnce
  <2>1. InputDistinct /\ MadeDistinct /\ HeldOnce
    BY <1>1 DEF NothingDoubled, InputDistinct, MadeDistinct, HeldOnce
  <2>2. FreshHeld
    BY <1>1 DEF NothingDoubled, FreshHeld, Made
  <2>3. FreshLeft
    BY <1>1 DEF NothingDoubled, FreshLeft, Item, PairAt, Made
  <2> QED
    BY <2>1, <2>2, <2>3
<1>2. ASSUME InputDistinct, MadeDistinct, FreshLeft, FreshHeld, HeldOnce
      PROVE  NothingDoubled
  <2>1. stage # "over" => \A p \in Pairs : Held(reader, p) => ~Has(Follows[stage], Produced, p)
    BY <1>2 DEF FreshHeld, Made
  <2>2. ASSUME stage # "over", NEW f \in DOMAIN Input(stage),
               NEW i \in DOMAIN Input(stage)[f],
               NEW j \in DOMAIN PairsOf(stage, Input(stage)[f][i])
        PROVE  \A s \in active : Left(s, ReaderNow(s), f, i, j) =>
                 /\ ~Has(Follows[stage], Produced, PairsOf(stage, Input(stage)[f][i])[j])
                 /\ ~Held(reader, PairsOf(stage, Input(stage)[f][i])[j])
    <3>1. PICK p : p = PairAt(f, i, j)
      OBVIOUS
    <3>2. Item(f, i, j)
      BY <2>2 DEF Item
    <3>3. \A s \in active : Left(s, ReaderNow(s), f, i, j) => ~Made(p) /\ ~Held(reader, p)
      BY <1>2, <2>2, <3>1, <3>2 DEF FreshLeft
    <3> QED
      BY <3>1, <3>3 DEF PairAt, Made
  <2> QED
    BY <1>2, <2>1, <2>2 DEF NothingDoubled, InputDistinct, MadeDistinct, HeldOnce
<1> QED
  BY <1>1, <1>2

(* A pair is at one place of the input. *)
LEMMA OnePlace ==
  ASSUME InputDistinct, NEW f, NEW i, NEW j, NEW g, NEW k, NEW l,
         Item(f, i, j), Item(g, k, l), PairAt(f, i, j) = PairAt(g, k, l)
  PROVE  f = g /\ i = k /\ j = l
  BY DEF InputDistinct, Distinct, Item, PairAt

(* What comes next of the output. *)
LEMMA MadeAlone ==
  ASSUME Reading, chunks' = chunks, pool' = pool
  PROVE  Produced' = Produced /\ (\A p : Made(p)' <=> Made(p))
<1>1. stage' = stage /\ written' = written
  BY DEF Reading
<1>2. Produced' = Produced
  BY <1>1 DEF Produced
<1> QED
  BY <1>1, <1>2 DEF Made

LEMMA MadeMore ==
  ASSUME TypesInv, Reading, stage \in WritingStages, NEW g, NEW x,
         IsAdded(AllItems(stage), pool, g, x, pool')
  PROVE  /\ IsAdded(AllItems(stage), Produced, g, x, Produced')
         /\ \A p : Made(p)' <=> Made(p) \/ p \in ValuesOf(PairsOf(Follows[stage], x))
<1>1. stage' = stage /\ written' = written /\ stage # "sort"
  BY StageFacts DEF Reading
<1>2. PICK S, w : S = AllItems(stage) /\ w = written[stage]
  OBVIOUS
<1>3. /\ Produced = [f \in ShuffleShards |-> w[f] \o pool[f]]
      /\ Produced' = [f \in ShuffleShards |-> w[f] \o pool'[f]]
  BY <1>1, <1>2 DEF Produced
<1>4. IsFiles(S, w) /\ IsFiles(S, pool)
  BY <1>2, WrittenFiles DEF TypesInv
<1>5. g \in ShuffleShards /\ x \in S /\ pool'[g] = Append(pool[g], x)
      /\ \A f \in ShuffleShards \ {g} : pool'[f] = pool[f]
  BY <1>2, <1>4 DEF IsAdded, IsFiles
<1>6. \A f \in ShuffleShards : w[f] \in Seq(S) /\ pool[f] \in Seq(S)
  BY <1>4 DEF IsFiles
<1>7. \A f \in ShuffleShards : w[f] \o pool[f] \in Seq(S)
  BY <1>6, ConcatProperties
<1>8. w[g] \o pool'[g] = Append(w[g] \o pool[g], x)
  <2>1. PICK a, b : a = w[g] /\ b = pool[g]
    OBVIOUS
  <2>2. a \in Seq(S) /\ b \in Seq(S)
    BY <2>1, <1>5, <1>6
  <2>3. a \o Append(b, x) = Append(a \o b, x)
    BY <2>2, <1>5
  <2> QED
    BY <2>1, <2>3, <1>5
<1>9. IsFiles(S, Produced)
  BY <1>3, <1>7 DEF IsFiles
<1>10. Produced' = [Produced EXCEPT ![g] = Append(@, x)]
  BY <1>3, <1>5, <1>8
<1>11. IsAdded(S, Produced, g, x, Produced')
  BY <1>5, <1>9, <1>10 DEF IsAdded
<1>12. PICK st, a, b : st = Follows[stage] /\ a = Produced /\ b = Produced'
  OBVIOUS
<1>13. \A p : Has(st, b, p) <=> Has(st, a, p) \/ p \in ValuesOf(PairsOf(st, x))
  BY <1>11, <1>12, HasAdded
<1> QED
  BY <1>1, <1>2, <1>11, <1>12, <1>13 DEF Made

(* What a step that reads does to the files of readers: none, or the first *)
(* is done with.                                                           *)
Shortened ==
  \E d \in {0, 1} : \A n \in DOMAIN reader'.files :
    n + d \in DOMAIN reader.files /\ reader'.files[n] = reader.files[n + d]

LEMMA KeptFiles ==
  ASSUME reader \in Readers, reader'.files = reader.files
  PROVE  Shortened
<1>1. \A m \in DOMAIN reader.files : m \in Nat /\ m + 0 = m
  <2>1. reader.files \in Seq(Nat)
    BY DEF Readers
  <2> QED
    BY <2>1, LenProperties
<1> QED
  BY <1>1 DEF Shortened

LEMMA ReadingApart ==
  ASSUME TypesInv, FilesApart, Reading, Shortened, TypesInv'
  PROVE  FilesApart'
<1>1. /\ active' = active /\ stored' = stored /\ serving' = serving /\ serving # 0
  BY DEF Reading
<1>2. PICK d \in {0, 1} : \A n \in DOMAIN reader'.files :
        n + d \in DOMAIN reader.files /\ reader'.files[n] = reader.files[n + d]
  BY DEF Shortened
<1>3. \A s : ReaderNow(s)' = IF s = serving THEN reader' ELSE stored[s]
  BY <1>1 DEF ReaderNow
<1>4. ASSUME NEW s \in active, NEW m \in DOMAIN ReaderNow(s)'.files
      PROVE  \E e \in {0, 1} : /\ m + e \in DOMAIN ReaderNow(s).files
                               /\ ReaderNow(s)'.files[m] = ReaderNow(s).files[m + e]
                               /\ s = serving => e = d
                               /\ s # serving => e = 0
  <2>1. CASE s = serving
    BY <2>1, <1>2, <1>3, <1>4 DEF ReaderNow
  <2>2. CASE s # serving
    <3>1. ReaderNow(s)' = stored[s] /\ ReaderNow(s) = stored[s]
      BY <2>2, <1>3 DEF ReaderNow
    <3>2. stored[s] \in Readers
      BY StoredPoints
    <3>3. stored[s].files \in Seq(Nat)
      BY <3>2 DEF Readers
    <3>4. m \in Nat /\ m \in DOMAIN stored[s].files
      BY <3>1, <3>3, <1>4, LenProperties
    <3>5. m + 0 = m
      BY <3>4
    <3> QED
      BY <3>1, <3>4, <3>5, <2>2
  <2> QED
    BY <2>1, <2>2
<1>5. ASSUME NEW s \in active, NEW m \in DOMAIN ReaderNow(s)'.files PROVE m \in Nat
  <2>1. ReaderNow(s)' \in Readers
    BY <1>3, StoredPoints DEF TypesInv, SlicesType
  <2>2. ReaderNow(s)'.files \in Seq(Nat)
    BY <2>1 DEF Readers
  <2> QED
    BY <2>2, <1>5, LenProperties
<1>6. ASSUME NEW s \in active, NEW t \in active,
             NEW m \in DOMAIN ReaderNow(s)'.files, NEW n \in DOMAIN ReaderNow(t)'.files,
             ReaderNow(s)'.files[m] = ReaderNow(t)'.files[n]
      PROVE  s = t /\ m = n
  <2>1. PICK e \in {0, 1} : /\ m + e \in DOMAIN ReaderNow(s).files
                            /\ ReaderNow(s)'.files[m] = ReaderNow(s).files[m + e]
                            /\ s = serving => e = d
                            /\ s # serving => e = 0
    BY <1>4
  <2>2. PICK h \in {0, 1} : /\ n + h \in DOMAIN ReaderNow(t).files
                            /\ ReaderNow(t)'.files[n] = ReaderNow(t).files[n + h]
                            /\ t = serving => h = d
                            /\ t # serving => h = 0
    BY <1>4
  <2>3. s = t /\ m + e = n + h
    <3>1. \A a \in DOMAIN ReaderNow(s).files, b \in DOMAIN ReaderNow(t).files :
            ReaderNow(s).files[a] = ReaderNow(t).files[b] => s = t /\ a = b
      BY DEF FilesApart
    <3>2. PICK a, b : a = m + e /\ b = n + h
      OBVIOUS
    <3>3. /\ a \in DOMAIN ReaderNow(s).files /\ b \in DOMAIN ReaderNow(t).files
          /\ ReaderNow(s).files[a] = ReaderNow(t).files[b]
      BY <2>1, <2>2, <3>2, <1>6
    <3> QED
      BY <3>1, <3>2, <3>3
  <2>4. e = h
    BY <2>1, <2>2, <2>3
  <2>5. m \in Nat /\ n \in Nat
    BY <1>5
  <2> QED
    BY <2>3, <2>4, <2>5
<1> QED
  BY <1>1, <1>6 DEF FilesApart

(* The item a reader is at is taken once: no reader is to read it again. *)
LEMMA LaterInFile ==
  ASSUME TypesInv, FilesApart, Reading, ReadsFiles, reader.files # <<>>,
         NEW n, reader'.files = reader.files, reader'.position = n, NEW s \in active,
         NEW i, InFiles(ReaderNow(s)', reader.files[1], i)
  PROVE  i > n
<1>1. /\ serving' = serving /\ serving # 0 /\ stored' = stored
  BY DEF Reading
<1>2. serving \in active /\ ReaderNow(serving) = reader /\ reader \in Readers
  BY <1>1, ServedPoints DEF TypesInv
<1>3. reader.files \in Seq(Nat) /\ reader.position \in Nat
  BY <1>2 DEF Readers
<1>4. 1 \in DOMAIN reader.files
  BY <1>3, TailFacts
<1>5. CASE s = serving
  <2>1. ReaderNow(s)' = reader'
    BY <1>1, <1>5 DEF ReaderNow
  <2>2. ASSUME NEW m \in 2..Len(reader.files), reader.files[1] = reader.files[m] PROVE FALSE
    <3>1. m \in DOMAIN reader.files /\ m # 1
      BY <1>3, <2>2, LenProperties
    <3> QED
      BY <1>2, <1>4, <2>2, <3>1 DEF FilesApart
  <2> QED
    BY <2>1, <2>2 DEF InFiles
<1>6. CASE s # serving
  <2>1. ReaderNow(s)' = ReaderNow(s)
    BY <1>1, <1>6 DEF ReaderNow
  <2>2. ReaderNow(s) \in Readers
    BY <1>6, StoredPoints DEF ReaderNow
  <2>3. ReaderNow(s).files \in Seq(Nat)
    BY <2>2 DEF Readers
  <2>4. PICK m \in DOMAIN ReaderNow(s).files : reader.files[1] = ReaderNow(s).files[m]
    <3>1. ReaderNow(s).files # <<>>
      BY <2>1 DEF InFiles
    <3>2. DOMAIN ReaderNow(s).files = 1..Len(ReaderNow(s).files) /\ Len(ReaderNow(s).files) \in Nat
          /\ 1 \in DOMAIN ReaderNow(s).files
      BY <2>3, <3>1, TailFacts
    <3>3. CASE reader.files[1] = ReaderNow(s).files[1]
      BY <3>2, <3>3
    <3>4. CASE \E k \in 2..Len(ReaderNow(s).files) : reader.files[1] = ReaderNow(s).files[k]
      BY <3>2, <3>4
    <3> QED
      BY <2>1, <3>3, <3>4 DEF InFiles
  <2> QED
    BY <2>4, <1>2, <1>4, <1>6 DEF FilesApart
<1> QED
  BY <1>5, <1>6

LEMMA TakenOnce ==
  ASSUME TypesInv, FilesApart, Reading, ReadsFiles, reader.files # <<>>,
         NEW n, n = reader.position + 1,
         reader'.files = reader.files, reader'.position = n, NEW s \in active
  PROVE  ~InFiles(ReaderNow(s)', reader.files[1], n)
<1>1. reader.position \in Nat
  BY ServedPoints DEF TypesInv, Reading, Readers
<1>2. ~(n > n)
  BY <1>1
<1> QED
  BY <1>2, LaterInFile

(* A reader has no more to read after a step than before. *)
LEMMA LeftBefore ==
  ASSUME Reading, NEW f, NEW i, NEW j, NEW s \in active, Left(s, ReaderNow(s), f, i, j)',
         Left(serving, reader', f, i, j) => Left(serving, reader, f, i, j)
  PROVE  Left(s, ReaderNow(s), f, i, j) /\ (s # serving => ReaderNow(s)' = ReaderNow(s))
<1>1. /\ serving' = serving /\ stored' = stored /\ stage' = stage
  BY DEF Reading
<1>2. CASE s = serving
  <2>1. ReaderNow(s)' = reader' /\ ReaderNow(s) = reader
    BY <1>1, <1>2 DEF ReaderNow
  <2>2. Left(serving, reader', f, i, j)
    BY <2>1, <1>1, <1>2 DEF Left
  <2> QED
    BY <2>1, <2>2, <1>2
<1>3. CASE s # serving
  <2>1. ReaderNow(s)' = ReaderNow(s)
    BY <1>1, <1>3 DEF ReaderNow
  <2> QED
    BY <2>1, <1>1 DEF Left
<1> QED
  BY <1>2, <1>3

(* A reader goes forward. *)
LEMMA LaterInFiles ==
  ASSUME NEW rd, NEW rd2, rd2.files = rd.files, rd.position \in Nat,
         rd2.position = rd.position + 1, NEW f, NEW i, i \in Nat, InFiles(rd2, f, i)
  PROVE  InFiles(rd, f, i)
<1>1. i > rd2.position => i > rd.position
  OBVIOUS
<1> QED
  BY <1>1 DEF InFiles

StaysFresh ==
  /\ \A f, i, j, p : Item(f, i, j) /\ p = PairAt(f, i, j) =>
       \A s \in active : Left(s, ReaderNow(s), f, i, j)' => ~Made(p)' /\ ~Held(reader', p)
  /\ \A p \in Pairs : Held(reader', p) => ~Made(p)'

LEMMA ReadingDoubled ==
  ASSUME Reading, InputDistinct, MadeDistinct', StaysFresh, HeldOnce'
  PROVE  NothingDoubled'
<1>1. stage' = stage /\ active' = active
  BY DEF Reading
<1>2. /\ Input(stage)' = Input(stage) /\ Pairs' = Pairs
  BY ReadingKeepsInput
<1>3. \A f, i, j : /\ Item(f, i, j)' <=> Item(f, i, j)
                   /\ PairAt(f, i, j)' = PairAt(f, i, j)
  BY <1>1, <1>2 DEF Item, PairAt
<1>4. \A p : Held(reader, p)' <=> Held(reader', p)
  BY DEF Held
<1>5. FreshLeft'
  <2> SUFFICES ASSUME NEW f, NEW i, NEW j, NEW p, Item(f, i, j)', p = PairAt(f, i, j)',
                      NEW s \in active, Left(s, ReaderNow(s), f, i, j)'
               PROVE  ~Made(p)' /\ ~Held(reader, p)'
    BY <1>1 DEF FreshLeft
  <2>1. Item(f, i, j) /\ p = PairAt(f, i, j)
    BY <1>3
  <2> QED
    BY <2>1, <1>4 DEF StaysFresh
<1>6. FreshHeld'
  BY <1>2, <1>4 DEF FreshHeld, StaysFresh
<1>7. InputDistinct'
  BY <1>1, <1>2 DEF InputDistinct
<1>8. (NothingDoubled <=> InputDistinct /\ MadeDistinct /\ FreshLeft /\ FreshHeld /\ HeldOnce)'
  BY DoubledParts, PTL
<1> QED
  BY <1>5, <1>6, <1>7, <1>8

LEMMA HashDoubled ==
  ASSUME TypesInv, FilesApart, NothingDoubled, HashRecord
  PROVE  FilesApart' /\ NothingDoubled'
<1>1. PICK f, n, p : f = reader.files[1] /\ n = reader.position + 1 /\ p = mapped[f][n]
  OBVIOUS
<1>2. /\ stage = "hash" /\ Reading /\ TypesInv'
      /\ reader.files # <<>> /\ f \in DOMAIN mapped /\ n \in DOMAIN mapped[f]
      /\ p \in Pairs /\ reader.position \in Nat
      /\ IsAdded(AllItems(stage), pool, Hash(p[1]), p, pool')
      /\ reader' = [reader EXCEPT !.position = n, !.some = TRUE]
  BY <1>1, HashStep
<1>3. serving # 0 /\ reader \in Readers /\ serving \in active /\ ReaderNow(serving) = reader
  BY <1>2, ServedPoints DEF Reading, TypesInv
<1>4. /\ reader'.files = reader.files /\ reader'.position = n
      /\ reader'.key = reader.key /\ reader'.values = reader.values
  BY <1>2, <1>3 DEF Readers
<1>5. InputDistinct /\ MadeDistinct /\ FreshLeft /\ FreshHeld /\ HeldOnce
  BY DoubledParts
<1>6. Item(f, n, 1) /\ PairAt(f, n, 1) = p
  <2>1. PairsOf("hash", p) = <<p>> /\ Input(stage) = mapped
    BY <1>2, StageFacts, PairsFacts
  <2>2. 1 \in DOMAIN <<p>> /\ <<p>>[1] = p
    OBVIOUS
  <2> QED
    BY <2>1, <2>2, <1>1, <1>2 DEF Item, PairAt
<1>7. ~Made(p)
  <2>1. Left(serving, ReaderNow(serving), f, n, 1)
    BY <1>1, <1>2, <1>3 DEF Left, InFiles
  <2> QED
    BY <2>1, <1>2, <1>3, <1>5, <1>6 DEF FreshLeft
<1>8. /\ IsAdded(AllItems(stage), Produced, Hash(p[1]), p, Produced')
      /\ \A q : Made(q)' <=> Made(q) \/ q = p
  <2>1. /\ IsAdded(AllItems(stage), Produced, Hash(p[1]), p, Produced')
        /\ \A q : Made(q)' <=> Made(q) \/ q \in ValuesOf(PairsOf("sort", p))
    BY <1>2, MadeMore, StageFacts
  <2>2. ValuesOf(PairsOf("sort", p)) = {p}
    <3>1. PairsOf("sort", p) = <<p>>
      BY PairsFacts
    <3>2. DOMAIN <<p>> = {1} /\ <<p>>[1] = p
      OBVIOUS
    <3> QED
      BY <3>1, <3>2 DEF ValuesOf
  <2> QED
    BY <2>1, <2>2
<1>9. MadeDistinct'
  <2>1. PairsOf("sort", p) = <<p>>
    BY PairsFacts
  <2>2. Differ(PairsOf("sort", p))
    BY <2>1 DEF Differ
  <2>3. ValuesOf(PairsOf("sort", p)) = {p}
    BY <2>1 DEF ValuesOf
  <2>4. Distinct("sort", Produced) /\ ~Has("sort", Produced, p)
    BY <1>2, <1>5, <1>7, StageFacts DEF MadeDistinct, Made
  <2>5. PICK b : b = Produced'
    OBVIOUS
  <2>6. Distinct("sort", b)
    BY <2>2, <2>3, <2>4, <2>5, <1>8, DistinctAdded
  <2> QED
    BY <2>5, <2>6, <1>2, StageFacts DEF MadeDistinct, Reading
<1>10. ASSUME NEW q \in Pairs PROVE ~Held(reader, q) /\ ~Held(reader', q)
  <2>1. ~Held(reader, q)
    BY <1>2, <1>3, NotHeld
  <2> QED
    BY <2>1, <1>4 DEF Held
<1>11. StaysFresh
  <2> SUFFICES ASSUME NEW g, NEW i, NEW j, NEW q, Item(g, i, j), q = PairAt(g, i, j),
                      NEW s \in active, Left(s, ReaderNow(s), g, i, j)'
               PROVE  ~Made(q)' /\ ~Held(reader', q)
    BY <1>10 DEF StaysFresh
  <2>1. Left(serving, reader', g, i, j) => Left(serving, reader, g, i, j)
    <3>1. i \in Nat
      <4>1. mapped[g] \in Seq(Pairs) /\ i \in DOMAIN mapped[g]
        <5>1. g \in DOMAIN mapped /\ i \in DOMAIN mapped[g]
          BY <1>2, StageFacts DEF Item
        <5> QED
          BY <5>1, MappedType DEF TypesInv, OutputsType
      <4> QED
        BY <4>1, LenProperties
    <3> QED
      BY <3>1, <1>1, <1>2, <1>4, LaterInFiles DEF Left
  <2>2. Left(s, ReaderNow(s), g, i, j)
    BY <2>1, <1>2, LeftBefore
  <2>3. ~Made(q)
    BY <2>2, <1>2, <1>5 DEF FreshLeft
  <2>4. q # p
    <3> SUFFICES ASSUME q = p PROVE FALSE
      OBVIOUS
    <3>1. g = f /\ i = n
      BY <1>5, <1>6, OnePlace
    <3>2. ~InFiles(ReaderNow(s)', f, n)
      BY <1>1, <1>2, <1>4, TakenOnce DEF ReadsFiles
    <3>3. InFiles(ReaderNow(s)', f, n)
      BY <3>1, <1>2 DEF Left, Reading
    <3> QED
      BY <3>2, <3>3
  <2>5. q \in Pairs
    BY PairAtIsPair
  <2> QED
    BY <2>3, <2>4, <2>5, <1>8, <1>10
<1>12. HeldOnce'
  BY <1>2, <1>4, <1>5 DEF HeldOnce, Reading
<1> QED
  BY <1>2, <1>3, <1>4, <1>5, <1>9, <1>11, <1>12, KeptFiles, ReadingApart, ReadingDoubled

LEMMA SortDoubled ==
  ASSUME TypesInv, FilesApart, NothingDoubled, SortBatch, failures' = 0
  PROVE  FilesApart' /\ NothingDoubled'
<1>0. PICK n, new : SortMade(n, new)
  BY SortStep
<1>1. PICK m, c : m = reader.position /\ c = written["hash"][serving]
  OBVIOUS
<1>2. /\ stage = "sort" /\ Reading /\ pool' = pool /\ reader.files = <<serving>>
      /\ c \in Seq(PairsFor(serving)) /\ m \in Nat /\ n \in Nat \ {0} /\ m + n <= Len(c)
      /\ IsAdded(Seq(Pairs), chunks, serving, new, chunks')
      /\ reader'.files \in {<<>>, <<serving>>} /\ reader'.key = NoKey /\ reader'.values = <<>>
      /\ \A i \in DOMAIN c : InFiles(reader', serving, i) <=> i > m + n
      /\ SortedFrom(new, c, m, n)
  BY <1>0, <1>1 DEF SortMade
<1>3. /\ serving # 0 /\ reader \in Readers /\ serving \in active /\ ReaderNow(serving) = reader
      /\ stage' = stage /\ active \subseteq ShuffleShards
  BY <1>2, ServedPoints DEF Reading, TypesInv
<1>4. InputDistinct /\ MadeDistinct /\ FreshLeft
  BY DoubledParts
<1>5. PICK p \in [1..n -> 1..n] : /\ \A i, j \in 1..n : p[i] = p[j] => i = j
                                  /\ \A i \in 1..n : new[i] = c[m + p[i]]
  BY <1>2 DEF SortedFrom
<1>6. DOMAIN new = 1..n
  BY <1>2 DEF SortedFrom
<1>7. Input(stage) = written["hash"] /\ serving \in DOMAIN Input(stage)
  BY <1>2, <1>3, StageFacts DEF TypesInv, OutputsType
<1>8. ASSUME NEW k \in 1..n
      PROVE  /\ m + k \in DOMAIN c /\ m + k \in Nat
             /\ Item(serving, m + k, 1) /\ PairAt(serving, m + k, 1) = c[m + k]
             /\ Left(serving, ReaderNow(serving), serving, m + k, 1)
  <2>1. m + k \in 1..Len(c) /\ m + k > m /\ m + k \in Nat
    BY <1>2, LenProperties
  <2>2. m + k \in DOMAIN c
    BY <2>1, <1>2, LenProperties
  <2>3. PairsOf("sort", c[m + k]) = <<c[m + k]>>
    BY PairsFacts
  <2>4. 1 \in DOMAIN <<c[m + k]>> /\ <<c[m + k]>>[1] = c[m + k]
    OBVIOUS
  <2>5. Item(serving, m + k, 1) /\ PairAt(serving, m + k, 1) = c[m + k]
    BY <2>2, <2>3, <2>4, <1>1, <1>2, <1>7 DEF Item, PairAt
  <2>6. <<serving>>[1] = serving /\ <<serving>> # <<>>
    OBVIOUS
  <2>7. InFiles(reader, serving, m + k)
    BY <2>1, <2>6, <1>1, <1>2 DEF InFiles
  <2> QED
    BY <2>1, <2>2, <2>5, <2>7, <1>2, <1>3 DEF Left
<1>9. ASSUME NEW k \in 1..n, NEW l \in 1..n, c[m + k] = c[m + l]
      PROVE  k = l
  <2>1. m + k = m + l
    BY <1>4, <1>8, <1>9, OnePlace
  <2> QED
    BY <2>1, <1>2
<1>10. ASSUME NEW q \in ValuesOf(new)
       PROVE  \E k \in 1..n : q = c[m + k]
  <2>1. PICK i \in 1..n : q = new[i]
    BY <1>6 DEF ValuesOf
  <2> QED
    BY <2>1, <1>5
<1>11. \A q \in ValuesOf(new) : ~Made(q)
  <2> SUFFICES ASSUME NEW q \in ValuesOf(new) PROVE ~Made(q)
    OBVIOUS
  <2>1. PICK k \in 1..n : q = c[m + k]
    BY <1>10
  <2>2. Item(serving, m + k, 1) /\ q = PairAt(serving, m + k, 1)
        /\ Left(serving, ReaderNow(serving), serving, m + k, 1)
    BY <2>1, <1>8
  <2> QED
    BY <2>2, <1>2, <1>3, <1>4 DEF FreshLeft
<1>12. Produced = chunks /\ Produced' = chunks' /\ Follows[stage] = "merge"
  BY <1>2, <1>3, StageFacts DEF Produced
<1>13. PICK b : b = chunks'
  OBVIOUS
<1>14. PairsOf("merge", new) = new
  BY PairsFacts
<1>15. \A q : Made(q)' <=> Made(q) \/ q \in ValuesOf(new)
  <2>1. \A q : Has("merge", b, q) <=> Has("merge", chunks, q) \/ q \in ValuesOf(PairsOf("merge", new))
    BY <1>2, <1>13, HasAdded
  <2> QED
    BY <2>1, <1>3, <1>12, <1>13, <1>14 DEF Made
<1>16. MadeDistinct'
  <2>1. Differ(new)
    <3> SUFFICES ASSUME NEW i \in 1..n, NEW j \in 1..n, new[i] = new[j] PROVE i = j
      BY <1>6 DEF Differ
    <3>1. p[i] \in 1..n /\ p[j] \in 1..n /\ c[m + p[i]] = c[m + p[j]]
      BY <1>5
    <3>2. p[i] = p[j]
      BY <3>1, <1>9
    <3> QED
      BY <3>2, <1>5
  <2>2. Distinct("merge", chunks) /\ \A q \in ValuesOf(new) : ~Has("merge", chunks, q)
    BY <1>2, <1>4, <1>11, <1>12 DEF MadeDistinct, Made
  <2>3. Distinct("merge", b)
    BY <2>1, <2>2, <1>2, <1>13, <1>14, DistinctAdded
  <2> QED
    BY <2>3, <1>3, <1>12, <1>13 DEF MadeDistinct
<1>17. ASSUME NEW q \in Pairs PROVE ~Held(reader', q)
  <2>1. q[1] # NoKey
    BY PairNumbers DEF TypesInv
  <2> QED
    BY <2>1, <1>2 DEF Held
<1>18. StaysFresh
  <2> SUFFICES ASSUME NEW g, NEW i, NEW j, NEW q, Item(g, i, j), q = PairAt(g, i, j),
                      NEW s \in active, Left(s, ReaderNow(s), g, i, j)'
               PROVE  ~Made(q)' /\ ~Held(reader', q)
    BY <1>17 DEF StaysFresh
  <2>1. i \in DOMAIN Input(stage)[g] /\ g \in ShuffleShards
    BY <1>7 DEF Item, TypesInv, OutputsType, WritingStages
  <2>2. InFiles(ReaderNow(s)', g, i)
    BY <1>2, <1>3 DEF Left
  <2>3. s = g
    <3>1. Points(s, ReaderNow(s))'
      BY <1>2, <1>3, SortStep DEF Reading, TypesInv, ReadersPoint
    <3>2. ReaderNow(s)'.files \in {<<>>, <<s>>}
      BY <3>1, <1>2, <1>3 DEF Points
    <3>3. ReaderNow(s)'.files = <<s>>
      BY <3>2, <2>2 DEF InFiles
    <3>4. <<s>>[1] = s /\ Len(<<s>>) = 1 /\ 2..1 = {}
      OBVIOUS
    <3> QED
      BY <3>3, <3>4, <2>2 DEF InFiles
  <2>4. Left(serving, reader', g, i, j) => Left(serving, reader, g, i, j) /\ ~(q \in ValuesOf(new))
    <3> SUFFICES ASSUME Left(serving, reader', g, i, j)
                 PROVE  Left(serving, reader, g, i, j) /\ ~(q \in ValuesOf(new))
      OBVIOUS
    <3>1. InFiles(reader', g, i) /\ reader'.files = <<serving>>
      BY <1>2 DEF Left, InFiles
    <3>2. g = serving
      <4>1. <<serving>>[1] = serving /\ Len(<<serving>>) = 1 /\ 2..1 = {}
        OBVIOUS
      <4> QED
        BY <4>1, <3>1 DEF InFiles
    <3>3. i \in DOMAIN c
      BY <3>2, <2>1, <1>1, <1>7
    <3>4. i \in Nat /\ i > m + n
      BY <3>1, <3>2, <3>3, <1>2, LenProperties
    <3>5. i > m
      BY <3>4, <1>2
    <3>6. <<serving>>[1] = serving /\ <<serving>> # <<>>
      OBVIOUS
    <3>7. Left(serving, reader, g, i, j)
      BY <3>2, <3>5, <3>6, <1>1, <1>2 DEF Left, InFiles
    <3>8. ASSUME q \in ValuesOf(new) PROVE FALSE
      <4>1. PICK k \in 1..n : q = c[m + k]
        BY <3>8, <1>10
      <4>2. i = m + k
        BY <4>1, <1>4, <1>8, OnePlace
      <4> QED
        BY <4>2, <3>4, <1>2
    <3> QED
      BY <3>7, <3>8
  <2>5. Left(s, ReaderNow(s), g, i, j) /\ (s # serving => ReaderNow(s)' = ReaderNow(s))
    BY <2>4, <1>2, LeftBefore
  <2>6. ~Made(q)
    BY <2>5, <1>2, <1>4 DEF FreshLeft
  <2>7. ~(q \in ValuesOf(new))
    <3>1. CASE s = serving
      <4>1. Left(serving, reader', g, i, j)
        BY <3>1, <1>2, <1>3 DEF Left, Reading, ReaderNow
      <4> QED
        BY <4>1, <2>4
    <3>2. CASE s # serving
      <4> SUFFICES ASSUME q \in ValuesOf(new) PROVE FALSE
        OBVIOUS
      <4>1. PICK k \in 1..n : q = c[m + k]
        BY <1>10
      <4>2. g = serving
        BY <4>1, <1>4, <1>8, OnePlace
      <4> QED
        BY <4>2, <2>3, <3>2
    <3> QED
      BY <3>1, <3>2
  <2>8. q \in Pairs
    BY PairAtIsPair
  <2> QED
    BY <2>6, <2>7, <2>8, <1>15, <1>17
<1>19. HeldOnce'
  BY <1>2 DEF HeldOnce
<1>20. Shortened
  <2>1. CASE reader'.files = <<>>
    BY <2>1 DEF Shortened
  <2>2. CASE reader'.files = <<serving>>
    BY <2>2, <1>2, <1>3, KeptFiles
  <2> QED
    BY <2>1, <2>2, <1>2
<1> QED
  BY <1>2, <1>4, <1>16, <1>18, <1>19, <1>20, SortStep, ReadingApart, ReadingDoubled

LEMMA YieldDoubled ==
  ASSUME TypesInv, FilesApart, NothingDoubled, MergeYield
  PROVE  FilesApart' /\ NothingDoubled'
<1>0. PICK x : MergeYielded(x)
  BY YieldStep
<1>1. /\ stage = "merge" /\ Reading /\ chunks' = chunks /\ reader.key # NoKey
      /\ x = [key |-> reader.key, values |-> reader.values, partial |-> MoreOfKey]
      /\ x \in Merged(serving) /\ IsAdded(AllItems(stage), pool, serving, x, pool')
      /\ reader' = [reader EXCEPT !.key = NoKey, !.values = <<>>, !.some = TRUE]
  BY <1>0 DEF MergeYielded
<1>2. /\ serving # 0 /\ reader \in Readers /\ stage' = stage
  BY <1>1, ServedPoints DEF Reading, TypesInv
<1>3. /\ reader'.files = reader.files /\ reader'.offsets = reader.offsets
      /\ reader'.key = NoKey /\ reader'.values = <<>>
  BY <1>1, <1>2 DEF Readers
<1>4. InputDistinct /\ MadeDistinct /\ FreshLeft /\ FreshHeld /\ HeldOnce
  BY DoubledParts
<1>5. PairsOf("reduce", x) = [j \in DOMAIN reader.values |-> <<reader.key, reader.values[j]>>]
  <2>1. x.key = reader.key /\ x.values = reader.values
    BY <1>1
  <2>2. PairsOf("reduce", x) = [j \in DOMAIN x.values |-> <<x.key, x.values[j]>>]
    BY PairsFacts
  <2> QED
    BY <2>1, <2>2
<1>6. ASSUME NEW q \in ValuesOf(PairsOf("reduce", x))
      PROVE  q \in Pairs /\ Held(reader, q)
  <2>1. PICK j \in DOMAIN reader.values : q = <<reader.key, reader.values[j]>>
    BY <1>5 DEF ValuesOf
  <2>2. Held(reader, q)
    BY <2>1 DEF Held, ValuesOf
  <2>3. q \in Pairs
    BY <2>1, <1>2, ServedPoints DEF TypesInv, Points, ValuesOf
  <2> QED
    BY <2>2, <2>3
<1>7. /\ IsAdded(AllItems(stage), Produced, serving, x, Produced')
      /\ \A q : Made(q)' <=> Made(q) \/ q \in ValuesOf(PairsOf("reduce", x))
  <2>1. stage \in WritingStages /\ Follows[stage] = "reduce"
    BY <1>1, StageFacts
  <2> QED
    BY <2>1, <1>1, MadeMore
<1>8. MadeDistinct'
  <2>1. Differ(PairsOf("reduce", x))
    <3> SUFFICES ASSUME NEW j \in DOMAIN reader.values, NEW l \in DOMAIN reader.values,
                        <<reader.key, reader.values[j]>> = <<reader.key, reader.values[l]>>
                 PROVE  j = l
      BY <1>5 DEF Differ
    <3>1. reader.values[j] = reader.values[l]
      OBVIOUS
    <3> QED
      BY <3>1, <1>1, <1>4 DEF HeldOnce
  <2>2. Distinct("reduce", Produced)
    BY <1>1, <1>4, StageFacts DEF MadeDistinct
  <2>3. \A q \in ValuesOf(PairsOf("reduce", x)) : ~Has("reduce", Produced, q)
    BY <1>1, <1>4, <1>6, StageFacts DEF FreshHeld, Made
  <2>4. PICK b : b = Produced'
    OBVIOUS
  <2>5. Distinct("reduce", b)
    BY <2>1, <2>2, <2>3, <2>4, <1>7, DistinctAdded
  <2> QED
    BY <2>4, <2>5, <1>1, <1>2, StageFacts DEF MadeDistinct
<1>9. ASSUME NEW q \in Pairs PROVE ~Held(reader', q)
  <2>1. q[1] # NoKey
    BY PairNumbers DEF TypesInv
  <2> QED
    BY <2>1, <1>3 DEF Held
<1>10. StaysFresh
  <2> SUFFICES ASSUME NEW g, NEW i, NEW j, NEW q, Item(g, i, j), q = PairAt(g, i, j),
                      NEW s \in active, Left(s, ReaderNow(s), g, i, j)'
               PROVE  ~Made(q)' /\ ~Held(reader', q)
    BY <1>9 DEF StaysFresh
  <2>1. Left(serving, reader', g, i, j) => Left(serving, reader, g, i, j)
    BY <1>1, <1>3 DEF Left
  <2>2. Left(s, ReaderNow(s), g, i, j)
    BY <2>1, <1>1, LeftBefore
  <2>3. ~Made(q) /\ ~Held(reader, q)
    BY <2>2, <1>1, <1>4 DEF FreshLeft
  <2>4. q \in Pairs
    BY PairAtIsPair
  <2> QED
    BY <2>3, <2>4, <1>6, <1>7, <1>9
<1>11. HeldOnce'
  BY <1>3 DEF HeldOnce
<1> QED
  BY <1>1, <1>2, <1>3, <1>4, <1>8, <1>10, <1>11, YieldStep, KeptFiles, ReadingApart, ReadingDoubled

LEMMA TakeDoubled ==
  ASSUME TypesInv, FilesApart, NothingDoubled, MergeTake
  PROVE  FilesApart' /\ NothingDoubled'
<1>0. PICK k, p : MergeTaken(k, p)
  BY TakeStep
<1>1. /\ stage = "merge" /\ Reading /\ chunks' = chunks /\ pool' = pool
      /\ k \in Heads /\ p = HeadOf(k)
      /\ \/ reader.key = NoKey /\ reader.values = <<>>
         \/ reader.key = p[1] /\ reader.key # NoKey /\ ~Full
      /\ reader.values \in Seq(Nat) /\ p[2] \in Nat /\ p[1] # NoKey
      /\ reader'.key = p[1] /\ reader'.values = Append(reader.values, p[2])
      /\ reader'.offsets = [reader.offsets EXCEPT ![k] = @ + 1]
      /\ reader'.files = reader.files
  BY <1>0 DEF MergeTaken
<1>2. /\ serving # 0 /\ reader \in Readers /\ stage' = stage
      /\ serving \in active /\ ReaderNow(serving) = reader /\ serving \in ShuffleShards
  BY <1>1, ServedPoints DEF Reading, TypesInv
<1>3. PICK o : o = reader.offsets[k]
  OBVIOUS
<1>4. /\ k \in DOMAIN chunks[serving] /\ DOMAIN reader.offsets = DOMAIN chunks[serving]
      /\ o \in Nat /\ p = chunks[serving][k][o + 1] /\ o + 1 \in DOMAIN chunks[serving][k]
      /\ p \in PairsFor(serving)
      /\ \A i \in DOMAIN chunks[serving] :
           DOMAIN chunks[serving][i] = 1..Len(chunks[serving][i])
  BY <1>1, <1>2, <1>3, HeadFacts
<1>5. /\ reader'.offsets[k] = o + 1
      /\ \A i \in DOMAIN chunks[serving] \ {k} : reader'.offsets[i] = reader.offsets[i]
  BY <1>1, <1>3, <1>4
<1>6. InputDistinct /\ MadeDistinct /\ FreshLeft /\ FreshHeld /\ HeldOnce
  BY DoubledParts
<1>7. Input(stage) = chunks /\ DOMAIN chunks = ShuffleShards
  BY <1>1, StageFacts DEF TypesInv, OutputsType
<1>8. Item(serving, k, o + 1) /\ PairAt(serving, k, o + 1) = p
  BY <1>1, <1>2, <1>4, <1>7, PairsFacts DEF Item, PairAt
<1>9. ~Made(p) /\ ~Held(reader, p)
  <2>1. Left(serving, ReaderNow(serving), serving, k, o + 1)
    BY <1>1, <1>2, <1>3, <1>4 DEF Left
  <2> QED
    BY <2>1, <1>1, <1>2, <1>6, <1>8 DEF FreshLeft
<1>10. p = <<p[1], p[2]>> /\ p \in Pairs
  <2>1. p \in Pairs
    BY <1>4 DEF PairsFor
  <2> QED
    BY <2>1, PairNumbers DEF TypesInv
<1>11. ASSUME NEW q \in Pairs, Held(reader', q)
       PROVE  q = p \/ Held(reader, q)
  <2>1. q = <<q[1], q[2]>>
    BY PairNumbers DEF TypesInv
  <2>2. ValuesOf(reader'.values) = ValuesOf(reader.values) \union {p[2]}
    BY <1>1, ValuesOfAppend
  <2>3. q[1] = p[1] /\ q[2] \in ValuesOf(reader.values) \union {p[2]}
    BY <2>2, <1>1, <1>11 DEF Held
  <2>4. CASE q[2] = p[2]
    BY <2>1, <2>3, <2>4, <1>10
  <2>5. CASE q[2] \in ValuesOf(reader.values)
    <3>1. reader.values # <<>>
      BY <2>5, ValuesOfEmpty
    <3> QED
      BY <3>1, <2>3, <2>5, <1>1 DEF Held
  <2> QED
    BY <2>3, <2>4, <2>5
<1>12. \A q : Made(q)' <=> Made(q)
  BY <1>1, MadeAlone
<1>13. StaysFresh
  <2>1. ASSUME NEW q \in Pairs, Held(reader', q) PROVE ~Made(q)'
    BY <2>1, <1>1, <1>6, <1>9, <1>11, <1>12 DEF FreshHeld
  <2> SUFFICES ASSUME NEW g, NEW i, NEW j, NEW q, Item(g, i, j), q = PairAt(g, i, j),
                      NEW s \in active, Left(s, ReaderNow(s), g, i, j)'
               PROVE  ~Made(q)' /\ ~Held(reader', q)
    BY <2>1 DEF StaysFresh
  <2>2. Left(serving, reader', g, i, j) => Left(serving, reader, g, i, j) /\ q # p
    <3> SUFFICES ASSUME Left(serving, reader', g, i, j)
                 PROVE  Left(serving, reader, g, i, j) /\ q # p
      OBVIOUS
    <3>1. g = serving /\ j > reader'.offsets[i]
      BY <1>1 DEF Left
    <3>2. i \in DOMAIN chunks[serving] /\ j \in DOMAIN chunks[serving][i]
      BY <3>1, <1>1, <1>7, PairsFacts DEF Item
    <3>3. j \in Nat
      BY <3>2, <1>4
    <3>4. CASE i = k
      <4>1. j > o + 1 /\ j > o
        BY <3>1, <3>3, <3>4, <1>4, <1>5
      <4>2. Left(serving, reader, g, i, j)
        BY <4>1, <3>1, <3>4, <1>1, <1>3 DEF Left
      <4>3. ASSUME q = p PROVE FALSE
        <5>1. j = o + 1
          BY <4>3, <1>6, <1>8, OnePlace
        <5> QED
          BY <5>1, <4>1, <1>4
      <4> QED
        BY <4>2, <4>3
    <3>5. CASE i # k
      <4>1. Left(serving, reader, g, i, j)
        BY <3>1, <3>2, <3>5, <1>1, <1>5 DEF Left
      <4>2. q # p
        BY <3>5, <1>6, <1>8, OnePlace
      <4> QED
        BY <4>1, <4>2
    <3> QED
      BY <3>4, <3>5
  <2>3. Left(s, ReaderNow(s), g, i, j) /\ (s # serving => ReaderNow(s)' = ReaderNow(s))
    BY <2>2, <1>1, LeftBefore
  <2>4. ~Made(q) /\ ~Held(reader, q)
    BY <2>3, <1>1, <1>6 DEF FreshLeft
  <2>5. q # p
    <3>1. CASE s = serving
      <4>1. Left(serving, reader', g, i, j)
        BY <3>1, <1>1, <1>2 DEF Left, Reading, ReaderNow
      <4> QED
        BY <4>1, <2>2
    <3>2. CASE s # serving
      <4>1. g # serving
        BY <3>2, <2>3, <1>1 DEF Left
      <4> QED
        BY <4>1, <1>6, <1>8, OnePlace
    <3> QED
      BY <3>1, <3>2
  <2>6. q \in Pairs
    BY PairAtIsPair
  <2> QED
    BY <2>4, <2>5, <2>6, <1>11, <1>12
<1>14. HeldOnce'
  <2>1. PICK v, w, y : v = reader.values /\ w = reader'.values /\ y = p[2]
    OBVIOUS
  <2>2. y \notin ValuesOf(v)
    <3>1. CASE v = <<>>
      BY <3>1, ValuesOfEmpty
    <3>2. CASE v # <<>>
      BY <3>2, <2>1, <1>1, <1>9 DEF Held
    <3> QED
      BY <3>1, <3>2
  <2>3. /\ w = Append(v, y) /\ v \in Seq(Nat) /\ y \in Nat
        /\ \A m, n \in DOMAIN v : v[m] = v[n] => m = n
    BY <2>1, <1>1, <1>6 DEF HeldOnce
  <2>4. \A m, n \in DOMAIN w : w[m] = w[n] => m = n
    <3>1. /\ Len(v) \in Nat /\ DOMAIN v = 1..Len(v) /\ DOMAIN w = 1..Len(v) + 1
          /\ \A i \in 1..Len(v) : w[i] = v[i]
          /\ w[Len(v) + 1] = y
      BY <2>3, AppendPlaces
    <3>2. \A i \in 1..Len(v) : v[i] # y
      BY <2>2, <3>1 DEF ValuesOf
    <3>3. \A i \in DOMAIN w : i \in 1..Len(v) \/ i = Len(v) + 1
      BY <3>1
    <3> QED
      BY <2>3, <3>1, <3>2, <3>3
  <2> QED
    BY <2>1, <2>4 DEF HeldOnce
<1>15. MadeDistinct'
  BY <1>1, <1>2, <1>6, MadeAlone DEF MadeDistinct
<1> QED
  BY <1>1, <1>2, <1>6, <1>13, <1>14, <1>15, TakeStep, KeptFiles, ReadingApart, ReadingDoubled

LEMMA ConcatOnce ==
  ASSUME NEW S, NEW a \in Seq(S), NEW b \in Seq(S), Differ(a), Differ(b),
         \A x \in ValuesOf(a) : x \notin ValuesOf(b)
  PROVE  Differ(a \o b)
<1>1. PICK c, m, n : c = a \o b /\ m = Len(a) /\ n = Len(b)
  OBVIOUS
<1>2. /\ m \in Nat /\ n \in Nat /\ DOMAIN a = 1..m /\ DOMAIN b = 1..n
      /\ DOMAIN c = 1..m + n
      /\ \A i \in 1..m : c[i] = a[i]
      /\ \A i \in m + 1..m + n : c[i] = b[i - m]
  BY <1>1, ConcatProperties, LenProperties
<1>3. \A i \in 1..m + n : i \in 1..m \/ i \in m + 1..m + n
  BY <1>2
<1>4. \A i \in m + 1..m + n : i - m \in 1..n /\ i \in Int
  BY <1>2
<1>5. \A i \in 1..m : c[i] \in ValuesOf(a)
  BY <1>2 DEF ValuesOf
<1>6. \A i \in m + 1..m + n : c[i] \in ValuesOf(b)
  BY <1>2, <1>4 DEF ValuesOf
<1>7. ASSUME NEW i \in DOMAIN c, NEW j \in DOMAIN c, c[i] = c[j] PROVE i = j
  <2>1. CASE i \in 1..m /\ j \in 1..m
    BY <2>1, <1>2, <1>7 DEF Differ
  <2>2. CASE i \in m + 1..m + n /\ j \in m + 1..m + n
    <3>1. i - m = j - m
      BY ZenonT(30), <2>2, <1>2, <1>4, <1>7 DEF Differ
    <3> QED
      BY <3>1, <2>2, <1>2, <1>4
  <2>3. CASE i \in 1..m /\ j \in m + 1..m + n
    BY <2>3, <1>5, <1>6, <1>7
  <2>4. CASE j \in 1..m /\ i \in m + 1..m + n
    BY <2>4, <1>5, <1>6, <1>7
  <2> QED
    BY <2>1, <2>2, <2>3, <2>4, <1>2, <1>3
<1> QED
  BY <1>1, <1>7 DEF Differ

(* The values in hand and those of the record that is read. *)
LEMMA ReadTogether ==
  ASSUME TypesInv, NothingDoubled, NEW f, NEW n, NEW r, ReduceRead(f, n, r),
         NEW vs, vs = reader.values \o r.values
  PROVE  /\ vs \in Seq(Nat) /\ Differ(vs)
         /\ ValuesOf(vs) = ValuesOf(reader.values) \union ValuesOf(r.values)
         /\ \A q \in Pairs : q[1] = r.key /\ q[2] \in ValuesOf(r.values) =>
              /\ ~Made(q) /\ ~Held(reader, q)
              /\ \E j : Item(f, n, j) /\ q = PairAt(f, n, j)
         /\ \A q \in Pairs : q[1] = r.key /\ q[2] \in ValuesOf(vs) =>
              Held(reader, q) \/ q[2] \in ValuesOf(r.values)
<1>1. /\ stage = "reduce" /\ serving # 0
      /\ reader.files # <<>> /\ f = reader.files[1] /\ f \in ShuffleShards
      /\ reader.position \in Nat /\ n = reader.position + 1 /\ n \in DOMAIN written["merge"][f]
      /\ r = written["merge"][f][n] /\ r \in Merged(f)
      /\ \/ reader.key = NoKey /\ reader.values = <<>>
         \/ reader.key = r.key /\ reader.key # NoKey
      /\ reader.values \in Seq(Nat)
  BY DEF ReduceRead, Reading
<1>2. serving \in active /\ ReaderNow(serving) = reader
  BY <1>1, ServedPoints DEF TypesInv
<1>3. InputDistinct /\ FreshLeft /\ HeldOnce
  BY DoubledParts
<1>4. /\ r.values \in Seq(Nat)
      /\ \A v \in ValuesOf(r.values) : <<r.key, v>> \in PairsFor(f)
  BY <1>1 DEF Merged
<1>5. /\ Input(stage) = written["merge"] /\ DOMAIN written["merge"] = ShuffleShards
  BY <1>1, StageFacts DEF TypesInv, OutputsType
<1>6. ASSUME NEW j \in DOMAIN r.values
      PROVE  /\ Item(f, n, j) /\ PairAt(f, n, j) = <<r.key, r.values[j]>>
             /\ ~Made(<<r.key, r.values[j]>>) /\ ~Held(reader, <<r.key, r.values[j]>>)
  <2>1. PairsOf("reduce", r) = [k \in DOMAIN r.values |-> <<r.key, r.values[k]>>]
    BY PairsFacts
  <2>2. Item(f, n, j) /\ PairAt(f, n, j) = <<r.key, r.values[j]>>
    BY ZenonT(30), <2>1, <1>1, <1>5 DEF Item, PairAt
  <2>3. Left(serving, ReaderNow(serving), f, n, j)
    <3>1. n > reader.position
      <4>1. PICK a \in Nat : a = reader.position /\ n = a + 1
        BY <1>1
      <4> QED
        BY <4>1
    <3>2. InFiles(reader, f, n)
      BY <3>1, <1>1 DEF InFiles
    <3> QED
      BY <3>2, <1>1, <1>2 DEF Left
  <2> QED
    BY <2>2, <2>3, <1>1, <1>2, <1>3 DEF FreshLeft
<1>7. ASSUME NEW q \in Pairs, q[1] = r.key, q[2] \in ValuesOf(r.values)
      PROVE  /\ ~Made(q) /\ ~Held(reader, q)
             /\ \E j : Item(f, n, j) /\ q = PairAt(f, n, j)
  <2>1. PICK j \in DOMAIN r.values : q[2] = r.values[j]
    BY <1>7 DEF ValuesOf
  <2>2. q = <<q[1], q[2]>>
    BY PairNumbers DEF TypesInv
  <2>3. q = <<r.key, r.values[j]>>
    BY <2>1, <2>2, <1>7
  <2> QED
    BY <2>3, <1>6
<1>8. PICK a, b : a = reader.values /\ b = r.values
  OBVIOUS
<1>9. a \in Seq(Nat) /\ b \in Seq(Nat) /\ vs = a \o b
  BY <1>1, <1>4, <1>8
<1>10. ValuesOf(vs) = ValuesOf(a) \union ValuesOf(b) /\ vs \in Seq(Nat)
  BY <1>9, ValuesOfConcat
<1>11. Differ(a)
  BY <1>1, <1>3, <1>8 DEF HeldOnce, Differ
<1>12. Differ(b)
  <2> SUFFICES ASSUME NEW j \in DOMAIN r.values, NEW l \in DOMAIN r.values,
                      r.values[j] = r.values[l]
               PROVE  j = l
    BY <1>8 DEF Differ
  <2> QED
    BY <1>3, <1>6, OnePlace
<1>13. \A x \in ValuesOf(a) : x \notin ValuesOf(b)
  <2> SUFFICES ASSUME NEW x \in ValuesOf(a), x \in ValuesOf(b) PROVE FALSE
    OBVIOUS
  <2>1. a # <<>>
    BY ValuesOfEmpty
  <2>2. reader.key = r.key
    BY <2>1, <1>1, <1>8
  <2>3. Held(reader, <<r.key, x>>)
    BY <2>2, <1>8 DEF Held
  <2>4. PICK j \in DOMAIN r.values : x = r.values[j]
    BY <1>8 DEF ValuesOf
  <2> QED
    BY <2>3, <2>4, <1>6
<1>14. Differ(vs)
  BY <1>9, <1>11, <1>12, <1>13, ConcatOnce
<1>15. ASSUME NEW q \in Pairs, q[1] = r.key, q[2] \in ValuesOf(vs), q[2] \notin ValuesOf(r.values)
       PROVE  Held(reader, q)
  <2>1. q[2] \in ValuesOf(a)
    BY <1>8, <1>10, <1>15
  <2>2. a # <<>>
    BY <2>1, ValuesOfEmpty
  <2> QED
    BY <2>1, <2>2, <1>1, <1>8, <1>15 DEF Held
<1> QED
  BY <1>7, <1>8, <1>10, <1>14, <1>15

LEMMA ReduceDoubled ==
  ASSUME TypesInv, FilesApart, NothingDoubled, ReduceRecord
  PROVE  FilesApart' /\ NothingDoubled'
<1>0. PICK f, n, r : ReduceRead(f, n, r)
  BY ReduceStep
<1>1. /\ stage = "reduce" /\ Reading /\ chunks' = chunks
      /\ reader.files # <<>> /\ f = reader.files[1] /\ f \in ShuffleShards
      /\ reader.position \in Nat /\ n = reader.position + 1 /\ n \in DOMAIN written["merge"][f]
      /\ r = written["merge"][f][n] /\ r \in Merged(f)
      /\ reader'.files = reader.files /\ reader'.position = n
  BY <1>0 DEF ReduceRead
<1>2. /\ serving # 0 /\ reader \in Readers /\ stage' = stage /\ Follows[stage] = "over"
      /\ serving \in active /\ ReaderNow(serving) = reader
  BY <1>1, ServedPoints, StageFacts DEF Reading, TypesInv
<1>3. PICK vs : vs = reader.values \o r.values
  OBVIOUS
<1>4. /\ vs \in Seq(Nat) /\ Differ(vs)
      /\ ValuesOf(vs) = ValuesOf(reader.values) \union ValuesOf(r.values)
      /\ \A q \in Pairs : q[1] = r.key /\ q[2] \in ValuesOf(r.values) =>
           /\ ~Made(q) /\ ~Held(reader, q)
           /\ \E j : Item(f, n, j) /\ q = PairAt(f, n, j)
      /\ \A q \in Pairs : q[1] = r.key /\ q[2] \in ValuesOf(vs) =>
           Held(reader, q) \/ q[2] \in ValuesOf(r.values)
  BY <1>0, <1>3, ReadTogether
<1>5. InputDistinct /\ MadeDistinct /\ FreshLeft /\ FreshHeld /\ HeldOnce
  BY DoubledParts
<1>6. ASSUME NEW q \in Pairs, q[1] = r.key, q[2] \in ValuesOf(vs)
      PROVE  ~Made(q)
  BY <1>1, <1>4, <1>5, <1>6 DEF FreshHeld
(* What a reader is to read yet is neither of those. *)
<1>7. ASSUME NEW g, NEW i, NEW j, NEW q, Item(g, i, j), q = PairAt(g, i, j),
             NEW s \in active, Left(s, ReaderNow(s), g, i, j)'
      PROVE  /\ q \in Pairs /\ ~Made(q) /\ ~Held(reader, q)
             /\ ~(q[1] = r.key /\ q[2] \in ValuesOf(vs))
  <2>1. Left(serving, reader', g, i, j) => Left(serving, reader, g, i, j)
    <3>1. i \in Nat
      <4>1. g \in ShuffleShards /\ i \in DOMAIN written["merge"][g]
        BY <1>1, <1>7, StageFacts DEF Item, TypesInv, OutputsType
      <4>2. written["merge"][g] \in Seq(ItemsOf("merge", g))
        BY <4>1, StageFacts DEF TypesInv, OutputsType
      <4> QED
        BY <4>1, <4>2, LenProperties
    <3> QED
      BY <3>1, <1>1, LaterInFiles DEF Left
  <2>2. Left(s, ReaderNow(s), g, i, j)
    BY <2>1, <1>1, <1>7, LeftBefore
  <2>3. ~Made(q) /\ ~Held(reader, q)
    BY <2>2, <1>1, <1>5, <1>7 DEF FreshLeft
  <2>4. q \in Pairs
    BY <1>7, PairAtIsPair
  <2>5. ASSUME q[1] = r.key, q[2] \in ValuesOf(vs) PROVE FALSE
    <3>1. q[2] \in ValuesOf(r.values)
      BY <2>3, <2>4, <2>5, <1>4
    <3>2. PICK l : Item(f, n, l) /\ q = PairAt(f, n, l)
      BY <3>1, <2>4, <2>5, <1>4
    <3>3. g = f /\ i = n
      BY <3>2, <1>5, <1>7, OnePlace
    <3>4. ~InFiles(ReaderNow(s)', f, n)
      BY <1>1, TakenOnce DEF ReadsFiles
    <3>5. InFiles(ReaderNow(s)', f, n)
      BY <3>3, <1>1, <1>2, <1>7 DEF Left
    <3> QED
      BY <3>4, <3>5
  <2> QED
    BY <2>3, <2>4, <2>5
<1>8. CASE r.partial
  <2>1. reader'.key = r.key /\ reader'.values = vs /\ pool' = pool
    BY <1>0, <1>3, <1>8 DEF ReduceRead
  <2>2. Produced' = Produced /\ \A q : Made(q)' <=> Made(q)
    BY <2>1, <1>1, MadeAlone
  <2>3. \A q : Held(reader', q) <=> r.key = q[1] /\ q[2] \in ValuesOf(vs)
    BY <2>1 DEF Held
  <2>4. StaysFresh
    BY <2>2, <2>3, <1>6, <1>7 DEF StaysFresh
  <2>5. HeldOnce'
    BY <2>1, <1>4 DEF HeldOnce, Differ
  <2>6. MadeDistinct'
    BY <2>2, <1>2, <1>5 DEF MadeDistinct
  <2> QED
    BY <2>4, <2>5, <2>6, <1>1, <1>2, <1>5, ReduceStep, KeptFiles, ReadingApart, ReadingDoubled
<1>9. CASE ~r.partial
  <2>1. PICK x : x = <<r.key, vs>>
    OBVIOUS
  <2>2. /\ IsAdded(AllItems(stage), pool, serving, x, pool')
        /\ reader'.key = NoKey /\ reader'.values = <<>>
    BY <1>0, <1>3, <1>9, <2>1 DEF ReduceRead
  <2>3. /\ IsAdded(AllItems(stage), Produced, serving, x, Produced')
        /\ \A q : Made(q)' <=> Made(q) \/ q \in ValuesOf(PairsOf("over", x))
    <3>1. stage \in WritingStages
      BY <1>1, StageFacts
    <3> QED
      BY <3>1, <2>2, <1>1, <1>2, MadeMore
  <2>4. PairsOf("over", x) = [j \in DOMAIN vs |-> <<r.key, vs[j]>>]
    <3>1. PairsOf("over", x) = [j \in DOMAIN x[2] |-> <<x[1], x[2][j]>>]
      BY PairsFacts
    <3>2. x[1] = r.key /\ x[2] = vs
      BY <2>1
    <3> QED
      BY <3>1, <3>2
  <2>5. ASSUME NEW q \in ValuesOf(PairsOf("over", x))
        PROVE  q[1] = r.key /\ q[2] \in ValuesOf(vs) /\ q \in Pairs
    <3>1. PICK j \in DOMAIN vs : q = <<r.key, vs[j]>>
      BY <2>4 DEF ValuesOf
    <3>2. q[1] = r.key /\ q[2] \in ValuesOf(vs)
      BY <3>1 DEF ValuesOf
    <3>3. x \in AllItems("reduce")
      BY <2>2, <1>1 DEF IsAdded
    <3>4. x \in Calls
      BY <3>3 DEF AllItems, ItemsOf
    <3> QED
      BY <3>2, <3>4, ItemPairs
  <2>6. MadeDistinct'
    <3>1. Differ(PairsOf("over", x))
      <4> SUFFICES ASSUME NEW j \in DOMAIN vs, NEW l \in DOMAIN vs,
                          <<r.key, vs[j]>> = <<r.key, vs[l]>>
                   PROVE  j = l
        BY <2>4 DEF Differ
      <4>1. vs[j] = vs[l]
        OBVIOUS
      <4> QED
        BY <4>1, <1>4 DEF Differ
    <3>2. Distinct("over", Produced)
      BY <1>1, <1>2, <1>5 DEF MadeDistinct
    <3>3. \A q \in ValuesOf(PairsOf("over", x)) : ~Has("over", Produced, q)
      BY <2>5, <1>2, <1>6 DEF Made
    <3>4. PICK b : b = Produced'
      OBVIOUS
    <3>5. Distinct("over", b)
      BY <3>1, <3>2, <3>3, <3>4, <2>3, DistinctAdded
    <3> QED
      BY <3>4, <3>5, <1>2 DEF MadeDistinct
  <2>7. ASSUME NEW q \in Pairs PROVE ~Held(reader', q)
    <3>1. q[1] # NoKey
      BY PairNumbers DEF TypesInv
    <3> QED
      BY <3>1, <2>2 DEF Held
  <2>8. StaysFresh
    <3> SUFFICES ASSUME NEW g, NEW i, NEW j, NEW q, Item(g, i, j), q = PairAt(g, i, j),
                        NEW s \in active, Left(s, ReaderNow(s), g, i, j)'
                 PROVE  ~Made(q)' /\ ~Held(reader', q)
      BY <2>7 DEF StaysFresh
    <3>1. /\ q \in Pairs /\ ~Made(q)
          /\ ~(q[1] = r.key /\ q[2] \in ValuesOf(vs))
      BY <1>7
    <3> QED
      BY <3>1, <2>3, <2>5, <2>7
  <2>9. HeldOnce'
    BY <2>2 DEF HeldOnce
  <2> QED
    BY <2>6, <2>8, <2>9, <1>1, <1>2, <1>5, ReduceStep, KeptFiles, ReadingApart, ReadingDoubled
<1> QED
  BY <1>8, <1>9

LEMMA FileDoubled ==
  ASSUME TypesInv, FilesApart, NothingDoubled, NextFile
  PROVE  FilesApart' /\ NothingDoubled'
<1>1. /\ ReadsFiles /\ Reading /\ chunks' = chunks /\ pool' = pool
      /\ reader'.key = reader.key /\ reader'.values = reader.values
      /\ \A n \in DOMAIN reader'.files : /\ n + 1 \in DOMAIN reader.files
                                         /\ reader'.files[n] = reader.files[n + 1]
      /\ \A f \in DOMAIN Input(stage) : \A i \in DOMAIN Input(stage)[f] :
           InFiles(reader', f, i) <=> InFiles(reader, f, i)
  BY FileStep DEF FileEnded
<1>2. InputDistinct /\ MadeDistinct /\ FreshLeft /\ FreshHeld /\ HeldOnce
  BY DoubledParts
<1>3. /\ Produced' = Produced /\ stage' = stage /\ stage # "merge"
      /\ \A q : Made(q)' <=> Made(q)
      /\ \A q : Held(reader', q) <=> Held(reader, q)
  BY <1>1, MadeAlone DEF Held, ReadsFiles, Reading
<1>4. StaysFresh
  <2>1. ASSUME NEW q \in Pairs, Held(reader', q) PROVE ~Made(q)'
    BY <2>1, <1>1, <1>2, <1>3 DEF FreshHeld, ReadsFiles
  <2> SUFFICES ASSUME NEW g, NEW i, NEW j, NEW q, Item(g, i, j), q = PairAt(g, i, j),
                      NEW s \in active, Left(s, ReaderNow(s), g, i, j)'
               PROVE  ~Made(q)' /\ ~Held(reader', q)
    BY <2>1 DEF StaysFresh
  <2>2. Left(serving, reader', g, i, j) => Left(serving, reader, g, i, j)
    BY <1>1, <1>3 DEF Left, Item
  <2>3. Left(s, ReaderNow(s), g, i, j)
    BY <2>2, <1>1, LeftBefore
  <2>4. ~Made(q) /\ ~Held(reader, q)
    BY <2>3, <1>1, <1>2 DEF FreshLeft, ReadsFiles
  <2> QED
    BY <2>4, <1>3
<1>5. HeldOnce' /\ MadeDistinct'
  BY <1>1, <1>2, <1>3 DEF HeldOnce, MadeDistinct
<1>6. Shortened
  <2>1. 1 \in {0, 1}
    OBVIOUS
  <2> QED
    BY <2>1, <1>1 DEF Shortened
<1> QED
  BY <1>1, <1>2, <1>4, <1>5, <1>6, FileStep, ReadingApart, ReadingDoubled

-----------------------------------------------------------------------------
(* Without failures keys go up.                                            *)

ChunksSorted ==
  stage \in {"sort", "merge"} => \A f \in ShuffleShards : \A c \in DOMAIN chunks[f] :
    \A a, b \in DOMAIN chunks[f][c] : a < b => chunks[f][c][a][1] <= chunks[f][c][b][1]
RecordsGoUp == stage = "merge" => \A f \in ShuffleShards : KeysGoUp(Produced[f])
LeftLater ==
  stage = "merge" => \A s \in active : \A c \in DOMAIN chunks[s] :
    \A i \in DOMAIN chunks[s][c] : Left(s, ReaderNow(s), s, c, i) =>
      /\ Upto(Produced[s], chunks[s][c][i][1])
      /\ s = serving => reader.key <= chunks[s][c][i][1]
KeyInHand ==
  stage = "merge" /\ serving # 0 /\ reader.key # NoKey => Upto(Produced[serving], reader.key)

LEMMA OrderParts == MergeInOrder <=> ChunksSorted /\ RecordsGoUp /\ LeftLater /\ KeyInHand
  BY DEF MergeInOrder, ChunksSorted, RecordsGoUp, LeftLater, KeyInHand

RecordsSorted == stage = "reduce" => \A f \in ShuffleShards : KeysGoUp(written["merge"][f])
CallsOnce ==
  /\ stage = "reduce" => CalledOnce(Produced)
  /\ stage = "over" => CalledOnce(written["reduce"])
NotCalledYet ==
  stage = "reduce" =>
    \A s \in active : \A f \in ShuffleShards : \A i \in DOMAIN written["merge"][f] :
      InFiles(ReaderNow(s), f, i) => ~Called(Produced, written["merge"][f][i].key)
KeyNotCalled == stage = "reduce" => ~Called(Produced, reader.key)

LEMMA CallParts == ReduceInOrder <=> RecordsSorted /\ CallsOnce /\ NotCalledYet /\ KeyNotCalled
  BY DEF ReduceInOrder, RecordsSorted, CallsOnce, NotCalledYet, KeyNotCalled

LEMMA OtherOrders ==
  ASSUME Reading
  PROVE  /\ stage # "reduce" /\ ReduceInOrder => ReduceInOrder'
         /\ stage # "merge" /\ chunks' = chunks /\ MergeInOrder => MergeInOrder'
<1>1. stage' = stage /\ written' = written
  BY DEF Reading
<1>2. ASSUME stage # "reduce", ReduceInOrder PROVE ReduceInOrder'
  <2>1. RecordsSorted' /\ CallsOnce' /\ NotCalledYet' /\ KeyNotCalled'
    BY <1>1, <1>2, CallParts DEF RecordsSorted, CallsOnce, NotCalledYet, KeyNotCalled
  <2>2. (ReduceInOrder <=> RecordsSorted /\ CallsOnce /\ NotCalledYet /\ KeyNotCalled)'
    BY CallParts, PTL
  <2> QED
    BY <2>1, <2>2
<1>3. ASSUME stage # "merge", chunks' = chunks, MergeInOrder PROVE MergeInOrder'
  <2>1. ChunksSorted
    BY <1>3, OrderParts
  <2>2. ChunksSorted'
    BY <1>1, <1>3, <2>1 DEF ChunksSorted
  <2>3. RecordsGoUp' /\ LeftLater' /\ KeyInHand'
    BY <1>1, <1>3 DEF RecordsGoUp, LeftLater, KeyInHand
  <2>4. (MergeInOrder <=> ChunksSorted /\ RecordsGoUp /\ LeftLater /\ KeyInHand)'
    BY OrderParts, PTL
  <2> QED
    BY <2>2, <2>3, <2>4
<1> QED
  BY <1>2, <1>3

LEMMA SortOrder ==
  ASSUME TypesInv, MergeInOrder, SortBatch, failures' = 0
  PROVE  MergeInOrder'
<1>0. PICK n, new : SortMade(n, new)
  BY SortStep
<1>1. PICK m, c : m = reader.position /\ c = written["hash"][serving]
  OBVIOUS
<1>2. /\ stage = "sort" /\ Reading
      /\ IsAdded(Seq(Pairs), chunks, serving, new, chunks')
      /\ SortedFrom(new, c, m, n)
  BY <1>0, <1>1 DEF SortMade
<1>3. stage' = stage
  BY <1>2 DEF Reading
<1>4. ChunksSorted
  BY OrderParts
<1>5. /\ serving \in ShuffleShards /\ new \in Seq(Pairs) /\ chunks[serving] \in Seq(Seq(Pairs))
      /\ chunks'[serving] = Append(chunks[serving], new)
      /\ \A f \in ShuffleShards \ {serving} : chunks'[f] = chunks[f]
  BY <1>2 DEF IsAdded, IsFiles
<1>6. /\ DOMAIN new = 1..n
      /\ \A i, j \in 1..n : i < j => new[i][1] <= new[j][1]
  BY <1>2 DEF SortedFrom
<1>7. ASSUME NEW k \in DOMAIN chunks'[serving]
      PROVE  \A a, b \in DOMAIN chunks'[serving][k] :
               a < b => chunks'[serving][k][a][1] <= chunks'[serving][k][b][1]
  <2>1. PICK v, w : v = chunks[serving] /\ w = chunks'[serving]
    OBVIOUS
  <2>2. v \in Seq(Seq(Pairs)) /\ w = Append(v, new)
    BY <2>1, <1>5
  <2>3. /\ Len(v) \in Nat /\ DOMAIN v = 1..Len(v) /\ DOMAIN w = 1..Len(v) + 1
        /\ \A i \in 1..Len(v) : w[i] = v[i]
        /\ w[Len(v) + 1] = new
    BY <2>2, <1>5, AppendPlaces
  <2>4. k \in 1..Len(v) \/ k = Len(v) + 1
    BY <2>1, <2>3, <1>7
  <2>5. CASE k \in 1..Len(v)
    <3>1. w[k] = v[k] /\ k \in DOMAIN v
      BY <2>3, <2>5
    <3>2. \A a, b \in DOMAIN v[k] : a < b => v[k][a][1] <= v[k][b][1]
      BY <3>1, <2>1, <1>2, <1>4, <1>5 DEF ChunksSorted
    <3> QED
      BY <3>1, <3>2, <2>1
  <2>6. CASE k = Len(v) + 1
    <3>1. w[k] = new
      BY <2>3, <2>6
    <3> QED
      BY <3>1, <2>1, <1>6
  <2> QED
    BY <2>4, <2>5, <2>6
<1>8. ChunksSorted'
  <2> SUFFICES ASSUME NEW f \in ShuffleShards, NEW k \in DOMAIN chunks'[f]
               PROVE  \A a, b \in DOMAIN chunks'[f][k] :
                        a < b => chunks'[f][k][a][1] <= chunks'[f][k][b][1]
    BY DEF ChunksSorted
  <2>1. CASE f = serving
    BY <2>1, <1>7
  <2>2. CASE f # serving
    <3>1. chunks'[f] = chunks[f]
      BY <2>2, <1>5
    <3> QED
      BY <3>1, <1>2, <1>4 DEF ChunksSorted
  <2> QED
    BY <2>1, <2>2
<1>9. RecordsGoUp' /\ LeftLater' /\ KeyInHand'
  BY <1>2, <1>3 DEF RecordsGoUp, LeftLater, KeyInHand
<1>10. (MergeInOrder <=> ChunksSorted /\ RecordsGoUp /\ LeftLater /\ KeyInHand)'
  BY OrderParts, PTL
<1> QED
  BY <1>8, <1>9, <1>10

(* The least of the heads comes before all that is not merged. *)
LEMMA LeastFirst ==
  ASSUME TypesInv, ChunksSorted, stage = "merge", serving # 0,
         NEW c \in DOMAIN chunks[serving], NEW i \in DOMAIN chunks[serving][c],
         Left(serving, reader, serving, c, i)
  PROVE  /\ Heads # {} /\ Least \in Heads
         /\ HeadOf(Least)[1] \in Nat /\ chunks[serving][c][i][1] \in Nat
         /\ HeadOf(Least)[1] <= chunks[serving][c][i][1]
         /\ Left(serving, reader, serving, Least, reader.offsets[Least] + 1)
<1>1. i > reader.offsets[c]
  BY DEF Left
<1>2. PICK o \in Nat, l \in Nat : o = reader.offsets[c] /\ l = Len(chunks[serving][c])
  BY HeadFacts
<1>3. /\ DOMAIN chunks[serving][c] = 1..l /\ (c \in Heads <=> o < l)
      /\ chunks[serving][c] \in Seq(PairsFor(serving))
  BY <1>2, HeadFacts
<1>4. i \in Nat /\ o < l /\ o + 1 \in 1..l /\ o + 1 <= i
  BY <1>1, <1>2, <1>3
<1>5. c \in Heads
  BY <1>3, <1>4
<1>6. /\ Least \in Heads /\ HeadOf(Least)[1] <= HeadOf(c)[1]
      /\ HeadOf(c) = chunks[serving][c][o + 1] /\ HeadOf(Least) \in PairsFor(serving)
      /\ HeadOf(c) \in PairsFor(serving)
  BY <1>2, <1>5, HeadFacts
<1>7. chunks[serving][c][i] \in PairsFor(serving)
  BY <1>3, SeqAt
<1>8. /\ HeadOf(Least)[1] \in Nat /\ chunks[serving][c][i][1] \in Nat /\ HeadOf(c)[1] \in Nat
  BY <1>6, <1>7, PairNumbers DEF PairsFor, TypesInv
<1>9. HeadOf(c)[1] <= chunks[serving][c][i][1]
  <2>1. serving \in ShuffleShards
    BY ServedPoints DEF TypesInv
  <2>2. CASE o + 1 = i
    BY <2>2, <1>6, <1>8
  <2>3. CASE o + 1 < i
    <3>1. \A a, b \in DOMAIN chunks[serving][c] :
            a < b => chunks[serving][c][a][1] <= chunks[serving][c][b][1]
      BY <2>1 DEF ChunksSorted
    <3>2. chunks[serving][c][o + 1][1] <= chunks[serving][c][i][1]
      BY <3>1, <2>3, <1>3, <1>4
    <3> QED
      BY <3>2, <1>6
  <2> QED
    BY <2>2, <2>3, <1>4
<1>10. HeadOf(Least)[1] <= chunks[serving][c][i][1]
  <2>1. PICK x \in Nat, y \in Nat, z \in Nat :
          x = HeadOf(Least)[1] /\ y = HeadOf(c)[1] /\ z = chunks[serving][c][i][1]
    BY <1>8
  <2>2. x <= y /\ y <= z
    BY <2>1, <1>6, <1>9
  <2>3. x <= z
    BY <2>2
  <2> QED
    BY <2>1, <2>3
<1>11. Left(serving, reader, serving, Least, reader.offsets[Least] + 1)
  <2>1. PICK a \in Nat : a = reader.offsets[Least]
    BY <1>6, HeadFacts
  <2>2. a + 1 > a
    OBVIOUS
  <2> QED
    BY <2>1, <2>2 DEF Left
<1> QED
  BY <1>5, <1>6, <1>8, <1>10, <1>11

(* Records whose keys go up, and one more. *)
LEMMA UpMore ==
  ASSUME NEW S, NEW rs \in Seq(S), NEW x \in S, \A y \in S : y.key \in Nat,
         KeysGoUp(rs), Upto(rs, x.key)
  PROVE  KeysGoUp(Append(rs, x))
<1>1. PICK w : w = Append(rs, x)
  OBVIOUS
<1>2. /\ Len(rs) \in Nat /\ DOMAIN rs = 1..Len(rs) /\ DOMAIN w = 1..Len(rs) + 1
      /\ \A i \in 1..Len(rs) : w[i] = rs[i]
      /\ w[Len(rs) + 1] = x
  BY <1>1, AppendPlaces
<1>3. ASSUME NEW a \in DOMAIN w, NEW b \in DOMAIN w, a < b
      PROVE  /\ w[a].key <= w[b].key
             /\ w[a].key = w[b].key => w[a].partial
  <2>1. a \in 1..Len(rs) /\ (b \in 1..Len(rs) \/ b = Len(rs) + 1)
    BY <1>2, <1>3
  <2>2. CASE b \in 1..Len(rs)
    BY <2>1, <2>2, <1>2, <1>3 DEF KeysGoUp
  <2>3. CASE b = Len(rs) + 1
    BY <2>1, <2>3, <1>2 DEF Upto
  <2> QED
    BY <2>1, <2>2, <2>3
<1> QED
  BY <1>1, <1>3 DEF KeysGoUp

LEMMA UptoMore ==
  ASSUME NEW S, NEW rs \in Seq(S), NEW x \in S, NEW k,
         Upto(rs, k), x.key <= k, x.key = k => x.partial
  PROVE  Upto(Append(rs, x), k)
<1>1. PICK w : w = Append(rs, x)
  OBVIOUS
<1>2. /\ Len(rs) \in Nat /\ DOMAIN rs = 1..Len(rs) /\ DOMAIN w = 1..Len(rs) + 1
      /\ \A i \in 1..Len(rs) : w[i] = rs[i]
      /\ w[Len(rs) + 1] = x
  BY <1>1, AppendPlaces
<1>3. ASSUME NEW a \in DOMAIN w
      PROVE  w[a].key <= k /\ (w[a].key = k => w[a].partial)
  <2>1. a \in 1..Len(rs) \/ a = Len(rs) + 1
    BY <1>2, <1>3
  <2>2. CASE a \in 1..Len(rs)
    BY <2>2, <1>2 DEF Upto
  <2>3. CASE a = Len(rs) + 1
    BY <2>3, <1>2
  <2> QED
    BY <2>1, <2>2, <2>3
<1> QED
  BY <1>1, <1>3 DEF Upto

LEMMA MergedKeys == \A y \in AllItems("merge") : y.key \in Nat /\ y.key # NoKey
  BY DEF AllItems, ItemsOf, Merged

LEMMA YieldOrder ==
  ASSUME TypesInv, NothingDoubled, MergeInOrder, MergeYield
  PROVE  MergeInOrder'
<1>0. PICK x : MergeYielded(x)
  BY YieldStep
<1>1. /\ stage = "merge" /\ Reading /\ chunks' = chunks /\ reader.key # NoKey
      /\ x = [key |-> reader.key, values |-> reader.values, partial |-> MoreOfKey]
      /\ x \in Merged(serving) /\ IsAdded(AllItems(stage), pool, serving, x, pool')
      /\ reader' = [reader EXCEPT !.key = NoKey, !.values = <<>>, !.some = TRUE]
  BY <1>0 DEF MergeYielded
<1>2. /\ serving # 0 /\ reader \in Readers /\ stage' = stage
      /\ serving \in active /\ ReaderNow(serving) = reader /\ serving \in ShuffleShards
  BY <1>1, ServedPoints DEF Reading, TypesInv
<1>3. reader'.files = reader.files /\ reader'.offsets = reader.offsets /\ reader'.key = 0
  BY <1>1, <1>2 DEF Readers, NoKey
<1>4. ChunksSorted /\ RecordsGoUp /\ LeftLater /\ KeyInHand
  BY OrderParts
<1>5. x.key = reader.key /\ x.partial = MoreOfKey
  BY <1>1
<1>6. PICK S, P, Q : S = AllItems(stage) /\ P = Produced /\ Q = Produced'
  OBVIOUS
<1>7. IsAdded(S, P, serving, x, Q)
  <2>1. stage \in WritingStages
    BY <1>1, StageFacts
  <2> QED
    BY <2>1, <1>1, <1>6, MadeMore
<1>8. /\ \A f \in ShuffleShards : P[f] \in Seq(S)
      /\ x \in S /\ Q[serving] = Append(P[serving], x)
      /\ \A f \in ShuffleShards \ {serving} : Q[f] = P[f]
      /\ \A y \in S : y.key \in Nat
  BY <1>1, <1>2, <1>6, <1>7, MergedKeys DEF IsAdded, IsFiles
<1>9. ChunksSorted'
  BY <1>1, <1>2, <1>4 DEF ChunksSorted
<1>10. \A f \in ShuffleShards : KeysGoUp(Q[f])
  <2> SUFFICES ASSUME NEW f \in ShuffleShards PROVE KeysGoUp(Q[f])
    OBVIOUS
  <2>1. \A g \in ShuffleShards : KeysGoUp(P[g])
    BY <1>1, <1>4, <1>6 DEF RecordsGoUp
  <2>2. Upto(P[serving], x.key)
    BY <1>1, <1>2, <1>4, <1>5, <1>6 DEF KeyInHand
  <2>3. KeysGoUp(Q[serving])
    BY <2>1, <2>2, <1>2, <1>8, UpMore
  <2> QED
    BY <2>1, <2>3, <1>8
<1>11. ASSUME NEW c \in DOMAIN chunks[serving], NEW i \in DOMAIN chunks[serving][c],
              Left(serving, reader, serving, c, i)
       PROVE  Upto(Q[serving], chunks[serving][c][i][1]) /\ 0 <= chunks[serving][c][i][1]
  <2>1. PICK h, k : h = HeadOf(Least)[1] /\ k = chunks[serving][c][i][1]
    OBVIOUS
  <2>2. /\ Heads # {} /\ Least \in Heads /\ h \in Nat /\ k \in Nat /\ h <= k
        /\ Left(serving, reader, serving, Least, reader.offsets[Least] + 1)
    BY <2>1, <1>1, <1>2, <1>4, <1>11, LeastFirst
  <2>3. Upto(P[serving], k) /\ reader.key <= k
    BY <2>1, <1>1, <1>2, <1>4, <1>6, <1>11 DEF LeftLater
  <2>4. reader.key <= h
    <3>1. /\ Least \in DOMAIN chunks[serving]
          /\ reader.offsets[Least] + 1 \in DOMAIN chunks[serving][Least]
          /\ h = chunks[serving][Least][reader.offsets[Least] + 1][1]
      BY <2>1, <2>2, <1>1, <1>2, HeadFacts
    <3> QED
      BY <3>1, <2>2, <1>1, <1>2, <1>4 DEF LeftLater
  <2>5. ASSUME x.key = k PROVE x.partial
    <3>1. PICK y \in Nat : y = reader.key
      BY <1>2 DEF Readers
    <3>2. y = k /\ y <= h
      BY <3>1, <2>4, <2>5, <1>5
    <3>3. h = y
      BY <3>1, <3>2, <2>2
    <3> QED
      BY <3>1, <3>3, <2>1, <2>2, <1>5 DEF MoreOfKey
  <2>6. Upto(Append(P[serving], x), k)
    BY <2>3, <2>5, <1>2, <1>5, <1>8, UptoMore
  <2> QED
    BY <2>1, <2>2, <2>6, <1>8
<1>12. LeftLater'
  <2> SUFFICES ASSUME NEW s \in active, NEW c \in DOMAIN chunks[s], NEW i \in DOMAIN chunks[s][c],
                      Left(s, ReaderNow(s), s, c, i)'
               PROVE  /\ Upto(Q[s], chunks[s][c][i][1])
                      /\ s = serving => reader'.key <= chunks[s][c][i][1]
    BY <1>1, <1>6 DEF LeftLater, Reading
  <2>1. Left(serving, reader', s, c, i) => Left(serving, reader, s, c, i)
    BY <1>1, <1>3 DEF Left
  <2>2. Left(s, ReaderNow(s), s, c, i)
    BY <2>1, <1>1, LeftBefore
  <2>3. CASE s = serving
    BY <2>2, <2>3, <1>2, <1>3, <1>11
  <2>4. CASE s # serving
    <3>1. s \in ShuffleShards
      BY StoredPoints
    <3>2. Upto(P[s], chunks[s][c][i][1])
      BY <2>2, <1>1, <1>4, <1>6 DEF LeftLater
    <3> QED
      BY <3>1, <3>2, <2>4, <1>8
  <2> QED
    BY <2>3, <2>4
<1>13. RecordsGoUp' /\ KeyInHand'
  BY <1>3, <1>6, <1>10 DEF RecordsGoUp, KeyInHand, NoKey
<1>14. (MergeInOrder <=> ChunksSorted /\ RecordsGoUp /\ LeftLater /\ KeyInHand)'
  BY OrderParts, PTL
<1> QED
  BY <1>9, <1>12, <1>13, <1>14

LEMMA TakeOrder ==
  ASSUME TypesInv, NothingDoubled, MergeInOrder, MergeTake
  PROVE  MergeInOrder'
<1>0. PICK k, p : MergeTaken(k, p)
  BY TakeStep
<1>1. /\ stage = "merge" /\ Reading /\ chunks' = chunks /\ pool' = pool
      /\ k = Least /\ k \in Heads /\ p = HeadOf(k)
      /\ reader'.key = p[1]
      /\ reader'.offsets = [reader.offsets EXCEPT ![k] = @ + 1]
  BY <1>0 DEF MergeTaken
<1>2. /\ serving # 0 /\ reader \in Readers /\ stage' = stage
      /\ serving \in active /\ ReaderNow(serving) = reader /\ serving \in ShuffleShards
  BY <1>1, ServedPoints DEF Reading, TypesInv
<1>3. PICK o : o = reader.offsets[k]
  OBVIOUS
<1>4. /\ k \in DOMAIN chunks[serving] /\ DOMAIN reader.offsets = DOMAIN chunks[serving]
      /\ o \in Nat /\ p = chunks[serving][k][o + 1] /\ o + 1 \in DOMAIN chunks[serving][k]
      /\ \A i \in DOMAIN chunks[serving] :
           DOMAIN chunks[serving][i] = 1..Len(chunks[serving][i])
  BY <1>1, <1>2, <1>3, HeadFacts
<1>5. /\ reader'.offsets[k] = o + 1
      /\ \A i \in DOMAIN chunks[serving] \ {k} : reader'.offsets[i] = reader.offsets[i]
  BY <1>1, <1>3, <1>4
<1>6. ChunksSorted /\ RecordsGoUp /\ LeftLater /\ KeyInHand
  BY OrderParts
<1>7. PICK P : P = Produced
  OBVIOUS
<1>8. Produced' = P
  BY <1>1, <1>7, MadeAlone
<1>9. Left(serving, reader, serving, k, o + 1)
  BY <1>1, <1>3, <1>4 DEF Left
<1>10. Upto(P[serving], p[1])
  BY <1>1, <1>2, <1>4, <1>6, <1>7, <1>9 DEF LeftLater
<1>11. ChunksSorted' /\ RecordsGoUp' /\ KeyInHand'
  <2>1. ChunksSorted'
    BY <1>1, <1>2, <1>6 DEF ChunksSorted
  <2>2. RecordsGoUp'
    BY <1>1, <1>6, <1>7, <1>8 DEF RecordsGoUp
  <2>3. KeyInHand'
    BY <1>1, <1>8, <1>10 DEF KeyInHand, Reading
  <2> QED
    BY <2>1, <2>2, <2>3
<1>12. LeftLater'
  <2> SUFFICES ASSUME NEW s \in active, NEW c \in DOMAIN chunks[s], NEW i \in DOMAIN chunks[s][c],
                      Left(s, ReaderNow(s), s, c, i)'
               PROVE  /\ Upto(P[s], chunks[s][c][i][1])
                      /\ s = serving => reader'.key <= chunks[s][c][i][1]
    BY <1>1, <1>8 DEF LeftLater, Reading
  <2>1. Left(serving, reader', s, c, i) => Left(serving, reader, s, c, i)
    <3> SUFFICES ASSUME Left(serving, reader', s, c, i)
                 PROVE  Left(serving, reader, s, c, i)
      OBVIOUS
    <3>1. s = serving /\ i > reader'.offsets[c]
      BY <1>1 DEF Left
    <3>2. i \in Nat
      BY <3>1, <1>4
    <3>3. CASE c = k
      <4>1. i > o
        BY <3>1, <3>2, <3>3, <1>4, <1>5
      <4> QED
        BY <4>1, <3>1, <3>3, <1>1, <1>3 DEF Left
    <3>4. CASE c # k
      BY <3>1, <3>4, <1>1, <1>5 DEF Left
    <3> QED
      BY <3>3, <3>4
  <2>2. Left(s, ReaderNow(s), s, c, i)
    BY <2>1, <1>1, LeftBefore
  <2>3. Upto(P[s], chunks[s][c][i][1])
    BY <2>2, <1>1, <1>6, <1>7 DEF LeftLater
  <2>4. ASSUME s = serving PROVE reader'.key <= chunks[s][c][i][1]
    BY <2>2, <2>4, <1>1, <1>2, <1>6, LeastFirst
  <2> QED
    BY <2>3, <2>4
<1>13. (MergeInOrder <=> ChunksSorted /\ RecordsGoUp /\ LeftLater /\ KeyInHand)'
  BY OrderParts, PTL
<1> QED
  BY <1>11, <1>12, <1>13

(* Calls, and one more. *)
LEMMA CalledMore ==
  ASSUME NEW S, NEW a, NEW g, NEW x, NEW b, IsAdded(S, a, g, x, b)
  PROVE  /\ \A key : Called(b, key) <=> Called(a, key) \/ key = x[1]
         /\ CalledOnce(a) /\ ~Called(a, x[1]) => CalledOnce(b)
<1> DEFINE n == Len(a[g]) + 1
<1>1. /\ b[g] = Append(a[g], x) /\ DOMAIN b = ShuffleShards /\ DOMAIN a = ShuffleShards
      /\ \A f \in ShuffleShards \ {g} : b[f] = a[f]
      /\ g \in ShuffleShards /\ x \in S /\ a[g] \in Seq(S)
  BY DEF IsAdded, IsFiles
<1>2. /\ DOMAIN a[g] = 1..Len(a[g]) /\ Len(a[g]) \in Nat /\ DOMAIN b[g] = 1..n
      /\ \A i \in DOMAIN a[g] : b[g][i] = a[g][i]
      /\ b[g][n] = x
  BY <1>1, AppendPlaces
<1>3. n \notin DOMAIN a[g] /\ DOMAIN b[g] = DOMAIN a[g] \union {n}
  BY <1>2
<1> HIDE DEF n
<1>4. ASSUME NEW f \in DOMAIN b, NEW i \in DOMAIN b[f]
      PROVE  \/ f = g /\ i = n /\ b[f][i] = x
             \/ f \in DOMAIN a /\ i \in DOMAIN a[f] /\ b[f][i] = a[f][i]
  BY <1>1, <1>2, <1>3
<1>5. ASSUME NEW f \in DOMAIN a, NEW i \in DOMAIN a[f]
      PROVE  f \in DOMAIN b /\ i \in DOMAIN b[f] /\ b[f][i] = a[f][i]
  BY <1>1, <1>2, <1>3
<1>6. g \in DOMAIN b /\ n \in DOMAIN b[g] /\ b[g][n] = x
  BY <1>1, <1>2, <1>3
<1>7. ASSUME NEW key PROVE Called(b, key) <=> Called(a, key) \/ key = x[1]
  <2>1. ASSUME Called(b, key) PROVE Called(a, key) \/ key = x[1]
    BY <2>1, <1>4 DEF Called
  <2>2. ASSUME Called(a, key) PROVE Called(b, key)
    BY <2>2, <1>5 DEF Called
  <2>3. ASSUME key = x[1] PROVE Called(b, key)
    BY <2>3, <1>6 DEF Called
  <2> QED
    BY <2>1, <2>2, <2>3
<1>8. ASSUME CalledOnce(a), ~Called(a, x[1]) PROVE CalledOnce(b)
  <2> SUFFICES ASSUME NEW f \in DOMAIN b, NEW h \in DOMAIN b,
                      NEW i \in DOMAIN b[f], NEW k \in DOMAIN b[h], b[f][i][1] = b[h][k][1]
               PROVE  f = h /\ i = k
    BY DEF CalledOnce
  <2>1. \A m \in DOMAIN a : \A l \in DOMAIN a[m] : a[m][l][1] # x[1]
    BY <1>8 DEF Called
  <2> QED
    BY <2>1, <1>4, <1>8 DEF CalledOnce
<1> QED
  BY <1>7, <1>8

LEMMA MergedHash ==
  ASSUME NEW f, NEW x \in Merged(f)
  PROVE  Hash(x.key) = f
<1>1. x.values \in Seq(Nat) /\ x.values # <<>>
  BY DEF Merged
<1>2. 1 \in DOMAIN x.values
  BY <1>1, TailFacts
<1>3. x.values[1] \in ValuesOf(x.values)
  BY <1>2 DEF ValuesOf
<1>4. PICK p : p = <<x.key, x.values[1]>>
  OBVIOUS
<1>5. p \in PairsFor(f) /\ p[1] = x.key
  BY <1>3, <1>4 DEF Merged
<1> QED
  BY <1>5 DEF PairsFor

LEMMA ReduceOrder ==
  ASSUME TypesInv, FilesApart, ReduceInOrder, ReduceRecord
  PROVE  ReduceInOrder'
<1>0. PICK f, n, r : ReduceRead(f, n, r)
  BY ReduceStep
<1>1. /\ stage = "reduce" /\ Reading /\ chunks' = chunks
      /\ reader.files # <<>> /\ f = reader.files[1] /\ f \in ShuffleShards
      /\ reader.position \in Nat /\ n = reader.position + 1 /\ n \in DOMAIN written["merge"][f]
      /\ r = written["merge"][f][n] /\ r \in Merged(f)
      /\ reader'.files = reader.files /\ reader'.position = n
  BY <1>0 DEF ReduceRead
<1>2. /\ serving # 0 /\ reader \in Readers /\ stage' = stage
      /\ written' = written /\ active' = active
      /\ serving \in active /\ ReaderNow(serving) = reader
  BY <1>1, ServedPoints DEF Reading, TypesInv
<1>3. RecordsSorted /\ CallsOnce /\ NotCalledYet /\ KeyNotCalled
  BY CallParts
<1>4. PICK P, Q, w : P = Produced /\ Q = Produced' /\ w = written["merge"]
  OBVIOUS
<1>5. /\ CalledOnce(P) /\ ~Called(P, reader.key)
      /\ \A s \in active : \A g \in ShuffleShards : \A i \in DOMAIN w[g] :
           InFiles(ReaderNow(s), g, i) => ~Called(P, w[g][i].key)
      /\ \A g \in ShuffleShards : KeysGoUp(w[g])
  BY <1>1, <1>3, <1>4 DEF RecordsSorted, CallsOnce, NotCalledYet, KeyNotCalled
<1>6. \A g \in ShuffleShards : w[g] \in Seq(Merged(g))
  BY <1>4, StageFacts DEF TypesInv, OutputsType, ItemsOf, WritingStages
<1>7. ~Called(P, r.key)
  <2>1. n > reader.position
    BY <1>1
  <2>2. InFiles(ReaderNow(serving), f, n)
    BY <2>1, <1>1, <1>2 DEF InFiles
  <2> QED
    BY <2>2, <1>1, <1>2, <1>4, <1>5
<1>8. ASSUME NEW s \in active, NEW g \in ShuffleShards, NEW i \in DOMAIN w[g],
             InFiles(ReaderNow(s)', g, i)
      PROVE  /\ InFiles(ReaderNow(s), g, i)
             /\ ~r.partial => w[g][i].key # r.key
  <2>1. i \in Nat
    BY <1>6, LenProperties
  <2>2. Left(serving, reader', g, i, 1) => Left(serving, reader, g, i, 1)
    BY <2>1, <1>1, LaterInFiles DEF Left
  <2>3. Left(s, ReaderNow(s), g, i, 1)'
    BY <1>1, <1>2, <1>8 DEF Left
  <2>4. InFiles(ReaderNow(s), g, i)
    BY <2>2, <2>3, <1>1, LeftBefore DEF Left
  <2>5. ASSUME ~r.partial, w[g][i].key = r.key PROVE FALSE
    <3>1. CASE g = f
      <4>1. i > n
        BY <3>1, <1>1, <1>8, LaterInFile DEF ReadsFiles
      <4>2. n < i /\ n \in DOMAIN w[f]
        BY <4>1, <2>1, <1>1, <1>4
      <4> QED
        BY <3>1, <4>2, <2>5, <1>1, <1>4, <1>5 DEF KeysGoUp
    <3>2. CASE g # f
      <4>1. w[g][i] \in Merged(g)
        BY <1>6, SeqAt
      <4>2. Hash(w[g][i].key) = g /\ Hash(r.key) = f
        BY <4>1, <1>1, MergedHash
      <4> QED
        BY <3>2, <4>2, <2>5
    <3> QED
      BY <3>1, <3>2
  <2> QED
    BY <2>4, <2>5
<1>9. RecordsSorted'
  BY <1>2, <1>3 DEF RecordsSorted
<1>10. CASE r.partial
  <2>1. reader'.key = r.key /\ pool' = pool
    BY <1>0, <1>10 DEF ReduceRead
  <2>2. Q = P
    BY <2>1, <1>1, <1>4, MadeAlone
  <2>3. CallsOnce'
    BY <2>2, <1>1, <1>2, <1>4, <1>5 DEF CallsOnce
  <2>4. NotCalledYet'
    BY <2>2, <1>1, <1>2, <1>4, <1>5, <1>8 DEF NotCalledYet
  <2>5. KeyNotCalled'
    BY <2>1, <2>2, <1>1, <1>2, <1>4, <1>7 DEF KeyNotCalled
  <2>6. (ReduceInOrder <=> RecordsSorted /\ CallsOnce /\ NotCalledYet /\ KeyNotCalled)'
    BY CallParts, PTL
  <2> QED
    BY <2>3, <2>4, <2>5, <2>6, <1>9
<1>11. CASE ~r.partial
  <2>1. PICK x : x = <<r.key, reader.values \o r.values>>
    OBVIOUS
  <2>2. IsAdded(AllItems(stage), pool, serving, x, pool') /\ reader'.key = NoKey
    BY <1>0, <1>11, <2>1 DEF ReduceRead
  <2>3. IsAdded(AllItems(stage), P, serving, x, Q)
    <3>1. stage \in WritingStages
      BY <1>1, StageFacts
    <3> QED
      BY <3>1, <2>2, <1>1, <1>4, MadeMore
  <2>4. x[1] = r.key
    BY <2>1
  <2>5. /\ \A key : Called(Q, key) <=> Called(P, key) \/ key = r.key
        /\ CalledOnce(Q)
    BY <2>3, <2>4, <1>5, <1>7, CalledMore
  <2>6. r.key # NoKey
    BY <1>1 DEF Merged
  <2>7. ~Called(P, NoKey)
    <3> SUFFICES ASSUME NEW g \in DOMAIN P, NEW i \in DOMAIN P[g] PROVE P[g][i][1] # NoKey
      BY DEF Called
    <3>1. P[g] \in Seq(AllItems("reduce"))
      BY <2>3, <1>1 DEF IsAdded, IsFiles
    <3>2. P[g][i] \in AllItems("reduce")
      BY <3>1, SeqAt
    <3>3. P[g][i] \in Calls
      BY <3>2 DEF AllItems, ItemsOf
    <3> QED
      BY <3>3 DEF Calls
  <2>8. CallsOnce'
    BY <2>5, <1>1, <1>2, <1>4 DEF CallsOnce
  <2>9. NotCalledYet'
    BY <2>5, <1>1, <1>2, <1>4, <1>5, <1>8, <1>11 DEF NotCalledYet
  <2>10. KeyNotCalled'
    BY <2>2, <2>5, <2>6, <2>7, <1>1, <1>2, <1>4 DEF KeyNotCalled
  <2>11. (ReduceInOrder <=> RecordsSorted /\ CallsOnce /\ NotCalledYet /\ KeyNotCalled)'
    BY CallParts, PTL
  <2> QED
    BY <2>8, <2>9, <2>10, <2>11, <1>9
<1> QED
  BY <1>10, <1>11

LEMMA FileOrder ==
  ASSUME TypesInv, FilesApart, ReduceInOrder, NextFile
  PROVE  ReduceInOrder'
<1>1. /\ ReadsFiles /\ Reading /\ chunks' = chunks /\ pool' = pool
      /\ reader'.key = reader.key
      /\ \A f \in DOMAIN Input(stage) : \A i \in DOMAIN Input(stage)[f] :
           InFiles(reader', f, i) <=> InFiles(reader, f, i)
  BY FileStep DEF FileEnded
<1>2. /\ stage' = stage /\ written' = written /\ active' = active
  BY <1>1 DEF Reading
<1>3. CASE stage # "reduce"
  BY <1>1, <1>3, OtherOrders
<1>4. CASE stage = "reduce"
  <2>1. RecordsSorted /\ CallsOnce /\ NotCalledYet /\ KeyNotCalled
    BY CallParts
  <2>2. PICK P : P = Produced
    OBVIOUS
  <2>3. Produced' = P
    BY <2>2, <1>1, MadeAlone
  <2>4. Input(stage) = written["merge"] /\ DOMAIN written["merge"] = ShuffleShards
    BY <1>4, StageFacts DEF TypesInv, OutputsType
  <2>5. ASSUME NEW s \in active, NEW g \in ShuffleShards, NEW i \in DOMAIN written["merge"][g],
               InFiles(ReaderNow(s)', g, i)
        PROVE  InFiles(ReaderNow(s), g, i)
    <3>1. Left(serving, reader', g, i, 1) => Left(serving, reader, g, i, 1)
      BY <2>4, <1>1, <1>4 DEF Left
    <3>2. Left(s, ReaderNow(s), g, i, 1)'
      BY <2>5, <1>2, <1>4 DEF Left
    <3> QED
      BY <3>1, <3>2, <1>1, <1>4, LeftBefore DEF Left
  <2>6. RecordsSorted' /\ CallsOnce' /\ KeyNotCalled'
    BY <2>1, <2>2, <2>3, <1>1, <1>2, <1>4 DEF RecordsSorted, CallsOnce, KeyNotCalled
  <2>7. NotCalledYet'
    BY <2>1, <2>2, <2>3, <2>5, <1>2, <1>4 DEF NotCalledYet
  <2>8. (ReduceInOrder <=> RecordsSorted /\ CallsOnce /\ NotCalledYet /\ KeyNotCalled)'
    BY CallParts, PTL
  <2> QED
    BY <2>6, <2>7, <2>8
<1> QED
  BY <1>3, <1>4

-----------------------------------------------------------------------------
(* Without failures a slice that starts or ends only passes its reader on. *)

Handed ==
  /\ stage' = stage /\ stage # "over" /\ chunks' = chunks /\ Input(stage)' = Input(stage)
  /\ Produced' = Produced
  /\ stage = "reduce" => written'["merge"] = written["merge"]
  /\ active' \subseteq active
  /\ \A s \in active' : /\ ReaderNow(s)'.files = ReaderNow(s).files
                        /\ ReaderNow(s)'.position = ReaderNow(s).position
                        /\ ReaderNow(s)'.offsets = ReaderNow(s).offsets
  /\ reader'.key = NoKey /\ reader'.values = <<>>

LEMMA ProducedFiles ==
  ASSUME TypesInv, stage \in WritingStages
  PROVE  IsFiles(AllItems(stage), Produced)
<1>1. IsFiles(AllItems(stage), written[stage]) /\ IsFiles(AllItems(stage), pool)
  BY WrittenFiles DEF TypesInv
<1>2. Produced = [f \in ShuffleShards |-> written[stage][f] \o pool[f]]
  BY StageFacts
<1>3. DOMAIN Produced = ShuffleShards
      /\ \A f \in ShuffleShards : Produced[f] = written[stage][f] \o pool[f]
  BY <1>2
<1> QED
  BY <1>1, <1>3, HasJoined

LEMMA HandedLeft ==
  ASSUME Handed, NEW s \in active', NEW f, NEW i, NEW j, Left(s, ReaderNow(s), f, i, j)'
  PROVE  Left(s, ReaderNow(s), f, i, j) /\ s \in active
<1>1. /\ ReaderNow(s)'.files = ReaderNow(s).files /\ ReaderNow(s)'.position = ReaderNow(s).position
      /\ ReaderNow(s)'.offsets = ReaderNow(s).offsets /\ stage' = stage /\ s \in active
  BY DEF Handed
<1>2. PICK r : r = ReaderNow(s)'
  OBVIOUS
<1>3. Left(s, r, f, i, j)
  BY <1>1, <1>2 DEF Left
<1> QED
  BY <1>1, <1>2, <1>3 DEF Left, InFiles

LEMMA HandedDoubled ==
  ASSUME TypesInv, FilesApart, NothingDoubled, Handed, Pairs' = Pairs
  PROVE  FilesApart' /\ NothingDoubled'
<1>1. /\ stage' = stage /\ stage # "over" /\ Input(stage)' = Input(stage) /\ Produced' = Produced
      /\ reader'.key = NoKey /\ reader'.values = <<>>
  BY DEF Handed
<1>2. InputDistinct /\ MadeDistinct /\ FreshLeft /\ FreshHeld /\ HeldOnce
  BY DoubledParts
<1>3. FilesApart'
  <2> SUFFICES ASSUME NEW s \in active', NEW t \in active',
                      NEW m \in DOMAIN ReaderNow(s)'.files, NEW n \in DOMAIN ReaderNow(t)'.files,
                      ReaderNow(s)'.files[m] = ReaderNow(t)'.files[n]
               PROVE  s = t /\ m = n
    BY DEF FilesApart
  <2>1. /\ ReaderNow(s)'.files = ReaderNow(s).files /\ ReaderNow(t)'.files = ReaderNow(t).files
        /\ s \in active /\ t \in active
    BY DEF Handed
  <2> QED
    BY <2>1 DEF FilesApart
<1>4. ASSUME NEW p \in Pairs PROVE ~Held(reader, p)'
  <2>1. p[1] # NoKey
    BY PairNumbers DEF TypesInv
  <2> QED
    BY <2>1, <1>1 DEF Held
<1>5. \A p : Made(p)' <=> Made(p)
  BY <1>1 DEF Made
<1>6. InputDistinct' /\ MadeDistinct' /\ HeldOnce'
  BY <1>1, <1>2 DEF InputDistinct, MadeDistinct, HeldOnce
<1>7. FreshHeld'
  BY <1>4, Pairs' = Pairs DEF FreshHeld
<1>8. FreshLeft'
  <2> SUFFICES ASSUME NEW f, NEW i, NEW j, NEW p, Item(f, i, j)', p = PairAt(f, i, j)',
                      NEW s \in active', Left(s, ReaderNow(s), f, i, j)'
               PROVE  ~Made(p)' /\ ~Held(reader, p)'
    BY DEF FreshLeft
  <2>1. Item(f, i, j) /\ p = PairAt(f, i, j)
    BY <1>1 DEF Item, PairAt
  <2>2. Left(s, ReaderNow(s), f, i, j) /\ s \in active
    BY HandedLeft
  <2>3. ~Made(p) /\ p \in Pairs
    BY <2>1, <2>2, <1>1, <1>2, PairAtIsPair DEF FreshLeft
  <2> QED
    BY <2>3, <1>4, <1>5
<1>9. (NothingDoubled <=> InputDistinct /\ MadeDistinct /\ FreshLeft /\ FreshHeld /\ HeldOnce)'
  BY DoubledParts, PTL
<1> QED
  BY <1>3, <1>6, <1>7, <1>8, <1>9

LEMMA HandedMerge ==
  ASSUME TypesInv, MergeInOrder, Handed
  PROVE  MergeInOrder'
<1>1. /\ stage' = stage /\ chunks' = chunks /\ Produced' = Produced
      /\ reader'.key = NoKey
  BY DEF Handed
<1>2. ChunksSorted /\ RecordsGoUp /\ LeftLater /\ KeyInHand
  BY OrderParts
<1>3. ChunksSorted' /\ RecordsGoUp' /\ KeyInHand'
  BY <1>1, <1>2 DEF ChunksSorted, RecordsGoUp, KeyInHand
<1>4. LeftLater'
  <2> SUFFICES ASSUME stage = "merge", NEW s \in active', NEW c \in DOMAIN chunks[s],
                      NEW i \in DOMAIN chunks[s][c], Left(s, ReaderNow(s), s, c, i)'
               PROVE  /\ Upto(Produced[s], chunks[s][c][i][1])
                      /\ NoKey <= chunks[s][c][i][1]
    BY <1>1 DEF LeftLater
  <2>1. Left(s, ReaderNow(s), s, c, i) /\ s \in active
    BY HandedLeft
  <2>2. s \in ShuffleShards
    BY <2>1, StoredPoints
  <2>3. chunks[s] \in Seq(Seq(PairsFor(s)))
    BY <2>2 DEF TypesInv, OutputsType
  <2>4. chunks[s][c] \in Seq(PairsFor(s))
    BY <2>3, SeqAt
  <2>5. chunks[s][c][i] \in PairsFor(s)
    BY <2>4, SeqAt
  <2>6. chunks[s][c][i][1] \in Nat
    BY <2>5, PairNumbers DEF TypesInv, PairsFor
  <2>7. NoKey <= chunks[s][c][i][1]
    BY <2>6 DEF NoKey
  <2> QED
    BY <2>1, <2>7, <1>2 DEF LeftLater
<1>5. (MergeInOrder <=> ChunksSorted /\ RecordsGoUp /\ LeftLater /\ KeyInHand)'
  BY OrderParts, PTL
<1> QED
  BY <1>3, <1>4, <1>5

(* No call is made for no key. *)
LEMMA NoKeyNotCalled ==
  ASSUME TypesInv, stage = "reduce"
  PROVE  ~Called(Produced, NoKey)
<1>1. IsFiles(AllItems("reduce"), Produced)
  <2>1. stage \in WritingStages
    BY StageFacts
  <2> QED
    BY <2>1, ProducedFiles
<1> SUFFICES ASSUME NEW g \in DOMAIN Produced, NEW i \in DOMAIN Produced[g]
             PROVE  Produced[g][i][1] # NoKey
  BY DEF Called
<1>2. Produced[g] \in Seq(AllItems("reduce"))
  BY <1>1 DEF IsFiles
<1>3. Produced[g][i] \in AllItems("reduce")
  BY <1>2, SeqAt
<1>4. Produced[g][i] \in Calls
  BY <1>3 DEF AllItems, ItemsOf
<1> QED
  BY <1>4 DEF Calls

LEMMA HandedReduce ==
  ASSUME TypesInv, ReduceInOrder, Handed
  PROVE  ReduceInOrder'
<1>1. /\ stage' = stage /\ stage # "over" /\ Produced' = Produced
      /\ stage = "reduce" => written'["merge"] = written["merge"]
      /\ reader'.key = NoKey
  BY DEF Handed
<1>2. RecordsSorted /\ CallsOnce /\ NotCalledYet /\ KeyNotCalled
  BY CallParts
<1>3. RecordsSorted' /\ CallsOnce'
  BY <1>1, <1>2 DEF RecordsSorted, CallsOnce
<1>4. KeyNotCalled'
  BY <1>1, NoKeyNotCalled DEF KeyNotCalled
<1>5. NotCalledYet'
  <2> SUFFICES ASSUME stage = "reduce", NEW s \in active', NEW f \in ShuffleShards,
                      NEW i \in DOMAIN written["merge"][f], InFiles(ReaderNow(s), f, i)'
               PROVE  ~Called(Produced, written["merge"][f][i].key)
    BY <1>1 DEF NotCalledYet
  <2>1. Left(s, ReaderNow(s), f, i, 1)'
    BY <1>1 DEF Left
  <2>2. Left(s, ReaderNow(s), f, i, 1) /\ s \in active
    BY <2>1, HandedLeft
  <2> QED
    BY <2>2, <1>2 DEF NotCalledYet, Left
<1>6. (ReduceInOrder <=> RecordsSorted /\ CallsOnce /\ NotCalledYet /\ KeyNotCalled)'
  BY CallParts, PTL
<1> QED
  BY <1>3, <1>4, <1>5, <1>6

LEMMA BeginHands ==
  ASSUME TypesInv, NEW s, Begun(s)
  PROVE  Handed
<1>1. /\ serving = 0 /\ s \in active /\ serving' = s /\ s # 0
      /\ UNCHANGED <<mapped, stage, written, chunks, final, active, stored, pool, failures>>
      /\ reader'.files = stored[s].files /\ reader'.position = stored[s].position
      /\ reader'.offsets = stored[s].offsets /\ reader'.key = NoKey /\ reader'.values = <<>>
  BY DEF Begun
<1>2. Input(stage)' = Input(stage)
  BY <1>1, SameStage
<1>3. Produced' = Produced
  BY <1>1 DEF Produced
<1>4. stage # "over"
  BY <1>1, ShardsFacts DEF TypesInv, SlicesType
<1>5. 0 \notin active
  BY Shards, StoredPoints
<1>6. ASSUME NEW t \in active
      PROVE  /\ ReaderNow(t)'.files = ReaderNow(t).files
             /\ ReaderNow(t)'.position = ReaderNow(t).position
             /\ ReaderNow(t)'.offsets = ReaderNow(t).offsets
  <2>1. ReaderNow(t) = stored[t]
    BY <1>1, <1>5, <1>6 DEF ReaderNow
  <2>2. CASE t = s
    BY <2>1, <2>2, <1>1 DEF ReaderNow
  <2>3. CASE t # s
    <3>1. ReaderNow(t)' = stored[t]
      BY <2>3, <1>1 DEF ReaderNow
    <3> QED
      BY <2>1, <3>1
  <2> QED
    BY <2>2, <2>3
<1> QED
  BY <1>1, <1>2, <1>3, <1>4, <1>6 DEF Handed

LEMMA EndHands ==
  ASSUME TypesInv, NEW ext, Continues(ext) \/ Finishes(ext), failures' = 0
  PROVE  Handed /\ Pairs' = Pairs
<1>1. /\ Ended(ext) /\ serving \in active /\ serving # 0 /\ serving' = 0
      /\ reader' = NoSlice /\ pool' = NoOutput
      /\ stage' = stage /\ chunks' = chunks /\ DOMAIN ext = ShuffleShards /\ ext = pool
  BY DEF Continues, Finishes, Ended
<1>2. OutputsType
  BY DEF TypesInv
<1>3. /\ Input(stage)' = Input(stage) /\ Pairs' = Pairs
      /\ \A st \in WritingStages \ {stage} : written'[st] = written[st]
      /\ stage \in WritingStages => \A f \in ShuffleShards :
           written'[stage][f] = written[stage][f] \o pool[f]
  BY <1>1, <1>2, EndedOutput
<1>4. stage # "over" /\ stage \in {"hash", "sort", "merge", "reduce"}
  BY <1>1, ShardsFacts, StageFacts DEF TypesInv, SlicesType, OutputsType
<1>5. stage = "reduce" => written'["merge"] = written["merge"]
  BY <1>3, StageFacts
<1>6. Produced' = Produced
  <2>1. CASE stage = "sort"
    BY <2>1, <1>1 DEF Produced
  <2>2. CASE stage # "sort"
    <3>1. stage \in WritingStages
      BY <2>2, <1>4, StageFacts
    <3>2. PICK w, v : w = written[stage] /\ v = written'[stage]
      OBVIOUS
    <3>3. \A f \in ShuffleShards : v[f] = w[f] \o pool[f] /\ v[f] \o <<>> = v[f]
      <4> SUFFICES ASSUME NEW f \in ShuffleShards
                   PROVE  v[f] = w[f] \o pool[f] /\ v[f] \o <<>> = v[f]
        OBVIOUS
      <4>1. v[f] = w[f] \o pool[f]
        BY <3>1, <3>2, <1>3
      <4>2. PICK S : S = AllItems(stage)
        OBVIOUS
      <4>3. w[f] \in Seq(S) /\ pool[f] \in Seq(S)
        BY <3>1, <3>2, <4>2, <1>2, WrittenFiles DEF IsFiles
      <4>4. v[f] \in Seq(S)
        BY <4>1, <4>3, ConcatProperties
      <4> QED
        BY <4>1, <4>4
    <3>4. Produced' = [f \in ShuffleShards |-> v[f] \o <<>>]
      <4>1. \A f \in ShuffleShards : pool'[f] = <<>>
        BY <1>1 DEF NoOutput
      <4> QED
        BY <4>1, <2>2, <3>2, <1>1 DEF Produced
    <3>5. Produced = [f \in ShuffleShards |-> w[f] \o pool[f]]
      BY <2>2, <3>2 DEF Produced
    <3> QED
      BY <3>3, <3>4, <3>5
  <2> QED
    BY <2>1, <2>2
<1>7. 0 \notin active /\ stored \in [ShuffleShards -> Readers] /\ active \subseteq ShuffleShards
      /\ reader \in Readers
  BY <1>1, Shards, StoredPoints, ServedPoints DEF TypesInv
<1>8. active' \subseteq active
  BY DEF Continues, Finishes
<1>9. ASSUME NEW t \in active'
      PROVE  /\ ReaderNow(t)'.files = ReaderNow(t).files
             /\ ReaderNow(t)'.position = ReaderNow(t).position
             /\ ReaderNow(t)'.offsets = ReaderNow(t).offsets
  <2>1. t # 0 /\ t \in ShuffleShards
    BY <1>7, <1>8
  <2>2. ReaderNow(t)' = stored'[t]
    BY <2>1, <1>1 DEF ReaderNow
  <2>3. CASE t = serving
    <3>1. Continues(ext)
      BY <2>3 DEF Finishes, Continues
    <3>2. stored'[t] = [reader EXCEPT !.some = FALSE]
      BY <2>1, <2>3, <3>1, <1>7 DEF Continues
    <3>3. ReaderNow(t) = reader
      BY <2>3 DEF ReaderNow
    <3> QED
      BY <2>2, <3>2, <3>3, <1>7 DEF Readers
  <2>4. CASE t # serving
    <3>1. stored'[t] = stored[t]
      BY <2>1, <2>4, <1>7 DEF Continues, Finishes
    <3>2. ReaderNow(t) = stored[t]
      BY <2>4 DEF ReaderNow
    <3> QED
      BY <2>2, <3>1, <3>2
  <2> QED
    BY <2>3, <2>4
<1> QED
  BY <1>1, <1>3, <1>4, <1>5, <1>6, <1>8, <1>9, NoSliceType DEF Handed

-----------------------------------------------------------------------------
(* A job starts with nothing produced, and readers of different files.     *)

StartFiles(s) ==
  CASE stage = "hash" -> Dealt(Len(mapped), NumShards, s) [] stage = "sort" -> <<s>>
    [] stage = "reduce" -> Dealt(NumShards, ReduceShards, s) [] OTHER -> <<>>

Started ==
  /\ TypesInv /\ serving = 0
  /\ DOMAIN Produced = ShuffleShards
  /\ stage # "over" => \A f \in ShuffleShards : Produced[f] = <<>>
  /\ \A s \in active : stored[s].files = StartFiles(s)
  /\ InputDistinct /\ ChunksSorted /\ RecordsSorted
  /\ stage = "over" => CalledOnce(written["reduce"])

CleanInv == FilesApart /\ NothingDoubled /\ MergeInOrder /\ ReduceInOrder

LEMMA StartApart == Started => FilesApart
<1> SUFFICES ASSUME Started, NEW s \in active, NEW t \in active,
                    NEW m \in DOMAIN ReaderNow(s).files, NEW n \in DOMAIN ReaderNow(t).files,
                    ReaderNow(s).files[m] = ReaderNow(t).files[n]
             PROVE  s = t /\ m = n
  BY DEF FilesApart
<1>1. TypesInv /\ serving = 0
  BY DEF Started
<1>2. s \in ShuffleShards /\ t \in ShuffleShards
  BY <1>1, StoredPoints
<1>3. ReaderNow(s).files = StartFiles(s) /\ ReaderNow(t).files = StartFiles(t)
  BY <1>1, <1>2, Shards DEF Started, ReaderNow
<1>4. PICK a, b : a = StartFiles(s) /\ b = StartFiles(t)
  OBVIOUS
<1>5. m \in DOMAIN a /\ n \in DOMAIN b /\ a[m] = b[n]
  BY <1>3, <1>4
<1>6. CASE stage = "hash"
  <2>1. PICK c : c = Len(mapped)
    OBVIOUS
  <2>2. mapped \in Seq(Seq(Pairs))
    BY <1>1, MappedType DEF TypesInv, OutputsType
  <2>3. c \in Nat /\ NumShards \in Nat \ {0} /\ s \in 1..NumShards /\ t \in 1..NumShards
    BY <2>1, <2>2, <1>2, LenProperties, Shards
  <2>4. a = Dealt(c, NumShards, s) /\ b = Dealt(c, NumShards, t)
    BY <2>1, <1>4, <1>6 DEF StartFiles
  <2> QED
    BY <2>3, <2>4, <1>5, DealtApart
<1>7. CASE stage = "reduce"
  <2>1. /\ NumShards \in Nat /\ ReduceShards \in Nat \ {0}
        /\ s \in 1..ReduceShards /\ t \in 1..ReduceShards
    BY <1>1, <1>7, Shards, ShardsFacts DEF TypesInv, SlicesType
  <2>2. a = Dealt(NumShards, ReduceShards, s) /\ b = Dealt(NumShards, ReduceShards, t)
    BY <1>4, <1>7 DEF StartFiles
  <2> QED
    BY <2>1, <2>2, <1>5, DealtApart
<1>8. CASE stage = "sort"
  <2>1. a = <<s>> /\ b = <<t>>
    BY <1>4, <1>8 DEF StartFiles
  <2> QED
    BY <2>1, <1>5
<1>9. CASE stage \notin {"hash", "reduce", "sort"}
  <2>1. a = <<>>
    BY <1>4, <1>9 DEF StartFiles
  <2> QED
    BY <2>1, <1>5
<1> QED
  BY <1>6, <1>7, <1>8, <1>9

LEMMA EmptyFiles ==
  ASSUME NEW files, \A f \in DOMAIN files : files[f] = <<>>
  PROVE  /\ \A st, p : ~Has(st, files, p)
         /\ \A st : Distinct(st, files)
         /\ \A key : ~Called(files, key)
         /\ CalledOnce(files)
         /\ \A f \in DOMAIN files : KeysGoUp(files[f]) /\ \A key : Upto(files[f], key)
<1>1. \A f \in DOMAIN files : DOMAIN files[f] = {} /\ ValuesOf(files[f]) = {}
  BY DEF ValuesOf
<1> QED
  BY <1>1 DEF Has, Distinct, Called, CalledOnce, KeysGoUp, Upto

LEMMA StartDoubled == Started => NothingDoubled
<1> SUFFICES ASSUME Started PROVE NothingDoubled
  OBVIOUS
<1>1. TypesInv /\ serving = 0 /\ InputDistinct
  BY DEF Started
<1>2. reader.key = NoKey /\ reader.values = <<>>
  BY <1>1, NoSliceType DEF TypesInv, SlicesType
<1>3. ASSUME NEW p \in Pairs PROVE ~Held(reader, p)
  <2>1. p[1] # NoKey
    BY <1>1, PairNumbers DEF TypesInv
  <2> QED
    BY <2>1, <1>2 DEF Held
<1>4. stage # "over" =>
        /\ \A p : ~Made(p)
        /\ Distinct(Follows[stage], Produced)
  <2> SUFFICES ASSUME stage # "over"
               PROVE  (\A p : ~Made(p)) /\ Distinct(Follows[stage], Produced)
    OBVIOUS
  <2>1. PICK P, st : P = Produced /\ st = Follows[stage]
    OBVIOUS
  <2>2. \A f \in DOMAIN P : P[f] = <<>>
    BY <2>1 DEF Started
  <2>3. (\A p : ~Has(st, P, p)) /\ Distinct(st, P)
    BY <2>2, EmptyFiles
  <2> QED
    BY <2>1, <2>3 DEF Made
<1>5. MadeDistinct /\ FreshHeld /\ HeldOnce
  <2>1. MadeDistinct
    BY <1>4 DEF MadeDistinct
  <2>2. FreshHeld
    BY <1>3 DEF FreshHeld
  <2>3. HeldOnce
    BY <1>2 DEF HeldOnce
  <2> QED
    BY <2>1, <2>2, <2>3
<1>6. FreshLeft
  <2> SUFFICES ASSUME stage # "over", NEW f, NEW i, NEW j, NEW p, Item(f, i, j),
                      p = PairAt(f, i, j)
               PROVE  ~Made(p) /\ ~Held(reader, p)
    BY DEF FreshLeft
  <2>1. p \in Pairs
    BY <1>1, PairAtIsPair
  <2> QED
    BY <2>1, <1>3, <1>4
<1> QED
  BY <1>1, <1>5, <1>6, DoubledParts

LEMMA StartOrder == Started => MergeInOrder /\ ReduceInOrder
<1> SUFFICES ASSUME Started PROVE MergeInOrder /\ ReduceInOrder
  OBVIOUS
<1>1. TypesInv /\ serving = 0 /\ ChunksSorted /\ RecordsSorted
  BY DEF Started
<1>2. PICK P : P = Produced
  OBVIOUS
<1>3. ASSUME stage # "over"
      PROVE  /\ DOMAIN P = ShuffleShards
             /\ \A key : ~Called(P, key)
             /\ CalledOnce(P)
             /\ \A f \in DOMAIN P : KeysGoUp(P[f]) /\ \A key : Upto(P[f], key)
  <2>1. DOMAIN P = ShuffleShards /\ \A f \in DOMAIN P : P[f] = <<>>
    BY <1>2, <1>3 DEF Started
  <2> QED
    BY <2>1, EmptyFiles
<1>4. active \subseteq ShuffleShards
  BY <1>1, StoredPoints
<1>5. 0 \notin active
  BY <1>4, Shards
<1>6. RecordsGoUp /\ LeftLater /\ KeyInHand
  <2>1. RecordsGoUp
    BY <1>2, <1>3 DEF RecordsGoUp
  <2>2. LeftLater
    BY <1>1, <1>2, <1>3, <1>4, <1>5 DEF LeftLater
  <2>3. KeyInHand
    BY <1>1 DEF KeyInHand
  <2> QED
    BY <2>1, <2>2, <2>3
<1>7. CallsOnce /\ NotCalledYet /\ KeyNotCalled
  <2>1. CallsOnce
    BY <1>2, <1>3 DEF CallsOnce, Started
  <2>2. NotCalledYet
    BY <1>2, <1>3 DEF NotCalledYet
  <2>3. KeyNotCalled
    BY <1>2, <1>3 DEF KeyNotCalled
  <2> QED
    BY <2>1, <2>2, <2>3
<1> QED
  BY <1>1, <1>6, <1>7, OrderParts, CallParts

LEMMA StartClean == Started => CleanInv
  BY StartApart, StartDoubled, StartOrder DEF CleanInv

(* What is said of files is said of their contents. *)
LEMMA SameFiles ==
  ASSUME NEW a, NEW b, DOMAIN a = DOMAIN b, \A f \in DOMAIN a : a[f] = b[f]
  PROVE  /\ \A st : Distinct(st, a) => Distinct(st, b)
         /\ CalledOnce(a) => CalledOnce(b)
  BY DEF Distinct, CalledOnce

(* Between slices all that is produced is in the files. *)
LEMMA AllFlushed ==
  ASSUME TypesInv, serving = 0, stage # "over"
  PROVE  /\ DOMAIN Output = ShuffleShards /\ DOMAIN Produced = ShuffleShards
         /\ \A f \in ShuffleShards : Produced[f] = Output[f]
<1>1. OutputsType /\ \A f \in ShuffleShards : pool[f] = <<>>
  BY DEF TypesInv, SlicesType, NoOutput
<1>2. CASE stage = "sort"
  BY <1>1, <1>2, StageFacts DEF OutputsType
<1>3. CASE stage # "sort"
  <2>1. stage \in WritingStages
    BY <1>1, <1>3, StageFacts DEF OutputsType
  <2>2. PICK w : w = written[stage]
    OBVIOUS
  <2>3. /\ DOMAIN w = ShuffleShards
        /\ \A f \in ShuffleShards : w[f] \in Seq(AllItems(stage))
    BY <2>1, <2>2, <1>1, WrittenFiles DEF IsFiles
  <2>4. Output = w /\ Produced = [f \in ShuffleShards |-> w[f] \o pool[f]]
    BY <2>2, <1>3 DEF Output, Produced
  <2>5. \A f \in ShuffleShards : w[f] \o <<>> = w[f]
    BY <2>3
  <2>6. DOMAIN Produced = ShuffleShards
        /\ \A f \in ShuffleShards : Produced[f] = w[f] \o pool[f]
    BY <2>4
  <2> QED
    BY <2>3, <2>4, <2>5, <2>6, <1>1
<1> QED
  BY <1>2, <1>3

LEMMA AdvanceClean ==
  ASSUME TypesInv, CleanInv, Advanced, TypesInv'
  PROVE  CleanInv'
<1>1. /\ serving = 0 /\ serving' = 0 /\ active = {}
      /\ stage \in {"hash", "sort", "merge", "reduce"}
      /\ stage' = Follows[stage] /\ active' = ShardsOf(stage')
      /\ UNCHANGED <<mapped, written, chunks, pool>>
      /\ Input(stage)' = Output
      /\ \A s \in active' :
           /\ stage' = "sort" => stored'[s].files = <<s>>
           /\ stage' = "merge" => stored'[s].files = <<>>
           /\ stage' = "reduce" => stored'[s].files = Dealt(NumShards, ReduceShards, s)
  BY DEF Advanced
<1>2. FilesApart /\ NothingDoubled /\ MergeInOrder /\ ReduceInOrder
  BY DEF CleanInv
<1>3. /\ MadeDistinct /\ ChunksSorted /\ RecordsGoUp /\ CallsOnce
  BY <1>2, DoubledParts, OrderParts, CallParts
<1>4. /\ DOMAIN Output = ShuffleShards /\ DOMAIN Produced = ShuffleShards
      /\ \A f \in ShuffleShards : Produced[f] = Output[f]
  BY <1>1, AllFlushed
<1>5. OutputsType /\ pool = NoOutput
  BY <1>1 DEF TypesInv, SlicesType
<1>6. /\ stage = "hash" => stage' = "sort"
      /\ stage = "sort" => stage' = "merge"
      /\ stage = "merge" => stage' = "reduce"
      /\ stage = "reduce" => stage' = "over"
  BY <1>1, StageFacts
<1>7. InputDistinct'
  <2>1. PICK a, b, st : a = Produced /\ b = Output /\ st = Follows[stage]
    OBVIOUS
  <2>2. Distinct(st, a)
    BY <2>1, <1>1, <1>3 DEF MadeDistinct
  <2>3. Distinct(st, b)
    BY <2>1, <2>2, <1>4, SameFiles
  <2> QED
    BY <2>1, <2>3, <1>1 DEF InputDistinct
<1>8. /\ DOMAIN Produced' = ShuffleShards
      /\ stage' # "over" => \A f \in ShuffleShards : Produced'[f] = <<>>
  <2>1. CASE stage = "hash"
    <3>1. Produced' = NoOutput
      BY <2>1, <1>1, <1>5, <1>6 DEF Produced, OutputsType
    <3> QED
      BY <3>1 DEF NoOutput
  <2>2. CASE stage # "hash"
    <3>1. PICK w : w = written'[stage']
      OBVIOUS
    <3>2. Produced' = [f \in ShuffleShards |-> w[f] \o pool'[f]]
      BY <2>2, <3>1, <1>1, <1>6 DEF Produced
    <3>3. stage' # "over" => w = NoOutput
      BY <2>2, <3>1, <1>1, <1>5, <1>6 DEF OutputsType
    <3>4. \A f \in ShuffleShards : NoOutput[f] = <<>>
      BY DEF NoOutput
    <3>5. DOMAIN Produced' = ShuffleShards
          /\ \A f \in ShuffleShards : Produced'[f] = w[f] \o pool'[f]
      BY <3>2
    <3>6. <<>> \o <<>> = <<>>
      OBVIOUS
    <3> QED
      BY <3>3, <3>4, <3>5, <3>6, <1>1, <1>5
  <2> QED
    BY <2>1, <2>2
<1>9. \A s \in active' : stored'[s].files = StartFiles(s)'
  <2> SUFFICES ASSUME NEW s \in active' PROVE stored'[s].files = StartFiles(s)'
    OBVIOUS
  <2>1. stage' # "over"
    BY <1>1, ShardsFacts
  <2> QED
    BY <2>1, <1>1, <1>6 DEF StartFiles
<1>10. ChunksSorted'
  <2>1. CASE stage = "hash"
    <3>1. \A f \in ShuffleShards : chunks'[f] = <<>>
      BY <2>1, <1>1, <1>5 DEF OutputsType, NoOutput
    <3> QED
      BY <3>1 DEF ChunksSorted
  <2>2. CASE stage = "sort"
    BY <2>2, <1>1, <1>3 DEF ChunksSorted
  <2>3. CASE stage \in {"merge", "reduce"}
    BY <2>3, <1>6 DEF ChunksSorted
  <2> QED
    BY <2>1, <2>2, <2>3, <1>1
<1>11. RecordsSorted'
  <2> SUFFICES ASSUME stage' = "reduce", NEW f \in ShuffleShards
               PROVE  KeysGoUp(written["merge"][f])
    BY <1>1 DEF RecordsSorted
  <2>1. stage = "merge"
    BY <1>1, <1>6
  <2>2. KeysGoUp(Produced[f]) /\ Produced[f] = written["merge"][f]
    BY <2>1, <1>3, <1>4, StageFacts DEF RecordsGoUp
  <2> QED
    BY <2>2
<1>12. stage' = "over" => CalledOnce(written'["reduce"])
  <2> SUFFICES ASSUME stage' = "over" PROVE CalledOnce(written["reduce"])
    BY <1>1
  <2>1. stage = "reduce"
    BY <1>1, <1>6
  <2>2. PICK a, b : a = Produced /\ b = Output
    OBVIOUS
  <2>3. CalledOnce(a) /\ b = written["reduce"]
    BY <2>1, <2>2, <1>3, StageFacts DEF CallsOnce
  <2> QED
    BY <2>2, <2>3, <1>4, SameFiles
<1>13. Started'
  BY <1>1, <1>7, <1>8, <1>9, <1>10, <1>11, <1>12 DEF Started
<1>14. (Started => CleanInv)'
  BY StartClean, PTL
<1> QED
  BY <1>13, <1>14

LEMMA InitClean ==
  ASSUME ShuffleInit
  PROVE  CleanInv
<1>1. /\ mapped \in MapOutputs /\ stage = "hash"
      /\ written = [st \in WritingStages |-> [f \in ShuffleShards |-> <<>>]]
      /\ active = ShuffleShards /\ serving = 0 /\ pool = NoOutput
      /\ stored = [s \in ShuffleShards |-> NewReader(Dealt(Len(mapped), NumShards, s), <<>>)]
  BY DEF ShuffleInit
<1>2. TypesInv
  BY InitTypes
<1>3. /\ DOMAIN Produced = ShuffleShards
      /\ \A f \in ShuffleShards : Produced[f] = <<>>
  <2>1. written["hash"] = NoOutput
    BY <1>1, StageFacts DEF NoOutput
  <2>2. <<>> \o <<>> = <<>> /\ \A f \in ShuffleShards : NoOutput[f] = <<>>
    BY DEF NoOutput
  <2>3. Produced = [f \in ShuffleShards |-> NoOutput[f] \o NoOutput[f]]
    BY <2>1, <1>1, StageFacts
  <2> QED
    BY <2>2, <2>3
<1>4. \A s \in active : stored[s].files = StartFiles(s)
  BY <1>1 DEF StartFiles, NewReader
<1>5. InputDistinct
  <2>1. \A f, g \in DOMAIN mapped : \A i \in DOMAIN mapped[f], k \in DOMAIN mapped[g] :
          mapped[f][i] = mapped[g][k] => f = g /\ i = k
    BY <1>1, ShuffleAssumption
  <2>2. Input(stage) = mapped
    BY <1>1, StageFacts
  <2>3. \A x : PairsOf("hash", x) = <<x>>
    BY PairsFacts
  <2> SUFFICES ASSUME NEW f \in DOMAIN mapped, NEW g \in DOMAIN mapped,
                      NEW i \in DOMAIN mapped[f], NEW k \in DOMAIN mapped[g],
                      NEW j \in DOMAIN PairsOf("hash", mapped[f][i]),
                      NEW l \in DOMAIN PairsOf("hash", mapped[g][k]),
                      PairsOf("hash", mapped[f][i])[j] = PairsOf("hash", mapped[g][k])[l]
               PROVE  f = g /\ i = k /\ j = l
    BY <2>2, <1>1 DEF InputDistinct, Distinct
  <2>4. PICK x, y : x = mapped[f][i] /\ y = mapped[g][k]
    OBVIOUS
  <2>5. j \in DOMAIN <<x>> /\ l \in DOMAIN <<y>> /\ <<x>>[j] = <<y>>[l]
    BY <2>3, <2>4
  <2>6. j = 1 /\ l = 1 /\ x = y
    BY <2>5
  <2>7. mapped[f][i] = mapped[g][k]
    BY <2>4, <2>6
  <2>8. f = g /\ i = k
    BY <2>1, <2>7
  <2> QED
    BY <2>6, <2>8
<1>6. ChunksSorted /\ RecordsSorted
  BY <1>1 DEF ChunksSorted, RecordsSorted
<1>7. Started
  BY <1>1, <1>2, <1>3, <1>4, <1>5, <1>6 DEF Started
<1> QED
  BY <1>7, StartClean

LEMMA CleanStutter ==
  ASSUME CleanInv, UNCHANGED shuffleVars
  PROVE  CleanInv'
<1>1. UNCHANGED <<mapped, stage, written, chunks, active, stored, serving, reader, pool>>
  BY DEF shuffleVars
<1>2. /\ Input(stage)' = Input(stage) /\ Pairs' = Pairs
      /\ Produced' = Produced
      /\ \A s : ReaderNow(s)' = ReaderNow(s)
  BY <1>1, SameStage DEF Produced, ReaderNow
<1>3. /\ \A s, f, i, j : Left(s, ReaderNow(s), f, i, j)' <=> Left(s, ReaderNow(s), f, i, j)
      /\ \A p : Held(reader, p)' <=> Held(reader, p)
  BY <1>1, <1>2 DEF Left, InFiles, Held
<1>4. FilesApart /\ NothingDoubled /\ MergeInOrder /\ ReduceInOrder
  BY DEF CleanInv
<1>5. FilesApart'
  BY <1>1, <1>2, <1>4 DEF FilesApart
<1>6. NothingDoubled'
  <2>1. InputDistinct /\ MadeDistinct /\ FreshLeft /\ FreshHeld /\ HeldOnce
    BY <1>4, DoubledParts
  <2>2. InputDistinct' /\ MadeDistinct' /\ HeldOnce'
    BY <2>1, <1>1, <1>2 DEF InputDistinct, MadeDistinct, HeldOnce
  <2>3. /\ \A p : Made(p)' <=> Made(p)
        /\ \A f, i, j : /\ Item(f, i, j)' <=> Item(f, i, j)
                        /\ PairAt(f, i, j)' = PairAt(f, i, j)
    BY <1>1, <1>2 DEF Made, Item, PairAt
  <2>4. FreshHeld'
    BY <2>1, <2>3, <1>1, <1>2, <1>3 DEF FreshHeld
  <2>5. FreshLeft'
    BY <2>1, <2>3, <1>1, <1>3 DEF FreshLeft
  <2>6. (NothingDoubled <=> InputDistinct /\ MadeDistinct /\ FreshLeft /\ FreshHeld /\ HeldOnce)'
    BY DoubledParts, PTL
  <2> QED
    BY <2>2, <2>4, <2>5, <2>6
<1>7. MergeInOrder'
  <2>1. ChunksSorted /\ RecordsGoUp /\ LeftLater /\ KeyInHand
    BY <1>4, OrderParts
  <2>2. ChunksSorted' /\ RecordsGoUp' /\ KeyInHand'
    BY <2>1, <1>1, <1>2 DEF ChunksSorted, RecordsGoUp, KeyInHand
  <2>3. LeftLater'
    BY <2>1, <1>1, <1>2, <1>3 DEF LeftLater
  <2>4. (MergeInOrder <=> ChunksSorted /\ RecordsGoUp /\ LeftLater /\ KeyInHand)'
    BY OrderParts, PTL
  <2> QED
    BY <2>2, <2>3, <2>4
<1>8. ReduceInOrder'
  <2>1. RecordsSorted /\ CallsOnce /\ NotCalledYet /\ KeyNotCalled
    BY <1>4, CallParts
  <2>2. RecordsSorted' /\ CallsOnce' /\ KeyNotCalled'
    BY <2>1, <1>1, <1>2 DEF RecordsSorted, CallsOnce, KeyNotCalled
  <2>3. \A s, f, i : InFiles(ReaderNow(s), f, i)' <=> InFiles(ReaderNow(s), f, i)
    BY <1>2 DEF InFiles
  <2>4. NotCalledYet'
    BY <2>1, <2>3, <1>1, <1>2 DEF NotCalledYet
  <2>5. (ReduceInOrder <=> RecordsSorted /\ CallsOnce /\ NotCalledYet /\ KeyNotCalled)'
    BY CallParts, PTL
  <2> QED
    BY <2>2, <2>4, <2>5
<1> QED
  BY <1>5, <1>6, <1>7, <1>8 DEF CleanInv

(* Failures are counted, and only counted up. *)
LEMMA FailuresGrow ==
  ASSUME TypesInv, [ShuffleNext]_shuffleVars, failures' = 0
  PROVE  failures = 0 /\ ~EndUnrecorded /\ ~FailSlice
<1>1. failures \in Nat
  BY Shards DEF TypesInv, SlicesType
<1>2. ASSUME EndUnrecorded PROVE FALSE
  <2>1. PICK ext : Repeats(ext)
    BY <1>2, RepeatStep
  <2> QED
    BY <2>1 DEF Repeats
<1>3. ASSUME FailSlice PROVE FALSE
  <2>1. PICK ext : Repeats(ext)
    BY <1>3, RepeatStep
  <2> QED
    BY <2>1 DEF Repeats
<1>4. ASSUME SortBatch PROVE failures = 0
  <2>1. failures' = failures \/ failures' = failures + 1
    BY <1>4 DEF SortBatch
  <2> QED
    BY <2>1, <1>1
<1>5. ASSUME EndShuffleSlice \/ EndShard PROVE failures = 0
  <2>1. PICK ext : Continues(ext) \/ Finishes(ext)
    BY <1>5, ContinueStep, FinishStep
  <2> QED
    BY <2>1 DEF Continues, Finishes, Ended
<1>6. ASSUME \/ \E s \in ShuffleShards : BeginSlice(s)
             \/ HashRecord \/ MergeYield \/ MergeTake \/ ReduceRecord \/ NextFile
             \/ NextStage \/ UNCHANGED shuffleVars
      PROVE  failures' = failures
  BY <1>6 DEF BeginSlice, HashRecord, MergeYield, MergeTake, ReduceRecord, NextFile, NextStage,
              shuffleVars
<1> QED
  BY <1>2, <1>3, <1>4, <1>5, <1>6 DEF ShuffleNext

LEMMA CleanNext ==
  ASSUME TypesInv, CleanInv, [ShuffleNext]_shuffleVars, failures' = 0
  PROVE  CleanInv'
<1>1. FilesApart /\ NothingDoubled /\ MergeInOrder /\ ReduceInOrder
  BY DEF CleanInv
<1>2. ~EndUnrecorded /\ ~FailSlice
  BY FailuresGrow
<1>3. ASSUME NEW s \in ShuffleShards, BeginSlice(s) PROVE CleanInv'
  <2>1. Begun(s) /\ Handed
    BY <1>3, BeginStep, BeginHands
  <2>2. Pairs' = Pairs
    BY <2>1, SameStage DEF Begun
  <2> QED
    BY <2>1, <2>2, <1>1, HandedDoubled, HandedMerge, HandedReduce DEF CleanInv
<1>4. CASE HashRecord
  <2>1. stage = "hash" /\ Reading /\ chunks' = chunks
    BY <1>4 DEF HashRecord, Reading
  <2>2. stage # "merge" /\ stage # "reduce"
    BY <2>1
  <2> QED
    BY <2>1, <2>2, <1>1, <1>4, HashDoubled, OtherOrders DEF CleanInv
<1>5. CASE SortBatch
  <2>1. stage = "sort" /\ Reading
    BY <1>5 DEF SortBatch, Reading
  <2>2. stage # "reduce"
    BY <2>1
  <2> QED
    BY <2>1, <2>2, <1>1, <1>5, SortDoubled, SortOrder, OtherOrders DEF CleanInv
<1>6. CASE MergeYield
  <2>1. stage = "merge" /\ Reading
    BY <1>6 DEF MergeYield, Reading
  <2>2. stage # "reduce"
    BY <2>1
  <2> QED
    BY <2>1, <2>2, <1>1, <1>6, YieldDoubled, YieldOrder, OtherOrders DEF CleanInv
<1>7. CASE MergeTake
  <2>1. stage = "merge" /\ Reading
    BY <1>7 DEF MergeTake, Reading
  <2>2. stage # "reduce"
    BY <2>1
  <2> QED
    BY <2>1, <2>2, <1>1, <1>7, TakeDoubled, TakeOrder, OtherOrders DEF CleanInv
<1>8. CASE ReduceRecord
  <2>1. stage = "reduce" /\ Reading /\ chunks' = chunks
    BY <1>8 DEF ReduceRecord, Reading
  <2>2. stage # "merge"
    BY <2>1
  <2> QED
    BY <2>1, <2>2, <1>1, <1>8, ReduceDoubled, ReduceOrder, OtherOrders DEF CleanInv
<1>9. CASE NextFile
  <2>1. ReadsFiles /\ Reading /\ chunks' = chunks
    BY <1>9, FileStep DEF FileEnded
  <2>2. stage # "merge"
    BY <2>1 DEF ReadsFiles
  <2> QED
    BY <2>1, <2>2, <1>1, <1>9, FileDoubled, FileOrder, OtherOrders DEF CleanInv
<1>10. CASE EndShuffleSlice \/ EndShard
  <2>1. PICK ext : Continues(ext) \/ Finishes(ext)
    BY <1>10, ContinueStep, FinishStep
  <2>2. Handed /\ Pairs' = Pairs
    BY <2>1, EndHands
  <2> QED
    BY <2>2, <1>1, HandedDoubled, HandedMerge, HandedReduce DEF CleanInv
<1>11. CASE NextStage
  BY <1>11, AdvanceStep, AdvanceClean
<1>12. CASE UNCHANGED shuffleVars
  BY <1>12, CleanStutter
<1> QED
  BY <1>2, <1>3, <1>4, <1>5, <1>6, <1>7, <1>8, <1>9, <1>10, <1>11, <1>12 DEF ShuffleNext

LEMMA InvariantParts ==
  ShuffleInv <=> TypesInv /\ PartialsInv /\ NothingLost /\ (failures = 0 => CleanInv)
  BY DEF ShuffleInv, CleanInv

(* The types, the partial records, that no pair is lost and, as long as    *)
(* nothing fails, that none is doubled and that keys go up, are together   *)
(* an invariant of the shuffle, whatever slices are cut or repeated.       *)
THEOREM ShuffleInvariance == ShuffleSpec => []ShuffleInv
<1>1. ShuffleInit => ShuffleInv
  BY InitTypes, InitPartials, InitLost, InitClean, InvariantParts
<1>2. ShuffleInv /\ [ShuffleNext]_shuffleVars => ShuffleInv'
  <2> SUFFICES ASSUME ShuffleInv, [ShuffleNext]_shuffleVars PROVE ShuffleInv'
    OBVIOUS
  <2>1. TypesInv /\ PartialsInv /\ NothingLost /\ (failures = 0 => CleanInv)
    BY InvariantParts
  <2>2. TypesInv' /\ PartialsInv' /\ NothingLost'
    BY <2>1, TypesNext, PartialsNext, LostNext
  <2>3. ASSUME failures' = 0 PROVE CleanInv'
    BY <2>1, <2>3, FailuresGrow, CleanNext
  <2>4. (ShuffleInv <=> TypesInv /\ PartialsInv /\ NothingLost /\ (failures = 0 => CleanInv))'
    BY InvariantParts, PTL
  <2> QED
    BY <2>2, <2>3, <2>4
<1> QED
  BY <1>1, <1>2, PTL DEF ShuffleSpec

-----------------------------------------------------------------------------
(* What the invariant says at the end.                                     *)

LEMMA CountBijection ==
  ASSUME NEW S, NEW n \in Nat, NEW f, f \in [1..n -> S],
         \A a, b \in 1..n : f[a] = f[b] => a = b,
         \A s \in S : \E a \in 1..n : f[a] = s
  PROVE  Cardinality(S) = n
<1>1. f \in Injection(1..n, S)
  BY DEF Injection, IsInjective
<1>2. f \in Surjection(1..n, S)
  BY DEF Surjection
<1>3. ExistsBijection(1..n, S)
  BY <1>1, <1>2 DEF Bijection, ExistsBijection
<1> QED
  BY <1>3, FS_CountingElements

LEMMA AllCalled ==
  ASSUME TypesInv, NothingLost, stage = "over", ~dropped, NEW p \in Pairs
  PROVE  \E c \in Reduced : Call(c)[1] = p[1] /\ p[2] \in ValuesOf(Call(c)[2])
<1>1. InputWhole
  BY LostParts
<1>2. Has("over", written["reduce"], p)
  BY <1>1, StageFacts DEF InputWhole
<1>3. DOMAIN written["reduce"] = ShuffleShards
  BY StageFacts DEF TypesInv, OutputsType
<1>4. PICK f \in ShuffleShards : \E x \in ValuesOf(written["reduce"][f]) :
        p \in ValuesOf(PairsOf("over", x))
  BY <1>2, <1>3 DEF Has
<1>5. PICK i \in DOMAIN written["reduce"][f] :
        p \in ValuesOf(PairsOf("over", written["reduce"][f][i]))
  BY <1>4 DEF ValuesOf
<1>6. PICK x : x = written["reduce"][f][i]
  OBVIOUS
<1>7. p \in ValuesOf([j \in DOMAIN x[2] |-> <<x[1], x[2][j]>>])
  <2>1. PairsOf("over", x) = [j \in DOMAIN x[2] |-> <<x[1], x[2][j]>>]
    BY PairsFacts
  <2> QED
    BY <2>1, <1>5, <1>6
<1>8. PICK j \in DOMAIN x[2] : p = <<x[1], x[2][j]>>
  BY <1>7 DEF ValuesOf
<1>9. p[1] = x[1] /\ p[2] \in ValuesOf(x[2])
  BY <1>8 DEF ValuesOf
<1>10. PICK c : c = <<f, i>>
  OBVIOUS
<1>11. c \in Reduced
  BY <1>10 DEF Reduced
<1>12. Call(c) = x
  BY <1>6, <1>10 DEF Call
<1> QED
  BY <1>9, <1>11, <1>12

LEMMA CalledWithAll ==
  ASSUME TypesInv, NothingLost, CleanInv, stage = "over", ~dropped, NEW c \in Reduced
  PROVE  /\ \A d \in Reduced : Call(c)[1] = Call(d)[1] => c = d
         /\ Len(Call(c)[2]) = Cardinality({p \in Pairs : p[1] = Call(c)[1]})
<1>1. PICK w : w = written["reduce"]
  OBVIOUS
<1>2. DOMAIN w = ShuffleShards /\ \A f \in ShuffleShards : w[f] \in Seq(Calls)
  BY <1>1, StageFacts DEF TypesInv, OutputsType, ItemsOf
<1>3. CalledOnce(w) /\ Distinct("over", w)
  <2>1. CallsOnce /\ InputDistinct
    BY CallParts, DoubledParts DEF CleanInv
  <2> QED
    BY <2>1, <1>1, StageFacts DEF CallsOnce, InputDistinct
<1>4. ASSUME NEW d \in Reduced
      PROVE  \E f \in ShuffleShards : \E i \in DOMAIN w[f] : d = <<f, i>> /\ Call(d) = w[f][i]
  <2>1. PICK f \in ShuffleShards : d \in {<<f, i>> : i \in DOMAIN w[f]}
    BY <1>1 DEF Reduced
  <2>2. PICK i \in DOMAIN w[f] : d = <<f, i>>
    BY <2>1
  <2> QED
    BY <2>2, <1>1 DEF Call
<1>0. PICK f \in ShuffleShards : \E i \in DOMAIN w[f] : c = <<f, i>> /\ Call(c) = w[f][i]
  BY <1>4
<1>5. PICK i \in DOMAIN w[f] : c = <<f, i>> /\ Call(c) = w[f][i]
  BY <1>0
<1>6. ASSUME NEW d \in Reduced, Call(c)[1] = Call(d)[1] PROVE c = d
  <2>0. PICK g \in ShuffleShards : \E k \in DOMAIN w[g] : d = <<g, k>> /\ Call(d) = w[g][k]
    BY <1>4
  <2>1. PICK k \in DOMAIN w[g] : d = <<g, k>> /\ Call(d) = w[g][k]
    BY <2>0
  <2>2. f = g /\ i = k
    BY <2>1, <1>2, <1>3, <1>5, <1>6 DEF CalledOnce
  <2> QED
    BY <2>1, <2>2, <1>5
<1>7. PICK k, vs : k = Call(c)[1] /\ vs = Call(c)[2]
  OBVIOUS
<1>8. /\ vs \in Seq(Nat)
      /\ \A v \in ValuesOf(vs) : <<k, v>> \in Pairs
  <2>1. w[f] \in Seq(Calls)
    BY <1>2
  <2>2. w[f][i] \in Calls
    BY <2>1, SeqAt
  <2> QED
    BY <2>2, <1>5, <1>7 DEF Calls
<1>9. Len(vs) \in Nat /\ DOMAIN vs = 1..Len(vs)
  BY <1>8, LenProperties
<1>10. PICK S, b : S = {p \in Pairs : p[1] = k} /\ b = [a \in 1..Len(vs) |-> <<k, vs[a]>>]
  OBVIOUS
<1>11. b \in [1..Len(vs) -> S]
  <2> SUFFICES ASSUME NEW a \in 1..Len(vs) PROVE <<k, vs[a]>> \in S
    BY <1>10
  <2>1. <<k, vs[a]>> \in Pairs
    BY <1>8, <1>9 DEF ValuesOf
  <2>2. <<k, vs[a]>>[1] = k
    OBVIOUS
  <2> QED
    BY <2>1, <2>2, <1>10
<1>12. ASSUME NEW m \in 1..Len(vs), NEW n \in 1..Len(vs), b[m] = b[n] PROVE m = n
  <2>1. PICK P : P = PairsOf("over", w[f][i])
    OBVIOUS
  <2>2. P = [j \in DOMAIN vs |-> <<k, vs[j]>>]
    <3>1. PICK x : x = w[f][i]
      OBVIOUS
    <3>2. P = PairsOf("over", x) /\ x[1] = k /\ x[2] = vs
      BY <3>1, <2>1, <1>5, <1>7
    <3>3. PairsOf("over", x) = [j \in DOMAIN x[2] |-> <<x[1], x[2][j]>>]
      BY PairsFacts
    <3> QED
      BY <3>2, <3>3
  <2>3. m \in DOMAIN P /\ n \in DOMAIN P /\ P[m] = P[n]
    BY <2>2, <1>9, <1>10, <1>12
  <2> QED
    BY <2>1, <2>3, <1>2, <1>3, <1>5 DEF Distinct
<1>13. ASSUME NEW p \in S PROVE \E a \in 1..Len(vs) : b[a] = p
  <2>1. p \in Pairs /\ p[1] = k
    BY <1>10
  <2>2. PICK d \in Reduced : Call(d)[1] = p[1] /\ p[2] \in ValuesOf(Call(d)[2])
    BY <2>1, AllCalled
  <2>3. d = c
    BY <2>1, <2>2, <1>6, <1>7
  <2>4. PICK a \in DOMAIN vs : p[2] = vs[a]
    BY <2>2, <2>3, <1>7 DEF ValuesOf
  <2>5. p = <<p[1], p[2]>>
    BY <2>1, PairNumbers DEF TypesInv
  <2>6. b[a] = p
    BY <2>1, <2>4, <2>5, <1>9, <1>10
  <2> QED
    BY <2>4, <2>6, <1>9
<1>14. Cardinality(S) = Len(vs)
  BY <1>9, <1>11, <1>12, <1>13, CountBijection
<1> QED
  BY <1>6, <1>7, <1>10, <1>14

LEMMA OverReaches == ShuffleInv => ValuesReachReducer
<1> SUFFICES ASSUME ShuffleInv, stage = "over", ~dropped
             PROVE  /\ \A p \in Pairs : \E c \in Reduced :
                         Call(c)[1] = p[1] /\ p[2] \in ValuesOf(Call(c)[2])
                    /\ failures = 0 => \A c \in Reduced :
                         /\ \A d \in Reduced : Call(c)[1] = Call(d)[1] => c = d
                         /\ Len(Call(c)[2]) = Cardinality({p \in Pairs : p[1] = Call(c)[1]})
  BY DEF ValuesReachReducer
<1>1. TypesInv /\ NothingLost /\ (failures = 0 => CleanInv)
  BY InvariantParts
<1>2. \A p \in Pairs : \E c \in Reduced : Call(c)[1] = p[1] /\ p[2] \in ValuesOf(Call(c)[2])
  BY <1>1, AllCalled
<1>3. ASSUME failures = 0, NEW c \in Reduced
      PROVE  /\ \A d \in Reduced : Call(c)[1] = Call(d)[1] => c = d
             /\ Len(Call(c)[2]) = Cardinality({p \in Pairs : p[1] = Call(c)[1]})
  BY <1>1, <1>3, CalledWithAll
<1> QED
  BY <1>2, <1>3

(* Whatever slices fail and are run again, every value a mapper wrote      *)
(* reaches a call of the reducer for its key, unless the reader of the     *)
(* reducer set values aside; without failures there is one call for a key, *)
(* and each of its values is in it once.                                   *)
THEOREM ValuesReach == ShuffleSpec => []ValuesReachReducer
  BY ShuffleInvariance, OverReaches, PTL

(* The shuffle's variables keep their types, and what the hash and the     *)
(* merge write is made of pairs the mappers wrote.                         *)
THEOREM ShuffleTypeCorrect == ShuffleSpec => []ShuffleTypeOK
<1>1. ASSUME TypesInv PROVE ShuffleTypeOK
  <2>1. OutputsType /\ SlicesType
    BY <1>1 DEF TypesInv
  <2>2. ASSUME NEW s \in ShuffleShards, NEW x \in ValuesOf(written["hash"][s])
        PROVE  x \in Pairs
    <3>1. written["hash"][s] \in Seq(PairsFor(s))
      BY <2>1, StageFacts DEF OutputsType, ItemsOf
    <3>2. x \in PairsFor(s)
      BY <3>1, <2>2 DEF ValuesOf
    <3> QED
      BY <3>2 DEF PairsFor
  <2>3. ASSUME NEW s \in ShuffleShards, NEW x \in ValuesOf(written["merge"][s])
        PROVE  x.values # <<>> /\ \A v \in ValuesOf(x.values) : <<x.key, v>> \in Pairs
    <3>1. written["merge"][s] \in Seq(Merged(s))
      BY <2>1, StageFacts DEF OutputsType, ItemsOf
    <3>2. x \in Merged(s)
      BY <3>1, <2>3 DEF ValuesOf
    <3>3. x.values # <<>> /\ \A v \in ValuesOf(x.values) : <<x.key, v>> \in PairsFor(s)
      BY <3>2 DEF Merged
    <3> QED
      BY <3>3 DEF PairsFor
  <2>4. active \subseteq ShuffleShards
    BY <2>1, ShardsFacts DEF SlicesType
  <2> QED
    BY <2>1, <2>2, <2>3, <2>4 DEF ShuffleTypeOK, OutputsType, SlicesType
<1>2. ShuffleInv => ShuffleTypeOK
  BY <1>1, InvariantParts
<1> QED
  BY <1>2, ShuffleInvariance, PTL
=============================================================================
