------------------------------ MODULE SetFacts -------------------------------
(***************************************************************************)
(* Facts about finite sets and numbers, for the proofs about what the      *)
(* package cache and the quotas count, about the order in which results    *)
(* are exported, and about how input is dealt out: the sum over a set, the *)
(* places of its elements in an order, and counting up to a number; and    *)
(* about FlattenSeq, for those about lines, groups of files and records.   *)
(*                                                                         *)
(* MapThenSumSet is defined by recursion over the subsets of a set; what   *)
(* it computes is proved here by induction over these subsets, in the form *)
(* that every nonempty collection of subsets of a finite set has a         *)
(* smallest member: a lemma about sets, which the provers can instantiate. *)
(***************************************************************************)
EXTENDS Integers, Sequences, FiniteSets, FiniteSetsExt, SequencesExt, FiniteSetTheorems,
        TLAPS

(* The sum of f[x] for x in S. *)
SumOf(f, S) == MapThenSumSet(LAMBDA x : f[x], S)

-----------------------------------------------------------------------------
(* Induction.                                                              *)

(* Every nonempty collection of subsets of a finite set has a member none  *)
(* of whose proper subsets is one.                                         *)
LEMMA SmallestSubset ==
  ASSUME NEW S, IsFiniteSet(S), NEW T \in SUBSET SUBSET S, T # {}
  PROVE  \E A \in T : \A B \in T : B \subseteq A => B = A
<1>1. IsWellFoundedOn(StrictSubsetOrdering(S), FiniteSubsetsOf(S))
  BY FS_StrictSubsetOrderingWellFounded
<1>2. T \subseteq FiniteSubsetsOf(S)
  BY FS_FiniteSubsetsOfFinite
<1>3. \E A \in T : \A B \in T : ~(<<B, A>> \in StrictSubsetOrdering(S))
  BY <1>1, <1>2, WFMin
<1> QED
  BY <1>3 DEF StrictSubsetOrdering

(* A set of subsets of S that has a set when it has the sets with one      *)
(* element less has S.                                                     *)
LEMMA SubsetInduction ==
  ASSUME NEW S, IsFiniteSet(S), NEW T,
         \A A \in SUBSET S : (\A B \in SUBSET A : B # A => B \in T) => A \in T
  PROVE  \A A \in SUBSET S : A \in T
<1> SUFFICES ASSUME (SUBSET S) \ T # {} PROVE FALSE
  OBVIOUS
<1>1. \E A \in (SUBSET S) \ T : \A B \in (SUBSET S) \ T : B \subseteq A => B = A
  <2> DEFINE none == (SUBSET S) \ T
  <2>1. none \in SUBSET SUBSET S /\ none # {}
    OBVIOUS
  <2> HIDE DEF none
  <2>2. \E A \in none : \A B \in none : B \subseteq A => B = A
    BY <2>1, SmallestSubset
  <2> QED
    BY <2>2 DEF none
<1> QED
  BY <1>1

(* A set of numbers has a least member. *)
LEMMA LeastOf ==
  ASSUME NEW S \in SUBSET Nat, S # {}
  PROVE  \E b \in S : \A c \in S : b <= c
<1>1. PICK n \in S : TRUE
  OBVIOUS
<1> DEFINE T == {A \in SUBSET (0..n) : A # {} => \E b \in A : \A c \in A : b <= c}
<1>2. ASSUME NEW A \in SUBSET (0..n), \A B \in SUBSET A : B # A => B \in T
      PROVE  A \in T
  <2> SUFFICES ASSUME A # {} PROVE \E b \in A : \A c \in A : b <= c
    OBVIOUS
  <2>1. PICK x \in A : TRUE
    OBVIOUS
  <2> DEFINE B == {y \in A : y < x}
  <2>2. B \in SUBSET A /\ B # A
    OBVIOUS
  <2>3. CASE B = {}
    BY <2>3
  <2>4. CASE B # {}
    <3>1. PICK b \in B : \A c \in B : b <= c
      BY <1>2, <2>2, <2>4
    <3>2. b \in A /\ \A c \in A : b <= c
      BY <3>1
    <3> QED
      BY <3>2
  <2> QED
    BY <2>3, <2>4
<1> HIDE DEF T
<1>3. \A A \in SUBSET (0..n) : A \in T
  <2>1. IsFiniteSet(0..n)
    BY <1>1, FS_Interval
  <2> DEFINE D == 0..n
  <2> HIDE DEF D
  <2>2. \A A \in SUBSET D : A \in T
    BY <1>2, <2>1, SubsetInduction DEF D
  <2> QED
    BY <2>2 DEF D
<1>4. {x \in S : x <= n} \in T
  BY <1>1, <1>3
<1>5. PICK b \in {x \in S : x <= n} : \A c \in {x \in S : x <= n} : b <= c
  BY <1>1, <1>4 DEF T
<1>6. \A c \in S : b <= c
  BY <1>1, <1>5
<1> QED
  BY <1>5, <1>6

(* Min is the least element of a set of numbers. *)
LEMMA MinIs ==
  ASSUME NEW S \in SUBSET Nat, S # {}
  PROVE  Min(S) \in S /\ \A x \in S : Min(S) <= x
<1>1. PICK b \in S : \A c \in S : b <= c
  BY LeastOf
<1> QED
  BY <1>1 DEF Min

(* Induction over the numbers up to n. *)
LEMMA CountUp ==
  ASSUME NEW n \in Nat, NEW T, 0 \in T, \A i \in Nat : i < n /\ i \in T => i + 1 \in T
  PROVE  \A i \in 0..n : i \in T
<1> DEFINE S == {i \in 0..n : i \notin T}
<1> SUFFICES ASSUME S # {} PROVE FALSE
  OBVIOUS
<1>1. S \in SUBSET Nat
  OBVIOUS
<1>2. \E b \in S : \A c \in S : b <= c
  <2> HIDE DEF S
  <2> QED
    BY <1>1, LeastOf
<1>3. PICK b \in S : \A c \in S : b <= c
  BY <1>2
<1>4. b # 0 /\ b - 1 \in Nat /\ b - 1 < n /\ (b - 1) + 1 = b
  BY <1>3
<1>5. b - 1 \in T
  BY <1>3, <1>4
<1>6. (b - 1) + 1 \in T
  BY <1>4, <1>5
<1> QED
  BY <1>3, <1>4, <1>6

-----------------------------------------------------------------------------
(* The recursion.                                                          *)

Pick(s) == CHOOSE x \in s : TRUE
Step(f, g, s) == IF s = {} THEN 0 ELSE f[Pick(s)] + g[s \ {Pick(s)}]
IsSum(f, S, g) == g = [s \in SUBSET S |-> Step(f, g, s)]

LEMMA PickIn == \A s : s # {} => Pick(s) \in s
  BY DEF Pick

(* SumOf is the value of a function that satisfies the recursive equation, *)
(* if there is one.                                                        *)
LEMMA SumIsChosen ==
  ASSUME NEW f, NEW S
  PROVE  SumOf(f, S) = (CHOOSE g : IsSum(f, S, g))[S]
  BY Zenon DEF SumOf, MapThenSumSet, MapThenFoldSet, IsSum, Step, Pick

(* There is one such function at most. *)
LEMMA SumIsUnique ==
  ASSUME NEW f, NEW S, IsFiniteSet(S), NEW g, IsSum(f, S, g), NEW h, IsSum(f, S, h)
  PROVE  \A s \in SUBSET S : g[s] = h[s]
<1> DEFINE T == {s \in SUBSET S : g[s] = h[s]}
<1>1. \A s \in SUBSET S : g[s] = Step(f, g, s) /\ h[s] = Step(f, h, s)
  BY DEF IsSum
<1>2. ASSUME NEW A \in SUBSET S, \A B \in SUBSET A : B # A => B \in T
      PROVE  A \in T
  <2>1. CASE A = {}
    BY <1>1, <2>1 DEF Step
  <2>2. CASE A # {}
    <3> DEFINE B == A \ {Pick(A)}
    <3>1. B \in SUBSET A /\ B # A
      BY <2>2, PickIn
    <3>2. g[B] = h[B]
      BY <1>2, <3>1
    <3> QED
      BY <1>1, <2>2, <3>2 DEF Step
  <2> QED
    BY <2>1, <2>2
<1> HIDE DEF T
<1>3. \A A \in SUBSET S : A \in T
  BY <1>2, SubsetInduction
<1> QED
  BY <1>3 DEF T

(* And there is one: the sums themselves. *)
SumsBelow(f, S) == \A s \in SUBSET S :
  SumOf(f, s) = IF s = {} THEN 0 ELSE f[Pick(s)] + SumOf(f, s \ {Pick(s)})

LEMMA SumRecursion ==
  ASSUME NEW f, NEW S, IsFiniteSet(S)
  PROVE  SumsBelow(f, S)
<1> DEFINE T == {s \in SUBSET S : SumsBelow(f, s)}
<1>1. ASSUME NEW A \in SUBSET S, \A B \in SUBSET A : B # A => B \in T
      PROVE  A \in T
  <2> DEFINE g == [s \in SUBSET A |->
                     IF s = {} THEN 0 ELSE f[Pick(s)] + SumOf(f, s \ {Pick(s)})]
  <2>1. \A B \in SUBSET A : B # A => SumOf(f, B) = g[B]
    BY <1>1 DEF SumsBelow
  <2>2. \A s \in SUBSET A : s # {} =>
          s \ {Pick(s)} \in SUBSET A /\ s \ {Pick(s)} # A
    BY PickIn
  <2>3. \A s \in SUBSET A : s # {} => SumOf(f, s \ {Pick(s)}) = g[s \ {Pick(s)}]
    BY <2>1, <2>2
  <2>4. IsSum(f, A, g)
    <3>1. \A s \in SUBSET A : g[s] = Step(f, g, s)
      BY <2>3 DEF Step
    <3>2. g = [s \in SUBSET A |-> g[s]]
      OBVIOUS
    <3> HIDE DEF g
    <3> QED
      BY <3>1, <3>2 DEF IsSum
  <2>5. IsFiniteSet(A)
    BY FS_Subset
  <2>6. SumOf(f, A) = g[A]
    <3> HIDE DEF g
    <3>1. IsSum(f, A, CHOOSE h : IsSum(f, A, h))
      BY <2>4
    <3>2. (CHOOSE h : IsSum(f, A, h))[A] = g[A]
      BY <2>4, <2>5, <3>1, SumIsUnique
    <3> QED
      BY <3>2, SumIsChosen
  <2>7. \A B \in SUBSET A : SumOf(f, B) = g[B]
    BY <2>1, <2>6
  <2> QED
    BY <2>7 DEF SumsBelow
<1> HIDE DEF T
<1>2. \A A \in SUBSET S : A \in T
  BY <1>1, SubsetInduction
<1> QED
  BY <1>2 DEF T

LEMMA SumEmpty == \A f : SumOf(f, {}) = 0
  BY SumRecursion, FS_EmptySet DEF SumsBelow

LEMMA SumStep ==
  ASSUME NEW f, NEW S, IsFiniteSet(S), S # {}
  PROVE  SumOf(f, S) = f[Pick(S)] + SumOf(f, S \ {Pick(S)})
  BY SumRecursion DEF SumsBelow

-----------------------------------------------------------------------------
(* What the proofs use.                                                    *)

LEMMA SumIsInt ==
  ASSUME NEW S, IsFiniteSet(S), NEW f, \A x \in S : f[x] \in Int
  PROVE  SumOf(f, S) \in Int
<1> DEFINE T == {s \in SUBSET S : SumOf(f, s) \in Int}
<1>1. ASSUME NEW A \in SUBSET S, \A B \in SUBSET A : B # A => B \in T
      PROVE  A \in T
  <2>1. CASE A = {}
    BY <2>1, SumEmpty
  <2>2. CASE A # {}
    <3>1. IsFiniteSet(A)
      BY FS_Subset
    <3>2. Pick(A) \in A
      BY <2>2, PickIn
    <3>3. f[Pick(A)] \in Int /\ SumOf(f, A \ {Pick(A)}) \in Int
      BY <1>1, <3>2
    <3>4. SumOf(f, A) = f[Pick(A)] + SumOf(f, A \ {Pick(A)})
      BY <2>2, <3>1, SumStep
    <3> QED
      BY <3>3, <3>4
  <2> QED
    BY <2>1, <2>2
<1> HIDE DEF T
<1>2. S \in T
  BY <1>1, SubsetInduction
<1> QED
  BY <1>2 DEF T

LEMMA SumIsNat ==
  ASSUME NEW S, IsFiniteSet(S), NEW f, \A x \in S : f[x] \in Nat
  PROVE  SumOf(f, S) \in Nat
<1> DEFINE T == {s \in SUBSET S : SumOf(f, s) \in Nat}
<1>1. ASSUME NEW A \in SUBSET S, \A B \in SUBSET A : B # A => B \in T
      PROVE  A \in T
  <2>1. CASE A = {}
    BY <2>1, SumEmpty
  <2>2. CASE A # {}
    <3>1. IsFiniteSet(A)
      BY FS_Subset
    <3>2. Pick(A) \in A
      BY <2>2, PickIn
    <3>3. f[Pick(A)] \in Nat /\ SumOf(f, A \ {Pick(A)}) \in Nat
      BY <1>1, <3>2
    <3>4. SumOf(f, A) = f[Pick(A)] + SumOf(f, A \ {Pick(A)})
      BY <2>2, <3>1, SumStep
    <3> QED
      BY <3>3, <3>4
  <2> QED
    BY <2>1, <2>2
<1> HIDE DEF T
<1>2. S \in T
  BY <1>1, SubsetInduction
<1> QED
  BY <1>2 DEF T

(* Whichever element is added first, the sum is the same. *)
AddsAny(f, S) == \A x \in S : SumOf(f, S) = f[x] + SumOf(f, S \ {x})

LEMMA SumAddsAny ==
  ASSUME NEW S, IsFiniteSet(S), NEW f, \A x \in S : f[x] \in Int
  PROVE  AddsAny(f, S)
<1> DEFINE T == {s \in SUBSET S : AddsAny(f, s)}
<1>1. ASSUME NEW A \in SUBSET S, \A B \in SUBSET A : B # A => B \in T
      PROVE  A \in T
  <2>1. SUFFICES ASSUME NEW x \in A
                 PROVE  SumOf(f, A) = f[x] + SumOf(f, A \ {x})
    BY DEF AddsAny
  <2> DEFINE y == Pick(A)
             rest == A \ {x, y}
  <2>2. y \in A
    BY PickIn
  <2>3. IsFiniteSet(A) /\ IsFiniteSet(rest)
    BY FS_Subset
  <2>4. SumOf(f, A) = f[y] + SumOf(f, A \ {y})
    BY <2>3, SumStep
  <2>5. f[x] \in Int /\ f[y] \in Int /\ SumOf(f, rest) \in Int
    BY <2>2, <2>3, SumIsInt
  <2> HIDE DEF y
  <2>6. CASE x = y
    BY <2>4, <2>6
  <2>7. CASE x # y
    <3>1. SumOf(f, A \ {y}) = f[x] + SumOf(f, rest)
      <4>1. AddsAny(f, A \ {y})
        BY <1>1, <2>2
      <4>2. x \in A \ {y} /\ (A \ {y}) \ {x} = rest
        BY <2>7
      <4> QED
        BY <4>1, <4>2 DEF AddsAny
    <3>2. SumOf(f, A \ {x}) = f[y] + SumOf(f, rest)
      <4>1. AddsAny(f, A \ {x})
        BY <1>1
      <4>2. y \in A \ {x} /\ (A \ {x}) \ {y} = rest
        BY <2>2, <2>7
      <4> QED
        BY <4>1, <4>2 DEF AddsAny
    <3> HIDE DEF rest
    <3> QED
      BY <2>4, <2>5, <3>1, <3>2
  <2> QED
    BY <2>6, <2>7
<1> HIDE DEF T
<1>2. S \in T
  BY <1>1, SubsetInduction
<1> QED
  BY <1>2 DEF T

LEMMA SumAdds ==
  ASSUME NEW S, IsFiniteSet(S), NEW f, \A x \in S : f[x] \in Int, NEW y \in S
  PROVE  SumOf(f, S) = f[y] + SumOf(f, S \ {y})
  BY SumAddsAny DEF AddsAny

(* The sum looks at nothing but the elements of the set. *)
LEMMA SumSame ==
  ASSUME NEW S, IsFiniteSet(S), NEW f, NEW g, \A x \in S : f[x] = g[x]
  PROVE  SumOf(f, S) = SumOf(g, S)
<1> DEFINE T == {s \in SUBSET S : SumOf(f, s) = SumOf(g, s)}
<1>1. ASSUME NEW A \in SUBSET S, \A B \in SUBSET A : B # A => B \in T
      PROVE  A \in T
  <2>1. CASE A = {}
    BY <2>1, SumEmpty
  <2>2. CASE A # {}
    <3>1. IsFiniteSet(A)
      BY FS_Subset
    <3>2. Pick(A) \in A
      BY <2>2, PickIn
    <3>3. f[Pick(A)] = g[Pick(A)] /\ SumOf(f, A \ {Pick(A)}) = SumOf(g, A \ {Pick(A)})
      BY <1>1, <3>2
    <3>4. /\ SumOf(f, A) = f[Pick(A)] + SumOf(f, A \ {Pick(A)})
          /\ SumOf(g, A) = g[Pick(A)] + SumOf(g, A \ {Pick(A)})
      BY <2>2, <3>1, SumStep
    <3> QED
      BY <3>3, <3>4
  <2> QED
    BY <2>1, <2>2
<1> HIDE DEF T
<1>2. S \in T
  BY <1>1, SubsetInduction
<1> QED
  BY <1>2 DEF T

(* A change of one value changes the sum by as much. *)
LEMMA SumChange ==
  ASSUME NEW S, IsFiniteSet(S), NEW f, \A x \in S : f[x] \in Int,
         NEW g, NEW y \in S, g[y] \in Int, \A x \in S \ {y} : g[x] = f[x]
  PROVE  /\ SumOf(f, S) \in Int /\ SumOf(g, S) \in Int
         /\ SumOf(g, S) = SumOf(f, S) + (g[y] - f[y])
<1> DEFINE rest == S \ {y}
<1>1. IsFiniteSet(rest)
  BY FS_Subset
<1>2. \A x \in S : g[x] \in Int
  OBVIOUS
<1>3. SumOf(f, rest) \in Int /\ SumOf(f, rest) = SumOf(g, rest)
  BY <1>1, SumIsInt, SumSame
<1>4. SumOf(f, S) = f[y] + SumOf(f, rest)
  BY SumAdds
<1>5. SumOf(g, S) = g[y] + SumOf(g, rest)
  BY <1>2, SumAdds
<1>6. f[y] \in Int /\ g[y] \in Int
  OBVIOUS
<1> HIDE DEF rest
<1> QED
  BY <1>3, <1>4, <1>5, <1>6

LEMMA SumOfZeros ==
  ASSUME NEW S, IsFiniteSet(S), NEW f, \A x \in S : f[x] = 0
  PROVE  SumOf(f, S) = 0
<1> DEFINE T == {s \in SUBSET S : SumOf(f, s) = 0}
<1>1. ASSUME NEW A \in SUBSET S, \A B \in SUBSET A : B # A => B \in T
      PROVE  A \in T
  <2>1. CASE A = {}
    BY <2>1, SumEmpty
  <2>2. CASE A # {}
    <3>1. IsFiniteSet(A)
      BY FS_Subset
    <3>2. Pick(A) \in A
      BY <2>2, PickIn
    <3>3. f[Pick(A)] = 0 /\ SumOf(f, A \ {Pick(A)}) = 0
      BY <1>1, <3>2
    <3>4. SumOf(f, A) = f[Pick(A)] + SumOf(f, A \ {Pick(A)})
      BY <2>2, <3>1, SumStep
    <3> QED
      BY <3>3, <3>4
  <2> QED
    BY <2>1, <2>2
<1> HIDE DEF T
<1>2. S \in T
  BY <1>1, SubsetInduction
<1> QED
  BY <1>2 DEF T

(* Sums of sets apart add up. *)
LEMMA SumUnion ==
  ASSUME NEW S, IsFiniteSet(S), NEW f, \A x \in S : f[x] \in Int,
         NEW A \in SUBSET S, NEW B \in SUBSET S, A \intersect B = {}
  PROVE  SumOf(f, A \union B) = SumOf(f, A) + SumOf(f, B)
<1> DEFINE T == {s \in SUBSET B : SumOf(f, A \union s) = SumOf(f, A) + SumOf(f, s)}
<1>1. ASSUME NEW C \in SUBSET B, \A D \in SUBSET C : D # C => D \in T
      PROVE  C \in T
  <2>1. IsFiniteSet(A) /\ IsFiniteSet(C) /\ IsFiniteSet(A \union C)
    BY FS_Subset
  <2>2. SumOf(f, A) \in Int
    BY <2>1, SumIsInt
  <2>3. CASE C = {}
    <3>1. A \union C = A /\ SumOf(f, C) = 0
      BY <2>3, SumEmpty
    <3>2. SumOf(f, A \union C) = SumOf(f, A)
      BY <3>1
    <3>3. SumOf(f, A \union C) = SumOf(f, A) + SumOf(f, C)
      BY <2>2, <3>1, <3>2
    <3> QED
      BY <3>3
  <2>4. CASE C # {}
    <3> DEFINE y == Pick(C)
               rest == C \ {y}
    <3>1. y \in C
      BY <2>4, PickIn
    <3>2. f[y] \in Int /\ SumOf(f, rest) \in Int
      <4>1. IsFiniteSet(rest)
        BY <2>1, FS_Subset
      <4>2. f[y] \in Int /\ \A x \in rest : f[x] \in Int
        BY <3>1
      <4> HIDE DEF y, rest
      <4> QED
        BY <4>1, <4>2, SumIsInt
    <3>3. SumOf(f, C) = f[y] + SumOf(f, rest)
      BY <2>1, <2>4, SumStep
    <3>4. SumOf(f, A \union C) = f[y] + SumOf(f, A \union rest)
      <4>1. y \in A \union C /\ (A \union C) \ {y} = A \union rest
        BY <3>1
      <4>2. \A x \in A \union C : f[x] \in Int
        OBVIOUS
      <4> HIDE DEF y, rest
      <4> QED
        BY <2>1, <4>1, <4>2, SumAdds
    <3>5. SumOf(f, A \union rest) = SumOf(f, A) + SumOf(f, rest)
      BY <1>1, <3>1
    <3> HIDE DEF y, rest
    <3>6. SumOf(f, A \union C) = SumOf(f, A) + SumOf(f, C)
      BY <2>2, <3>2, <3>3, <3>4, <3>5
    <3> QED
      BY <3>6
  <2> QED
    BY <2>3, <2>4
<1> HIDE DEF T
<1>2. IsFiniteSet(B)
  BY FS_Subset
<1>3. B \in T
  BY <1>1, <1>2, SubsetInduction
<1> QED
  BY <1>3 DEF T

(* Of natural numbers, a part sums up to no more than the whole. *)
LEMMA SumPart ==
  ASSUME NEW S, IsFiniteSet(S), NEW f, \A x \in S : f[x] \in Nat, NEW B \in SUBSET S
  PROVE  /\ SumOf(f, S) \in Nat /\ SumOf(f, B) \in Nat /\ SumOf(f, S \ B) \in Nat
         /\ SumOf(f, S) = SumOf(f, B) + SumOf(f, S \ B)
<1>1. IsFiniteSet(B) /\ IsFiniteSet(S \ B)
  BY FS_Subset
<1>2. SumOf(f, S) \in Nat /\ SumOf(f, B) \in Nat /\ SumOf(f, S \ B) \in Nat
  BY <1>1, SumIsNat
<1>3. SumOf(f, B \union (S \ B)) = SumOf(f, B) + SumOf(f, S \ B)
  <2>1. S \ B \in SUBSET S /\ B \intersect (S \ B) = {}
    OBVIOUS
  <2> QED
    BY <2>1, SumUnion
<1>4. B \union (S \ B) = S
  OBVIOUS
<1> QED
  BY <1>2, <1>3, <1>4

(* The sum over 1..n+1 is the first value and the sum of the others,       *)
(* counted from 1.                                                         *)
LEMMA SumShift ==
  ASSUME NEW n \in Nat, NEW f, \A i \in 1..n + 1 : f[i] \in Int,
         NEW g, \A i \in 1..n : g[i] = f[i + 1]
  PROVE  SumOf(f, 1..n + 1) = f[1] + SumOf(g, 1..n)
<1> DEFINE T == {k \in Nat : k <= n => SumOf(f, 1..k + 1) = f[1] + SumOf(g, 1..k)}
<1>0. ASSUME NEW k \in Nat, k <= n
      PROVE  /\ \A i \in 1..k : g[i] \in Int
             /\ IsFiniteSet(1..k) /\ SumOf(g, 1..k) \in Int
  <2>1. \A i \in 1..k : g[i] \in Int
    <3>1. SUFFICES ASSUME NEW i \in 1..k PROVE g[i] \in Int
      OBVIOUS
    <3>2. i \in 1..n /\ i + 1 \in 1..n + 1
      BY <1>0
    <3> QED
      BY <3>2
  <2>2. IsFiniteSet(1..k)
    BY FS_Interval
  <2> DEFINE D == 1..k
  <2> HIDE DEF D
  <2>3. IsFiniteSet(D) /\ \A i \in D : g[i] \in Int
    BY <2>1, <2>2 DEF D
  <2>4. SumOf(g, D) \in Int
    BY <2>3, SumIsInt
  <2> QED
    BY <2>1, <2>2, <2>4 DEF D
<1>1. 0 \in T
  <2>1. 1..0 + 1 = {1} /\ 1..0 = {}
    OBVIOUS
  <2>2. SumOf(f, {1}) = f[1] + SumOf(f, {1} \ {1})
    <3>1. IsFiniteSet({1})
      BY FS_Singleton
    <3>2. \A x \in {1} : f[x] \in Int
      OBVIOUS
    <3> QED
      BY <3>1, <3>2, SumAdds
  <2>3. {1} \ {1} = {} /\ f[1] \in Int
    OBVIOUS
  <2> QED
    BY <2>1, <2>2, <2>3, SumEmpty
<1>2. ASSUME NEW k \in Nat, k < n, k \in T PROVE k + 1 \in T
  <2> DEFINE A == 1..(k + 1) + 1
             B == 1..k + 1
  <2>1. IsFiniteSet(A) /\ IsFiniteSet(B)
    BY FS_Interval
  <2>2. (k + 1) + 1 \in A /\ A \ {(k + 1) + 1} = B /\ \A x \in A : f[x] \in Int
    BY <1>2
  <2>3. k + 1 \in B /\ B \ {k + 1} = 1..k /\ \A x \in B : g[x] \in Int
    BY <1>0, <1>2
  <2>4. SumOf(f, A) = f[(k + 1) + 1] + SumOf(f, B)
    <3> HIDE DEF A, B
    <3> QED
      BY <2>1, <2>2, SumAdds
  <2>5. SumOf(g, B) = g[k + 1] + SumOf(g, 1..k)
    <3> HIDE DEF A, B
    <3> QED
      BY <2>1, <2>3, SumAdds
  <2>6. SumOf(f, B) = f[1] + SumOf(g, 1..k)
    BY <1>2
  <2>7. g[k + 1] = f[(k + 1) + 1] /\ f[(k + 1) + 1] \in Int /\ f[1] \in Int
        /\ SumOf(g, 1..k) \in Int
    BY <1>0, <1>2
  <2>8. SumOf(f, A) = f[1] + SumOf(g, B)
    <3> DEFINE x == f[(k + 1) + 1]
               y == f[1]
               z == SumOf(g, 1..k)
    <3>1. SumOf(f, A) = x + (y + z) /\ SumOf(g, B) = x + z /\ x \in Int /\ y \in Int /\ z \in Int
      BY <2>4, <2>5, <2>6, <2>7
    <3> HIDE DEF x, y, z
    <3>2. x + (y + z) = y + (x + z)
      BY <3>1
    <3> QED
      BY <3>1, <3>2 DEF y
  <2> QED
    BY <2>8
<1> HIDE DEF T
<1>3. \A k \in 0..n : k \in T
  BY <1>1, <1>2, CountUp
<1> QED
  BY <1>3 DEF T

-----------------------------------------------------------------------------
(* Places in an order.                                                     *)

(* How many elements of S are not after t by f; the element in place i.    *)
UpTo(f, S, t) == {u \in S : f[u] <= f[t]}
Place(f, S, t) == Cardinality(UpTo(f, S, t))

(* f tells the elements of S apart by integers. *)
Orders(f, S) == /\ \A t \in S : f[t] \in Int
                /\ \A t, u \in S : f[t] = f[u] => t = u

LEMMA PlaceType ==
  ASSUME NEW S, IsFiniteSet(S), NEW f, Orders(f, S), NEW t \in S
  PROVE  Place(f, S, t) \in 1..Cardinality(S)
<1>1. t \in UpTo(f, S, t) /\ UpTo(f, S, t) \in SUBSET S
  BY DEF UpTo, Orders
<1> DEFINE upTo == UpTo(f, S, t)
<1> HIDE DEF upTo
<1>2. upTo # {} /\ upTo \in SUBSET S
  BY <1>1 DEF upTo
<1>3. IsFiniteSet(upTo) /\ Cardinality(upTo) <= Cardinality(S)
  BY <1>2, FS_Subset
<1>4. Cardinality(upTo) \in Nat /\ Cardinality(upTo) # 0 /\ Cardinality(S) \in Nat
  BY <1>2, <1>3, FS_CardinalityType, FS_EmptySet
<1>5. Cardinality(upTo) \in 1..Cardinality(S)
  BY <1>3, <1>4
<1> QED
  BY <1>5 DEF Place, upTo

(* What comes later has a later place. *)
LEMMA PlaceGrows ==
  ASSUME NEW S, IsFiniteSet(S), NEW f, Orders(f, S), NEW t \in S, NEW u \in S,
         f[t] < f[u]
  PROVE  Place(f, S, t) < Place(f, S, u)
<1> DEFINE a == UpTo(f, S, t)
           b == UpTo(f, S, u)
<1>1. b \in SUBSET S /\ a \in SUBSET b /\ a # b
  BY DEF UpTo, Orders
<1> HIDE DEF a, b
<1>2. IsFiniteSet(b) /\ IsFiniteSet(a)
  BY <1>1, FS_Subset
<1>3. Cardinality(a) <= Cardinality(b) /\ Cardinality(a) # Cardinality(b)
  BY <1>1, <1>2, FS_Subset
<1>4. Cardinality(a) \in Nat /\ Cardinality(b) \in Nat
  BY <1>2, FS_CardinalityType
<1>5. Cardinality(a) < Cardinality(b)
  BY <1>3, <1>4
<1> QED
  BY <1>5 DEF Place, a, b

LEMMA PlaceIsOrder ==
  ASSUME NEW S, IsFiniteSet(S), NEW f, Orders(f, S), NEW t \in S, NEW u \in S
  PROVE  /\ Place(f, S, t) < Place(f, S, u) <=> f[t] < f[u]
         /\ Place(f, S, t) = Place(f, S, u) => t = u
<1>1. f[t] \in Int /\ f[u] \in Int
  BY DEF Orders
<1>2. Place(f, S, t) \in Int /\ Place(f, S, u) \in Int
  <2>1. Place(f, S, t) \in 1..Cardinality(S) /\ Place(f, S, u) \in 1..Cardinality(S)
    BY PlaceType
  <2> QED
    BY <2>1
<1>3. /\ f[t] < f[u] => Place(f, S, t) < Place(f, S, u)
      /\ f[u] < f[t] => Place(f, S, u) < Place(f, S, t)
      /\ f[t] = f[u] => t = u
  BY PlaceGrows DEF Orders
<1> DEFINE x == Place(f, S, t)
           y == Place(f, S, u)
           a == f[t]
           b == f[u]
<1>4. /\ x \in Int /\ y \in Int /\ a \in Int /\ b \in Int
      /\ a < b => x < y
      /\ b < a => y < x
      /\ a = b => x = y
  BY <1>1, <1>2, <1>3
<1> HIDE DEF x, y, a, b
<1>5. (x < y => a < b) /\ (a < b => x < y) /\ (x = y => a = b)
  BY <1>4
<1> QED
  BY <1>3, <1>5 DEF x, y, a, b

(* A finite set has a last element. *)
HasLast(f, S) == \E t \in S : \A u \in S : f[u] <= f[t]
LEMMA LastExists ==
  ASSUME NEW S, IsFiniteSet(S), S # {}, NEW f, \A t \in S : f[t] \in Int
  PROVE  HasLast(f, S)
<1> DEFINE T == {s \in SUBSET S : s # {} => HasLast(f, s)}
<1>1. ASSUME NEW A \in SUBSET S, \A B \in SUBSET A : B # A => B \in T
      PROVE  A \in T
  <2>1. SUFFICES ASSUME A # {} PROVE HasLast(f, A)
    OBVIOUS
  <2>2. PICK t \in A : TRUE
    BY <2>1
  <2>3. f[t] \in Int /\ \A u \in A : f[u] \in Int
    OBVIOUS
  <2>4. CASE A = {t}
    BY <2>3, <2>4 DEF HasLast
  <2>5. CASE A # {t}
    <3> DEFINE B == A \ {t}
    <3>1. B # {} /\ B \in SUBSET A /\ B # A
      BY <2>5
    <3>2. HasLast(f, B)
      BY <1>1, <3>1
    <3>3. PICK m \in B : \A u \in B : f[u] <= f[m]
      BY <3>2 DEF HasLast
    <3>4. CASE f[m] <= f[t]
      BY <2>3, <3>3, <3>4 DEF HasLast
    <3>5. CASE f[t] <= f[m]
      BY <2>3, <3>3, <3>5 DEF HasLast
    <3> QED
      BY <2>3, <3>4, <3>5
  <2> QED
    BY <2>4, <2>5
<1> HIDE DEF T
<1>2. S \in T
  BY <1>1, SubsetInduction
<1> QED
  BY <1>2 DEF T

(* Every place is taken. *)
Filled(f, S) == \A i \in 1..Cardinality(S) : \E t \in S : Place(f, S, t) = i
LEMMA PlacesFilled ==
  ASSUME NEW S, IsFiniteSet(S), NEW f, Orders(f, S)
  PROVE  Filled(f, S)
<1> DEFINE T == {s \in SUBSET S : Filled(f, s)}
<1>1. ASSUME NEW A \in SUBSET S, \A B \in SUBSET A : B # A => B \in T
      PROVE  A \in T
  <2>0. IsFiniteSet(A) /\ Orders(f, A)
    BY FS_Subset DEF Orders
  <2>1. CASE A = {}
    <3>1. Cardinality(A) = 0
      BY <2>1, FS_EmptySet
    <3> QED
      BY <3>1 DEF Filled
  <2>2. CASE A # {}
    <3>1. PICK m \in A : \A u \in A : f[u] <= f[m]
      BY <2>0, <2>2, LastExists DEF HasLast, Orders
    <3> DEFINE B == A \ {m}
    <3>2. B \in SUBSET A /\ B # A
      OBVIOUS
    <3>3. Filled(f, B)
      BY <1>1, <3>2
    <3>4. UpTo(f, A, m) = A
      BY <3>1 DEF UpTo
    <3>5. Place(f, A, m) = Cardinality(A)
      BY <3>4 DEF Place
    <3>6. \A t \in B : UpTo(f, A, t) = UpTo(f, B, t)
      <4>1. SUFFICES ASSUME NEW t \in B PROVE ~(f[m] <= f[t])
        BY DEF UpTo
      <4>2. f[t] <= f[m] /\ f[t] # f[m] /\ f[t] \in Int /\ f[m] \in Int
        BY <2>0, <3>1 DEF Orders
      <4> QED
        BY <4>2
    <3>7. \A t \in B : Place(f, A, t) = Place(f, B, t)
      BY <3>6 DEF Place
    <3>8. Cardinality(B) = Cardinality(A) - 1 /\ Cardinality(A) \in Nat
      BY <2>0, FS_RemoveElement, FS_CardinalityType
    <3> HIDE DEF B
    <3>9. ASSUME NEW i \in 1..Cardinality(A) PROVE \E t \in A : Place(f, A, t) = i
      <4>1. i = Cardinality(A) \/ i \in 1..Cardinality(B)
        BY <3>8
      <4>2. CASE i = Cardinality(A)
        BY <3>5, <4>2
      <4>3. CASE i \in 1..Cardinality(B)
        <5>1. PICK t \in B : Place(f, B, t) = i
          BY <3>3, <4>3 DEF Filled
        <5> QED
          BY <3>2, <3>7, <5>1
      <4> QED
        BY <4>1, <4>2, <4>3
    <3> QED
      BY <3>9 DEF Filled
  <2> QED
    BY <2>1, <2>2
<1> HIDE DEF T
<1>2. S \in T
  BY <1>1, SubsetInduction
<1> QED
  BY <1>2 DEF T

(* A sequence that has each element at its place is in order, and of all   *)
(* of S.                                                                   *)
LEMMA PlacedInOrder ==
  ASSUME NEW S, IsFiniteSet(S), NEW f, Orders(f, S), NEW s,
         s = [i \in 1..Cardinality(S) |-> s[i]],
         \A i \in 1..Cardinality(S) : s[i] \in S /\ Place(f, S, s[i]) = i
  PROVE  /\ Cardinality(S) \in Nat
         /\ s \in Seq(S) /\ Len(s) = Cardinality(S)
         /\ \A i \in 1..Cardinality(S) : s[i] \in S
         /\ \A i, j \in 1..Cardinality(S) : i < j => f[s[i]] < f[s[j]]
         /\ \A t \in S : \E i \in 1..Cardinality(S) : s[i] = t
<1> DEFINE n == Cardinality(S)
<1>1. n \in Nat
  BY FS_CardinalityType
<1>2. \A i \in 1..n : s[i] \in S /\ Place(f, S, s[i]) = i
  OBVIOUS
<1>3. s = [i \in 1..n |-> s[i]]
  OBVIOUS
<1>4. \A t \in S : \E i \in 1..n : s[i] = t
  <2>1. SUFFICES ASSUME NEW t \in S PROVE s[Place(f, S, t)] = t /\ Place(f, S, t) \in 1..n
    OBVIOUS
  <2>2. Place(f, S, t) \in 1..n
    BY PlaceType
  <2>3. s[Place(f, S, t)] \in S /\ Place(f, S, s[Place(f, S, t)]) = Place(f, S, t)
    BY <1>2, <2>2
  <2> QED
    BY <2>2, <2>3, PlaceIsOrder
<1>5. \A i, j \in 1..n : i < j => f[s[i]] < f[s[j]]
  <2>1. SUFFICES ASSUME NEW i \in 1..n, NEW j \in 1..n, i < j PROVE f[s[i]] < f[s[j]]
    OBVIOUS
  <2>2. s[i] \in S /\ s[j] \in S /\ Place(f, S, s[i]) < Place(f, S, s[j])
    BY <1>2, <2>1
  <2> QED
    BY <2>2, PlaceIsOrder
<1>6. s \in Seq(S) /\ Len(s) = n
  BY <1>1, <1>2, <1>3
<1> QED
  BY <1>1, <1>2, <1>4, <1>5, <1>6

(* The elements in their places are a sequence in order, of all of S. *)
InPlace(f, S) == [i \in 1..Cardinality(S) |-> CHOOSE t \in S : Place(f, S, t) = i]
LEMMA InPlaceInOrder ==
  ASSUME NEW S, IsFiniteSet(S), NEW f, Orders(f, S)
  PROVE  /\ Cardinality(S) \in Nat
         /\ InPlace(f, S) \in Seq(S) /\ Len(InPlace(f, S)) = Cardinality(S)
         /\ \A i \in 1..Cardinality(S) : InPlace(f, S)[i] \in S
         /\ \A i, j \in 1..Cardinality(S) : i < j => f[InPlace(f, S)[i]] < f[InPlace(f, S)[j]]
         /\ \A t \in S : \E i \in 1..Cardinality(S) : InPlace(f, S)[i] = t
<1> DEFINE s == InPlace(f, S)
           n == Cardinality(S)
<1>1. \A i \in 1..n : s[i] \in S /\ Place(f, S, s[i]) = i
  BY PlacesFilled DEF Filled, InPlace
<1>2. s = [i \in 1..n |-> s[i]]
  BY DEF InPlace
<1> HIDE DEF s
<1>3. /\ n \in Nat
      /\ s \in Seq(S) /\ Len(s) = n
      /\ \A i \in 1..n : s[i] \in S
      /\ \A i, j \in 1..n : i < j => f[s[i]] < f[s[j]]
  BY <1>1, <1>2, PlacedInOrder
<1>4. ASSUME NEW t \in S PROVE \E i \in 1..n : s[i] = t
  <2>1. Place(f, S, t) \in 1..n
    BY PlaceType
  <2>2. s[Place(f, S, t)] \in S /\ Place(f, S, s[Place(f, S, t)]) = Place(f, S, t)
    BY <1>1, <2>1
  <2> QED
    BY <2>1, <2>2, PlaceIsOrder
<1> QED
  BY <1>3, <1>4 DEF s

(* Pieces cut at ever greater places, the first and the last open at their *)
(* ends, have every number in one of them.                                 *)
LEMMA CutOnce ==
  ASSUME NEW n \in Nat \ {0}, NEW a, \A i \in 1..n : a[i] \in Int,
         \A i, j \in 1..n : i < j => a[i] < a[j], NEW x \in Int
  PROVE  /\ \E i \in 1..n : (i = 1 \/ a[i] <= x) /\ (i = n \/ x < a[i + 1])
         /\ \A i, j \in 1..n : i < j => ~((i = n \/ x < a[i + 1]) /\ (j = 1 \/ a[j] <= x))
<1>1. \E i \in 1..n : (i = 1 \/ a[i] <= x) /\ (i = n \/ x < a[i + 1])
  <2> DEFINE T == {k \in Nat : k + 1 <= n =>
                     \/ k + 1 \in 1..n /\ (k + 1 = 1 \/ a[k + 1] <= x)
                     \/ \E i \in 1..n : (i = 1 \/ a[i] <= x) /\ i # n /\ x < a[i + 1]}
             m == n - 1
  <2>1. m \in Nat /\ m + 1 = n /\ n \in 1..n
    OBVIOUS
  <2>2. 0 \in T
    OBVIOUS
  <2>3. ASSUME NEW k \in Nat, k < m, k \in T PROVE k + 1 \in T
    <3>1. k + 1 \in 1..n /\ k + 1 # n /\ (k + 1) + 1 \in 1..n /\ k + 1 <= n
      BY <2>3
    <3>2. CASE \E i \in 1..n : (i = 1 \/ a[i] <= x) /\ i # n /\ x < a[i + 1]
      BY <3>2
    <3>3. CASE k + 1 = 1 \/ a[k + 1] <= x
      <4>1. CASE x < a[(k + 1) + 1]
        BY <3>1, <3>3, <4>1
      <4>2. CASE a[(k + 1) + 1] <= x
        BY <3>1, <4>2
      <4>3. a[(k + 1) + 1] \in Int
        BY <3>1
      <4> QED
        BY <4>1, <4>2, <4>3
    <3> QED
      BY <2>3, <3>1, <3>2, <3>3
  <2>4. m \in T
    <3> HIDE DEF T, m
    <3>1. \A k \in 0..m : k \in T
      BY <2>1, <2>2, <2>3, CountUp
    <3> QED
      BY <2>1, <3>1
  <2> QED
    BY <2>1, <2>4
<1>2. ASSUME NEW i \in 1..n, NEW j \in 1..n, i < j, x < a[i + 1], a[j] <= x PROVE FALSE
  <2>1. i + 1 \in 1..n /\ (i + 1 = j \/ i + 1 < j)
    BY <1>2
  <2>2. a[i + 1] <= a[j] /\ a[i + 1] \in Int /\ a[j] \in Int
    BY <2>1
  <2> QED
    BY <1>2, <2>2
<1>3. \A i, j \in 1..n : i < j => i # n /\ j # 1
  OBVIOUS
<1> QED
  BY <1>1, <1>2, <1>3

(* A quotient and a remainder. *)
LEMMA DivMod ==
  ASSUME NEW a \in Nat, NEW w \in Nat \ {0}, NEW c \in Nat, a < c * w
  PROVE  /\ a \div w \in Nat /\ a \div w < c /\ a % w \in 0..w - 1
         /\ a = w * (a \div w) + (a % w)
<1>1. a \div w \in Nat
  OBVIOUS
<1>2. a \div w < c
  BY SMTT(30)
<1>3. a % w \in 0..w - 1
  OBVIOUS
<1>4. a = w * (a \div w) + (a % w)
  OBVIOUS
<1> QED
  BY <1>1, <1>2, <1>3, <1>4

-----------------------------------------------------------------------------
(* Folds over sequences.                                                   *)

(* The greatest of a set of numbers that has the greatest possible. *)
LEMMA MaxIs ==
  ASSUME NEW n \in Nat, NEW s \in SUBSET (1..n + 1), n + 1 \in s
  PROVE  Max(s) = n + 1
<1>1. \A x \in s : x \in Nat /\ n + 1 >= x
  OBVIOUS
<1>2. \E x \in s : \A y \in s : x >= y
  BY <1>1
<1>3. Max(s) \in s /\ \A y \in s : Max(s) >= y
  BY <1>2, Zenon DEF Max
<1>4. Max(s) \in Nat /\ n + 1 >= Max(s) /\ Max(s) >= n + 1
  BY <1>1, <1>3
<1> QED
  BY <1>4

(* FlattenSeq is the last of a function that joins one sequence at a time. *)
Joined(ss, g, i) == IF i = 1 THEN ss[i] ELSE g[i - 1] \o ss[i]
IsFlat(ss, n, g) == g = [i \in 1..n |-> Joined(ss, g, i)]

LEMMA FlatIsChosen ==
  ASSUME NEW ss
  PROVE  FlattenSeq(ss) = IF Len(ss) = 0 THEN ss
                          ELSE (CHOOSE g : IsFlat(ss, Len(ss), g))[Len(ss)]
  BY Zenon DEF FlattenSeq, IsFlat, Joined

(* There is such a function. *)
LEMMA FlatExists ==
  ASSUME NEW ss, NEW n \in Nat
  PROVE  \E g : IsFlat(ss, n, g)
<1> DEFINE T == {i \in 0..n : \E g : IsFlat(ss, i, g)}
<1>1. 0 \in T
  <2>1. IsFlat(ss, 0, [i \in 1..0 |-> ss])
    BY DEF IsFlat
  <2> QED
    BY <2>1
<1>2. ASSUME NEW i \in Nat, i < n, i \in T PROVE i + 1 \in T
  <2>1. PICK g : IsFlat(ss, i, g)
    BY <1>2
  <2> DEFINE h == [j \in 1..i + 1 |-> IF j = i + 1 THEN Joined(ss, g, j) ELSE g[j]]
  <2>2. \A j \in 1..i : g[j] = Joined(ss, g, j)
    BY <2>1 DEF IsFlat
  <2>3. \A j \in 1..i + 1 : h[j] = Joined(ss, h, j)
    <3>1. SUFFICES ASSUME NEW j \in 1..i + 1 PROVE h[j] = Joined(ss, h, j)
      OBVIOUS
    <3>2. j # 1 => j - 1 \in 1..i + 1 /\ j - 1 # i + 1
      OBVIOUS
    <3>3. j # 1 => h[j - 1] = g[j - 1]
      BY <3>2
    <3>4. Joined(ss, h, j) = Joined(ss, g, j)
      <4> HIDE DEF h
      <4> QED
        BY <3>3 DEF Joined
    <3>5. CASE j = i + 1
      BY <3>4, <3>5
    <3>6. CASE j # i + 1
      <4>1. j \in 1..i
        BY <3>6
      <4> QED
        BY <3>4, <3>6, <4>1, <2>2
    <3> QED
      BY <3>5, <3>6
  <2>4. h = [j \in 1..i + 1 |-> h[j]]
    OBVIOUS
  <2> HIDE DEF h
  <2>5. IsFlat(ss, i + 1, h)
    BY <2>3, <2>4 DEF IsFlat
  <2> QED
    BY <1>2, <2>5
<1> HIDE DEF T
<1>3. \A i \in 0..n : i \in T
  BY <1>1, <1>2, CountUp
<1> QED
  BY <1>3 DEF T
=============================================================================
