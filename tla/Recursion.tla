------------------------------ MODULE Recursion ------------------------------
(***************************************************************************)
(* What recursive functions compute: that they are defined, and what a     *)
(* fold over a set or a list does to every element.  The induction of the  *)
(* library is about an operator; here it is about a set of numbers, of     *)
(* which there is a least, so that it can be used by every prover.         *)
(***************************************************************************)
EXTENDS Integers, FiniteSetTheorems, SequenceTheorems, WellFoundedInduction, SequencesExt, TLAPS

-----------------------------------------------------------------------------
(* Induction.                                                              *)

LEMMA LeastNumber ==
    ASSUME NEW T, T \subseteq Nat, T # {}
    PROVE  \E n \in T : \A m \in T : n <= m
<1> DEFINE R == OpToRel(<, Nat)
<1>1. IsWellFoundedOn(R, Nat)
  BY NatLessThanWellFounded
<1>2. PICK n \in T : \A m \in T : << m, n >> \notin R
  <2> HIDE DEF R
  <2> QED
    BY <1>1, WFMin
<1>3. ASSUME NEW m \in T PROVE n <= m
  <2>1. n \in Nat /\ m \in Nat
    OBVIOUS
  <2>2. ~(m < n)
    BY <1>2, <2>1 DEF OpToRel
  <2> QED
    BY <2>1, <2>2
<1> QED
  BY <1>3

LEMMA GreatestNumber ==
    ASSUME NEW last \in Nat, NEW T, T \subseteq 0..last, T # {}
    PROVE  \E n \in T : \A m \in T : m <= n
<1> DEFINE U == {last - n : n \in T}
<1>0. \A n \in T : n \in 0..last
  OBVIOUS
<1>1. U \subseteq Nat /\ U # {}
  <2>1. \A n \in 0..last : last - n \in Nat
    OBVIOUS
  <2> QED
    BY <1>0, <2>1
<1>2. PICK k \in U : \A m \in U : k <= m
  <2> HIDE DEF U
  <2> QED
    BY <1>1, LeastNumber
<1>3. PICK n \in T : k = last - n
  OBVIOUS
<1>4. ASSUME NEW m \in T PROVE m <= n
  <2>1. k <= last - m
    BY <1>2
  <2>2. n \in 0..last /\ m \in 0..last
    BY <1>0
  <2> QED
    BY <1>3, <2>1, <2>2
<1> QED
  BY <1>3, <1>4

\* What holds of 0 and of every number after one of which it holds, holds up to the last.
LEMMA OneByOne ==
    ASSUME NEW last \in Nat, NEW T, 0 \in T,
           \A n \in 0..(last - 1) : n \in T => n + 1 \in T
    PROVE  \A n \in 0..last : n \in T
<1> SUFFICES ASSUME NEW k \in 0..last, k \notin T
             PROVE  FALSE
  OBVIOUS
<1> DEFINE U == {m \in 0..last : m \notin T}
<1>1. PICK n \in U : \A m \in U : n <= m
  <2>1. U \subseteq Nat /\ U # {}
    OBVIOUS
  <2> HIDE DEF U
  <2> QED
    BY <2>1, LeastNumber
<1>2. n # 0 /\ n - 1 \in 0..(last - 1)
  OBVIOUS
<1>3. n - 1 \in T
  BY <1>1, <1>2
<1> QED
  BY <1>2, <1>3

\* What holds of a finite set if it holds of all that have one element less, holds of every subset.
LEMMA OneElementLess ==
    ASSUME NEW S, IsFiniteSet(S), NEW W,
           \A T \in SUBSET S : (\A k \in T : T \ {k} \in W) => T \in W
    PROVE  SUBSET S \subseteq W
<1> DEFINE last == Cardinality(S)
           Sizes == {n \in 0..last : \A T \in SUBSET S : Cardinality(T) = n => T \in W}
<1>1. /\ last \in Nat
      /\ \A T \in SUBSET S : IsFiniteSet(T) /\ Cardinality(T) \in 0..last
  BY FS_Subset, FS_CardinalityType
<1>2. 0 \in Sizes
  <2>1. \A T \in SUBSET S : Cardinality(T) = 0 => T \in W
    BY <1>1, FS_EmptySet
  <2> QED
    BY <1>1, <2>1
<1>3. ASSUME NEW n \in 0..(last - 1), n \in Sizes
      PROVE  n + 1 \in Sizes
  <2>1. ASSUME NEW T \in SUBSET S, Cardinality(T) = n + 1
        PROVE  T \in W
    <3>1. ASSUME NEW k \in T PROVE T \ {k} \in W
      <4>1. T \ {k} \in SUBSET S /\ Cardinality(T \ {k}) = n
        <5>1. IsFiniteSet(T) /\ n \in Nat
          BY <1>1
        <5>2. Cardinality(T \ {k}) = Cardinality(T) - 1
          BY <5>1, FS_RemoveElement
        <5> QED
          BY <2>1, <5>1, <5>2
      <4> QED
        BY <1>3, <4>1
    <3> QED
      BY <3>1
  <2>2. n + 1 \in 0..last
    BY <1>1
  <2> QED
    BY <2>1, <2>2
<1>4. \A n \in 0..last : n \in Sizes
  <2> HIDE DEF Sizes, last
  <2> QED
    BY <1>1, <1>2, <1>3, OneByOne
<1> QED
  BY <1>1, <1>4

-----------------------------------------------------------------------------
(* Recursive functions are defined.                                        *)

\* A function of the numbers up to a last one.
IsRecursion(g, last, V, base, G) ==
    /\ g \in [0..last -> V]
    /\ g = [n \in 0..last |-> IF n = 0 THEN base ELSE G[<< n, g[n - 1] >>]]
LEMMA RecursionUpTo ==
    ASSUME NEW last \in Nat, NEW V, NEW base \in V, NEW G \in [(1..last) \X V -> V]
    PROVE  \E g : IsRecursion(g, last, V, base, G)
<1> DEFINE Step(g, n) == IF n = 0 THEN base ELSE G[<< n, g[n - 1] >>]
           T == {k \in 0..last : \E g \in [0..last -> V] : \A n \in 0..k : g[n] = Step(g, n)}
<1>1. 0 \in T
  <2> DEFINE g == [n \in 0..last |-> base]
  <2>1. g \in [0..last -> V] /\ g[0] = base
    OBVIOUS
  <2> HIDE DEF g
  <2>2. \A n \in 0..0 : g[n] = Step(g, n)
    BY <2>1
  <2> QED
    BY <2>1, <2>2
<1>2. ASSUME NEW k \in 0..(last - 1), k \in T
      PROVE  k + 1 \in T
  <2>1. PICK g \in [0..last -> V] : \A n \in 0..k : g[n] = Step(g, n)
    BY <1>2
  <2> DEFINE v == G[<< k + 1, g[k] >>]
             h == [n \in 0..last |-> IF n = k + 1 THEN v ELSE g[n]]
  <2>2. v \in V
    OBVIOUS
  <2>3. h \in [0..last -> V] /\ \A n \in 0..last : h[n] = IF n = k + 1 THEN v ELSE g[n]
    BY <2>2
  <2> HIDE DEF h
  <2>4. ASSUME NEW n \in 0..(k + 1)
        PROVE  h[n] = Step(h, n)
    <3>1. CASE n = 0
      <4>1. 0 \in 0..k /\ 0 \in 0..last /\ 0 # k + 1
        OBVIOUS
      <4>2. g[0] = Step(g, 0)
        BY <2>1, <4>1
      <4>3. h[0] = base
        BY <2>3, <4>1, <4>2
      <4> QED
        BY <3>1, <4>3
    <3>2. CASE n # 0
      <4>1. n - 1 \in 0..k /\ n \in 0..last /\ n - 1 \in 0..last /\ n - 1 # k + 1
        BY <3>2
      <4>2. h[n - 1] = g[n - 1]
        BY <2>3, <4>1
      <4>3. CASE n = k + 1
        BY <2>3, <3>2, <4>1, <4>2, <4>3
      <4>4. CASE n # k + 1
        <5>1. n \in 0..k
          BY <4>4
        <5> QED
          BY <2>1, <2>3, <4>1, <4>2, <4>4, <5>1
      <4> QED
        BY <4>3, <4>4
    <3> QED
      BY <3>1, <3>2
  <2>5. k + 1 \in 0..last
    OBVIOUS
  <2> HIDE DEF Step
  <2> QED
    BY <2>3, <2>4, <2>5
<1>3. last \in T
  <2> HIDE DEF T
  <2> QED
    BY <1>1, <1>2, OneByOne
<1>4. PICK g \in [0..last -> V] : \A n \in 0..last : g[n] = Step(g, n)
  BY <1>3
<1> QED
  BY <1>4 DEF IsRecursion

\* A fold over the subsets of a finite set, each of which gives one of its elements.
IsFold(g, S, V, base, G, pick) ==
    /\ g \in [SUBSET S -> V]
    /\ \A T \in SUBSET S : g[T] = IF T = {} THEN base ELSE G[<< pick[T], g[T \ {pick[T]}] >>]
LEMMA FoldIsDefined ==
    ASSUME NEW S, IsFiniteSet(S), NEW V, NEW base \in V, NEW G \in [S \X V -> V],
           NEW pick, \A T \in SUBSET S : T # {} => pick[T] \in T
    PROVE  \E g : IsFold(g, S, V, base, G, pick)
<1> DEFINE Step(g, T) == IF T = {} THEN base ELSE G[<< pick[T], g[T \ {pick[T]}] >>]
           last == Cardinality(S)
           Sizes == {k \in 0..last : \E g \in [SUBSET S -> V] :
                       \A T \in SUBSET S : Cardinality(T) <= k => g[T] = Step(g, T)}
<1>0. /\ last \in Nat
      /\ \A T \in SUBSET S : IsFiniteSet(T) /\ Cardinality(T) \in 0..last
  BY FS_Subset, FS_CardinalityType
<1>1. 0 \in Sizes
  <2>1. \A T \in SUBSET S : Cardinality(T) <= 0 => T = {}
    BY <1>0, FS_EmptySet
  <2> DEFINE g == [T \in SUBSET S |-> base]
  <2>2. g \in [SUBSET S -> V] /\ g[{}] = base
    OBVIOUS
  <2> HIDE DEF g
  <2>3. \A T \in SUBSET S : Cardinality(T) <= 0 => g[T] = Step(g, T)
    BY <2>1, <2>2
  <2>4. last \in Nat
    BY <1>0
  <2> HIDE DEF Step, last
  <2> QED
    BY <2>2, <2>3, <2>4
<1>2. ASSUME NEW k \in 0..(last - 1), k \in Sizes
      PROVE  k + 1 \in Sizes
  <2>1. PICK g \in [SUBSET S -> V] : \A T \in SUBSET S : Cardinality(T) <= k => g[T] = Step(g, T)
    BY <1>2
  <2> DEFINE h == [T \in SUBSET S |-> IF Cardinality(T) <= k THEN g[T] ELSE Step(g, T)]
  <2>2. \A T \in SUBSET S : T # {} => /\ T \ {pick[T]} \in SUBSET S /\ pick[T] \in S
                                      /\ Cardinality(T \ {pick[T]}) = Cardinality(T) - 1
    BY <1>0, FS_RemoveElement
  <2>3. h \in [SUBSET S -> V]
    <3>1. \A T \in SUBSET S : Step(g, T) \in V
      BY <2>2
    <3> HIDE DEF Step
    <3> QED
      BY <3>1
  <2>4. \A T \in SUBSET S : h[T] = IF Cardinality(T) <= k THEN g[T] ELSE Step(g, T)
    BY DEF h
  <2> HIDE DEF h
  <2>5. ASSUME NEW T \in SUBSET S, Cardinality(T) <= k + 1
        PROVE  h[T] = Step(h, T)
    <3>1. h[T] = Step(g, T)
      BY <2>1, <2>4
    <3>2. CASE T = {}
      BY <3>1, <3>2
    <3>3. CASE T # {}
      <4>1. /\ T \ {pick[T]} \in SUBSET S
            /\ Cardinality(T \ {pick[T]}) <= k
        BY <1>0, <2>2, <2>5, <3>3
      <4>2. h[T \ {pick[T]}] = g[T \ {pick[T]}]
        BY <2>4, <4>1
      <4> QED
        BY <3>1, <3>3, <4>2
    <3> QED
      BY <3>2, <3>3
  <2>6. k + 1 \in 0..last
    BY <1>0
  <2> HIDE DEF Step
  <2> QED
    BY <2>3, <2>5, <2>6
<1>3. last \in Sizes
  <2> HIDE DEF Sizes, last
  <2> QED
    BY <1>0, <1>1, <1>2, OneByOne
<1>4. PICK g \in [SUBSET S -> V] : \A T \in SUBSET S : Cardinality(T) <= last => g[T] = Step(g, T)
  BY <1>3
<1>5. \A T \in SUBSET S : g[T] = Step(g, T)
  <2>1. ASSUME NEW T \in SUBSET S PROVE Cardinality(T) <= last
    BY <1>0, <2>1
  <2> HIDE DEF Step, last
  <2> QED
    BY <1>4, <2>1
<1> QED
  BY <1>5 DEF IsFold

==============================================================================
