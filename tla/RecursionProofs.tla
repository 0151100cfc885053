--------------------------- MODULE RecursionProofs --------------------------
(***************************************************************************)
(* What the proofs of several components need: induction on the naturals,  *)
(* the least and the greatest of a set, and solutions of recursive         *)
(* equations.                                                              *)
(***************************************************************************)
EXTENDS Integers, Sequences, FiniteSetsExt, WellFoundedInduction, TLAPS

\* Induction on the naturals, for a set in the place of a predicate: the
\* theorems of NaturalsInduction have an operator as a parameter.
LEMMA SetInduction ==
  ASSUME NEW S, 0 \in S, \A n \in Nat : n \in S => n + 1 \in S
  PROVE  Nat \subseteq S
<1> DEFINE missing == Nat \ S
<1> SUFFICES ASSUME missing # {}
             PROVE  FALSE
  OBVIOUS
<1>1. missing \subseteq Nat
  OBVIOUS
<1>2. \A n \in missing : n - 1 \in missing /\ n \in Nat
  OBVIOUS
<1> HIDE DEF missing
<1>3. PICK m \in missing : \A k \in missing : ~(<<k, m>> \in OpToRel(<, Nat))
  BY <1>1, NatLessThanWellFounded, WFMin, Zenon
<1>4. <<m - 1, m>> \in OpToRel(<, Nat)
  BY <1>1, <1>2 DEF OpToRel
<1> QED BY <1>2, <1>3, <1>4

\* A non-empty set of naturals has a least element, which is what the first
\* match of find_chunk_aligned is, and the field that is written next.
LEMMA LeastExists ==
  ASSUME NEW S, S \subseteq Nat, S # {}
  PROVE  Min(S) \in S /\ \A k \in S : Min(S) <= k
<1>1. PICK m \in S : \A k \in S : ~(<<k, m>> \in OpToRel(<, Nat))
  BY NatLessThanWellFounded, WFMin, Zenon
<1>2. \A k \in S : m <= k
  <2>1. ASSUME NEW k \in S, k < m
        PROVE  FALSE
    <3>1. k \in Nat /\ m \in Nat
      OBVIOUS
    <3>2. <<k, m>> \in OpToRel(<, Nat)
      BY <2>1, <3>1 DEF OpToRel
    <3> QED BY <1>1, <3>2
  <2> QED BY <2>1
<1> QED BY <1>2 DEF Min

\* A non-empty set of naturals below a bound has a greatest element,
\* which is what "the last iteration that writes an entry" of apply_roots and
\* the order of a fold over a sequence rely on.
LEMMA GreatestExists ==
  ASSUME NEW n \in Nat, NEW S, S \subseteq 0..(n - 1), S # {}
  PROVE  Max(S) \in S /\ \A k \in S : k <= Max(S)
<1> DEFINE mirror == {n - i : i \in S}
<1>1. mirror \subseteq Nat /\ mirror # {}
  OBVIOUS
<1> HIDE DEF mirror
<1>2. PICK m \in mirror : \A k \in mirror : ~(<<k, m>> \in OpToRel(<, Nat))
  BY <1>1, NatLessThanWellFounded, WFMin, Zenon
<1>3. \A k \in mirror : m <= k
  <2>1. ASSUME NEW k \in mirror, k < m
        PROVE  FALSE
    <3>1. k \in Nat /\ m \in Nat
      BY <1>1
    <3>2. <<k, m>> \in OpToRel(<, Nat)
      BY <2>1, <3>1 DEF OpToRel
    <3> QED BY <1>2, <3>2
  <2> QED BY <1>1, <2>1
<1>4. PICK i \in S : m = n - i
  BY DEF mirror
<1>5. \A k \in S : i >= k
  <2>1. ASSUME NEW k \in S
        PROVE  i >= k
    <3>1. n - k \in mirror
      BY DEF mirror
    <3> QED BY <3>1, <1>3, <1>4
  <2> QED BY <2>1
<1> QED
  BY <1>5 DEF Max

\* A function on 1..n is a sequence.
LEMMA FunctionIsSequence ==
  ASSUME NEW S, NEW n \in Nat, NEW f \in [1..n -> S]
  PROVE  f \in Seq(S) /\ Len(f) = n
OBVIOUS

-----------------------------------------------------------------------------
(* Recursive functions.  The library's theorems about them take an operator *)
(* as a parameter; these take a rank, and steps that are functions.         *)

\* An element is in P as soon as all those of lower rank are.
Hereditary(D, rank, P) ==
  \A d \in D : (\A e \in D : rank[e] < rank[d] => e \in P) => d \in P

\* Then all are.
LEMMA RankInduction ==
  ASSUME NEW D, NEW rank \in [D -> Nat], NEW P, Hereditary(D, rank, P)
  PROVE  D \subseteq P
<1> USE DEF Hereditary
<1> DEFINE missing == {rank[d] : d \in D \ P}
<1> SUFFICES ASSUME missing # {}
             PROVE  FALSE
  OBVIOUS
<1>1. missing \subseteq Nat
  OBVIOUS
<1> HIDE DEF missing
<1>2. PICK m \in missing : \A k \in missing : ~(<<k, m>> \in OpToRel(<, Nat))
  BY <1>1, NatLessThanWellFounded, WFMin, Zenon
<1>3. \A k \in missing : ~(k < m)
  BY <1>1, <1>2 DEF OpToRel
<1>4. PICK d \in D \ P : rank[d] = m
  BY DEF missing
<1>5. \A e \in D : rank[e] < rank[d] => e \in P
  BY <1>3, <1>4 DEF missing
<1> QED BY <1>4, <1>5

\* A recursion that descends in rank: the value at d is first[d] or follows by
\* next[d] from that at prev[d].
Recursion(D, V, rank, stop, first, prev, next) ==
  /\ V # {} /\ rank \in [D -> Nat] /\ stop \in SUBSET D
  /\ first \in [stop -> V]
  /\ prev \in [D \ stop -> D]
  /\ next \in [D \ stop -> [V -> V]]
  /\ \A d \in D \ stop : rank[prev[d]] < rank[d]

Solves(f, D, stop, first, prev, next) ==
  \A d \in D : f[d] = IF d \in stop THEN first[d] ELSE next[d][f[prev[d]]]

\* Such a recursion has a solution.
LEMMA RecursionHasSolution ==
  ASSUME NEW D, NEW V, NEW rank, NEW stop, NEW first, NEW prev, NEW next,
         Recursion(D, V, rank, stop, first, prev, next)
  PROVE  \E f \in [D -> V] : Solves(f, D, stop, first, prev, next)
<1> USE DEF Recursion
<1> DEFINE Holds(f, d) == f[d] = IF d \in stop THEN first[d] ELSE next[d][f[prev[d]]]
           Upto(n) == {f \in [D -> V] : \A d \in D : rank[d] < n => Holds(f, d)}
\* Two functions that solve it up to a rank agree up to there.
<1>1. ASSUME NEW m \in Nat, NEW n \in Nat, NEW f \in Upto(m), NEW g \in Upto(n)
      PROVE  \A d \in D : rank[d] < m /\ rank[d] < n => f[d] = g[d]
  <2> DEFINE P == {d \in D : rank[d] < m /\ rank[d] < n => f[d] = g[d]}
  <2>1. ASSUME NEW d \in D, \A e \in D : rank[e] < rank[d] => e \in P
        PROVE  d \in P
    <3> SUFFICES ASSUME rank[d] < m, rank[d] < n
                 PROVE  f[d] = g[d]
      OBVIOUS
    <3>1. Holds(f, d) /\ Holds(g, d)
      OBVIOUS
    <3>2. CASE d \in stop
      BY <3>1, <3>2
    <3>3. CASE d \notin stop
      <4>1. prev[d] \in D /\ rank[prev[d]] < rank[d]
        BY <3>3
      <4>2. rank[prev[d]] \in Nat /\ rank[d] \in Nat
        BY <4>1
      <4>3. rank[prev[d]] < m /\ rank[prev[d]] < n
        BY <4>1, <4>2
      <4>4. f[prev[d]] = g[prev[d]]
        BY <2>1, <4>1, <4>3
      <4> QED BY <3>1, <3>3, <4>4
    <3> QED BY <3>2, <3>3
  <2>2. D \subseteq P
    <3> HIDE DEF P
    <3>1. Hereditary(D, rank, P)
      BY <2>1 DEF Hereditary
    <3> QED BY <3>1, RankInduction
  <2> QED BY <2>2
\* Some function solves it up to the rank of each element.
<1>2. \A d \in D : Upto(rank[d] + 1) # {}
  <2> DEFINE P == {d \in D : Upto(rank[d] + 1) # {}}
  <2>1. ASSUME NEW d \in D, \A e \in D : rank[e] < rank[d] => e \in P
        PROVE  d \in P
    <3> DEFINE some(e) == CHOOSE f : f \in Upto(rank[e] + 1)
               below == [e \in D |-> IF rank[e] < rank[d] THEN some(e)[e]
                                     ELSE CHOOSE v : v \in V]
               f == [e \in D |-> IF e \in stop THEN first[e]
                                 ELSE next[e][below[prev[e]]]]
    <3>1. \A e \in D : rank[e] < rank[d] => some(e) \in Upto(rank[e] + 1)
      BY <2>1
    <3>2. below \in [D -> V]
      <4> SUFFICES ASSUME NEW e \in D
                   PROVE  below[e] \in V
        OBVIOUS
      <4>1. CASE rank[e] < rank[d]
        <5>1. some(e) \in [D -> V]
          BY <3>1, <4>1
        <5> HIDE DEF some
        <5> QED BY <4>1, <5>1
      <4>2. CASE ~(rank[e] < rank[d])
        BY <4>2
      <4> QED BY <4>1, <4>2
    <3>3. f \in [D -> V]
      <4> HIDE DEF below
      <4> QED BY <3>2
    <3>4. \A e \in D : rank[e] < rank[d] => f[e] = below[e]
      <4> SUFFICES ASSUME NEW e \in D, rank[e] < rank[d]
                   PROVE  f[e] = below[e]
        OBVIOUS
      <4>1. some(e) \in Upto(rank[e] + 1) /\ below[e] = some(e)[e]
        BY <3>1
      <4> HIDE DEF below, some
      <4>2. Holds(some(e), e)
        <5>1. rank[e] < rank[e] + 1
          OBVIOUS
        <5> QED BY <4>1, <5>1
      <4>3. CASE e \in stop
        BY <4>1, <4>2, <4>3
      <4>4. CASE e \notin stop
        <5>1. prev[e] \in D /\ rank[prev[e]] < rank[e] /\ rank[prev[e]] \in Nat
              /\ rank[e] \in Nat /\ rank[d] \in Nat
          BY <4>4
        <5>2. rank[prev[e]] < rank[d]
          BY <5>1
        <5>3. /\ some(prev[e]) \in Upto(rank[prev[e]] + 1)
              /\ below[prev[e]] = some(prev[e])[prev[e]]
          BY <3>1, <5>1, <5>2 DEF below
        <5>4. rank[prev[e]] < rank[prev[e]] + 1 /\ rank[prev[e]] < rank[e] + 1
          BY <5>1
        <5>5. some(prev[e])[prev[e]] = some(e)[prev[e]]
          <6> HIDE DEF Upto
          <6> QED BY <1>1, <4>1, <5>1, <5>3, <5>4
        <5> QED BY <4>1, <4>2, <4>4, <5>3, <5>5
      <4> QED BY <4>3, <4>4
    <3>5. \A e \in D : rank[e] < rank[d] + 1 => Holds(f, e)
      <4> SUFFICES ASSUME NEW e \in D, rank[e] < rank[d] + 1
                   PROVE  Holds(f, e)
        OBVIOUS
      <4>1. CASE e \in stop
        BY <4>1
      <4>2. CASE e \notin stop
        <5>1. prev[e] \in D /\ rank[prev[e]] < rank[e] /\ rank[prev[e]] \in Nat
              /\ rank[e] \in Nat /\ rank[d] \in Nat
          BY <4>2
        <5>2. f[prev[e]] = below[prev[e]]
          <6> HIDE DEF f, below
          <6> QED BY <3>4, <5>1
        <5>3. f[e] = next[e][below[prev[e]]]
          BY <4>2
        <5> HIDE DEF f, below
        <5> QED BY <4>2, <5>2, <5>3
      <4> QED BY <4>1, <4>2
    <3> HIDE DEF f, Holds
    <3> QED BY <3>3, <3>5
  <2>2. D \subseteq P
    <3> HIDE DEF P
    <3>1. Hereditary(D, rank, P)
      BY <2>1 DEF Hereditary
    <3> QED BY <3>1, RankInduction
  <2> QED BY <2>2
<1> DEFINE some(d) == CHOOSE f : f \in Upto(rank[d] + 1)
           f == [d \in D |-> some(d)[d]]
<1>3. \A d \in D : some(d) \in Upto(rank[d] + 1)
  BY <1>2
<1>4. \A d \in D : some(d) \in [D -> V] /\ Holds(some(d), d)
  <2> SUFFICES ASSUME NEW d \in D
               PROVE  some(d) \in [D -> V] /\ Holds(some(d), d)
    OBVIOUS
  <2>1. some(d) \in Upto(rank[d] + 1) /\ rank[d] < rank[d] + 1
    BY <1>3
  <2> HIDE DEF some
  <2> QED BY <2>1
<1> HIDE DEF some
<1>5. f \in [D -> V]
  BY <1>4
<1>6. \A d \in D : Holds(f, d)
  <2> SUFFICES ASSUME NEW d \in D
               PROVE  Holds(f, d)
    OBVIOUS
  <2>1. CASE d \in stop
    BY <1>4, <2>1
  <2>2. CASE d \notin stop
    <3>1. prev[d] \in D /\ rank[prev[d]] < rank[d] /\ rank[prev[d]] \in Nat
          /\ rank[d] \in Nat
      BY <2>2
    <3>2. rank[prev[d]] < rank[prev[d]] + 1 /\ rank[prev[d]] < rank[d] + 1
      BY <3>1
    <3>3. some(prev[d])[prev[d]] = some(d)[prev[d]]
      <4> HIDE DEF Upto
      <4> QED BY <1>1, <1>3, <3>1, <3>2
    <3> QED BY <1>4, <2>2, <3>1, <3>3
  <2> QED BY <2>1, <2>2
<1> HIDE DEF f
<1> QED BY <1>5, <1>6 DEF Solves
=============================================================================
