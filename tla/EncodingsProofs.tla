--------------------------- MODULE EncodingsProofs --------------------------
(***************************************************************************)
(* Varints, packed tags, gaps and indices are read back as they were       *)
(* written, and the decoders of balances, participation flags and          *)
(* inactivity scores make of them what their encoders were given, for      *)
(* lists of any length, bytes and u64 of any width and any mode.           *)
(***************************************************************************)
EXTENDS BalanceDeltas, SparseDeltas, RecursionProofs, SequenceTheorems,
        FiniteSetTheorems

-----------------------------------------------------------------------------
(* Varints.                                                                *)

USE VarintAssumption

LEMMA DivisionFacts ==
  ASSUME NEW n \in Nat, NEW d \in Nat \ {0}
  PROVE  /\ n \div d \in Nat /\ n % d \in 0..(d - 1)
         /\ n = d * (n \div d) + (n % d)
OBVIOUS

LEMMA QuotientIsSmaller ==
  ASSUME NEW n \in Nat, NEW d \in Nat \ {0, 1}, n # 0
  PROVE  n \div d < n
<1> DEFINE q == n \div d
<1>1. q \in Nat /\ n >= d * q
  BY DivisionFacts
<1> HIDE DEF q
<1>2. d * q >= 2 * q
  BY <1>1
<1>3. q < n
  BY <1>1, <1>2
<1> QED BY <1>3 DEF q

LEMMA LongNumber ==
  ASSUME NEW n \in Nat, ~(n < VarintBase)
  PROVE  /\ n \div VarintBase \in Nat /\ n \div VarintBase < n
         /\ n % VarintBase \in 0..(VarintBase - 1)
         /\ n = VarintBase * (n \div VarintBase) + (n % VarintBase)
         /\ (n % VarintBase) + VarintBase \in Nat
<1>1. VarintBase \in Nat \ {0} /\ n # 0
  OBVIOUS
<1>2. /\ n \div VarintBase \in Nat /\ n % VarintBase \in 0..(VarintBase - 1)
      /\ n = VarintBase * (n \div VarintBase) + (n % VarintBase)
  BY <1>1, DivisionFacts
<1>3. n \div VarintBase < n
  BY <1>1, QuotientIsSmaller
<1> QED BY <1>1, <1>2, <1>3

LEMMA VarintEquation ==
  \A n \in Nat :
    Varint[n] = IF n < VarintBase THEN <<n>>
                ELSE <<(n % VarintBase) + VarintBase>> \o Varint[n \div VarintBase]
<1> DEFINE step(g, n) == IF n < VarintBase THEN <<n>>
                         ELSE <<(n % VarintBase) + VarintBase>> \o g[n \div VarintBase]
           stop == {n \in Nat : n < VarintBase}
           first == [n \in stop |-> <<n>>]
           prev == [n \in Nat \ stop |-> n \div VarintBase]
           rank == [n \in Nat |-> n]
           next == [n \in Nat \ stop |->
                      [s \in Seq(Nat) |-> <<(n % VarintBase) + VarintBase>> \o s]]
<1>1. \A n \in Nat \ stop : /\ n \div VarintBase \in Nat /\ n \div VarintBase < n
                            /\ n % VarintBase \in Nat /\ n # 0
  BY LongNumber
<1>2. first \in [stop -> Seq(Nat)]
  OBVIOUS
<1>3. next \in [Nat \ stop -> [Seq(Nat) -> Seq(Nat)]]
  <2>1. ASSUME NEW n \in Nat \ stop, NEW s \in Seq(Nat)
        PROVE  <<(n % VarintBase) + VarintBase>> \o s \in Seq(Nat)
    <3>1. (n % VarintBase) + VarintBase \in Nat
      BY <1>1
    <3>2. <<(n % VarintBase) + VarintBase>> \in Seq(Nat)
      BY <3>1
    <3> QED BY <3>2, ConcatProperties
  <2> HIDE DEF stop
  <2> QED BY <2>1
<1>4. prev \in [Nat \ stop -> Nat] /\ \A n \in Nat \ stop : rank[prev[n]] < rank[n]
  BY <1>1
<1>5. Seq(Nat) # {}
  <2>1. <<>> \in Seq(Nat)
    BY EmptySeq
  <2> QED BY <2>1
<1>6. stop \in SUBSET Nat /\ rank \in [Nat -> Nat]
  OBVIOUS
<1>7. PICK f \in [Nat -> Seq(Nat)] : Solves(f, Nat, stop, first, prev, next)
  <2>1. Recursion(Nat, Seq(Nat), rank, stop, first, prev, next)
    <3> HIDE DEF stop, first, prev, rank, next
    <3> QED BY <1>2, <1>3, <1>4, <1>5, <1>6 DEF Recursion
  <2> HIDE DEF stop, first, prev, rank, next
  <2> QED BY <2>1, RecursionHasSolution
<1>8. \A n \in Nat : f[n] = step(f, n)
  <2> SUFFICES ASSUME NEW n \in Nat
               PROVE  f[n] = step(f, n)
    OBVIOUS
  <2>1. CASE n \in stop
    BY <1>7, <2>1 DEF Solves
  <2>2. CASE n \notin stop
    <3>1. f[n \div VarintBase] \in Seq(Nat)
      BY <1>1, <2>2
    <3>2. f[n] = next[n][f[n \div VarintBase]]
      BY <1>7, <2>2 DEF Solves
    <3>3. f[n] = <<(n % VarintBase) + VarintBase>> \o f[n \div VarintBase]
      BY <2>2, <3>1, <3>2
    <3> QED BY <2>2, <3>3
  <2> QED BY <2>1, <2>2
<1>9. f = [n \in Nat |-> step(f, n)]
  <2> HIDE DEF step
  <2> QED BY <1>8
<1> DEFINE V == CHOOSE g : g = [n \in Nat |-> step(g, n)]
<1>10. V = [n \in Nat |-> step(V, n)]
  <2> HIDE DEF step
  <2> QED BY <1>9, Zenon
<1>11. V = Varint
  BY DEF Varint
<1> HIDE DEF V
<1> QED BY <1>10, <1>11

\* A varint is not empty, and its last byte is the only one below VarintBase.
LEMMA VarintFacts ==
  \A n \in Nat : /\ Varint[n] \in Seq(Nat) /\ Len(Varint[n]) > 0
                 /\ Varint[n][Len(Varint[n])] < VarintBase
<1> DEFINE Good(s) == s \in Seq(Nat) /\ Len(s) > 0 /\ s[Len(s)] < VarintBase
           P == {n \in Nat : Good(Varint[n])}
           rank == [n \in Nat |-> n]
<1>1. ASSUME NEW n \in Nat, \A m \in Nat : rank[m] < rank[n] => m \in P
      PROVE  n \in P
  <2>1. CASE n < VarintBase
    <3>1. Varint[n] = <<n>>
      BY <2>1, VarintEquation
    <3>2. <<n>> \in Seq(Nat) /\ Len(<<n>>) = 1 /\ <<n>>[1] = n
      OBVIOUS
    <3>3. Good(Varint[n])
      BY <2>1, <3>1, <3>2
    <3> HIDE DEF Good
    <3> QED BY <3>3
  <2>2. CASE ~(n < VarintBase)
    <3> DEFINE s == Varint[n \div VarintBase]
               b == (n % VarintBase) + VarintBase
    <3>1. n \div VarintBase \in Nat /\ n \div VarintBase < n /\ b \in Nat
      BY <2>2, LongNumber
    <3>2. Varint[n] = <<b>> \o s
      BY <2>2, VarintEquation
    <3>3. Good(s)
      BY <1>1, <3>1
    <3> HIDE DEF b, s
    <3>4. <<b>> \in Seq(Nat) /\ Len(<<b>>) = 1
      BY <3>1
    <3>5. /\ <<b>> \o s \in Seq(Nat) /\ Len(<<b>> \o s) = 1 + Len(s)
          /\ (<<b>> \o s)[1 + Len(s)] = s[Len(s)]
      BY <3>3, <3>4, ConcatProperties
    <3>6. Good(Varint[n])
      BY <3>2, <3>3, <3>5
    <3> HIDE DEF Good
    <3> QED BY <3>6
  <2> QED BY <2>1, <2>2
<1>2. Nat \subseteq P
  <2>1. rank \in [Nat -> Nat]
    OBVIOUS
  <2> HIDE DEF P, rank
  <2>2. Hereditary(Nat, rank, P)
    BY <1>1 DEF Hereditary
  <2> QED BY <2>1, <2>2, RankInduction
<1> QED BY <1>2

-----------------------------------------------------------------------------
(* read_varint on a buffer that does not end within a number.              *)

Terminated(buffer) ==
  /\ buffer \in Seq(Nat)
  /\ Len(buffer) > 0 => buffer[Len(buffer)] < VarintBase

\* The step of read_varint at cursor c, given what it reads from the next byte.
ReadStep(buffer, c, rest) ==
  IF buffer[c] < VarintBase
  THEN [value |-> buffer[c], cursor |-> c + 1]
  ELSE [value |-> buffer[c] - VarintBase + VarintBase * rest.value,
        cursor |-> rest.cursor]

Reads(buffer, read) ==
  \A c \in 1..Len(buffer) :
    /\ read[c] = ReadStep(buffer, c, read[c + 1])
    /\ read[c].value \in Nat
    /\ read[c].cursor \in (c + 1)..(Len(buffer) + 1)

ReadOf(buffer) ==
  CHOOSE g : g = [c \in 1..Len(buffer) |-> ReadStep(buffer, c, g[c + 1])]

\* A descent to the right, within the buffer.
LEMMA ReadsTheBuffer ==
  ASSUME NEW buffer, Terminated(buffer)
  PROVE  Reads(buffer, ReadOf(buffer))
<1> DEFINE L == Len(buffer)
           D == 1..L
           V == [value : Nat, cursor : Nat]
           rank == [c \in D |-> L - c]
           stop == {c \in D : buffer[c] < VarintBase}
           first == [c \in stop |-> [value |-> buffer[c], cursor |-> c + 1]]
           prev == [c \in D \ stop |-> c + 1]
           next == [c \in D \ stop |-> [r \in V |->
                      [value |-> buffer[c] - VarintBase + VarintBase * r.value,
                       cursor |-> r.cursor]]]
<1>1. L \in Nat /\ \A c \in D : buffer[c] \in Nat
  BY DEF Terminated
<1>2. \A c \in D \ stop : /\ c + 1 \in D /\ buffer[c] >= VarintBase
                          /\ buffer[c] - VarintBase \in Nat
  <2> SUFFICES ASSUME NEW c \in D, ~(buffer[c] < VarintBase)
               PROVE  /\ c + 1 \in D /\ buffer[c] >= VarintBase
                      /\ buffer[c] - VarintBase \in Nat
    OBVIOUS
  <2>1. buffer[c] \in Nat
    BY <1>1
  <2>2. c # L
    BY DEF Terminated
  <2> QED BY <1>1, <2>1, <2>2
<1>14. \A a \in Nat : VarintBase * a \in Nat
  OBVIOUS
<1>3. V # {}
  <2>1. [value |-> 0, cursor |-> 0] \in V
    OBVIOUS
  <2> QED BY <2>1
<1>4. first \in [stop -> V]
  BY <1>1
<1>5. next \in [D \ stop -> [V -> V]]
  <2>1. ASSUME NEW c \in D \ stop, NEW r \in V
        PROVE  [value |-> buffer[c] - VarintBase + VarintBase * r.value,
                cursor |-> r.cursor] \in V
    <3>1. r.value \in Nat /\ r.cursor \in Nat
      OBVIOUS
    <3> HIDE DEF V
    <3>3. buffer[c] - VarintBase \in Nat /\ VarintBase * r.value \in Nat
      BY <1>2, <1>14, <3>1
    <3>2. buffer[c] - VarintBase + VarintBase * r.value \in Nat
      BY <3>3
    <3> USE DEF V
    <3> QED BY <3>1, <3>2
  <2> HIDE DEF V, stop, D
  <2> QED BY <2>1
<1>6. /\ rank \in [D -> Nat] /\ prev \in [D \ stop -> D]
      /\ \A c \in D \ stop : rank[prev[c]] < rank[c]
  BY <1>1, <1>2
<1>7. Recursion(D, V, rank, stop, first, prev, next)
  <2>1. stop \in SUBSET D
    OBVIOUS
  <2> HIDE DEF D, V, rank, stop, first, prev, next
  <2> QED BY <1>3, <1>4, <1>5, <1>6, <2>1 DEF Recursion
<1>8. PICK f \in [D -> V] : Solves(f, D, stop, first, prev, next)
  <2> HIDE DEF D, V, rank, stop, first, prev, next
  <2> QED BY <1>7, RecursionHasSolution
<1>9. \A c \in D : f[c] = ReadStep(buffer, c, f[c + 1])
  <2> SUFFICES ASSUME NEW c \in D
               PROVE  f[c] = ReadStep(buffer, c, f[c + 1])
    OBVIOUS
  <2>1. CASE c \in stop
    BY <1>8, <2>1 DEF Solves, ReadStep
  <2>2. CASE c \notin stop
    <3>1. f[c + 1] \in V
      BY <1>2, <2>2
    <3>2. f[c] = next[c][f[c + 1]]
      BY <1>8, <2>2 DEF Solves
    <3>3. f[c] = [value |-> buffer[c] - VarintBase + VarintBase * f[c + 1].value,
                  cursor |-> f[c + 1].cursor]
      <4> HIDE DEF V
      <4> QED BY <2>2, <3>1, <3>2
    <3> QED BY <2>2, <3>3 DEF ReadStep
  <2> QED BY <2>1, <2>2
<1>10. f = [c \in 1..Len(buffer) |-> ReadStep(buffer, c, f[c + 1])]
  <2> HIDE DEF V
  <2> QED BY <1>9
<1> DEFINE read == ReadOf(buffer)
<1>11. read = [c \in 1..Len(buffer) |-> ReadStep(buffer, c, read[c + 1])]
  BY <1>10, Zenon DEF ReadOf
<1> HIDE DEF read
<1>12. \A c \in D : read[c] = ReadStep(buffer, c, read[c + 1])
  BY <1>11
\* By induction to the left.
<1> DEFINE Typed(c) == read[c].value \in Nat /\ read[c].cursor \in (c + 1)..(L + 1)
           P == {c \in D : Typed(c)}
<1>13. ASSUME NEW c \in D, \A e \in D : rank[e] < rank[c] => e \in P
       PROVE  c \in P
  <2> DEFINE rest == read[c + 1]
             byte == buffer[c]
  <2>3. read[c] = ReadStep(buffer, c, rest) /\ byte \in Nat /\ L \in Nat
    BY <1>1, <1>12
  <2> HIDE DEF rest
  <2>1. CASE buffer[c] < VarintBase
    <3>1. read[c] = [value |-> byte, cursor |-> c + 1]
      BY <2>1, <2>3 DEF ReadStep
    <3> HIDE DEF byte
    <3>2. read[c].value = byte /\ read[c].cursor = c + 1
      BY <3>1
    <3> QED BY <2>3, <3>2
  <2>2. CASE ~(buffer[c] < VarintBase)
    <3>1. c + 1 \in D /\ buffer[c] - VarintBase \in Nat
      BY <1>2, <2>2
    <3>2. rank[c + 1] < rank[c]
      BY <1>1, <3>1
    <3>3. c + 1 \in P
      <4> HIDE DEF P, rank, D
      <4> QED BY <1>13, <3>1, <3>2
    <3>4. read[c + 1].value \in Nat /\ read[c + 1].cursor \in (c + 2)..(L + 1)
      BY <1>1, <3>3
    <3>9. read[c] = [value |-> byte - VarintBase + VarintBase * rest.value,
                     cursor |-> rest.cursor]
      BY <2>2, <2>3 DEF ReadStep
    <3>5. /\ read[c].value = (byte - VarintBase) + VarintBase * rest.value
          /\ read[c].cursor = rest.cursor
      <4> HIDE DEF byte
      <4> QED BY <3>9
    <3>6. VarintBase * rest.value \in Nat
      BY <1>14, <3>4 DEF rest
    <3>7. read[c].value \in Nat
      BY <3>1, <3>5, <3>6
    <3>8. read[c].cursor \in (c + 1)..(L + 1)
      BY <1>1, <3>4, <3>5 DEF rest
    <3> QED BY <3>7, <3>8
  <2> QED BY <2>1, <2>2
<1>15. D \subseteq P
  <2> HIDE DEF P, D, rank, V, stop, first, prev, next
  <2>1. Hereditary(D, rank, P)
    BY <1>13 DEF Hereditary
  <2> QED BY <1>6, <2>1, RankInduction
<1>16. \A c \in 1..Len(buffer) :
         /\ read[c].value \in Nat
         /\ read[c].cursor \in (c + 1)..(Len(buffer) + 1)
  BY <1>15
<1>17. read = ReadOf(buffer)
  BY DEF read
<1> QED BY <1>12, <1>16, <1>17 DEF Reads

\* A sequence that lies in a buffer from c on.
At(buffer, c, s) ==
  /\ c + Len(s) <= Len(buffer) + 1
  /\ \A i \in 1..Len(s) : buffer[c + i - 1] = s[i]

\* read_varint returns the number that write_varint has written at the cursor,
\* and moves the cursor behind it.
LEMMA VarintIsRead ==
  ASSUME NEW buffer, buffer \in Seq(Nat), NEW read, Reads(buffer, read),
         NEW n \in Nat, NEW c \in Nat \ {0}, At(buffer, c, Varint[n])
  PROVE  read[c] = [value |-> n, cursor |-> c + Len(Varint[n])]
<1> DEFINE Found(m, d) == read[d] = [value |-> m, cursor |-> d + Len(Varint[m])]
           P == {m \in Nat : \A d \in Nat \ {0} :
                               At(buffer, d, Varint[m]) => Found(m, d)}
           rank == [m \in Nat |-> m]
<1>1. ASSUME NEW m \in Nat, \A l \in Nat : rank[l] < rank[m] => l \in P
      PROVE  m \in P
  <2> SUFFICES ASSUME NEW d \in Nat \ {0}, At(buffer, d, Varint[m])
               PROVE  Found(m, d)
    OBVIOUS
  <2> DEFINE s == Varint[m]
  <2>1. s \in Seq(Nat) /\ Len(s) > 0 /\ Len(s) \in Nat
    BY VarintFacts
  <2>2. buffer[d] = s[1] /\ d \in 1..Len(buffer) /\ Len(buffer) \in Nat
    <3>1. 1 \in 1..Len(s) /\ d + Len(s) <= Len(buffer) + 1 /\ Len(buffer) \in Nat
      BY <2>1 DEF At
    <3>2. buffer[d + 1 - 1] = s[1]
      BY <3>1 DEF At
    <3> HIDE DEF s
    <3> QED BY <2>1, <3>1, <3>2
  <2>3. read[d] = ReadStep(buffer, d, read[d + 1])
    BY <2>2 DEF Reads
  <2>4. CASE m < VarintBase
    <3>1. s = <<m>>
      BY <2>4, VarintEquation
    <3>2. s[1] = m /\ Len(s) = 1
      BY <3>1
    <3> HIDE DEF s
    <3>3. read[d] = [value |-> m, cursor |-> d + 1]
      BY <2>2, <2>3, <2>4, <3>2 DEF ReadStep
    <3> QED BY <3>2, <3>3 DEF s
  <2>5. CASE ~(m < VarintBase)
    <3> DEFINE q == m \div VarintBase
               b == (m % VarintBase) + VarintBase
               t == Varint[q]
    <3>1. /\ q \in Nat /\ q < m /\ b \in Nat /\ b >= VarintBase
          /\ m = VarintBase * q + (b - VarintBase)
      <4> DEFINE r == m % VarintBase
      <4>1. /\ q \in Nat /\ q < m /\ r \in 0..(VarintBase - 1)
            /\ m = VarintBase * q + r /\ b = r + VarintBase
        BY <2>5, LongNumber
      <4>2. VarintBase * q \in Nat
        BY <4>1
      <4> HIDE DEF q, r, b
      <4>3. b - VarintBase = r /\ b \in Nat /\ b >= VarintBase
        BY <4>1
      <4> QED BY <4>1, <4>3
    <3>2. t \in Seq(Nat) /\ Len(t) \in Nat
      BY <3>1, VarintFacts
    <3>3. s = <<b>> \o t
      BY <2>5, VarintEquation
    <3>4. q \in P
      <4> HIDE DEF q, P
      <4>1. rank[q] < rank[m]
        BY <3>1
      <4> HIDE DEF rank
      <4> QED BY <1>1, <3>1, <4>1
    <3> HIDE DEF b, t, s
    <3>5. <<b>> \in Seq(Nat) /\ Len(<<b>>) = 1 /\ <<b>>[1] = b
      BY <3>1
    <3>6. /\ Len(s) = 1 + Len(t) /\ s[1] = b
          /\ \A i \in 1..Len(t) : s[1 + i] = t[i]
      <4>1. /\ Len(s) = 1 + Len(t)
            /\ \A i \in 1..Len(s) : s[i] = IF i <= 1 THEN <<b>>[i] ELSE t[i - 1]
        BY <3>2, <3>3, <3>5, ConcatProperties
      <4>2. 1 \in 1..Len(s) /\ s[1] = b
        BY <3>2, <3>5, <4>1
      <4>3. ASSUME NEW i \in 1..Len(t)
            PROVE  s[1 + i] = t[i]
        <5>1. 1 + i \in 1..Len(s) /\ ~(1 + i <= 1) /\ (1 + i) - 1 = i
          BY <3>2, <4>1
        <5>2. s[1 + i] = t[(1 + i) - 1]
          BY <4>1, <5>1
        <5> QED BY <5>1, <5>2
      <4> QED BY <4>1, <4>2, <4>3
    <3>7. At(buffer, d + 1, t)
      <4>1. (d + 1) + Len(t) <= Len(buffer) + 1
        BY <2>2, <3>2, <3>6 DEF At, s
      <4>2. ASSUME NEW i \in 1..Len(t)
            PROVE  buffer[(d + 1) + i - 1] = t[i]
        <5>1. 1 + i \in 1..Len(s) /\ d + (1 + i) - 1 = (d + 1) + i - 1
          BY <3>2, <3>6
        <5>2. buffer[d + (1 + i) - 1] = s[1 + i]
          BY <5>1 DEF At, s
        <5> QED BY <3>6, <5>1, <5>2
      <4> QED BY <4>1, <4>2 DEF At
    <3>8. Found(q, d + 1)
      <4>1. d + 1 \in Nat \ {0}
        OBVIOUS
      <4> HIDE DEF Found, q
      <4> QED BY <3>4, <3>7, <4>1 DEF t
    <3> DEFINE rest == read[d + 1]
    <3>9. rest.value = q /\ rest.cursor = (d + 1) + Len(t)
      <4> HIDE DEF q
      <4> QED BY <3>8 DEF t
    <3> HIDE DEF rest, q
    <3>10. buffer[d] = b /\ ~(buffer[d] < VarintBase)
      BY <2>2, <3>1, <3>6
    <3>11. read[d] = [value |-> b - VarintBase + VarintBase * rest.value,
                      cursor |-> rest.cursor]
      BY <2>3, <3>10 DEF ReadStep, rest
    <3>12. b - VarintBase + VarintBase * rest.value = m
      <4>1. VarintBase * rest.value = VarintBase * q
        BY <3>9
      <4>2. VarintBase * q \in Nat
        BY <3>1
      <4> QED BY <3>1, <4>1, <4>2
    <3>13. rest.cursor = d + Len(s)
      BY <3>2, <3>6, <3>9
    <3> QED BY <3>11, <3>12, <3>13 DEF s
  <2> QED BY <2>4, <2>5
<1>2. Nat \subseteq P
  <2>1. rank \in [Nat -> Nat]
    OBVIOUS
  <2> HIDE DEF P, rank
  <2>2. Hereditary(Nat, rank, P)
    BY <1>1 DEF Hereditary
  <2> QED BY <2>1, <2>2, RankInduction
<1>3. Found(n, c)
  <2> HIDE DEF Found
  <2> QED BY <1>2
<1> QED BY <1>3

\* The numbers that follow each other in a buffer, from cursor c on.
NumbersStep(buffer, read, c, numbers) ==
  IF c > Len(buffer) THEN <<>>
  ELSE <<read[c].value>> \o numbers[read[c].cursor]

NumbersOf(buffer, read) ==
  CHOOSE g : g = [c \in 1..(Len(buffer) + 1) |-> NumbersStep(buffer, read, c, g)]

LEMMA NumbersEquation ==
  ASSUME NEW buffer, buffer \in Seq(Nat), NEW read, Reads(buffer, read)
  PROVE  \A c \in 1..(Len(buffer) + 1) :
           NumbersOf(buffer, read)[c]
             = NumbersStep(buffer, read, c, NumbersOf(buffer, read))
<1> DEFINE L == Len(buffer)
           D == 1..(L + 1)
           V == Seq(Nat)
           rank == [c \in D |-> L + 1 - c]
           stop == {L + 1}
           first == [c \in stop |-> <<>>]
           prev == [c \in D \ stop |-> read[c].cursor]
           next == [c \in D \ stop |-> [s \in V |-> <<read[c].value>> \o s]]
<1>1. L \in Nat
  OBVIOUS
<1>2. \A c \in D \ stop : /\ c \in 1..L /\ read[c].value \in Nat
                          /\ read[c].cursor \in (c + 1)..(L + 1)
  BY <1>1 DEF Reads
<1>3. first \in [stop -> V]
  <2>1. <<>> \in V
    BY EmptySeq
  <2> HIDE DEF V
  <2> QED BY <2>1
<1>4. prev \in [D \ stop -> D]
  BY <1>1, <1>2
<1>5. next \in [D \ stop -> [V -> V]]
  <2>1. ASSUME NEW c \in D \ stop, NEW s \in V
        PROVE  <<read[c].value>> \o s \in V
    <3>1. <<read[c].value>> \in Seq(Nat)
      BY <1>2
    <3> QED BY <3>1, ConcatProperties
  <2> HIDE DEF V, stop, D
  <2> QED BY <2>1
<1>6. rank \in [D -> Nat] /\ \A c \in D \ stop : rank[prev[c]] < rank[c]
  BY <1>1, <1>2, SMTT(30)
<1>7. V # {} /\ stop \in SUBSET D
  <2>1. <<>> \in V
    BY EmptySeq
  <2> HIDE DEF V
  <2> QED BY <1>1, <2>1
<1>8. Recursion(D, V, rank, stop, first, prev, next)
  <2> HIDE DEF D, V, rank, stop, first, prev, next
  <2> QED BY <1>3, <1>4, <1>5, <1>6, <1>7 DEF Recursion
<1>9. PICK f \in [D -> V] : Solves(f, D, stop, first, prev, next)
  <2> HIDE DEF D, V, rank, stop, first, prev, next
  <2> QED BY <1>8, RecursionHasSolution
<1>10. \A c \in D : f[c] = NumbersStep(buffer, read, c, f)
  <2> SUFFICES ASSUME NEW c \in D
               PROVE  f[c] = NumbersStep(buffer, read, c, f)
    OBVIOUS
  <2>1. CASE c \in stop
    <3>1. c > L
      BY <1>1, <2>1
    <3>2. f[c] = first[c] /\ first[c] = <<>>
      <4>1. first[c] = <<>>
        BY <2>1
      <4> HIDE DEF D, V, stop, first, prev, next
      <4> QED BY <1>9, <2>1, <4>1 DEF Solves
    <3> QED BY <3>1, <3>2 DEF NumbersStep
  <2>2. CASE c \notin stop
    <3> DEFINE k == read[c].cursor
    <3>1. k \in D /\ prev[c] = k /\ c \in D \ stop
      BY <1>1, <1>2, <2>2
    <3>2. f[c] = next[c][f[k]] /\ f[k] \in V
      BY <1>9, <2>2, <3>1 DEF Solves
    <3>3. f[c] = <<read[c].value>> \o f[k]
      <4> HIDE DEF V, D, stop, k
      <4> QED BY <3>1, <3>2
    <3>4. ~(c > L)
      BY <1>1, <2>2
    <3> QED BY <3>3, <3>4 DEF NumbersStep
  <2> QED BY <2>1, <2>2
<1>11. f = [c \in 1..(Len(buffer) + 1) |-> NumbersStep(buffer, read, c, f)]
  <2> HIDE DEF V
  <2> QED BY <1>10
<1> DEFINE numbers == NumbersOf(buffer, read)
<1>12. numbers = [c \in 1..(Len(buffer) + 1) |-> NumbersStep(buffer, read, c, numbers)]
  BY <1>11, Zenon DEF NumbersOf
<1> HIDE DEF numbers
<1>13. \A c \in 1..(Len(buffer) + 1) : numbers[c] = NumbersStep(buffer, read, c, numbers)
  BY <1>12
<1> QED BY <1>13 DEF numbers

LEMMA ReadVarintsIs ==
  ASSUME NEW buffer
  PROVE  ReadVarints(buffer) = NumbersOf(buffer, ReadOf(buffer))[1]
BY DEF ReadVarints, NumbersOf, NumbersStep, ReadOf, ReadStep

-----------------------------------------------------------------------------
(* Sequences written one after the other.                                  *)

FlattenOf(seqs) ==
  CHOOSE g : g = [i \in 1..Len(seqs) |->
                    IF i = 1 THEN seqs[i] ELSE g[i - 1] \o seqs[i]]

LEMMA FlattenSeqIs ==
  ASSUME NEW S, NEW seqs, seqs \in Seq(Seq(S)), Len(seqs) # 0
  PROVE  FlattenSeq(seqs) = FlattenOf(seqs)[Len(seqs)]
BY DEF FlattenSeq, FlattenOf

LEMMA FlattenEquation ==
  ASSUME NEW S, NEW seqs, seqs \in Seq(Seq(S))
  PROVE  \A i \in 1..Len(seqs) :
           /\ FlattenOf(seqs)[i] \in Seq(S)
           /\ FlattenOf(seqs)[i]
                = IF i = 1 THEN seqs[i] ELSE FlattenOf(seqs)[i - 1] \o seqs[i]
<1> DEFINE D == 1..Len(seqs)
           V == Seq(S)
           rank == [i \in D |-> i]
           stop == {i \in D : i = 1}
           first == [i \in stop |-> seqs[i]]
           prev == [i \in D \ stop |-> i - 1]
           next == [i \in D \ stop |-> [s \in V |-> s \o seqs[i]]]
<1>1. Len(seqs) \in Nat /\ \A i \in D : seqs[i] \in V
  <2> HIDE DEF V
  <2> QED BY DEF V
<1>2. first \in [stop -> V]
  <2> HIDE DEF V
  <2> QED BY <1>1
<1>3. prev \in [D \ stop -> D] /\ rank \in [D -> Nat] /\ stop \in SUBSET D
      /\ \A i \in D \ stop : rank[prev[i]] < rank[i]
  BY <1>1
<1>4. next \in [D \ stop -> [V -> V]]
  <2>1. ASSUME NEW i \in D \ stop, NEW s \in V
        PROVE  s \o seqs[i] \in V
    BY <1>1, ConcatProperties
  <2> HIDE DEF V, stop, D
  <2> QED BY <2>1
<1>5. V # {}
  <2>1. <<>> \in V
    BY EmptySeq
  <2> HIDE DEF V
  <2> QED BY <2>1
<1>6. Recursion(D, V, rank, stop, first, prev, next)
  <2> HIDE DEF D, V, rank, stop, first, prev, next
  <2> QED BY <1>2, <1>3, <1>4, <1>5 DEF Recursion
<1>7. PICK f \in [D -> V] : Solves(f, D, stop, first, prev, next)
  <2> HIDE DEF D, V, rank, stop, first, prev, next
  <2> QED BY <1>6, RecursionHasSolution
<1>8. \A i \in D : f[i] = IF i = 1 THEN seqs[i] ELSE f[i - 1] \o seqs[i]
  <2> SUFFICES ASSUME NEW i \in D
               PROVE  f[i] = IF i = 1 THEN seqs[i] ELSE f[i - 1] \o seqs[i]
    OBVIOUS
  <2>1. CASE i = 1
    BY <1>7, <2>1 DEF Solves
  <2>2. CASE i # 1
    <3>1. i - 1 \in D /\ prev[i] = i - 1 /\ i \in D \ stop
      BY <1>1, <2>2
    <3>2. f[i] = next[i][f[i - 1]] /\ f[i - 1] \in V
      BY <1>7, <3>1 DEF Solves
    <3>3. f[i] = f[i - 1] \o seqs[i]
      <4> HIDE DEF V, D, stop
      <4> QED BY <3>1, <3>2
    <3> QED BY <2>2, <3>3
  <2> QED BY <2>1, <2>2
<1>9. f = [i \in 1..Len(seqs) |-> IF i = 1 THEN seqs[i] ELSE f[i - 1] \o seqs[i]]
  <2> HIDE DEF V
  <2> QED BY <1>8
<1> DEFINE g == FlattenOf(seqs)
<1>10. g = [i \in 1..Len(seqs) |-> IF i = 1 THEN seqs[i] ELSE g[i - 1] \o seqs[i]]
  BY <1>9, Zenon DEF FlattenOf
<1> HIDE DEF g
<1>11. \A i \in D : g[i] = IF i = 1 THEN seqs[i] ELSE g[i - 1] \o seqs[i]
  BY <1>10
<1> DEFINE P == {i \in D : g[i] \in V}
<1>12. ASSUME NEW i \in D, \A j \in D : rank[j] < rank[i] => j \in P
       PROVE  i \in P
  <2>1. CASE i = 1
    BY <1>1, <1>11, <2>1
  <2>2. CASE i # 1
    <3>1. i - 1 \in D
      BY <1>1, <2>2
    <3>2. rank[i - 1] < rank[i]
      BY <3>1
    <3>3. i - 1 \in P
      <4> HIDE DEF D, rank, P
      <4> QED BY <1>12, <3>1, <3>2
    <3>4. g[i] = g[i - 1] \o seqs[i] /\ g[i - 1] \in V /\ seqs[i] \in V
      <4> HIDE DEF V
      <4> QED BY <1>1, <1>11, <2>2, <3>3
    <3>5. g[i] \in V
      BY <3>4, ConcatProperties
    <3> QED BY <3>5
  <2> QED BY <2>1, <2>2
<1>13. D \subseteq P
  <2>1. Hereditary(D, rank, P)
    <3> HIDE DEF D, rank, P
    <3> QED BY <1>12 DEF Hereditary
  <2> HIDE DEF D, rank, P, stop, first, prev, next, V
  <2> QED BY <1>3, <2>1, RankInduction
<1> QED BY <1>11, <1>13 DEF g

\* The first n of some sequences fill a buffer, the k-th of them ending at e[k].
Parts(S, buffer, seqs, n, e) ==
  /\ buffer \in Seq(S)
  /\ e \in [0..n -> Nat] /\ e[0] = 0 /\ e[n] = Len(buffer)
  /\ \A k \in 1..n : /\ e[k] = e[k - 1] + Len(seqs[k])
                     /\ At(buffer, e[k - 1] + 1, seqs[k])

\* Writing one more sequence leaves those that have been written in place.
LEMMA PartsAreExtended ==
  ASSUME NEW S, NEW buffer, NEW seqs, NEW n \in Nat, NEW e,
         Parts(S, buffer, seqs, n, e), seqs[n + 1] \in Seq(S)
  PROVE  Parts(S, buffer \o seqs[n + 1], seqs, n + 1,
               [k \in 0..(n + 1) |-> IF k = n + 1 THEN Len(buffer) + Len(seqs[n + 1])
                                     ELSE e[k]])
<1> DEFINE s == seqs[n + 1]
           longer == buffer \o s
           ends == [k \in 0..(n + 1) |-> IF k = n + 1 THEN Len(buffer) + Len(s) ELSE e[k]]
<1>1. buffer \in Seq(S) /\ Len(buffer) \in Nat /\ s \in Seq(S) /\ Len(s) \in Nat
  BY DEF Parts
<1>2. /\ longer \in Seq(S) /\ Len(longer) = Len(buffer) + Len(s)
      /\ \A i \in 1..Len(longer) :
           longer[i] = IF i <= Len(buffer) THEN buffer[i] ELSE s[i - Len(buffer)]
  <2> HIDE DEF s
  <2> QED BY <1>1, ConcatProperties
<1>3. ends \in [0..(n + 1) -> Nat] /\ ends[0] = 0 /\ ends[n + 1] = Len(longer)
  <2>1. \A k \in 0..n : e[k] \in Nat
    BY DEF Parts
  <2>2. e[0] = 0
    BY DEF Parts
  <2> HIDE DEF longer, s
  <2> QED BY <1>1, <1>2, <2>1, <2>2
<1>4. \A k \in 0..n : ends[k] = e[k]
  OBVIOUS
<1> HIDE DEF ends, s, longer
<1>5. ASSUME NEW k \in 1..n
      PROVE  /\ ends[k] = ends[k - 1] + Len(seqs[k])
             /\ At(longer, ends[k - 1] + 1, seqs[k])
  <2>1. k \in 0..n /\ k - 1 \in 0..n
    OBVIOUS
  <2>2. e[k] = e[k - 1] + Len(seqs[k]) /\ At(buffer, e[k - 1] + 1, seqs[k])
    BY DEF Parts
  <2>3. e[k - 1] \in Nat /\ e[k] \in Nat
    BY <2>1 DEF Parts
  <2> DEFINE c == e[k - 1] + 1
             l == Len(seqs[k])
  <2>4. c \in Nat /\ c >= 1 /\ l \in Int
    BY <2>2, <2>3 DEF At
  <2>5. c + l <= Len(buffer) + 1 /\ \A i \in 1..l : buffer[c + i - 1] = seqs[k][i]
    BY <2>2 DEF At
  <2> HIDE DEF c, l
  <2>6. \A i \in 1..l : longer[c + i - 1] = seqs[k][i]
    <3> SUFFICES ASSUME NEW i \in 1..l
                 PROVE  longer[c + i - 1] = seqs[k][i]
      OBVIOUS
    <3>1. c + i - 1 \in 1..Len(longer) /\ c + i - 1 <= Len(buffer)
      BY <1>1, <1>2, <2>4, <2>5
    <3> QED BY <1>2, <2>5, <3>1
  <2>7. c + l <= Len(longer) + 1
    BY <1>1, <1>2, <2>4, <2>5
  <2>8. At(longer, c, seqs[k])
    BY <2>6, <2>7 DEF At, l
  <2> QED BY <1>4, <2>1, <2>2, <2>8 DEF c
<1>6. /\ ends[n + 1] = ends[n] + Len(s)
      /\ At(longer, ends[n] + 1, s)
  <2>1. ends[n] = Len(buffer)
    <3>1. n \in 0..n
      OBVIOUS
    <3> QED BY <1>4, <3>1 DEF Parts
  <2>2. \A i \in 1..Len(s) : longer[(Len(buffer) + 1) + i - 1] = s[i]
    <3> SUFFICES ASSUME NEW i \in 1..Len(s)
                 PROVE  longer[(Len(buffer) + 1) + i - 1] = s[i]
      OBVIOUS
    <3> DEFINE j == (Len(buffer) + 1) + i - 1
    <3>1. /\ j \in 1..Len(longer) /\ ~(j <= Len(buffer)) /\ j - Len(buffer) = i
      BY <1>1, <1>2
    <3> HIDE DEF j
    <3>2. longer[j] = s[j - Len(buffer)]
      BY <1>2, <3>1
    <3> QED BY <3>1, <3>2 DEF j
  <2>3. (Len(buffer) + 1) + Len(s) <= Len(longer) + 1
    BY <1>1, <1>2
  <2> QED BY <1>1, <1>2, <1>3, <2>1, <2>2, <2>3 DEF At
<1>7. \A k \in 1..(n + 1) : /\ ends[k] = ends[k - 1] + Len(seqs[k])
                            /\ At(longer, ends[k - 1] + 1, seqs[k])
  <2> SUFFICES ASSUME NEW k \in 1..(n + 1)
               PROVE  /\ ends[k] = ends[k - 1] + Len(seqs[k])
                      /\ At(longer, ends[k - 1] + 1, seqs[k])
    OBVIOUS
  <2>1. CASE k = n + 1
    <3>1. k - 1 = n
      BY <2>1
    <3> QED BY <1>6, <2>1, <3>1 DEF s
  <2>2. CASE k # n + 1
    <3>1. k \in 1..n
      BY <2>2
    <3> QED BY <1>5, <3>1
  <2> QED BY <2>1, <2>2
<1>8. Parts(S, longer, seqs, n + 1, ends)
  BY <1>2, <1>3, <1>7 DEF Parts
<1> QED BY <1>8 DEF ends, longer, s

LEMMA FlattenedParts ==
  ASSUME NEW S, NEW seqs, seqs \in Seq(Seq(S))
  PROVE  \E e : Parts(S, FlattenSeq(seqs), seqs, Len(seqs), e)
<1> DEFINE n == Len(seqs)
           flat == FlattenOf(seqs)
<1>1. n \in Nat /\ \A i \in 1..n : seqs[i] \in Seq(S)
  OBVIOUS
<1>2. CASE n = 0
  <2>1. seqs = <<>> /\ FlattenSeq(seqs) = seqs
    BY <1>2, EmptySeq DEF FlattenSeq
  <2> DEFINE e == [k \in 0..0 |-> 0]
  <2>2. Parts(S, <<>>, seqs, 0, e)
    <3>1. <<>> \in Seq(S) /\ Len(<<>>) = 0
      BY EmptySeq
    <3> QED BY <3>1 DEF Parts
  <2> HIDE DEF e
  <2> QED BY <1>2, <2>1, <2>2
<1>3. CASE n # 0
  <2> DEFINE D == 1..n
             rank == [i \in D |-> i]
             P == {i \in D : \E e : Parts(S, flat[i], seqs, i, e)}
  <2>1. ASSUME NEW i \in D, \A j \in D : rank[j] < rank[i] => j \in P
        PROVE  i \in P
    <3>1. CASE i = 1
      <4>1. flat[1] = seqs[1] /\ seqs[1] \in Seq(S)
        BY <1>1, <3>1, FlattenEquation
      <4> DEFINE none == [k \in 0..0 |-> 0]
      <4>2. Parts(S, <<>>, seqs, 0, none)
        <5>1. <<>> \in Seq(S) /\ Len(<<>>) = 0
          BY EmptySeq
        <5> QED BY <5>1 DEF Parts
      <4> HIDE DEF none
      <4>3. \E e : Parts(S, <<>> \o seqs[0 + 1], seqs, 0 + 1, e)
        <5>1. seqs[0 + 1] \in Seq(S) /\ 0 \in Nat
          BY <4>1
        <5> QED BY <4>2, <5>1, PartsAreExtended
      <4>4. <<>> \o seqs[1] = seqs[1]
        BY <4>1, ConcatEmptySeq
      <4> HIDE DEF flat
      <4>5. \E e : Parts(S, seqs[1], seqs, 1, e)
        BY <4>3, <4>4
      <4> QED BY <3>1, <4>1, <4>5
    <3>2. CASE i # 1
      <4>1. i - 1 \in D /\ i - 1 \in Nat /\ (i - 1) + 1 = i /\ seqs[i] \in Seq(S)
        BY <1>1, <3>2
      <4>2. rank[i - 1] < rank[i]
        BY <4>1
      <4>3. i - 1 \in P
        <5> HIDE DEF D, rank, P
        <5> QED BY <2>1, <4>1, <4>2
      <4>4. PICK e : Parts(S, flat[i - 1], seqs, i - 1, e)
        BY <4>3
      <4>5. \E f : Parts(S, flat[i - 1] \o seqs[(i - 1) + 1], seqs, (i - 1) + 1, f)
        <5> HIDE DEF flat
        <5> QED BY <4>1, <4>4, PartsAreExtended
      <4>6. flat[i] = flat[i - 1] \o seqs[i]
        BY <3>2, FlattenEquation
      <4> HIDE DEF flat
      <4>7. \E f : Parts(S, flat[i], seqs, i, f)
        BY <4>1, <4>5, <4>6
      <4> QED BY <4>7
    <3> QED BY <3>1, <3>2
  <2>2. D \subseteq P
    <3>1. rank \in [D -> Nat]
      BY <1>1
    <3>2. Hereditary(D, rank, P)
      <4> HIDE DEF D, rank, P
      <4> QED BY <2>1 DEF Hereditary
    <3> HIDE DEF D, rank, P
    <3> QED BY <3>1, <3>2, RankInduction
  <2>3. n \in P
    <3>1. n \in D
      BY <1>1, <1>3
    <3> HIDE DEF P, D, n
    <3> QED BY <2>2, <3>1
  <2>4. FlattenSeq(seqs) = flat[n]
    BY <1>3, FlattenSeqIs
  <2> HIDE DEF flat
  <2> QED BY <2>3, <2>4
<1> QED BY <1>2, <1>3

\* What read_varint reads with one cursor are the numbers that write_varint has
\* written, for any list of numbers and any payload of a byte.
LEMMA VarintsRoundTrip ==
  ASSUME NEW numbers \in Seq(Nat)
  PROVE  ReadVarints(WriteVarints(numbers)) = numbers
<1> DEFINE n == Len(numbers)
           seqs == [k \in 1..n |-> Varint[numbers[k]]]
           buffer == WriteVarints(numbers)
<1>1. n \in Nat /\ \A k \in 1..n : numbers[k] \in Nat
  OBVIOUS
<1>2. seqs \in Seq(Seq(Nat)) /\ Len(seqs) = n
  <2>1. \A k \in 1..n : Varint[numbers[k]] \in Seq(Nat)
    BY <1>1, VarintFacts
  <2> QED BY <1>1, <2>1
<1>3. \A k \in 1..n : /\ seqs[k] = Varint[numbers[k]]
                      /\ Len(seqs[k]) \in Nat /\ Len(seqs[k]) > 0
                      /\ seqs[k][Len(seqs[k])] < VarintBase
  BY <1>1, VarintFacts
<1>4. buffer = FlattenSeq(seqs)
  BY DEF WriteVarints
<1> HIDE DEF seqs, buffer, n
<1>5. PICK e : Parts(Nat, buffer, seqs, n, e)
  <2>1. \E e : Parts(Nat, FlattenSeq(seqs), seqs, Len(seqs), e)
    BY <1>2, FlattenedParts
  <2> QED BY <1>2, <1>4, <2>1
<1>6. /\ buffer \in Seq(Nat) /\ Len(buffer) \in Nat
      /\ e[0] = 0 /\ e[n] = Len(buffer)
      /\ \A k \in 0..n : e[k] \in Nat
  BY <1>5, SMTT(30) DEF Parts
<1>7. \A k \in 1..n : /\ e[k] = e[k - 1] + Len(seqs[k])
                      /\ At(buffer, e[k - 1] + 1, seqs[k])
                      /\ e[k - 1] \in Nat /\ e[k] \in Nat
  <2> SUFFICES ASSUME NEW k \in 1..n
               PROVE  /\ e[k] = e[k - 1] + Len(seqs[k])
                      /\ At(buffer, e[k - 1] + 1, seqs[k])
                      /\ e[k - 1] \in Nat /\ e[k] \in Nat
    OBVIOUS
  <2>1. k \in 0..n /\ k - 1 \in 0..n
    BY <1>1
  <2> QED BY <1>5, <1>6, <2>1 DEF Parts
<1>8. Terminated(buffer)
  <2>1. CASE n = 0
    <3>1. Len(buffer) = 0
      BY <1>6, <2>1
    <3> HIDE DEF n
    <3> QED BY <1>6, <3>1 DEF Terminated
  <2>2. CASE n # 0
    <3> DEFINE s == seqs[n]
               l == Len(s)
    <3>1. n \in 1..n
      BY <1>1, <2>2
    <3>2. /\ l \in Nat /\ l > 0 /\ s[l] < VarintBase
          /\ Len(buffer) = e[n - 1] + l /\ e[n - 1] \in Nat
          /\ At(buffer, e[n - 1] + 1, s)
      BY <1>3, <1>6, <1>7, <3>1
    <3> HIDE DEF s
    <3>3. buffer[(e[n - 1] + 1) + l - 1] = s[l]
      <4>1. l \in 1..l
        BY <3>2
      <4> QED BY <3>2, <4>1 DEF At
    <3>4. (e[n - 1] + 1) + l - 1 = Len(buffer)
      BY <3>2
    <3> QED BY <1>6, <3>2, <3>3, <3>4 DEF Terminated
  <2> QED BY <2>1, <2>2
<1> DEFINE read == ReadOf(buffer)
           found == NumbersOf(buffer, read)
<1>9. Reads(buffer, read)
  BY <1>8, ReadsTheBuffer
<1>10. ReadVarints(buffer) = found[1]
  BY ReadVarintsIs
<1>11. \A c \in 1..(Len(buffer) + 1) : found[c] = NumbersStep(buffer, read, c, found)
  <2> HIDE DEF read
  <2> QED BY <1>6, <1>9, NumbersEquation
<1> HIDE DEF read, found
<1>12. \A k \in 1..n : read[e[k - 1] + 1] = [value |-> numbers[k], cursor |-> e[k] + 1]
  <2> SUFFICES ASSUME NEW k \in 1..n
               PROVE  read[e[k - 1] + 1] = [value |-> numbers[k], cursor |-> e[k] + 1]
    OBVIOUS
  <2> DEFINE c == e[k - 1] + 1
  <2>1. /\ seqs[k] = Varint[numbers[k]] /\ Len(seqs[k]) \in Nat
        /\ e[k] = e[k - 1] + Len(seqs[k]) /\ e[k - 1] \in Nat
        /\ At(buffer, c, seqs[k])
    BY <1>3, <1>7
  <2> DEFINE s == seqs[k]
             x == numbers[k]
             l == Len(s)
  <2>2. c \in Nat \ {0} /\ c + l = e[k] + 1
    <3>1. l \in Nat /\ e[k] = e[k - 1] + l /\ e[k - 1] \in Nat
      BY <2>1
    <3> HIDE DEF l
    <3> QED BY <3>1
  <2>3. At(buffer, c, Varint[x]) /\ Varint[x] = s /\ x \in Nat
    BY <1>1, <2>1
  <2> HIDE DEF c, x, s
  <2>4. read[c] = [value |-> x, cursor |-> c + Len(Varint[x])]
    <3>1. buffer \in Seq(Nat)
      BY <1>6
    <3>2. c \in Nat \ {0}
      BY <2>2
    <3>3. At(buffer, c, Varint[x])
      BY <2>3
    <3>4. x \in Nat
      BY <2>3
    <3>5. \A m \in Nat, d \in Nat \ {0} :
            At(buffer, d, Varint[m])
              => read[d] = [value |-> m, cursor |-> d + Len(Varint[m])]
      BY <1>9, <3>1, VarintIsRead
    <3> QED BY <3>2, <3>3, <3>4, <3>5
  <2>5. read[c] = [value |-> x, cursor |-> e[k] + 1]
    BY <2>2, <2>3, <2>4
  <2> QED BY <2>5 DEF c, x
\* From the end of the buffer to its start.
<1> DEFINE rest(k) == SubSeq(numbers, k + 1, n)
           D == 0..n
           rank == [k \in D |-> n - k]
           P == {k \in D : found[e[k] + 1] = rest(k)}
<1>13. ASSUME NEW k \in D, \A j \in D : rank[j] < rank[k] => j \in P
       PROVE  k \in P
  <2>1. CASE k = n
    <3>1. rest(k) = <<>>
      BY <1>1, <2>1
    <3> HIDE DEF rest
    <3>2. Len(buffer) + 1 \in 1..(Len(buffer) + 1) /\ Len(buffer) + 1 > Len(buffer)
      BY <1>6
    <3>3. found[Len(buffer) + 1] = <<>>
      BY <1>11, <3>2 DEF NumbersStep
    <3> QED BY <1>6, <2>1, <3>1, <3>3
  <2>2. CASE k # n
    <3>1. k + 1 \in D /\ k + 1 \in 1..n /\ (k + 1) - 1 = k
      BY <1>1, <2>2
    <3>2. k + 1 \in P
      <4>1. rank[k + 1] < rank[k]
        BY <1>1, <3>1
      <4> HIDE DEF D, rank, P
      <4> QED BY <1>13, <3>1, <4>1
    <3>3. found[e[k + 1] + 1] = rest(k + 1)
      BY <3>2
    <3>4. read[e[k] + 1] = [value |-> numbers[k + 1], cursor |-> e[k + 1] + 1]
      BY <1>12, <3>1
    <3>5. e[k] + 1 \in 1..Len(buffer)
      <4>1. At(buffer, e[k] + 1, seqs[k + 1]) /\ e[k] \in Nat
        BY <1>7, <3>1
      <4>2. Len(seqs[k + 1]) \in Nat /\ Len(seqs[k + 1]) > 0
        BY <1>3, <3>1
      <4>3. (e[k] + 1) + Len(seqs[k + 1]) <= Len(buffer) + 1
        BY <4>1 DEF At
      <4>4. Len(buffer) \in Nat
        BY <1>6
      <4> QED BY <4>1, <4>2, <4>3, <4>4
    <3> DEFINE c == e[k] + 1
               x == numbers[k + 1]
    <3>6. found[c] = <<read[c].value>> \o found[read[c].cursor]
      <4>1. c \in 1..(Len(buffer) + 1) /\ ~(c > Len(buffer))
        BY <1>6, <3>5
      <4> HIDE DEF c
      <4> QED BY <1>11, <4>1 DEF NumbersStep
    <3>7. read[c].value = x /\ read[c].cursor = e[k + 1] + 1
      BY <3>4
    <3>8. found[c] = <<x>> \o rest(k + 1)
      <4> HIDE DEF c, x, rest
      <4> QED BY <3>3, <3>6, <3>7
    <3>9. <<x>> \o rest(k + 1) = rest(k)
      <4>1. k + 1 \in 1..Len(numbers) /\ n \in (k + 1)..Len(numbers)
        BY <1>1, <3>1 DEF n
      <4> QED BY <4>1, SubSeqRecursiveFirst
    <3>10. found[c] = rest(k)
      BY <3>8, <3>9
    <3> HIDE DEF rest
    <3> QED BY <3>10
  <2> QED BY <2>1, <2>2
<1>14. D \subseteq P
  <2>1. rank \in [D -> Nat]
    BY <1>1
  <2>2. Hereditary(D, rank, P)
    <3> HIDE DEF D, rank, P
    <3> QED BY <1>13 DEF Hereditary
  <2> HIDE DEF D, rank, P
  <2> QED BY <2>1, <2>2, RankInduction
<1>15. found[1] = rest(0)
  <2>1. 0 \in P
    <3>1. 0 \in D
      BY <1>1
    <3> HIDE DEF D, P
    <3> QED BY <1>14, <3>1
  <2> HIDE DEF rest
  <2> QED BY <1>6, <2>1
<1>16. rest(0) = numbers
  <2>1. SubSeq(numbers, 1, Len(numbers)) = numbers
    BY SubSeqFull
  <2> QED BY <2>1 DEF n
<1> HIDE DEF rest
<1> QED BY <1>10, <1>15, <1>16 DEF buffer

HIDE VarintAssumption

-----------------------------------------------------------------------------
(* Changed indices in ascending order.                                     *)

USE BalanceAssumption

\* A loop over ascending indices that counts what it has stored finds each
\* value at the rank of its index.
LEMMA RankFacts ==
  ASSUME NEW n \in Nat, NEW S \in SUBSET (1..n), NEW i \in S
  PROVE  Rank(S, i) \in 1..Cardinality(S) /\ Nth(S, Rank(S, i)) = i
<1> DEFINE upTo(j) == {k \in S : k <= j}
<1>1. IsFiniteSet(S)
  <2>1. IsFiniteSet(1..n)
    BY FS_Interval
  <2> QED BY <2>1, FS_Subset
<1>2. \A j \in S : /\ IsFiniteSet(upTo(j)) /\ Cardinality(upTo(j)) \in Nat
                   /\ Cardinality(upTo(j)) <= Cardinality(S)
  <2> SUFFICES ASSUME NEW j \in S
               PROVE  /\ IsFiniteSet(upTo(j)) /\ Cardinality(upTo(j)) \in Nat
                      /\ Cardinality(upTo(j)) <= Cardinality(S)
    OBVIOUS
  <2>1. upTo(j) \in SUBSET S
    OBVIOUS
  <2> HIDE DEF upTo
  <2>2. IsFiniteSet(upTo(j)) /\ Cardinality(upTo(j)) <= Cardinality(S)
    BY <1>1, <2>1, FS_Subset
  <2> QED BY <2>2, FS_CardinalityType
<1>3. \A j, k \in S : j < k => Cardinality(upTo(j)) < Cardinality(upTo(k))
  <2> SUFFICES ASSUME NEW j \in S, NEW k \in S, j < k
               PROVE  Cardinality(upTo(j)) < Cardinality(upTo(k))
    OBVIOUS
  <2>1. k \notin upTo(j) /\ upTo(j) \cup {k} \in SUBSET upTo(k)
    <3>1. \A l \in S : l \in Int
      OBVIOUS
    <3>2. k \notin upTo(j)
      BY <3>1
    <3>3. \A l \in upTo(j) : l \in upTo(k)
      BY <3>1
    <3>4. k \in upTo(k)
      BY <3>1
    <3> QED BY <3>2, <3>3, <3>4
  <2> HIDE DEF upTo
  <2>2. Cardinality(upTo(j) \cup {k}) = Cardinality(upTo(j)) + 1
    BY <1>2, <2>1, FS_AddElement
  <2>3. Cardinality(upTo(j) \cup {k}) <= Cardinality(upTo(k))
    BY <1>2, <2>1, FS_Subset
  <2> QED BY <1>2, <2>2, <2>3
<1>4. Cardinality(upTo(i)) # 0
  <2>1. i \in upTo(i)
    OBVIOUS
  <2> HIDE DEF upTo
  <2> QED BY <1>2, <2>1, FS_EmptySet
<1>5. \A j \in S : Rank(S, j) = Cardinality(upTo(j))
  BY DEF Rank
<1> HIDE DEF upTo
<1>6. Rank(S, i) \in 1..Cardinality(S)
  BY <1>1, <1>2, <1>4, <1>5, FS_CardinalityType
<1>7. \A j \in S : Rank(S, j) = Rank(S, i) => j = i
  <2> SUFFICES ASSUME NEW j \in S, Rank(S, j) = Rank(S, i), j # i
               PROVE  FALSE
    OBVIOUS
  <2>1. j < i \/ i < j
    OBVIOUS
  <2> QED BY <1>2, <1>3, <1>5, <2>1
<1>8. Nth(S, Rank(S, i)) = i
  BY <1>7 DEF Nth
<1> QED BY <1>6, <1>8

\* Every place that is stored holds a member of the set.
LEMMA RankOfNth ==
  ASSUME NEW n \in Nat, NEW S \in SUBSET (1..n), NEW k \in 1..Cardinality(S)
  PROVE  Nth(S, k) \in S /\ Rank(S, Nth(S, k)) = k
<1> DEFINE T == 1..Cardinality(S)
           rank == [i \in S |-> Rank(S, i)]
<1>1. IsFiniteSet(S) /\ Cardinality(S) \in Nat
  <2>1. IsFiniteSet(1..n)
    BY FS_Interval
  <2>2. IsFiniteSet(S)
    BY <2>1, FS_Subset
  <2> QED BY <2>2, FS_CardinalityType
<1>2. IsFiniteSet(T) /\ Cardinality(T) = Cardinality(S)
  BY <1>1, FS_Interval
<1>3. rank \in Injection(S, T)
  <2>1. \A i \in S : rank[i] \in T /\ Nth(S, rank[i]) = i
    BY RankFacts
  <2> QED BY <2>1 DEF Injection, IsInjective
<1>4. rank \in Surjection(S, T)
  <2> HIDE DEF rank, T
  <2> QED BY <1>2, <1>3, FS_Injection
<1>5. PICK i \in S : Rank(S, i) = k
  BY <1>4 DEF Surjection
<1> QED BY <1>5, RankFacts

\* The members of a set come in ascending order.
LEMMA NthAscends ==
  ASSUME NEW n \in Nat, NEW S \in SUBSET (1..n), NEW k \in 2..Cardinality(S)
  PROVE  /\ k - 1 \in 1..Cardinality(S)
         /\ Nth(S, k - 1) \in S /\ Nth(S, k) \in S /\ Nth(S, k - 1) < Nth(S, k)
<1> DEFINE i == Nth(S, k - 1)
           j == Nth(S, k)
           upTo(x) == {y \in S : y <= x}
<1>1. IsFiniteSet(S) /\ Cardinality(S) \in Nat
  <2>1. IsFiniteSet(1..n)
    BY FS_Interval
  <2>2. IsFiniteSet(S)
    BY <2>1, FS_Subset
  <2> QED BY <2>2, FS_CardinalityType
<1>2. k - 1 \in 1..Cardinality(S) /\ k \in 1..Cardinality(S)
  BY <1>1
<1>3. i \in S /\ j \in S /\ Rank(S, i) = k - 1 /\ Rank(S, j) = k
  BY <1>2, RankOfNth
<1> HIDE DEF i, j
<1>4. ~(j <= i)
  <2> SUFFICES ASSUME j <= i
               PROVE  FALSE
    OBVIOUS
  <2>1. upTo(j) \in SUBSET upTo(i) /\ upTo(i) \in SUBSET S
    <3>1. i \in Int /\ j \in Int /\ \A y \in S : y \in Int
      BY <1>3
    <3>2. \A y \in upTo(j) : y \in upTo(i)
      BY <3>1
    <3>3. \A y \in upTo(i) : y \in S
      OBVIOUS
    <3> HIDE DEF upTo
    <3> QED BY <3>2, <3>3
  <2>2. Cardinality(upTo(j)) <= Cardinality(upTo(i))
    <3> HIDE DEF upTo
    <3>1. IsFiniteSet(upTo(i))
      BY <1>1, <2>1, FS_Subset
    <3> QED BY <2>1, <3>1, FS_Subset
  <2>3. Cardinality(upTo(j)) = k /\ Cardinality(upTo(i)) = k - 1
    BY <1>3 DEF Rank
  <2> QED BY <1>2, <2>2, <2>3
<1>5. i \in Int /\ j \in Int
  BY <1>3
<1> QED BY <1>2, <1>3, <1>4, <1>5 DEF i, j

LEMMA PushedAtRank ==
  ASSUME NEW n \in Nat, NEW S \in SUBSET (1..n), NEW i \in S, NEW value
  PROVE  Pushed(S, value)[Rank(S, i)] = value[i]
BY RankFacts DEF Pushed

LEMMA DifferingFacts ==
  ASSUME NEW base \in Seq(Nat), NEW target \in Seq(Nat), Len(base) <= Len(target)
  PROVE  LET changed == Differing(base, target)
         IN  /\ changed = {i \in 1..Len(base) : base[i] # target[i]}
             /\ changed \in SUBSET (1..Len(base))
             /\ Len(base) \in Nat /\ Len(base) <= Len(target)
             /\ Cardinality(changed) \in Nat
<1> DEFINE changed == Differing(base, target)
<1>1. Len(base) \in Nat /\ Len(target) \in Nat
  OBVIOUS
<1>2. changed = {i \in 1..Len(base) : base[i] # target[i]}
  BY DEF Differing, Common
<1>3. changed \in SUBSET (1..Len(base))
  BY <1>2
<1> HIDE DEF changed
<1>4. IsFiniteSet(1..Len(base))
  BY <1>1, FS_Interval
<1>5. IsFiniteSet(changed)
  BY <1>3, <1>4, FS_Subset
<1>6. Cardinality(changed) \in Nat
  BY <1>5, FS_CardinalityType
<1> QED BY <1>1, <1>2, <1>3, <1>6 DEF changed

\* A list that has the target's values where base and target agree: the base,
\* or the target itself.
Between(list, base, target) ==
  /\ list \in Seq(Nat) /\ Len(list) = Len(base)
  /\ \A i \in 1..Len(base) : i \in Differing(base, target) \/ list[i] = target[i]

\* The places at which the changed values are written.
AreNth(places, changed) ==
  \A k \in 1..Cardinality(changed) : places[k] = Nth(changed, k)

\* Writing the changed values at their places, and adding the new ones, makes
\* such a list the target.
LEMMA WrittenChanges ==
  ASSUME NEW base \in Seq(Nat), NEW target \in Seq(Nat),
         Len(base) <= Len(target), NEW list, Between(list, base, target),
         NEW places, AreNth(places, Differing(base, target))
  PROVE  WriteAt(list, places, Pushed(Differing(base, target), target))
           \o Remaining(base, target) = target
<1> DEFINE n == Len(base)
           changed == Differing(base, target)
           values == Pushed(changed, target)
           appended == Remaining(base, target)
<1>1. /\ n \in Nat /\ changed \in SUBSET (1..n) /\ Cardinality(changed) \in Nat
      /\ n \in 0..Len(target) /\ Len(target) \in Nat
  BY DifferingFacts
<1>2. Len(values) = Cardinality(changed)
  <2> HIDE DEF changed
  <2> QED BY <1>1 DEF Pushed
<1> HIDE DEF changed
<1>3. \A k \in 1..Len(values) : values[k] = target[places[k]]
  <2> SUFFICES ASSUME NEW k \in 1..Len(values)
               PROVE  values[k] = target[places[k]]
    OBVIOUS
  <2>1. places[k] = Nth(changed, k) /\ values[k] = target[Nth(changed, k)]
    BY <1>2 DEF Pushed, AreNth, changed
  <2> QED BY <2>1
<1>4. \A i \in changed : \E k \in 1..Len(values) : places[k] = i
  <2> SUFFICES ASSUME NEW i \in changed
               PROVE  \E k \in 1..Len(values) : places[k] = i
    OBVIOUS
  <2>1. Rank(changed, i) \in 1..Len(values) /\ Nth(changed, Rank(changed, i)) = i
    BY <1>1, <1>2, RankFacts
  <2> QED BY <1>2, <2>1 DEF AreNth, changed
<1> DEFINE writes(i) == {k \in 1..Len(values) : places[k] = i}
<1>5. \A i \in 1..n : (IF writes(i) = {} THEN list[i] ELSE values[Max(writes(i))])
                         = target[i]
  <2> SUFFICES ASSUME NEW i \in 1..n
               PROVE  (IF writes(i) = {} THEN list[i] ELSE values[Max(writes(i))])
                         = target[i]
    OBVIOUS
  <2> HIDE DEF values
  <2>1. CASE writes(i) = {}
    BY <1>4, <2>1 DEF Between, changed
  <2>2. CASE writes(i) # {}
    <3>1. Len(values) \in Nat
      BY <1>1, <1>2
    <3>2. /\ writes(i) \subseteq 0..((Len(values) + 1) - 1)
          /\ Len(values) + 1 \in Nat
      BY <3>1
    <3>3. Max(writes(i)) \in writes(i)
      <4> HIDE DEF writes
      <4> QED BY <2>2, <3>2, GreatestExists
    <3> QED BY <1>3, <2>2, <3>3
  <2> QED BY <2>1, <2>2
<1>6. WriteAt(list, places, values) = [i \in 1..n |-> target[i]]
  <2>1. WriteAt(list, places, values)
          = [i \in 1..n |-> IF writes(i) = {} THEN list[i] ELSE values[Max(writes(i))]]
    BY DEF WriteAt, Between
  <2> HIDE DEF writes, values, n
  <2> QED BY <1>5, <2>1
<1>7. SubSeq(target, 1, n) = [i \in 1..n |-> target[i]]
  BY <1>1
<1>8. SubSeq(target, 1, n) \o appended = target
  <2>1. 1 \in 1..(Len(target) + 1) /\ Len(target) \in n..Len(target)
        /\ n \in (1 - 1)..Len(target)
    BY <1>1
  <2>2. SubSeq(target, 1, n) \o SubSeq(target, n + 1, Len(target))
          = SubSeq(target, 1, Len(target))
    BY <2>1, ConcatAdjacentSubSeq, Zenon
  <2> QED BY <2>2, SubSeqFull DEF Remaining
<1> QED BY <1>6, <1>7, <1>8, Zenon DEF changed

-----------------------------------------------------------------------------
(* Participation.                                                          *)

PlaceOf(gaps) ==
  CHOOSE g : g = [k \in 0..Len(gaps) |-> IF k = 0 THEN 1 ELSE g[k - 1] + gaps[k]]

\* Each place lies a gap behind the one before.
LEMMA PlaceEquation ==
  ASSUME NEW gaps \in Seq(Nat)
  PROVE  /\ Places(gaps) = [k \in 1..Len(gaps) |-> PlaceOf(gaps)[k]]
         /\ PlaceOf(gaps)[0] = 1
         /\ \A k \in 1..Len(gaps) : PlaceOf(gaps)[k] = PlaceOf(gaps)[k - 1] + gaps[k]
<1> DEFINE c == Len(gaps)
           D == 0..c
           rank == [k \in D |-> k]
           stop == {0}
           first == [k \in stop |-> 1]
           prev == [k \in D \ stop |-> k - 1]
           next == [k \in D \ stop |-> [v \in Nat |-> v + gaps[k]]]
<1>1. c \in Nat /\ \A k \in 1..c : gaps[k] \in Nat
  OBVIOUS
<1>2. Recursion(D, Nat, rank, stop, first, prev, next)
  <2>1. /\ rank \in [D -> Nat] /\ stop \in SUBSET D /\ first \in [stop -> Nat]
        /\ prev \in [D \ stop -> D]
    BY <1>1
  <2>2. \A k \in D \ stop : rank[prev[k]] < rank[k]
    BY <1>1
  <2>3. Nat # {}
    OBVIOUS
  <2>4. next \in [D \ stop -> [Nat -> Nat]]
    <3>1. \A k \in D \ stop : gaps[k] \in Nat
      BY <1>1
    <3> HIDE DEF D, stop
    <3> QED BY <3>1
  <2> HIDE DEF D, rank, stop, first, prev, next
  <2> QED BY <2>1, <2>2, <2>3, <2>4 DEF Recursion
<1>3. PICK f \in [D -> Nat] : Solves(f, D, stop, first, prev, next)
  <2> HIDE DEF D, rank, stop, first, prev, next
  <2> QED BY <1>2, RecursionHasSolution
<1> DEFINE Step(g, k) == IF k = 0 THEN 1 ELSE g[k - 1] + gaps[k]
<1>4. \A k \in D : f[k] = Step(f, k)
  <2> SUFFICES ASSUME NEW k \in D
               PROVE  f[k] = Step(f, k)
    OBVIOUS
  <2>1. CASE k = 0
    BY <1>3, <2>1 DEF Solves
  <2>2. CASE k # 0
    <3>1. k \in D \ stop /\ k - 1 \in D /\ prev[k] = k - 1
      BY <1>1, <2>2
    <3>2. f[k] = next[k][f[k - 1]] /\ f[k - 1] \in Nat
      BY <1>3, <3>1 DEF Solves
    <3>3. f[k] = f[k - 1] + gaps[k]
      BY <3>1, <3>2
    <3> QED BY <2>2, <3>3
  <2> QED BY <2>1, <2>2
<1>5. f = [k \in 0..Len(gaps) |-> Step(f, k)]
  <2> HIDE DEF Step
  <2> QED BY <1>4
<1> DEFINE g == PlaceOf(gaps)
<1>6. g = [k \in 0..Len(gaps) |-> Step(g, k)]
  BY <1>5, Zenon DEF PlaceOf
<1>7. Places(gaps) = [k \in 1..Len(gaps) |-> g[k]]
  BY DEF Places, PlaceOf
<1> HIDE DEF g
<1>8. \A k \in D : g[k] = Step(g, k)
  <2> HIDE DEF Step
  <2> QED BY <1>6
<1>9. g[0] = 1 /\ \A k \in 1..c : g[k] = g[k - 1] + gaps[k]
  BY <1>1, <1>8
<1> QED BY <1>7, <1>9 DEF g

Gap(changed) ==
  [i \in changed |-> IF Rank(changed, i) = 1 THEN i - 1
                     ELSE i - Nth(changed, Rank(changed, i) - 1)]

\* The gaps between changed indices lead back to them.
LEMMA GapsLeadToPlaces ==
  ASSUME NEW n \in Nat, NEW changed \in SUBSET (1..n)
  PROVE  LET gaps == Pushed(changed, Gap(changed))
         IN  /\ gaps \in Seq(Nat) /\ Len(gaps) = Cardinality(changed)
             /\ AreNth(Places(gaps), changed)
<1> DEFINE c == Cardinality(changed)
           gaps == Pushed(changed, Gap(changed))
<1>1. c \in Nat
  <2>1. IsFiniteSet(1..n)
    BY FS_Interval
  <2>2. IsFiniteSet(changed)
    BY <2>1, FS_Subset
  <2> QED BY <2>2, FS_CardinalityType
<1>2. \A k \in 1..c : Nth(changed, k) \in 1..n /\ Rank(changed, Nth(changed, k)) = k
                      /\ Nth(changed, k) \in changed
  <2> SUFFICES ASSUME NEW k \in 1..c
               PROVE  /\ Nth(changed, k) \in 1..n /\ Nth(changed, k) \in changed
                      /\ Rank(changed, Nth(changed, k)) = k
    OBVIOUS
  <2>1. Nth(changed, k) \in changed /\ Rank(changed, Nth(changed, k)) = k
    BY RankOfNth
  <2> QED BY <2>1
<1>3. \A k \in 2..c : k - 1 \in 1..c /\ Nth(changed, k - 1) < Nth(changed, k)
  BY NthAscends
<1>4. gaps = [k \in 1..c |-> Gap(changed)[Nth(changed, k)]]
  BY DEF Pushed
<1> HIDE DEF gaps, c
<1>5. \A k \in 1..c : gaps[k] = IF k = 1 THEN Nth(changed, k) - 1
                                ELSE Nth(changed, k) - Nth(changed, k - 1)
  BY <1>2, <1>4 DEF Gap
<1>6. \A k \in 1..c : gaps[k] \in Nat
  <2> SUFFICES ASSUME NEW k \in 1..c
               PROVE  gaps[k] \in Nat
    OBVIOUS
  <2>1. CASE k = 1
    BY <1>2, <1>5, <2>1
  <2>2. CASE k # 1
    <3>1. k \in 2..c
      BY <1>1, <2>2
    <3>2. /\ k - 1 \in 1..c /\ Nth(changed, k - 1) < Nth(changed, k)
          /\ Nth(changed, k) \in Nat /\ Nth(changed, k - 1) \in Nat
      BY <1>2, <1>3, <3>1
    <3> QED BY <1>5, <2>2, <3>2
  <2> QED BY <2>1, <2>2
<1>7. gaps \in Seq(Nat) /\ Len(gaps) = c
  <2>1. gaps \in [1..c -> Nat]
    BY <1>4, <1>6
  <2> QED BY <1>1, <2>1
<1> DEFINE place == PlaceOf(gaps)
<1>8. /\ Places(gaps) = [k \in 1..c |-> place[k]]
      /\ place[0] = 1 /\ \A k \in 1..c : place[k] = place[k - 1] + gaps[k]
  BY <1>7, PlaceEquation
<1> HIDE DEF place
<1> DEFINE D == 1..c
           rank == [k \in D |-> k]
           P == {k \in D : place[k] = Nth(changed, k)}
<1>9. ASSUME NEW k \in D, \A l \in D : rank[l] < rank[k] => l \in P
      PROVE  k \in P
  <2>1. CASE k = 1
    <3>1. place[1] = place[0] + gaps[1] /\ gaps[1] = Nth(changed, 1) - 1
          /\ Nth(changed, 1) \in Nat
      BY <1>2, <1>5, <1>8, <2>1
    <3> QED BY <1>8, <2>1, <3>1
  <2>2. CASE k # 1
    <3>1. k - 1 \in D /\ rank[k - 1] < rank[k]
      BY <1>1, <2>2
    <3>2. place[k - 1] = Nth(changed, k - 1)
      BY <1>9, <3>1
    <3>3. place[k] = place[k - 1] + gaps[k]
          /\ gaps[k] = Nth(changed, k) - Nth(changed, k - 1)
      BY <1>5, <1>8, <2>2
    <3>4. Nth(changed, k) \in Nat /\ Nth(changed, k - 1) \in Nat
      BY <1>2, <3>1
    <3> QED BY <3>2, <3>3, <3>4
  <2> QED BY <2>1, <2>2
<1>10. rank \in [D -> Nat]
  BY <1>1
<1>11. D \subseteq P
  <2>1. Hereditary(D, rank, P)
    <3> HIDE DEF D, rank, P
    <3> QED BY <1>9 DEF Hereditary
  <2> HIDE DEF D, rank, P
  <2> QED BY <1>10, <2>1, RankInduction
<1>12. AreNth(Places(gaps), changed)
  BY <1>8, <1>11 DEF AreNth, c
<1> QED BY <1>7, <1>12 DEF gaps, c

\* What a delta of flags holds.
LEMMA ParticipationDelta ==
  ASSUME NEW base \in Seq(Nat), NEW target \in Seq(Nat), Len(base) <= Len(target)
  PROVE  LET delta == DiffParticipation(base, target)
             changed == Differing(base, target)
             places == Places(ReadVarints(delta.sparse_indices))
         IN  /\ delta.kind = "Sparse" /\ delta.extension = Remaining(base, target)
             /\ delta.new_values = Pushed(changed, target)
             /\ Len(delta.new_values) = Cardinality(changed)
             /\ AreNth(places, changed)
             /\ \A k \in 1..Len(delta.new_values) : places[k] \in 1..Len(base)
<1> DEFINE delta == DiffParticipation(base, target)
           changed == Differing(base, target)
           gaps == Pushed(changed, Gap(changed))
           places == Places(ReadVarints(delta.sparse_indices))
<1>1. /\ delta.kind = "Sparse" /\ delta.extension = Remaining(base, target)
      /\ delta.new_values = Pushed(changed, target)
      /\ delta.sparse_indices = WriteVarints(gaps)
  BY DEF DiffParticipation, Gap
<1> HIDE DEF delta
<1>2. /\ changed \in SUBSET (1..Len(base)) /\ Len(base) \in Nat
      /\ Cardinality(changed) \in Nat
  BY DifferingFacts
<1> HIDE DEF changed
<1>3. gaps \in Seq(Nat) /\ AreNth(Places(gaps), changed)
  BY <1>2, GapsLeadToPlaces
<1> HIDE DEF gaps
<1>4. AreNth(places, changed)
  BY <1>1, <1>3, VarintsRoundTrip
<1> HIDE DEF places
<1>5. Len(delta.new_values) = Cardinality(changed)
  BY <1>1, <1>2 DEF Pushed
<1>6. \A k \in 1..Len(delta.new_values) : places[k] \in 1..Len(base)
  <2> SUFFICES ASSUME NEW k \in 1..Len(delta.new_values)
               PROVE  places[k] \in 1..Len(base)
    OBVIOUS
  <2>1. Nth(changed, k) \in changed
    BY <1>2, <1>5, RankOfNth
  <2> QED BY <1>2, <1>4, <1>5, <2>1 DEF AreNth
<1> QED BY <1>1, <1>4, <1>5, <1>6 DEF delta, changed, places

\* The flags are restored, from the base and, when the delta arrives again,
\* from the target.
LEMMA ParticipationRoundTrip ==
  ASSUME NEW base \in Seq(Nat), NEW target \in Seq(Nat), Len(base) <= Len(target),
         NEW list, Between(list, base, target)
  PROVE  ApplyParticipation(list, DiffParticipation(base, target)) = target
<1> DEFINE delta == DiffParticipation(base, target)
           changed == Differing(base, target)
           places == Places(ReadVarints(delta.sparse_indices))
           excess == {0} \cup {places[k] - Len(list) : k \in 1..Len(delta.new_values)}
<1>1. /\ delta.kind = "Sparse" /\ delta.extension = Remaining(base, target)
      /\ delta.new_values = Pushed(changed, target)
      /\ AreNth(places, changed)
      /\ \A k \in 1..Len(delta.new_values) : places[k] \in 1..Len(base)
  BY ParticipationDelta
<1> HIDE DEF delta, places
<1>2. list \in Seq(Nat) /\ Len(list) = Len(base) /\ Len(base) \in Nat
  BY DEF Between
<1>3. Max(excess) = 0
  <2>1. \A x \in excess : x \in Int /\ x <= 0
    BY <1>1, <1>2
  <2>2. 0 \in excess
    OBVIOUS
  <2> HIDE DEF excess
  <2>3. \E x \in excess : \A y \in excess : x >= y
    BY <2>1, <2>2
  <2>4. Max(excess) \in excess /\ \A y \in excess : Max(excess) >= y
    BY <2>3 DEF Max
  <2> QED BY <2>1, <2>2, <2>4
<1>4. list \o Zeros(Max(excess)) = list
  <2>1. Zeros(0) = <<>>
    BY DEF Zeros
  <2> HIDE DEF excess
  <2> QED BY <1>2, <1>3, <2>1, ConcatEmptySeq
<1>5. ApplyParticipation(list, delta)
        = WriteAt(list, places, Pushed(changed, target)) \o Remaining(base, target)
  BY <1>1, <1>4 DEF ApplyParticipation, places
<1>6. WriteAt(list, places, Pushed(changed, target)) \o Remaining(base, target)
        = target
  BY <1>1, WrittenChanges
<1> QED BY <1>5, <1>6 DEF delta

\* So are they by the slice functions, which store zeros in short.
LEMMA SliceRoundTrip ==
  ASSUME NEW base \in Seq(Nat), NEW target \in Seq(Nat), Len(base) <= Len(target)
  PROVE  ApplyParticipationSlice(base, DiffParticipationSlice(base, target)) = target
<1>1. CASE \A i \in 1..Len(target) : target[i] = 0
  <2>1. target = Zeros(Len(target))
    BY <1>1 DEF Zeros
  <2> QED BY <1>1, <2>1 DEF DiffParticipationSlice, ApplyParticipationSlice, AllZeros
<1>2. CASE ~ \A i \in 1..Len(target) : target[i] = 0
  <2>1. Between(base, base, target)
    BY DifferingFacts DEF Between
  <2>2. ApplyParticipation(base, DiffParticipation(base, target)) = target
    BY <2>1, ParticipationRoundTrip
  <2>3. DiffParticipation(base, target).kind = "Sparse"
    BY DEF DiffParticipation
  <2> QED BY <1>2, <2>2, <2>3 DEF DiffParticipationSlice, ApplyParticipationSlice
<1> QED BY <1>1, <1>2

-----------------------------------------------------------------------------
(* Inactivity scores.                                                      *)

\* Scores are restored by the indices and values of those that differ, and by
\* the short form for zeros.
LEMMA InactivityRoundTrip ==
  ASSUME NEW base \in Seq(Nat), NEW target \in Seq(Nat), Len(base) <= Len(target),
         NEW list, Between(list, base, target)
  PROVE  ApplyInactivity(list, DiffInactivity(base, target)) = target
<1> DEFINE changed == Differing(base, target)
           index == [i \in changed |-> i]
           places == Pushed(changed, index)
           delta == DiffInactivity(base, target)
<1>1. CASE delta.kind = "AllZeros"
  <2>1. delta = AllZeros(Len(target)) /\ \A i \in 1..Len(target) : target[i] = 0
    BY <1>1 DEF DiffInactivity
  <2>2. Zeros(Len(target)) = target
    BY <2>1 DEF Zeros
  <2> QED BY <2>1, <2>2 DEF ApplyInactivity, AllZeros
<1>2. CASE delta.kind # "AllZeros"
  <2>1. /\ delta.kind = "Sparse" /\ delta.indices = places
        /\ delta.new_values = Pushed(changed, target)
        /\ delta.extensions = Remaining(base, target)
    BY <1>2 DEF DiffInactivity, AllZeros
  <2> HIDE DEF delta
  <2>2. AreNth(places, changed)
    <3>1. changed \in SUBSET (1..Len(base)) /\ Len(base) \in Nat
      BY DifferingFacts
    <3> HIDE DEF changed
    <3>2. \A k \in 1..Cardinality(changed) : Nth(changed, k) \in changed
      BY <3>1, RankOfNth
    <3> QED BY <3>2 DEF AreNth, Pushed
  <2> HIDE DEF places
  <2>3. WriteAt(list, places, Pushed(changed, target)) \o Remaining(base, target)
          = target
    BY <2>2, WrittenChanges
  <2> QED BY <2>1, <2>3 DEF ApplyInactivity, delta
<1> QED BY <1>1, <1>2

\* The indices of a delta of scores are those of old validators.
LEMMA InactivityIndices ==
  ASSUME NEW base \in Seq(Nat), NEW target \in Seq(Nat), Len(base) <= Len(target),
         DiffInactivity(base, target).kind = "Sparse"
  PROVE  \A k \in 1..Len(DiffInactivity(base, target).indices) :
           DiffInactivity(base, target).indices[k] \in 1..Len(base)
<1> DEFINE changed == Differing(base, target)
           index == [i \in changed |-> i]
           places == Pushed(changed, index)
<1>1. DiffInactivity(base, target).indices = places
  BY DEF DiffInactivity, AllZeros
<1>2. /\ changed \in SUBSET (1..Len(base)) /\ Len(base) \in Nat
      /\ Cardinality(changed) \in Nat
  BY DifferingFacts
<1> HIDE DEF changed
<1>3. \A k \in 1..Cardinality(changed) : Nth(changed, k) \in changed
  BY <1>2, RankOfNth
<1>4. Len(places) = Cardinality(changed)
  BY <1>2 DEF Pushed
<1>5. \A k \in 1..Len(places) : places[k] \in 1..Len(base)
  BY <1>2, <1>3, <1>4 DEF Pushed
<1> HIDE DEF places
<1> QED BY <1>1, <1>5

-----------------------------------------------------------------------------
(* Balances.                                                               *)

\* zigzag_decode inverts zigzag_encode.
LEMMA ZigzagRoundTrip ==
  ASSUME NEW n \in Int
  PROVE  ZigzagDecode(ZigzagEncode(n)) = n
BY DEF ZigzagDecode, ZigzagEncode

\* The difference of two u64 cast to i64, however it wraps, leads from the
\* first to the second modulo the number of values.
LEMMA WrappedDifference ==
  ASSUME NEW b \in 0..(Modulus - 1), NEW t \in 0..(Modulus - 1)
  PROVE  /\ Wrapped(b, t) \in Int /\ Signed(b) \in Int
         /\ (Signed(b) + Wrapped(b, t)) % Modulus = t
<1> DEFINE d == Signed(t) - Signed(b)
<1>1. Modulus \in Nat \ {0}
  BY DEF BalanceAssumption
<1>2. Signed(b) \in {b, b - Modulus} /\ Signed(t) \in {t, t - Modulus}
  BY <1>1 DEF Signed
<1>3. Signed(b) \in Int /\ d \in Int /\ -Modulus < d /\ d < Modulus
  <2>1. Modulus \div 2 \in Nat /\ 2 * (Modulus \div 2) = Modulus
    BY <1>1 DEF BalanceAssumption
  <2> QED BY <1>1, <2>1 DEF Signed
<1>4. d % Modulus \in {d, d + Modulus} /\ d % Modulus \in 0..(Modulus - 1)
  BY <1>1, <1>3
<1>5. Wrapped(b, t) \in {d - Modulus, d, d + Modulus}
  BY <1>1, <1>3, <1>4 DEF Wrapped, Difference, Signed
<1>6. Signed(b) + Wrapped(b, t) \in {t - Modulus - Modulus, t - Modulus, t, t + Modulus}
  BY <1>1, <1>2, <1>3, <1>5
<1>7. \A x \in {t - Modulus - Modulus, t - Modulus, t, t + Modulus} : x % Modulus = t
  BY <1>1
<1> QED BY <1>1, <1>3, <1>5, <1>6, <1>7

\* Which balances have a tag that stores nothing.
LEMMA TagMeaning ==
  ASSUME NEW b, NEW t
  PROVE  /\ Tag(b, t) = SET_NO_CHANGE => b = t
         /\ Tag(b, t) = SET_TO_ZERO => t = 0
         /\ Tag(b, t) \in {SET_NO_CHANGE, SET_TO_ZERO,
                           SET_TO_TARGET_VALUE, SET_TO_DIFF}
<1> DEFINE small == Wrapped(b, t) # Signed(t) /\ IsSmall(Wrapped(b, t))
<1> USE DEF SET_NO_CHANGE, SET_TO_ZERO, SET_TO_TARGET_VALUE, SET_TO_DIFF
<1>1. CASE b = t
  BY <1>1 DEF Tag
<1>2. CASE b # t /\ t = 0
  BY <1>2 DEF Tag
<1>3. CASE b # t /\ t # 0 /\ small
  <2>1. Tag(b, t) = SET_TO_DIFF
    BY <1>3 DEF Tag
  <2> QED BY <2>1
<1>4. CASE b # t /\ t # 0 /\ ~small
  <2>1. Tag(b, t) = SET_TO_TARGET_VALUE
    BY <1>4 DEF Tag
  <2> QED BY <2>1
<1> QED BY <1>1, <1>2, <1>3, <1>4

\* The balances of a list that only grows come out of the numbers of their
\* delta, whatever the mode.
LEMMA BalanceRoundTrip ==
  ASSUME NEW base \in Seq(0..(Modulus - 1)), NEW target \in Seq(0..(Modulus - 1)),
         Len(base) <= Len(target), NEW mode \in Int
  PROVE  DecodeBalances(base, EncodeBalances(base, target, mode)) = target
<1> DEFINE n == Len(base)
           tags == Tags(base, target)
           delta == EncodeBalances(base, target, mode)
           corrected == [i \in DOMAIN tags |->
                           ZigzagEncode(Wrapped(base[i], target[i]) - mode)]
           decoded == [i \in 1..n |-> IF i \in DOMAIN delta.tags
                                      THEN DecodeBalance(base[i], i, delta)
                                      ELSE base[i]]
           appended == SubSeq(target, n + 1, Len(target))
<1>1. n \in Nat /\ n \in 0..Len(target)
  OBVIOUS
<1>2. tags = [i \in 1..n |-> Tag(base[i], target[i])]
  BY DEF Tags, Common
<1>3. /\ delta.tags = tags /\ delta.mode = mode
      /\ delta.diffs = Pushed(Tagged(tags, SET_TO_DIFF), corrected)
      /\ delta.target_values = Pushed(Tagged(tags, SET_TO_TARGET_VALUE), target)
      /\ delta.appended_balances = appended
  BY DEF EncodeBalances, Remaining
<1> HIDE DEF tags, delta
<1>4. \A tag : \A i \in 1..n : tags[i] = tag =>
        \A value : Pushed(Tagged(tags, tag), value)[Rank(Tagged(tags, tag), i)]
                     = value[i]
  <2> SUFFICES ASSUME NEW tag, NEW i \in 1..n, tags[i] = tag, NEW value
               PROVE  Pushed(Tagged(tags, tag), value)[Rank(Tagged(tags, tag), i)]
                        = value[i]
    OBVIOUS
  <2>1. Tagged(tags, tag) \in SUBSET (1..n) /\ i \in Tagged(tags, tag)
    BY <1>2 DEF Tagged
  <2> QED BY <1>1, <2>1, PushedAtRank
<1>5. \A i \in 1..n : DecodeBalance(base[i], i, delta) = target[i]
  <2> SUFFICES ASSUME NEW i \in 1..n
               PROVE  DecodeBalance(base[i], i, delta) = target[i]
    OBVIOUS
  <2>1. base[i] \in 0..(Modulus - 1) /\ target[i] \in 0..(Modulus - 1)
    BY <1>1
  <2>2. tags[i] = Tag(base[i], target[i])
    BY <1>2
  <2>3. CASE tags[i] = SET_NO_CHANGE
    <3>1. base[i] = target[i]
      BY <2>2, <2>3, TagMeaning
    <3> QED BY <1>3, <2>3, <3>1 DEF DecodeBalance, SET_NO_CHANGE, SET_TO_ZERO, SET_TO_TARGET_VALUE, SET_TO_DIFF
  <2>4. CASE tags[i] = SET_TO_ZERO
    <3>1. target[i] = 0
      BY <2>2, <2>4, TagMeaning
    <3> QED BY <1>3, <2>4, <3>1 DEF DecodeBalance, SET_NO_CHANGE, SET_TO_ZERO, SET_TO_TARGET_VALUE, SET_TO_DIFF
  <2>5. CASE tags[i] = SET_TO_TARGET_VALUE
    <3>1. delta.target_values[Rank(Tagged(tags, SET_TO_TARGET_VALUE), i)]
            = target[i]
      BY <1>3, <1>4, <2>5
    <3> QED BY <1>3, <2>5, <3>1 DEF DecodeBalance, SET_NO_CHANGE, SET_TO_ZERO, SET_TO_TARGET_VALUE, SET_TO_DIFF
  <2>6. CASE tags[i] = SET_TO_DIFF
    <3> DEFINE diff == Wrapped(base[i], target[i])
    <3>1. delta.diffs[Rank(Tagged(tags, SET_TO_DIFF), i)]
            = ZigzagEncode(diff - mode)
      <4>1. delta.diffs[Rank(Tagged(tags, SET_TO_DIFF), i)] = corrected[i]
        <5> HIDE DEF corrected
        <5> QED BY <1>3, <1>4, <2>6
      <4> QED BY <1>2, <4>1
    <3>2. /\ diff \in Int /\ Signed(base[i]) \in Int
          /\ (Signed(base[i]) + diff) % Modulus = target[i]
      BY <2>1, WrappedDifference
    <3> HIDE DEF diff
    <3>3. ZigzagDecode(ZigzagEncode(diff - mode)) = diff - mode
      BY <3>2, ZigzagRoundTrip
    <3>4. Signed(base[i]) + (diff - mode) + mode = Signed(base[i]) + diff
      BY <3>2
    <3>5. DecodeBalance(base[i], i, delta)
            = (Signed(base[i]) + ZigzagDecode(ZigzagEncode(diff - mode)) + mode)
                % Modulus
      BY <1>3, <2>6, <3>1 DEF DecodeBalance, SET_NO_CHANGE, SET_TO_ZERO, SET_TO_TARGET_VALUE, SET_TO_DIFF
    <3> QED BY <3>2, <3>3, <3>4, <3>5
  <2>7. tags[i] \in {SET_NO_CHANGE, SET_TO_ZERO, SET_TO_TARGET_VALUE, SET_TO_DIFF}
    BY <2>2, TagMeaning
  <2> QED BY <2>3, <2>4, <2>5, <2>6, <2>7
<1>6. decoded = SubSeq(target, 1, n)
  <2>1. SubSeq(target, 1, n) = [i \in 1..n |-> target[i]]
    BY <1>1
  <2>2. DOMAIN delta.tags = 1..n
    BY <1>2, <1>3
  <2> QED BY <1>5, <2>1, <2>2
<1>7. SubSeq(target, 1, n) \o appended = target
  <2>1. 1 \in 1..(Len(target) + 1) /\ Len(target) \in n..Len(target)
        /\ n \in (1 - 1)..Len(target)
    BY <1>1
  <2>2. SubSeq(target, 1, n) \o appended = SubSeq(target, 1, Len(target))
    BY <2>1, ConcatAdjacentSubSeq, Zenon
  <2> QED BY <2>2, SubSeqFull
<1> HIDE DEF appended
<1> QED BY <1>3, <1>6, <1>7 DEF DecodeBalances, delta

-----------------------------------------------------------------------------
(* Packed tags.                                                            *)

USE DEF BalanceAssumption

LEMMA ProductIsMonotonic ==
  ASSUME NEW d \in Nat, NEW p \in Nat, NEW q \in Nat, p <= q
  PROVE  d * p \in Nat /\ d * q \in Nat /\ d * p <= d * q
<1>1. d * p \in Nat /\ d * q \in Nat /\ d * (q - p) \in Nat
  OBVIOUS
<1>2. d * q = d * p + d * (q - p)
  OBVIOUS
<1> QED BY <1>1, <1>2

LEMMA DivisionIsUnique ==
  ASSUME NEW d \in Nat \ {0}, NEW q \in Nat, NEW r \in 0..(d - 1)
  PROVE  /\ d * q + r \in Nat
         /\ (d * q + r) \div d = q /\ (d * q + r) % d = r
<1> DEFINE n == d * q + r
           p == n \div d
           s == n % d
<1>1. d * q \in Nat
  OBVIOUS
<1>2. n \in Nat
  BY <1>1
<1>3. p \in Nat /\ s \in 0..(d - 1) /\ n = d * p + s /\ d * p \in Nat
  <2> HIDE DEF n
  <2>1. p \in Nat /\ s \in 0..(d - 1) /\ n = d * p + s
    BY <1>2, DivisionFacts, Zenon
  <2> HIDE DEF p, s
  <2>2. d * p \in Nat
    BY <2>1
  <2> QED BY <2>1, <2>2
<1> HIDE DEF p, s
<1>4. ~(p < q)
  <2> SUFFICES ASSUME p < q
               PROVE  FALSE
    OBVIOUS
  <2>1. p + 1 \in Nat /\ p + 1 <= q
    BY <1>3
  <2>2. d * (p + 1) <= d * q
    BY <2>1, ProductIsMonotonic
  <2>3. d * (p + 1) = d * p + d
    BY <1>3
  <2> QED BY <1>1, <1>3, <2>2, <2>3
<1>5. ~(q < p)
  <2> SUFFICES ASSUME q < p
               PROVE  FALSE
    OBVIOUS
  <2>1. q + 1 \in Nat /\ q + 1 <= p
    BY <1>3
  <2>2. d * (q + 1) <= d * p
    BY <1>3, <2>1, ProductIsMonotonic
  <2>3. d * (q + 1) = d * q + d
    OBVIOUS
  <2> QED BY <1>1, <1>3, <2>2, <2>3
<1>6. p = q
  BY <1>3, <1>4, <1>5
<1>7. s = r
  BY <1>1, <1>3, <1>6
<1> QED BY <1>2, <1>6, <1>7 DEF p, s

PackedOf(tags) ==
  CHOOSE g : g = [i \in 1..Len(tags) |->
                    IF i = Len(tags) \/ i % TagsPerByte = 0 THEN tags[i]
                    ELSE tags[i] + TagValues * g[i + 1]]

\* The value of the tags from one index to the end of its byte.
LEMMA PackedEquation ==
  ASSUME NEW tags \in Seq(0..3)
  PROVE  \A i \in 1..Len(tags) :
           /\ PackedOf(tags)[i] \in Nat
           /\ PackedOf(tags)[i] % 4 = tags[i]
           /\ i # Len(tags) /\ i % TagsPerByte # 0
                => PackedOf(tags)[i] \div 4 = PackedOf(tags)[i + 1]
<1> DEFINE n == Len(tags)
           D == 1..n
           V == Nat
           ends(i) == i = n \/ i % TagsPerByte = 0
           rank == [i \in D |-> n - i]
           stop == {i \in D : ends(i)}
           first == [i \in stop |-> tags[i]]
           prev == [i \in D \ stop |-> i + 1]
           next == [i \in D \ stop |-> [v \in V |-> tags[i] + 4 * v]]
<1>1. n \in Nat /\ \A i \in D : tags[i] \in 0..3
  OBVIOUS
<1>2. first \in [stop -> V]
  <2> HIDE DEF ends
  <2> QED BY <1>1
<1>3. /\ prev \in [D \ stop -> D] /\ rank \in [D -> Nat] /\ stop \in SUBSET D
      /\ \A i \in D \ stop : rank[prev[i]] < rank[i]
  <2>1. \A i \in D \ stop : i + 1 \in D
    BY <1>1
  <2> HIDE DEF stop
  <2>2. prev \in [D \ stop -> D] /\ rank \in [D -> Nat]
    BY <1>1, <2>1
  <2>3. \A i \in D \ stop : rank[prev[i]] < rank[i]
    BY <1>1, <2>1
  <2> QED BY <2>2, <2>3 DEF stop
<1>4. next \in [D \ stop -> [V -> V]]
  <2>1. \A i \in D \ stop : tags[i] \in Nat
    BY <1>1
  <2> HIDE DEF stop, D
  <2> QED BY <2>1
<1>5. Recursion(D, V, rank, stop, first, prev, next)
  <2>1. V # {}
    OBVIOUS
  <2> HIDE DEF D, V, rank, stop, first, prev, next
  <2> QED BY <1>2, <1>3, <1>4, <2>1 DEF Recursion
<1>6. PICK f \in [D -> V] : Solves(f, D, stop, first, prev, next)
  <2> HIDE DEF D, V, rank, stop, first, prev, next
  <2> QED BY <1>5, RecursionHasSolution
<1> DEFINE Step(g, i) == IF ends(i) THEN tags[i] ELSE tags[i] + TagValues * g[i + 1]
<1>7. \A i \in D : f[i] = Step(f, i)
  <2> SUFFICES ASSUME NEW i \in D
               PROVE  f[i] = Step(f, i)
    OBVIOUS
  <2> HIDE DEF ends
  <2>1. CASE i \in stop
    BY <1>6, <2>1 DEF Solves
  <2>2. CASE i \notin stop
    <3>1. i + 1 \in D
      BY <1>1, <2>2 DEF ends
    <3>2. f[i] = next[i][f[i + 1]]
      BY <1>6, <2>2 DEF Solves
    <3>3. f[i + 1] \in V
      BY <3>1
    <3>4. f[i] = tags[i] + 4 * f[i + 1]
      BY <2>2, <3>2, <3>3
    <3> QED BY <2>2, <3>4 DEF TagValues
  <2> QED BY <2>1, <2>2
<1>8. f = [i \in 1..Len(tags) |-> Step(f, i)]
  <2> HIDE DEF Step
  <2> QED BY <1>7
<1> DEFINE g == PackedOf(tags)
<1>9. g = [i \in 1..Len(tags) |-> Step(g, i)]
  BY <1>8, Zenon DEF PackedOf
<1> HIDE DEF g
<1>10. \A i \in D : g[i] = Step(g, i)
  <2> HIDE DEF Step
  <2> QED BY <1>9
<1> DEFINE P == {i \in D : g[i] \in Nat}
<1>11. ASSUME NEW i \in D, \A j \in D : rank[j] < rank[i] => j \in P
       PROVE  i \in P
  <2> HIDE DEF ends
  <2>1. CASE ends(i)
    BY <1>1, <1>10, <2>1
  <2>2. CASE ~ends(i)
    <3>1. i + 1 \in D
      BY <1>1, <2>2 DEF ends
    <3>2. rank[i + 1] < rank[i]
      BY <1>1, <3>1
    <3>3. i + 1 \in P
      <4> HIDE DEF D, rank, P
      <4> QED BY <1>11, <3>1, <3>2
    <3>4. g[i] = tags[i] + 4 * g[i + 1]
      BY <1>10, <2>2 DEF TagValues
    <3> QED BY <1>1, <3>3, <3>4, SMTT(30)
  <2> QED BY <2>1, <2>2
<1>12. D \subseteq P
  <2>1. Hereditary(D, rank, P)
    <3> HIDE DEF D, rank, P
    <3> QED BY <1>11 DEF Hereditary
  <2> HIDE DEF D, rank, P, stop, first, prev, next
  <2> QED BY <1>3, <2>1, RankInduction
<1>13. \A i \in D : g[i] \in Nat
  BY <1>12
<1> HIDE DEF P
<1>14. ASSUME NEW i \in D
       PROVE  /\ g[i] \in Nat /\ g[i] % 4 = tags[i]
              /\ ~ends(i) => g[i] \div 4 = g[i + 1]
  <2> HIDE DEF ends
  <2>1. CASE ends(i)
    BY <1>1, <1>10, <2>1
  <2>2. CASE ~ends(i)
    <3>1. i + 1 \in D
      BY <1>1, <2>2 DEF ends
    <3>2. g[i] = tags[i] + 4 * g[i + 1] /\ tags[i] \in 0..3 /\ g[i + 1] \in Nat
      BY <1>1, <1>10, <1>13, <2>2, <3>1 DEF TagValues
    <3> DEFINE higher == g[i + 1]
               lowest == tags[i]
    <3> HIDE DEF higher, lowest
    <3>3. higher \in Nat /\ lowest \in 0..3
      BY <3>2 DEF higher, lowest
    <3>4. g[i] = 4 * higher + lowest
      BY <3>2, <3>3 DEF higher, lowest
    <3>5. (4 * higher + lowest) \div 4 = higher /\ (4 * higher + lowest) % 4 = lowest
      BY <3>3
    <3>6. g[i] \div 4 = higher /\ g[i] % 4 = lowest
      BY <3>4, <3>5, Zenon
    <3> QED BY <1>13, <3>6 DEF higher, lowest
  <2> QED BY <2>1, <2>2
<1> QED BY <1>14 DEF g

ShiftedOf(byte, places) ==
  CHOOSE g : g = [k \in 0..places |-> IF k = 0 THEN byte
                                      ELSE g[k - 1] \div TagValues]

LEMMA ShiftedEquation ==
  ASSUME NEW byte \in Nat, NEW places \in Nat
  PROVE  /\ ShiftedRight(byte, places) = ShiftedOf(byte, places)[places]
         /\ ShiftedOf(byte, places)[0] = byte
         /\ \A k \in 1..places : ShiftedOf(byte, places)[k]
                                   = ShiftedOf(byte, places)[k - 1] \div 4
<1> DEFINE D == 0..places
           rank == [k \in D |-> k]
           stop == {0}
           first == [k \in stop |-> byte]
           prev == [k \in D \ stop |-> k - 1]
           next == [k \in D \ stop |-> [v \in Nat |-> v \div 4]]
<1>1. Recursion(D, Nat, rank, stop, first, prev, next)
  <2>1. /\ rank \in [D -> Nat] /\ stop \in SUBSET D /\ first \in [stop -> Nat]
        /\ prev \in [D \ stop -> D] /\ next \in [D \ stop -> [Nat -> Nat]]
    OBVIOUS
  <2>2. \A k \in D \ stop : rank[prev[k]] < rank[k]
    OBVIOUS
  <2>3. Nat # {}
    OBVIOUS
  <2> HIDE DEF D, rank, stop, first, prev, next
  <2> QED BY <2>1, <2>2, <2>3 DEF Recursion
<1>2. PICK f \in [D -> Nat] : Solves(f, D, stop, first, prev, next)
  <2> HIDE DEF D, rank, stop, first, prev, next
  <2> QED BY <1>1, RecursionHasSolution
<1> DEFINE Step(g, k) == IF k = 0 THEN byte ELSE g[k - 1] \div TagValues
<1>3. \A k \in D : f[k] = Step(f, k)
  <2> SUFFICES ASSUME NEW k \in D
               PROVE  f[k] = Step(f, k)
    OBVIOUS
  <2>1. CASE k = 0
    BY <1>2, <2>1 DEF Solves
  <2>2. CASE k # 0
    <3>1. k \in D \ stop /\ k - 1 \in D /\ prev[k] = k - 1
      BY <2>2
    <3>2. f[k] = next[k][f[k - 1]] /\ f[k - 1] \in Nat
      BY <1>2, <3>1 DEF Solves
    <3>3. f[k] = f[k - 1] \div 4
      BY <3>1, <3>2
    <3> QED BY <2>2, <3>3 DEF TagValues
  <2> QED BY <2>1, <2>2
<1>4. f = [k \in 0..places |-> Step(f, k)]
  <2> HIDE DEF Step
  <2> QED BY <1>3
<1> DEFINE g == ShiftedOf(byte, places)
<1>5. g = [k \in 0..places |-> Step(g, k)]
  BY <1>4, Zenon DEF ShiftedOf
<1>6. ShiftedRight(byte, places) = g[places]
  BY DEF ShiftedRight, ShiftedOf
<1> HIDE DEF g
<1>7. \A k \in D : g[k] = Step(g, k)
  <2> HIDE DEF Step
  <2> QED BY <1>5
<1>8. g[0] = byte /\ \A k \in 1..places : g[k] = g[k - 1] \div 4
  BY <1>7 DEF TagValues
<1> QED BY <1>6, <1>8 DEF g

\* A tag's place: its byte, and its digit in that byte.
LEMMA TagPlace ==
  ASSUME NEW n \in Nat, NEW i \in 1..n
  PROVE  LET q == (i - 1) \div TagsPerByte
             k == (i - 1) % TagsPerByte
         IN  /\ q \in Nat /\ k \in 0..(TagsPerByte - 1)
             /\ q * TagsPerByte \in Nat /\ q * TagsPerByte + 1 + k = i
             /\ q + 1 \in 1..((n + TagsPerByte - 1) \div TagsPerByte)
             /\ \A j \in 0..(k - 1) : (q * TagsPerByte + 1 + j) % TagsPerByte # 0
<1> DEFINE T == TagsPerByte
           q == (i - 1) \div T
           k == (i - 1) % T
           m == n + T - 1
           b == m \div T
           r == m % T
<1>1. T \in Nat \ {0} /\ i - 1 \in Nat /\ m \in Nat
  OBVIOUS
<1> HIDE DEF T
<1>2. q \in Nat /\ k \in 0..(T - 1) /\ i - 1 = T * q + k
  BY <1>1, DivisionFacts, Zenon
<1>3. b \in Nat /\ r \in 0..(T - 1) /\ m = T * b + r
  <2> HIDE DEF m
  <2> QED BY <1>1, DivisionFacts, Zenon
<1> HIDE DEF q, k, b, r
<1>4. T * q \in Nat /\ T * b \in Nat /\ q * T = T * q
  BY <1>1, <1>2, <1>3
<1>5. ~(b <= q)
  <2> SUFFICES ASSUME b <= q
               PROVE  FALSE
    OBVIOUS
  <2>1. T * b <= T * q
    BY <1>1, <1>2, <1>3, ProductIsMonotonic
  <2> QED BY <1>1, <1>2, <1>3, <1>4, <2>1
<1>6. ASSUME NEW j \in 0..(k - 1)
      PROVE  (q * T + 1 + j) % T # 0
  <2> DEFINE d == 1 + j
  <2>1. d \in 0..(T - 1) /\ d # 0
    BY <1>1, <1>2
  <2> HIDE DEF d
  <2>2. (T * q + d) % T = d
    BY <1>1, <1>2, <2>1, DivisionIsUnique
  <2>3. q * T + 1 + j = T * q + d
    BY <1>1, <1>2, <1>4 DEF d
  <2> QED BY <2>1, <2>2, <2>3
<1>7. q + 1 \in 1..b
  BY <1>2, <1>3, <1>5
<1>8. q * T + 1 + k = i
  BY <1>1, <1>2, <1>4
<1> QED BY <1>2, <1>4, <1>6, <1>7, <1>8 DEF T, q, k, b, m

\* Unpacking gives back the tags that were packed.
LEMMA TagsRoundTrip ==
  ASSUME NEW tags \in Seq(0..3)
  PROVE  UnpackTags(PackTags(tags)) = tags
<1> DEFINE n == Len(tags)
           packed == PackedOf(tags)
           bytes == (n + TagsPerByte - 1) \div TagsPerByte
           vec == PackTags(tags)
<1>1. vec = [data |-> [b \in 1..bytes |-> packed[(b - 1) * TagsPerByte + 1]],
             len |-> n]
  BY DEF PackTags, PackedOf
<1>2. vec.len = n /\ vec.data = [b \in 1..bytes |-> packed[(b - 1) * TagsPerByte + 1]]
  <2> HIDE DEF vec, bytes, packed, n
  <2> QED BY <1>1
<1>3. /\ n \in Nat
      /\ \A i \in 1..n : /\ packed[i] \in Nat /\ packed[i] % 4 = tags[i]
                         /\ i # n /\ i % TagsPerByte # 0
                              => packed[i] \div 4 = packed[i + 1]
  BY PackedEquation
<1> HIDE DEF packed, vec, bytes
<1>4. ASSUME NEW i \in 1..n
      PROVE  ShiftedRight(vec.data[(i - 1) \div TagsPerByte + 1],
                          (i - 1) % TagsPerByte) % TagValues = tags[i]
  <2> DEFINE q == (i - 1) \div TagsPerByte
             k == (i - 1) % TagsPerByte
             s == q * TagsPerByte + 1
             shifted == ShiftedOf(packed[s], k)
  <2>1. /\ q \in Nat /\ k \in 0..(TagsPerByte - 1)
        /\ q * TagsPerByte \in Nat /\ s + k = i /\ q + 1 \in 1..bytes
        /\ \A j \in 0..(k - 1) : (s + j) % TagsPerByte # 0
    <3>1. n \in Nat
      BY <1>3
    <3> HIDE DEF n
    <3> QED BY <3>1, TagPlace DEF bytes
  <2> HIDE DEF q, k
  <2>2. k \in Nat /\ s \in 1..n
    BY <1>3, <2>1
  <2>3. vec.data[q + 1] = packed[s]
    <3>1. vec.data[q + 1] = packed[((q + 1) - 1) * TagsPerByte + 1]
      BY <1>2, <2>1
    <3>2. (q + 1) - 1 = q
      BY <2>1
    <3> QED BY <3>1, <3>2
  <2> HIDE DEF s
  <2>4. /\ ShiftedRight(packed[s], k) = shifted[k] /\ shifted[0] = packed[s]
        /\ \A j \in 1..k : shifted[j] = shifted[j - 1] \div 4
    <3>1. packed[s] \in Nat /\ k \in Nat
      BY <1>3, <2>2
    <3> QED BY <3>1, ShiftedEquation, Zenon
  <2> HIDE DEF shifted
  <2> DEFINE D == 0..k
             rank == [j \in D |-> j]
             P == {j \in D : shifted[j] = packed[s + j]}
  <2>5. ASSUME NEW j \in D, \A e \in D : rank[e] < rank[j] => e \in P
        PROVE  j \in P
    <3>1. CASE j = 0
      BY <2>2, <2>4, <3>1
    <3>2. CASE j # 0
      <4> DEFINE e == j - 1
      <4>1. e \in D /\ rank[e] < rank[j] /\ j \in 1..k /\ e \in 0..(k - 1)
        BY <2>2, <3>2
      <4>2. shifted[e] = packed[s + e]
        BY <2>5, <4>1
      <4>3. s + e \in 1..n /\ s + e # n /\ (s + e) + 1 = s + j
        BY <1>3, <2>1, <2>2, <4>1
      <4>4. (s + e) % TagsPerByte # 0
        BY <2>1, <4>1 DEF s
      <4> DEFINE place == s + e
      <4>5. place \in 1..n /\ place # n /\ place % TagsPerByte # 0 /\ place + 1 = s + j
        BY <4>3, <4>4
      <4>6. shifted[e] = packed[place]
        BY <4>2
      <4> HIDE DEF place
      <4>7. packed[place] \div 4 = packed[place + 1]
        BY <1>3, <4>5
      <4>8. shifted[j] = shifted[e] \div 4
        BY <2>4, <4>1
      <4> HIDE DEF e
      <4> QED BY <4>5, <4>6, <4>7, <4>8
    <3> QED BY <3>1, <3>2
  <2>6. rank \in [D -> Nat]
    OBVIOUS
  <2>7. D \subseteq P
    <3>1. Hereditary(D, rank, P)
      <4> HIDE DEF D, rank, P
      <4> QED BY <2>5 DEF Hereditary
    <3> HIDE DEF D, rank, P
    <3> QED BY <2>6, <3>1, RankInduction
  <2>8. shifted[k] = packed[i]
    <3>1. k \in D
      BY <2>2
    <3>2. shifted[k] = packed[s + k]
      BY <2>7, <3>1
    <3>3. s + k = i
      BY <2>1 DEF s
    <3> QED BY <3>2, <3>3
  <2>9. ShiftedRight(vec.data[q + 1], k) % TagValues = tags[i]
    BY <1>3, <2>3, <2>4, <2>8 DEF TagValues
  <2> QED BY <2>9 DEF q, k
<1>5. UnpackTags(vec) = [i \in 1..n |->
        ShiftedRight(vec.data[(i - 1) \div TagsPerByte + 1],
                     (i - 1) % TagsPerByte) % TagValues]
  BY <1>2 DEF UnpackTags
<1>6. UnpackTags(vec) = [i \in 1..n |-> tags[i]]
  <2> HIDE DEF n
  <2> QED BY <1>4, <1>5, Zenon
<1>7. tags = [i \in 1..n |-> tags[i]]
  OBVIOUS
<1> QED BY <1>6, <1>7 DEF vec
=============================================================================
