------------------------ MODULE ValidatorDeltasProofs -----------------------
(***************************************************************************)
(* What apply_validators makes of the delta of diff_validators, for        *)
(* registries of any size and records with any values, and what the byte   *)
(* form makes of their buffers.                                            *)
(***************************************************************************)
EXTENDS ValidatorBytes, EncodingsProofs

USE EpochAssumption

Fields ==
  {"withdrawal_credentials", "effective_balance", "slashed",
   "activation_eligibility_epoch", "activation_epoch", "exit_epoch",
   "withdrawable_epoch"}

IsRecord(v) == v = [f \in Fields |-> v[f]]

\* What the protocol guarantees of a validator, and of a validator later on;
\* the decoder relies on both.
Lawful(v) ==
  ~v.slashed =>
    v.withdrawable_epoch = SaturatingAdd(v.exit_epoch, WithdrawabilityDelay)
StaysSlashed(b, t) == b.slashed => t.slashed

\* The record that has some fields of t already and the others still of b.
Mixed(b, t, done) == [f \in Fields |-> IF f \in done THEN t[f] ELSE b[f]]

\* A patch sets its field and nothing else, except that the exit epoch of a
\* validator that is not slashed takes the withdrawable epoch with it.
LEMMA PatchSetsField ==
  ASSUME NEW b, NEW t, NEW done \in SUBSET Fields, NEW f \in Fields \ done,
         f = "exit_epoch" => "slashed" \in done /\ t.slashed
  PROVE  ApplyPatch(Mixed(b, t, done), Patch(f, b, t))
           = Mixed(b, t, done \cup {f})
<1> DEFINE v == Mixed(b, t, done)
<1>1. CASE b[f] = t[f]
  <2>1. Mixed(b, t, done \cup {f}) = v
    BY <1>1 DEF Mixed
  <2> QED BY <1>1, <2>1 DEF Patch, NoPatch, ApplyPatch
<1>2. CASE b[f] # t[f]
  <2>1. ~(f = "exit_epoch" /\ ~v.slashed)
    BY DEF Mixed, Fields
  <2>2. [v EXCEPT ![f] = t[f]] = Mixed(b, t, done \cup {f})
    BY DEF Mixed
  <2>3. f # "None"
    BY DEF Fields
  <2>4. ApplyPatch(v, Patch(f, b, t)) = [v EXCEPT ![f] = t[f]]
    <3> HIDE DEF v
    <3> QED BY <1>2, <2>1, <2>3 DEF Patch, ApplyPatch
  <2> QED BY <2>2, <2>4
<1> QED BY <1>1, <1>2

\* The patches between two records of a validator turn one into the other: the
\* withdrawable epoch is stored for a slashed validator, and the exit patch,
\* which comes after the Slashed patch, leaves it alone; for another one
\* it follows from the exit epoch, which is patched if it changed.
LEMMA RecordRoundTrip ==
  ASSUME NEW b, NEW t, IsRecord(b), IsRecord(t),
         Lawful(b), Lawful(t), StaysSlashed(b, t)
  PROVE  ApplyPatches(b, Patches(b, t)) = t
<1> DEFINE done1 == {"withdrawal_credentials"}
           done2 == done1 \cup {"effective_balance"}
           done3 == done2 \cup {"slashed"}
           done4 == done3 \cup {"activation_eligibility_epoch"}
           done5 == done4 \cup {"activation_epoch"}
           v5 == Mixed(b, t, done5)
<1>1. /\ ApplyPatch(b, Patch("withdrawal_credentials", b, t))
           = Mixed(b, t, done1)
      /\ ApplyPatch(Mixed(b, t, done1), Patch("effective_balance", b, t))
           = Mixed(b, t, done2)
      /\ ApplyPatch(Mixed(b, t, done2), Patch("slashed", b, t))
           = Mixed(b, t, done3)
      /\ ApplyPatch(Mixed(b, t, done3),
                    Patch("activation_eligibility_epoch", b, t))
           = Mixed(b, t, done4)
      /\ ApplyPatch(Mixed(b, t, done4), Patch("activation_epoch", b, t)) = v5
  <2>1. b = Mixed(b, t, {}) /\ done1 = {} \cup {"withdrawal_credentials"}
    BY DEF IsRecord, Mixed
  <2>2. \A done \in SUBSET Fields : \A f \in (Fields \ {"exit_epoch"}) \ done :
          ApplyPatch(Mixed(b, t, done), Patch(f, b, t))
            = Mixed(b, t, done \cup {f})
    <3> SUFFICES ASSUME NEW done \in SUBSET Fields,
                        NEW f \in (Fields \ {"exit_epoch"}) \ done
                 PROVE  ApplyPatch(Mixed(b, t, done), Patch(f, b, t))
                          = Mixed(b, t, done \cup {f})
      OBVIOUS
    <3> QED BY PatchSetsField
  <2> QED BY <2>1, <2>2 DEF Fields
<1> HIDE DEF v5
<1>2. \A p6, p7 :
        ApplyPatches(b, <<Patch("withdrawal_credentials", b, t),
                          Patch("effective_balance", b, t),
                          Patch("slashed", b, t),
                          Patch("activation_eligibility_epoch", b, t),
                          Patch("activation_epoch", b, t), p6, p7>>)
          = ApplyPatch(ApplyPatch(v5, p6), p7)
  BY <1>1 DEF ApplyPatches
<1>3. CASE t.slashed
  <2>1. ApplyPatch(v5, Patch("exit_epoch", b, t))
          = Mixed(b, t, done5 \cup {"exit_epoch"})
    BY <1>3, PatchSetsField DEF Fields, v5
  <2>2. ApplyPatch(Mixed(b, t, done5 \cup {"exit_epoch"}),
                   Patch("withdrawable_epoch", b, t))
          = Mixed(b, t, Fields)
    <3>1. done5 \cup {"exit_epoch"} \cup {"withdrawable_epoch"} = Fields
      BY DEF Fields
    <3> QED BY <3>1, PatchSetsField DEF Fields
  <2>3. Mixed(b, t, Fields) = t
    BY DEF Mixed, IsRecord
  <2> QED BY <1>2, <1>3, <2>1, <2>2, <2>3 DEF Patches
<1>4. CASE ~t.slashed
  <2>1. ApplyPatch(v5, Patch("exit_epoch", b, t)) = t
    <3>1. CASE b.exit_epoch = t.exit_epoch
      <4>1. b.withdrawable_epoch = t.withdrawable_epoch
        BY <1>4, <3>1 DEF Lawful, StaysSlashed
      <4>2. v5 = t
        BY <3>1, <4>1 DEF v5, Mixed, IsRecord, Fields
      <4> QED BY <3>1, <4>2 DEF ApplyPatch, Patch, NoPatch
    <3>2. CASE b.exit_epoch # t.exit_epoch
      <4>1. [v5 EXCEPT !.exit_epoch = t.exit_epoch,
                       !.withdrawable_epoch = t.withdrawable_epoch] = t
        BY DEF v5, Mixed, IsRecord, Fields
      <4>2. t.withdrawable_epoch
              = SaturatingAdd(t.exit_epoch, WithdrawabilityDelay)
        BY <1>4 DEF Lawful
      <4>3. ~v5.slashed
        BY <1>4 DEF v5, Mixed, Fields
      <4> QED BY <3>2, <4>1, <4>2, <4>3 DEF ApplyPatch, Patch
    <3> QED BY <3>1, <3>2
  <2>2. ApplyPatch(t, NoPatch) = t
    BY DEF ApplyPatch, NoPatch
  <2> QED BY <1>2, <1>4, <2>1, <2>2 DEF Patches
<1> QED BY <1>3, <1>4

\* A delta between two registries of which the second continues the first.
LEMMA RegistryRoundTrip ==
  ASSUME NEW R, NEW base \in Seq(R), NEW target \in Seq(R),
         Len(base) <= Len(target),
         \A v \in R : IsRecord(v) /\ Lawful(v),
         \A i \in 1..Len(base) : StaysSlashed(base[i], target[i])
  PROVE  ApplyValidators(base, DiffValidators(base, target)) = target
<1> DEFINE n == Len(base)
           delta == DiffValidators(base, target)
           patched == [i \in 1..n |-> IF i \in DOMAIN delta.patches
                                      THEN ApplyPatches(base[i], delta.patches[i])
                                      ELSE base[i]]
           appended == SubSeq(target, n + 1, Len(target))
<1>1. n \in Nat /\ n \in 0..Len(target)
  OBVIOUS
<1>2. delta.patches = [i \in 1..n |-> Patches(base[i], target[i])]
      /\ delta.appended_validators = appended
  BY DEF DiffValidators
<1>3. \A i \in 1..n : patched[i] = target[i]
  <2> SUFFICES ASSUME NEW i \in 1..n
               PROVE  patched[i] = target[i]
    OBVIOUS
  <2>1. base[i] \in R /\ target[i] \in R
    BY <1>1
  <2>2. ApplyPatches(base[i], Patches(base[i], target[i])) = target[i]
    BY <2>1, RecordRoundTrip
  <2> QED BY <1>2, <2>2
<1>4. patched = SubSeq(target, 1, n)
  <2>1. SubSeq(target, 1, n) = [i \in 1..n |-> target[i]]
    BY <1>1
  <2> QED BY <1>3, <2>1
<1>5. SubSeq(target, 1, n) \o appended = target
  <2>1. 1 \in 1..(Len(target) + 1) /\ Len(target) \in n..Len(target)
        /\ n \in (1 - 1)..Len(target)
    BY <1>1
  <2>2. SubSeq(target, 1, n) \o appended = SubSeq(target, 1, Len(target))
    BY <2>1, ConcatAdjacentSubSeq, Zenon
  <2> QED BY <2>2, SubSeqFull
<1> HIDE DEF appended
<1> QED BY <1>2, <1>4, <1>5 DEF ApplyValidators

\* A patch that arrives again finds its value there; that of the exit epoch also
\* recomputes the withdrawable epoch of a validator that is not slashed.
LEMMA RepeatedPatch ==
  ASSUME NEW b, NEW t, IsRecord(t), Lawful(t), NEW f \in Fields
  PROVE  ApplyPatch(t, Patch(f, b, t)) = t
<1>1. CASE b[f] = t[f]
  BY <1>1 DEF Patch, NoPatch, ApplyPatch
<1>2. CASE b[f] # t[f]
  <2>1. Patch(f, b, t).field = f /\ Patch(f, b, t).value = t[f] /\ f # "None"
    BY <1>2 DEF Patch, Fields
  <2>2. CASE f = "exit_epoch" /\ ~t.slashed
    <3>1. [t EXCEPT !.exit_epoch = t.exit_epoch,
                    !.withdrawable_epoch = t.withdrawable_epoch] = t
      BY DEF IsRecord, Fields
    <3> QED BY <2>1, <2>2, <3>1 DEF ApplyPatch, Lawful
  <2>3. CASE ~(f = "exit_epoch" /\ ~t.slashed)
    <3>1. [t EXCEPT ![f] = t[f]] = t
      BY DEF IsRecord
    <3> HIDE DEF Patch
    <3> QED BY <2>1, <2>3, <3>1 DEF ApplyPatch
  <2> QED BY <2>2, <2>3
<1> QED BY <1>1, <1>2

\* A delta that arrives again and adds no validator changes none.
LEMMA RegistryRepeats ==
  ASSUME NEW R, NEW base \in Seq(R), NEW target \in Seq(R),
         Len(base) = Len(target),
         \A v \in R : IsRecord(v) /\ Lawful(v)
  PROVE  ApplyValidators(target, DiffValidators(base, target)) = target
<1> DEFINE n == Len(target)
           delta == DiffValidators(base, target)
<1>1. n \in Nat
  OBVIOUS
<1>2. delta.patches = [i \in 1..n |-> Patches(base[i], target[i])]
      /\ delta.appended_validators = SubSeq(target, n + 1, n)
  BY DEF DiffValidators
<1> HIDE DEF delta
<1>3. \A i \in 1..n : ApplyPatches(target[i], Patches(base[i], target[i])) = target[i]
  <2> SUFFICES ASSUME NEW i \in 1..n
               PROVE  ApplyPatches(target[i], Patches(base[i], target[i])) = target[i]
    OBVIOUS
  <2> DEFINE b == base[i]
             t == target[i]
  <2>1. IsRecord(t) /\ Lawful(t)
    BY <1>1
  <2> HIDE DEF b, t
  <2>2. \A f \in Fields : ApplyPatch(t, Patch(f, b, t)) = t
    BY <2>1, RepeatedPatch
  <2>3. ApplyPatch(t, NoPatch) = t
    BY DEF ApplyPatch, NoPatch
  <2>4. ApplyPatches(t, Patches(b, t)) = t
    BY <2>2, <2>3 DEF ApplyPatches, Patches, Fields
  <2> QED BY <2>4 DEF b, t
<1>4. SubSeq(target, n + 1, n) = <<>>
  BY <1>1
<1>5. [i \in 1..n |-> IF i \in DOMAIN delta.patches
                      THEN ApplyPatches(target[i], delta.patches[i])
                      ELSE target[i]] = target
  BY <1>2, <1>3
<1> QED BY <1>2, <1>4, <1>5, ConcatEmptySeq DEF ApplyValidators, delta

-----------------------------------------------------------------------------
(* The byte form.                                                          *)

\* The cell of a buffer that is the p-th of the i-th record.
Cell(i, p) == 8 * (i - 1) + p

\* The buffer that holds some records one after the other, and a rest that
\* is shorter than a record.
Holds(buffer, records, S) ==
  /\ buffer \in Seq(S) /\ records \in Seq(Seq(S))
  /\ Len(buffer) \in (8 * Len(records))..(8 * Len(records) + 7)
  /\ \A i \in 1..Len(records) :
       /\ Len(records[i]) = 8
       /\ \A p \in 1..8 : buffer[Cell(i, p)] = records[i][p]

LEMMA RecordsHaveEightCells ==
  RecordSize = 8
BY DEF RecordSize, Layout

\* Every cell of n records is one of some record.
LEMMA CellFacts ==
  ASSUME NEW n \in Nat, NEW c \in 1..(8 * n)
  PROVE  /\ ((c - 1) \div 8) + 1 \in 1..n
         /\ ((c - 1) % 8) + 1 \in 1..8
         /\ Cell(((c - 1) \div 8) + 1, ((c - 1) % 8) + 1) = c
<1> DEFINE q == (c - 1) \div 8
           r == (c - 1) % 8
<1>1. c \in Nat /\ c >= 1 /\ c <= 8 * n /\ c - 1 \in Nat
  OBVIOUS
<1>2. q \in Nat /\ r \in 0..7 /\ c - 1 = 8 * q + r
  BY <1>1
<1> HIDE DEF q, r
<1>3. q + 1 \in 1..n /\ r + 1 \in 1..8
  BY <1>1, <1>2
<1>4. Cell(q + 1, r + 1) = c
  BY <1>1, <1>2 DEF Cell
<1> QED BY <1>3, <1>4 DEF q, r

\* Records that are written one after the other fill a buffer.
LEMMA FlattenedRecords ==
  ASSUME NEW S, NEW records \in Seq(Seq(S)),
         \A i \in 1..Len(records) : Len(records[i]) = 8
  PROVE  /\ Holds(FlattenSeq(records), records, S)
         /\ Len(FlattenSeq(records)) = 8 * Len(records)
<1> DEFINE n == Len(records)
           buffer == FlattenSeq(records)
<1>1. n \in Nat
  OBVIOUS
<1>2. PICK e : Parts(S, buffer, records, n, e)
  BY FlattenedParts
<1> HIDE DEF buffer
<1>3. /\ buffer \in Seq(S) /\ e \in [0..n -> Nat] /\ e[0] = 0 /\ e[n] = Len(buffer)
      /\ \A k \in 1..n : e[k] = e[k - 1] + Len(records[k])
  BY <1>2 DEF Parts
<1>4. \A k \in 1..n : \A i \in 1..Len(records[k]) :
        buffer[(e[k - 1] + 1) + i - 1] = records[k][i]
  BY <1>2 DEF Parts, At
<1>5. \A k \in 0..n : e[k] = 8 * k
  <2> DEFINE D == 0..n
             rank == [k \in D |-> k]
             P == {k \in D : e[k] = 8 * k}
  <2>1. rank \in [D -> Nat]
    BY <1>1
  <2>2. \A k \in D : (\A d \in D : rank[d] < rank[k] => d \in P) => k \in P
    <3> SUFFICES ASSUME NEW k \in D, \A d \in D : rank[d] < rank[k] => d \in P
                 PROVE  e[k] = 8 * k
      OBVIOUS
    <3>1. CASE k = 0
      BY <1>3, <3>1
    <3>2. CASE k # 0
      <4>1. k \in 1..n /\ k - 1 \in D /\ k - 1 < k
        BY <1>1, <3>2
      <4>2. rank[k - 1] < rank[k]
        BY <4>1
      <4>3. k - 1 \in P
        BY <4>1, <4>2
      <4>4. e[k - 1] = 8 * (k - 1)
        BY <4>3
      <4>5. e[k] = e[k - 1] + Len(records[k]) /\ Len(records[k]) = 8
        BY <1>3, <4>1
      <4>6. k \in Int
        BY <1>1, <4>1
      <4> QED BY <4>4, <4>5, <4>6
    <3> QED BY <3>1, <3>2
  <2>3. Hereditary(D, rank, P)
    <3> HIDE DEF D, rank, P
    <3> QED BY <2>2 DEF Hereditary
  <2>4. D \subseteq P
    <3> HIDE DEF D, rank, P
    <3> QED BY <2>1, <2>3, RankInduction
  <2> QED BY <2>4
<1>6. Len(buffer) = 8 * n
  BY <1>1, <1>3, <1>5
<1>7. \A i \in 1..n : \A p \in 1..8 : buffer[Cell(i, p)] = records[i][p]
  <2> SUFFICES ASSUME NEW i \in 1..n, NEW p \in 1..8
               PROVE  buffer[Cell(i, p)] = records[i][p]
    OBVIOUS
  <2>1. i - 1 \in 0..n /\ e[i - 1] = 8 * (i - 1)
    BY <1>1, <1>5
  <2>2. buffer[(8 * (i - 1) + 1) + p - 1] = records[i][p]
    BY <1>4, <2>1
  <2>3. (8 * (i - 1) + 1) + p - 1 = Cell(i, p)
    BY <2>1 DEF Cell
  <2> QED BY <2>2, <2>3
<1>8. Len(buffer) \in (8 * n)..(8 * n + 7)
  BY <1>1, <1>6
<1> QED BY <1>3, <1>6, <1>7, <1>8 DEF Holds, buffer

\* The records are found again, whatever the buffer ends with.
LEMMA ChunksAreRecords ==
  ASSUME NEW S, NEW buffer, NEW records, Holds(buffer, records, S)
  PROVE  Chunks(buffer) = records
<1> DEFINE n == Len(records)
           l == Len(buffer)
<1>1. /\ buffer \in Seq(S) /\ records \in Seq(Seq(S)) /\ n \in Nat /\ l \in Nat
      /\ l >= 8 * n /\ l <= 8 * n + 7
      /\ \A i \in 1..n : /\ Len(records[i]) = 8
                         /\ \A p \in 1..8 : buffer[Cell(i, p)] = records[i][p]
  BY DEF Holds
<1>2. l \div 8 = n
  <2> HIDE DEF l, n
  <2>1. l \in Nat /\ n \in Nat /\ l >= 8 * n /\ l <= 8 * n + 7
    BY <1>1
  <2> QED BY <2>1
<1>3. Chunks(buffer) = [i \in 1..n |-> SubSeq(buffer, (i - 1) * 8 + 1, i * 8)]
  <2>1. Chunks(buffer)
          = [i \in 1..(Len(buffer) \div 8) |-> SubSeq(buffer, (i - 1) * 8 + 1, i * 8)]
    BY RecordsHaveEightCells DEF Chunks
  <2> QED BY <1>2, <2>1
<1>4. \A i \in 1..n : SubSeq(buffer, (i - 1) * 8 + 1, i * 8) = records[i]
  <2> SUFFICES ASSUME NEW i \in 1..n
               PROVE  SubSeq(buffer, (i - 1) * 8 + 1, i * 8) = records[i]
    OBVIOUS
  <2> DEFINE a == (i - 1) * 8 + 1
             z == i * 8
             r == records[i]
             s == SubSeq(buffer, a, z)
  <2>1. a \in Nat /\ z \in Nat /\ z = a + 7 /\ a >= 1 /\ z <= l
    BY <1>1
  <2>2. /\ r \in Seq(S) /\ Len(r) = 8
        /\ \A p \in 1..8 : buffer[Cell(i, p)] = r[p]
    <3>1. r \in Seq(S)
      BY <1>1
    <3>2. Len(r) = 8 /\ \A p \in 1..8 : buffer[Cell(i, p)] = r[p]
      BY <1>1
    <3> QED BY <3>1, <3>2
  <2>3. \A p \in 1..8 : Cell(i, p) = a + p - 1
    BY DEF Cell
  <2> HIDE DEF a, z, r
  <2>4. Len(s) = 8 /\ s \in Seq(S) /\ \A p \in 1..8 : s[p] = buffer[a + p - 1]
    BY <1>1, <2>1, SMTT(30)
  <2> HIDE DEF s
  <2>5. s = r
    BY <2>2, <2>3, <2>4
  <2> QED BY <2>5 DEF s, a, z, r
<1>5. records = [i \in 1..n |-> records[i]]
  BY <1>1
<1> HIDE DEF n
<1> QED BY <1>3, <1>4, <1>5

\* The record of the i-th validator in the buffer.
RecordOf(v, i) == [p \in 1..RecordSize |-> IF p = 1 THEN i ELSE v[Layout[p]]]
Records(validators) ==
  [i \in DOMAIN validators |-> RecordOf(validators[i], i)]
\* All that may stand in a cell, the number of a validator included.
CellsOf(R) == Nat \cup UNION {{v[f] : f \in Fields} : v \in R}


\* The buffer of a registry.
Buffer(validators) == FlattenSeq(Records(validators))

\* Each field has a place in the record, and each place but the first a field.
LEMMA LayoutFacts ==
  /\ Range(Tail(Layout)) = Fields
  /\ \A f \in Fields : \E q \in 2..8 :
       Layout[q] = f /\ (CHOOSE p \in 1..RecordSize : Layout[p] = f) = q
  /\ \A p \in 2..8 : Layout[p] \in Fields
<1>1. \A p \in 2..8 : Layout[p] \in Fields
  BY DEF Layout, Fields
<1>2. Range(Tail(Layout)) = Fields
  <2>1. Tail(Layout) = <<"withdrawal_credentials", "effective_balance", "slashed",
    "activation_eligibility_epoch", "activation_epoch", "exit_epoch",
    "withdrawable_epoch">>
    BY DEF Layout
  <2> DEFINE names ==
               <<"withdrawal_credentials", "effective_balance", "slashed",
                 "activation_eligibility_epoch", "activation_epoch", "exit_epoch",
                 "withdrawable_epoch">>
  <2>2. /\ DOMAIN names = 1..7 /\ names[1] = "withdrawal_credentials"
        /\ names[2] = "effective_balance" /\ names[3] = "slashed"
        /\ names[4] = "activation_eligibility_epoch" /\ names[5] = "activation_epoch"
        /\ names[6] = "exit_epoch" /\ names[7] = "withdrawable_epoch"
    OBVIOUS
  <2> HIDE DEF names
  <2>3. Range(names) = {names[x] : x \in 1..7}
    BY <2>2 DEF Range
  <2>4. {names[x] : x \in 1..7} = Fields
    BY <2>2 DEF Fields
  <2> QED BY <2>1, <2>3, <2>4 DEF names
<1>3. \A p, q \in 1..8 : Layout[p] = Layout[q] => p = q
  BY DEF Layout
<1>4. \A f \in Fields : \E q \in 2..8 : Layout[q] = f
  BY DEF Layout, Fields
<1>5. \A f \in Fields : \E q \in 2..8 :
       Layout[q] = f /\ (CHOOSE p \in 1..RecordSize : Layout[p] = f) = q
  <2> HIDE DEF Layout
  <2> QED BY <1>3, <1>4, RecordsHaveEightCells
<1> QED BY <1>1, <1>2, <1>5

\* The fields of a record can be read from its place in the buffer.
LEMMA RecordFacts ==
  ASSUME NEW R, NEW v \in R, IsRecord(v), NEW i \in Nat
  PROVE  /\ RecordOf(v, i) \in Seq(CellsOf(R)) /\ Len(RecordOf(v, i)) = 8
         /\ FieldsAt(RecordOf(v, i)) = v
<1>1. RecordOf(v, i) = [p \in 1..8 |-> IF p = 1 THEN i ELSE v[Layout[p]]]
  BY RecordsHaveEightCells DEF RecordOf
<1>2. \A p \in 1..8 : (IF p = 1 THEN i ELSE v[Layout[p]]) \in CellsOf(R)
  <2>1. \A f \in Fields : v[f] \in CellsOf(R)
    BY DEF CellsOf
  <2> QED BY <2>1, LayoutFacts DEF CellsOf
<1>3. FieldsAt(RecordOf(v, i)) = [f \in Fields |-> v[f]]
  <2>1. \A f \in Fields :
          RecordOf(v, i)[CHOOSE p \in 1..RecordSize : Layout[p] = f] = v[f]
    <3> SUFFICES ASSUME NEW f \in Fields
                 PROVE  RecordOf(v, i)[CHOOSE p \in 1..RecordSize : Layout[p] = f]
                          = v[f]
      OBVIOUS
    <3>1. PICK q \in 2..8 :
            Layout[q] = f /\ (CHOOSE p \in 1..RecordSize : Layout[p] = f) = q
      BY LayoutFacts
    <3>2. RecordOf(v, i)[q] = v[f]
      BY <1>1, <3>1
    <3> QED BY <3>1, <3>2
  <2> QED BY <2>1, LayoutFacts DEF FieldsAt
<1> HIDE DEF RecordOf, CellsOf
<1>4. RecordOf(v, i) \in [1..8 -> CellsOf(R)]
  BY <1>1, <1>2
<1>5. RecordOf(v, i) \in Seq(CellsOf(R)) /\ Len(RecordOf(v, i)) = 8
  BY <1>4, FunctionIsSequence
<1> QED BY <1>3, <1>5 DEF IsRecord

LEMMA RecordsFacts ==
  ASSUME NEW R, NEW registry \in Seq(R), \A v \in R : IsRecord(v)
  PROVE  /\ Records(registry) \in Seq(Seq(CellsOf(R)))
         /\ Len(Records(registry)) = Len(registry)
         /\ \A i \in 1..Len(registry) :
              /\ Records(registry)[i] = RecordOf(registry[i], i)
              /\ Len(Records(registry)[i]) = 8
              /\ FieldsAt(Records(registry)[i]) = registry[i]
<1> DEFINE n == Len(registry)
<1>1. n \in Nat /\ DOMAIN registry = 1..n
  OBVIOUS
<1>2. \A i \in 1..n : /\ RecordOf(registry[i], i) \in Seq(CellsOf(R))
                      /\ Len(RecordOf(registry[i], i)) = 8
                      /\ FieldsAt(RecordOf(registry[i], i)) = registry[i]
  <2> SUFFICES ASSUME NEW i \in 1..n
               PROVE  /\ RecordOf(registry[i], i) \in Seq(CellsOf(R))
                      /\ Len(RecordOf(registry[i], i)) = 8
                      /\ FieldsAt(RecordOf(registry[i], i)) = registry[i]
    OBVIOUS
  <2>1. registry[i] \in R /\ i \in Nat
    BY <1>1
  <2> QED BY <2>1, RecordFacts
<1>3. Records(registry) = [i \in 1..n |-> RecordOf(registry[i], i)]
  BY <1>1 DEF Records
<1> HIDE DEF n
<1>4. Records(registry) \in [1..n -> Seq(CellsOf(R))]
  BY <1>2, <1>3
<1>5. Records(registry) \in Seq(Seq(CellsOf(R))) /\ Len(Records(registry)) = n
  BY <1>1, <1>4
<1> QED BY <1>2, <1>3, <1>5 DEF n

LEMMA BufferHoldsRecords ==
  ASSUME NEW R, NEW registry \in Seq(R), \A v \in R : IsRecord(v)
  PROVE  /\ Holds(Buffer(registry), Records(registry), CellsOf(R))
         /\ Len(Buffer(registry)) = 8 * Len(registry)
<1> DEFINE records == Records(registry)
           S == CellsOf(R)
<1>1. /\ records \in Seq(Seq(S)) /\ Len(records) = Len(registry)
      /\ \A i \in 1..Len(records) : Len(records[i]) = 8
  BY RecordsFacts
<1>2. Buffer(registry) = FlattenSeq(records)
  BY DEF Buffer
<1> HIDE DEF records, S
<1>3. /\ Holds(FlattenSeq(records), records, S)
      /\ Len(FlattenSeq(records)) = 8 * Len(records)
  BY <1>1, FlattenedRecords
<1> QED BY <1>1, <1>2, <1>3 DEF records, S

\* What holds the same records and nothing else is the same.
LEMMA RecordsDetermine ==
  ASSUME NEW S, NEW buffer, NEW other, NEW records,
         Holds(buffer, records, S), Len(buffer) = 8 * Len(records),
         NEW T, other \in Seq(T), Len(other) = 8 * Len(records),
         \A i \in 1..Len(records) : \A p \in 1..8 :
           other[Cell(i, p)] = records[i][p]
  PROVE  other = buffer
<1> DEFINE n == Len(records)
           l == Len(buffer)
<1>1. /\ buffer \in Seq(S) /\ n \in Nat /\ l \in Nat /\ l = 8 * n
      /\ \A i \in 1..n : \A p \in 1..8 : buffer[Cell(i, p)] = records[i][p]
  BY DEF Holds
<1>2. \A c \in 1..l : other[c] = buffer[c]
  <2> SUFFICES ASSUME NEW c \in 1..l
               PROVE  other[c] = buffer[c]
    OBVIOUS
  <2> HIDE DEF l, n
  <2> DEFINE i == ((c - 1) \div 8) + 1
             p == ((c - 1) % 8) + 1
  <2>1. i \in 1..n /\ p \in 1..8 /\ Cell(i, p) = c
    BY <1>1, CellFacts
  <2> HIDE DEF i, p
  <2> QED BY <1>1, <2>1 DEF n
<1>3. other \in Seq(T) /\ Len(other) = l
  BY <1>1
<1> HIDE DEF l
<1> QED BY <1>1, <1>2, <1>3 DEF l

\* The record with its patches is that of the target.
LEMMA PatchedRecord ==
  ASSUME NEW b, NEW t, IsRecord(b), IsRecord(t), Lawful(b), Lawful(t),
         StaysSlashed(b, t), NEW i \in Nat
  PROVE  Patched(RecordOf(b, i), Patches(b, t)) = RecordOf(t, i)
<1>1. FieldsAt(RecordOf(b, i)) = b
  BY RecordFacts
<1>2. ApplyPatches(b, Patches(b, t)) = t
  BY RecordRoundTrip
<1>3. RecordOf(b, i)[1] = i
  BY RecordsHaveEightCells DEF RecordOf
<1>4. Patched(RecordOf(b, i), Patches(b, t))
        = [p \in 1..RecordSize |-> IF p = 1 THEN i ELSE t[Layout[p]]]
  BY <1>1, <1>2, <1>3 DEF Patched
<1> QED BY <1>4 DEF RecordOf

\* The byte form has the patches of the iterator form, and makes the buffer of
\* the base that of the target.
LEMMA BytesRoundTrip ==
  ASSUME NEW R, NEW base \in Seq(R), NEW target \in Seq(R),
         Len(base) <= Len(target),
         \A v \in R : IsRecord(v) /\ Lawful(v),
         \A i \in 1..Len(base) : StaysSlashed(base[i], target[i])
  PROVE  LET delta == DiffValidatorsBytes(Buffer(base), Buffer(target))
         IN  /\ delta.patches = DiffValidators(base, target).patches
             /\ ApplyValidatorsBytes(Buffer(base), delta) = Buffer(target)
<1> DEFINE m == Len(base)
           n == Len(target)
           S == CellsOf(R)
           b == Records(base)
           t == Records(target)
           old == Buffer(base)
           new == Buffer(target)
           delta == DiffValidatorsBytes(old, new)
           news == SubSeq(t, m + 1, n)
           second == FlattenSeq(news)
<1>1. m \in Nat /\ n \in Nat /\ m <= n /\ DOMAIN base = 1..m /\ DOMAIN target = 1..n
  OBVIOUS
<1>2. /\ Holds(old, b, S) /\ Len(old) = 8 * m /\ Len(b) = m
      /\ Holds(new, t, S) /\ Len(new) = 8 * n /\ Len(t) = n
  BY BufferHoldsRecords, RecordsFacts
<1>3. Chunks(old) = b
  BY <1>2, ChunksAreRecords
<1>4. Chunks(new) = t
  BY <1>2, ChunksAreRecords
<1>5. /\ b \in Seq(Seq(S)) /\ t \in Seq(Seq(S))
      /\ \A i \in 1..m : b[i] = RecordOf(base[i], i) /\ FieldsAt(b[i]) = base[i]
      /\ \A i \in 1..n : /\ t[i] = RecordOf(target[i], i) /\ FieldsAt(t[i]) = target[i]
                         /\ Len(t[i]) = 8 /\ t[i] \in Seq(S)
  <2>1. b \in Seq(Seq(S)) /\ t \in Seq(Seq(S))
    BY RecordsFacts
  <2>2. \A i \in 1..m : b[i] = RecordOf(base[i], i) /\ FieldsAt(b[i]) = base[i]
    BY RecordsFacts
  <2>3. \A i \in 1..n : /\ t[i] = RecordOf(target[i], i) /\ FieldsAt(t[i]) = target[i]
                        /\ Len(t[i]) = 8
    BY RecordsFacts
  <2>4. \A i \in 1..n : t[i] \in Seq(S)
    <3> HIDE DEF t, S, n
    <3> QED BY <1>1, <1>2, <2>1
  <2> QED BY <2>1, <2>2, <2>3, <2>4
<1> HIDE DEF b, t, old, new, S
<1>6. DOMAIN b = 1..m /\ DOMAIN t = 1..n
  BY <1>2, <1>5
<1>7. /\ [i \in DOMAIN b |-> FieldsAt(b[i])] = base
      /\ [i \in DOMAIN t |-> FieldsAt(t[i])] = target
  <2>1. [i \in 1..m |-> base[i]] = base /\ [i \in 1..n |-> target[i]] = target
    OBVIOUS
  <2> QED BY <1>5, <1>6, <2>1
<1>8. /\ delta.patches = DiffValidators(base, target).patches
      /\ delta.appended_validators = second
  BY <1>2, <1>3, <1>4, <1>7 DEF DiffValidatorsBytes
<1>9. DiffValidators(base, target).patches = [i \in 1..m |-> Patches(base[i], target[i])]
  BY <1>1 DEF DiffValidators
<1> HIDE DEF delta
<1>10. /\ news \in Seq(Seq(S)) /\ Len(news) = n - m
       /\ \A i \in 1..(n - m) : news[i] = t[m + i] /\ Len(news[i]) = 8
  <2> HIDE DEF m, n, second
  <2>1. news \in Seq(Seq(S)) /\ Len(news) = n - m
    BY <1>1, <1>2, <1>5, SMTT(30)
  <2>2. \A i \in 1..(n - m) : news[i] = t[m + i]
    BY <1>1, <1>2, <1>5
  <2>3. \A i \in 1..(n - m) : m + i \in 1..n
    BY <1>1
  <2> HIDE DEF news
  <2>4. ASSUME NEW i \in 1..(n - m)
        PROVE  Len(news[i]) = 8
    <3> DEFINE j == m + i
    <3>1. news[i] = t[j] /\ j \in 1..n
      BY <2>2, <2>3
    <3> HIDE DEF j
    <3> QED BY <1>5, <3>1
  <2> QED BY <2>1, <2>2, <2>4
<1> HIDE DEF news
<1>11. Holds(second, news, S) /\ Len(second) = 8 * (n - m)
  BY <1>10, FlattenedRecords
<1>12. Chunks(second) = news
  BY <1>11, ChunksAreRecords
<1> HIDE DEF second
<1> DEFINE first ==
             [c \in DOMAIN old |->
                LET i == ((c - 1) \div RecordSize) + 1
                IN  IF i \in DOMAIN delta.patches /\ Has(old, i)
                    THEN Patched(Chunks(old)[i], delta.patches[i])
                           [((c - 1) % RecordSize) + 1]
                    ELSE old[c]]
<1>13. ApplyValidatorsBytes(old, delta) = first \o second
  BY <1>8, <1>12 DEF ApplyValidatorsBytes, second
<1>14. DOMAIN old = 1..(8 * m) /\ new \in Seq(S) /\ second \in Seq(S)
  BY <1>2, <1>11 DEF Holds
<1>15. \A i \in 1..m : Patched(b[i], Patches(base[i], target[i])) = t[i]
  <2> SUFFICES ASSUME NEW i \in 1..m
               PROVE  Patched(b[i], Patches(base[i], target[i])) = t[i]
    OBVIOUS
  <2>1. i \in Nat /\ i \in 1..n /\ base[i] \in R /\ target[i] \in R
    BY <1>1
  <2>2. StaysSlashed(base[i], target[i])
    OBVIOUS
  <2>3. IsRecord(base[i]) /\ Lawful(base[i]) /\ IsRecord(target[i]) /\ Lawful(target[i])
    BY <2>1
  <2>4. Patched(RecordOf(base[i], i), Patches(base[i], target[i]))
          = RecordOf(target[i], i)
    BY <2>1, <2>2, <2>3, PatchedRecord
  <2> QED BY <1>5, <2>1, <2>4
<1>16. \A c \in 1..(8 * m) : first[c] = new[c]
  <2> SUFFICES ASSUME NEW c \in 1..(8 * m)
               PROVE  first[c] = new[c]
    OBVIOUS
  <2> DEFINE i == ((c - 1) \div 8) + 1
             p == ((c - 1) % 8) + 1
  <2>1. i \in 1..m /\ p \in 1..8 /\ Cell(i, p) = c
    <3> HIDE DEF m
    <3> QED BY <1>1, CellFacts
  <2>2. first[c] = IF i \in DOMAIN delta.patches /\ Has(old, i)
                   THEN Patched(b[i], delta.patches[i])[p] ELSE old[c]
    BY <1>3, <1>14, RecordsHaveEightCells
  <2> HIDE DEF i, p, first
  <2>3. Has(old, i)
    <3> HIDE DEF m
    <3> QED BY <1>1, <1>2, <2>1, RecordsHaveEightCells DEF Has
  <2>4. first[c] = t[i][p]
    BY <1>8, <1>9, <1>15, <2>1, <2>2, <2>3
  <2>5. new[Cell(i, p)] = t[i][p]
    <3>1. i \in 1..n
      <4> HIDE DEF m, n
      <4> QED BY <1>1, <2>1
    <3> QED BY <1>2, <2>1, <3>1 DEF Holds
  <2> QED BY <2>1, <2>4, <2>5
<1>17. \A c \in 1..(8 * (n - m)) : second[c] = new[8 * m + c]
  <2> SUFFICES ASSUME NEW c \in 1..(8 * (n - m))
               PROVE  second[c] = new[8 * m + c]
    OBVIOUS
  <2> DEFINE i == ((c - 1) \div 8) + 1
             p == ((c - 1) % 8) + 1
  <2>1. i \in 1..(n - m) /\ p \in 1..8 /\ Cell(i, p) = c /\ n - m \in Nat
    <3> HIDE DEF m, n
    <3>1. n - m \in Nat
      BY <1>1
    <3> QED BY <3>1, CellFacts
  <2> HIDE DEF i, p
  <2>2. second[c] = news[i][p]
    BY <1>10, <1>11, <2>1 DEF Holds
  <2>3. m + i \in 1..n /\ Cell(m + i, p) = 8 * m + c
    <3> HIDE DEF m, n
    <3> QED BY <1>1, <2>1 DEF Cell
  <2>4. new[Cell(m + i, p)] = t[m + i][p]
    BY <1>2, <2>1, <2>3 DEF Holds
  <2> QED BY <1>10, <2>1, <2>2, <2>3, <2>4
<1>18. first \in Seq(S) /\ Len(first) = 8 * m
  <2> HIDE DEF m, n
  <2>1. DOMAIN first = 1..(8 * m) /\ 8 * m \in Nat
    BY <1>1, <1>14
  <2>2. \A c \in 1..(8 * m) : c \in 1..Len(new)
    BY <1>1, <1>2
  <2>3. ASSUME NEW c \in 1..(8 * m)
        PROVE  first[c] \in S
    <3> HIDE DEF first
    <3>1. first[c] = new[c]
      BY <1>16
    <3>2. new[c] \in S
      BY <1>14, <2>2
    <3> QED BY <3>1, <3>2
  <2>4. first = [c \in 1..(8 * m) |-> first[c]]
    BY <2>1
  <2> HIDE DEF first
  <2>5. first \in [1..(8 * m) -> S]
    BY <2>3, <2>4
  <2> QED BY <2>1, <2>5, FunctionIsSequence
<1> HIDE DEF first
<1>19. first \o second = new
  <2> HIDE DEF m, n
  <2> DEFINE whole == first \o second
             k == 8 * m
             l == 8 * (n - m)
  <2>1. k \in Nat /\ l \in Nat /\ Len(new) = k + l /\ Len(first) = k /\ Len(second) = l
    BY <1>1, <1>2, <1>11, <1>18
  <2>2. /\ \A c \in 1..k : first[c] = new[c]
        /\ \A c \in 1..l : second[c] = new[k + c]
    BY <1>16, <1>17
  <2> HIDE DEF k, l
  <2>3. /\ whole \in Seq(S) /\ Len(whole) = k + l
        /\ \A c \in 1..(k + l) :
             whole[c] = IF c <= k THEN first[c] ELSE second[c - k]
    BY <1>14, <1>18, <2>1
  <2> HIDE DEF whole
  <2>4. \A c \in 1..(k + l) : whole[c] = new[c]
    <3> SUFFICES ASSUME NEW c \in 1..(k + l)
                 PROVE  whole[c] = new[c]
      OBVIOUS
    <3>1. CASE c <= k
      <4>1. c \in 1..k
        BY <2>1, <3>1
      <4> QED BY <2>2, <2>3, <3>1, <4>1
    <3>2. CASE ~(c <= k)
      <4>1. c - k \in 1..l /\ k + (c - k) = c
        BY <2>1, <3>2
      <4> QED BY <2>2, <2>3, <3>2, <4>1
    <3> QED BY <3>1, <3>2
  <2>5. whole = new
    BY <1>14, <2>1, <2>3, <2>4
  <2> QED BY <2>5 DEF whole
<1> QED BY <1>8, <1>13, <1>19 DEF delta, old, new
=============================================================================
