---------------------------- MODULE SparseDeltas ----------------------------
(***************************************************************************)
(* The deltas of the participation flags (participation.rs) and of the     *)
(* inactivity scores (inactivity_scores.rs): changed indices and their new *)
(* values, and a short form for lists of zeros.                            *)
(***************************************************************************)
EXTENDS Encodings

Zeros(n) == [i \in 1..n |-> 0]
AllZeros(n) == [kind |-> "AllZeros", len |-> n]

Differing(base, target) == {i \in Common(base, target) : base[i] # target[i]}

\* The list with the k-th value written at the k-th place, later ones over
\* earlier ones.
WriteAt(list, places, values) ==
  [i \in 1..Len(list) |->
     LET writes == {k \in 1..Len(values) : places[k] = i}
     IN  IF writes = {} THEN list[i] ELSE values[Max(writes)]]

-----------------------------------------------------------------------------
(* Participation.  Indices count from zero and are stored as the gaps      *)
(* between one changed index and the next.                                 *)

\* A faulty variant for the mutation runs: the last index is not remembered.
DiffParticipationAbsolute(base, target) ==
  LET changed == Differing(base, target)
      index == [i \in changed |-> i - 1]
  IN  [kind |-> "Sparse",
       sparse_indices |-> WriteVarints(Pushed(changed, index)),
       new_values |-> Pushed(changed, target),
       extension |-> Remaining(base, target)]

\* diff_participation_iter
DiffParticipation(base, target) ==
  LET changed == Differing(base, target)
      gap == [i \in changed |->
                IF Rank(changed, i) = 1 THEN i - 1
                ELSE i - Nth(changed, Rank(changed, i) - 1)]
  IN  [kind |-> "Sparse",
       sparse_indices |-> WriteVarints(Pushed(changed, gap)),
       new_values |-> Pushed(changed, target),
       extension |-> Remaining(base, target)]

\* The places, counted from one, that successive gaps lead to.
Places(gaps) ==
  LET place[k \in 0..Len(gaps)] == IF k = 0 THEN 1 ELSE place[k - 1] + gaps[k]
  IN  [k \in 1..Len(gaps) |-> place[k]]

\* apply_participation_iter: a delta of zeros is not handled; a list that is
\* too short for an index is filled up with zeros.
ApplyParticipation(list, delta) ==
  IF delta.kind = "AllZeros" THEN list
  ELSE LET places == Places(ReadVarints(delta.sparse_indices))
           missing == Max({0} \cup {places[k] - Len(list) :
                                      k \in 1..Len(delta.new_values)})
       IN  WriteAt(list \o Zeros(missing), places, delta.new_values)
             \o delta.extension

\* A faulty variant: the zeros are counted in the base.
DiffParticipationSliceOfBase(base, target) ==
  IF \A i \in 1..Len(target) : target[i] = 0 THEN AllZeros(Len(base))
  ELSE DiffParticipation(base, target)

\* diff_participation and apply_participation, the forms for slices.
DiffParticipationSlice(base, target) ==
  IF \A i \in 1..Len(target) : target[i] = 0 THEN AllZeros(Len(target))
  ELSE DiffParticipation(base, target)

ApplyParticipationSlice(list, delta) ==
  IF delta.kind = "AllZeros" THEN Zeros(delta.len)
  ELSE ApplyParticipation(list, delta)

-----------------------------------------------------------------------------
(* Inactivity scores.                                                      *)

DiffInactivity(base, target) ==
  LET changed == Differing(base, target)
      index == [i \in changed |-> i]
  IN  IF /\ \A i \in 1..Len(target) : target[i] = 0
         /\ \E i \in 1..Len(base) : base[i] # 0
      THEN AllZeros(Len(target))
      ELSE [kind |-> "Sparse", indices |-> Pushed(changed, index),
            new_values |-> Pushed(changed, target),
            extensions |-> Remaining(base, target)]

\* A faulty variant: new scores are added to the old ones.
ApplyInactivityAdding(list, delta) ==
  IF delta.kind = "AllZeros" THEN Zeros(delta.len)
  ELSE [i \in 1..Len(list) |->
          list[i] + WriteAt(Zeros(Len(list)), delta.indices, delta.new_values)[i]]
         \o delta.extensions

ApplyInactivity(list, delta) ==
  IF delta.kind = "AllZeros" THEN Zeros(delta.len)
  ELSE WriteAt(list, delta.indices, delta.new_values) \o delta.extensions
=============================================================================
