----------------------------- MODULE Encodings ------------------------------
(***************************************************************************)
(* What the encoders of the per-validator lists share: variable-length     *)
(* integers written one after the other into a flat buffer, and the order  *)
(* in which a loop over the common portion of two lists meets the indices  *)
(* it has something to store for.                                          *)
(***************************************************************************)
EXTENDS Integers, Sequences, SequencesExt

CONSTANT VarintBase  \* the values of a varint byte's payload: 2^7

ASSUME VarintAssumption == VarintBase \in Nat \ {0, 1}

\* What two lists have in common, and what the target has beyond that.
Common(base, target) ==
  1..(IF Len(base) <= Len(target) THEN Len(base) ELSE Len(target))

\* A faulty variant for the mutation runs: the first of them is skipped.
RemainingButFirst(base, target) == SubSeq(target, Len(base) + 2, Len(target))

Remaining(base, target) == SubSeq(target, Len(base) + 1, Len(target))

\* The place of i among the members of a set of numbers, counted from one,
\* and the member at a place.
Rank(S, i) == Cardinality({j \in S : j <= i})
Nth(S, k) == CHOOSE i \in S : Rank(S, i) = k

\* What a loop in ascending order pushes for the indices in S.
Pushed(S, value) == [k \in 1..Cardinality(S) |-> value[Nth(S, k)]]

-----------------------------------------------------------------------------
(* write_varint and read_varint.  A byte at or above VarintBase has its    *)
(* high bit set: another byte follows.                                     *)

Varint[n \in Nat] ==
  IF n < VarintBase THEN <<n>>
  ELSE <<(n % VarintBase) + VarintBase>> \o Varint[n \div VarintBase]

WriteVarints(numbers) ==
  FlattenSeq([k \in 1..Len(numbers) |-> Varint[numbers[k]]])

\* A faulty variant: the first byte of a number is taken for the highest.
ReadVarintsBigEndian(buffer) ==
  LET read[c \in 1..Len(buffer), high \in Nat] ==
        IF buffer[c] < VarintBase
        THEN [value |-> VarintBase * high + buffer[c], cursor |-> c + 1]
        ELSE read[c + 1, VarintBase * high + buffer[c] - VarintBase]
      numbers[c \in 1..(Len(buffer) + 1)] ==
        IF c > Len(buffer) THEN <<>>
        ELSE <<read[c, 0].value>> \o numbers[read[c, 0].cursor]
  IN  numbers[1]

\* The numbers that successive reads with one cursor return.
ReadVarints(buffer) ==
  LET read[c \in 1..Len(buffer)] ==
        IF buffer[c] < VarintBase
        THEN [value |-> buffer[c], cursor |-> c + 1]
        ELSE [value |-> buffer[c] - VarintBase + VarintBase * read[c + 1].value,
              cursor |-> read[c + 1].cursor]
      numbers[c \in 1..(Len(buffer) + 1)] ==
        IF c > Len(buffer) THEN <<>>
        ELSE <<read[c].value>> \o numbers[read[c].cursor]
  IN  numbers[1]
=============================================================================
