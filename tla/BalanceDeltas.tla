---------------------------- MODULE BalanceDeltas ---------------------------
(***************************************************************************)
(* The delta of the balances (balances.rs): a packed tag for each common   *)
(* balance, a mode, differences to the mode as zig-zag varints, explicit   *)
(* values, and the balances of new validators.                             *)
(*                                                                         *)
(* Balances are u64 and differences i64.  Both are modelled with a modulus *)
(* of any size; i64 arithmetic wraps unless the build checks for overflow. *)
(***************************************************************************)
EXTENDS Encodings

CONSTANTS
  Modulus,      \* the number of values of a u64 and of an i64
  SmallBound,   \* i32 reaches from -SmallBound to SmallBound - 1
  TagsPerByte   \* tags packed into a byte of a BitTagVec: 4

ASSUME BalanceAssumption ==
  /\ SmallBound \in Nat \ {0}
  /\ Modulus \in Nat /\ Modulus % 2 = 0 /\ Modulus >= 4 * SmallBound
  /\ TagsPerByte \in Nat \ {0}

SET_NO_CHANGE == 0
SET_TO_TARGET_VALUE == 1
SET_TO_ZERO == 2
SET_TO_DIFF == 3
TagValues == 4

-----------------------------------------------------------------------------
(* BitTagVec (types.rs): the tag of index i, counted from zero, is digit   *)
(* i % TagsPerByte of byte i \div TagsPerByte.                             *)

\* A byte of tags: the tag of index i and, at higher bits, those after it.
PackTags(tags) ==
  LET n == Len(tags)
      packed[i \in 1..n] ==
        IF i = n \/ i % TagsPerByte = 0 THEN tags[i]
        ELSE tags[i] + TagValues * packed[i + 1]
      bytes == (n + TagsPerByte - 1) \div TagsPerByte
  IN  [data |-> [b \in 1..bytes |-> packed[(b - 1) * TagsPerByte + 1]],
       len |-> n]

\* A byte without the tags in its lowest places.
ShiftedRight(byte, places) ==
  LET shifted[k \in 0..places] ==
        IF k = 0 THEN byte ELSE shifted[k - 1] \div TagValues
  IN  shifted[places]

\* A faulty variant: the tags of a byte are read from the high bits down.
UnpackTagsReversed(tags) ==
  [i \in 1..tags.len |->
     ShiftedRight(tags.data[(i - 1) \div TagsPerByte + 1],
                  TagsPerByte - 1 - ((i - 1) % TagsPerByte)) % TagValues]

UnpackTags(tags) ==
  [i \in 1..tags.len |->
     ShiftedRight(tags.data[(i - 1) \div TagsPerByte + 1],
                  (i - 1) % TagsPerByte) % TagValues]

-----------------------------------------------------------------------------
(* Numbers.                                                                *)

\* The i64 with the bits of a u64, and the difference of two of them.
Signed(n) == IF n < Modulus \div 2 THEN n ELSE n - Modulus
Difference(base, target) == Signed(target) - Signed(base)

\* A faulty variant: an i32 is subtracted.
OverflowsSmall(base, target) ==
  Difference(base, target) \notin (-SmallBound)..(SmallBound - 1)

Overflows(base, target) ==
  Difference(base, target) \notin (-(Modulus \div 2))..(Modulus \div 2 - 1)
Wrapped(base, target) == Signed(Difference(base, target) % Modulus)

IsSmall(diff) == diff \in (-SmallBound)..(SmallBound - 1)

ZigzagEncode(n) == IF n >= 0 THEN 2 * n ELSE -2 * n - 1
ZigzagDecode(n) == IF n % 2 = 0 THEN n \div 2 ELSE -(n \div 2) - 1

-----------------------------------------------------------------------------
(* diff_balances_iter and apply_balances_iter.                             *)

Changed(base, target) == {i \in Common(base, target) : base[i] # target[i]}

\* find_mode: a most frequent small difference; which of several depends on
\* the order of a hash map.
Modes(base, target) ==
  LET diff(i) == Wrapped(base[i], target[i])
      small == {i \in Changed(base, target) : IsSmall(diff(i))}
      count(d) == Cardinality({i \in small : diff(i) = d})
  IN  IF small = {} THEN {0}
      ELSE {diff(i) : i \in {j \in small :
                               \A k \in small : count(diff(k)) <= count(diff(j))}}

Tag(base, target) ==
  LET diff == Wrapped(base, target)
  IN  CASE base = target                               -> SET_NO_CHANGE
        [] base # target /\ target = 0                 -> SET_TO_ZERO
        [] base # target /\ target # 0
             /\ diff # Signed(target) /\ IsSmall(diff) -> SET_TO_DIFF
        [] OTHER                                       -> SET_TO_TARGET_VALUE

Tags(base, target) == [i \in Common(base, target) |-> Tag(base[i], target[i])]
Tagged(tags, tag) == {i \in DOMAIN tags : tags[i] = tag}

\* The numbers of a delta, before packing and after unpacking.
EncodeBalances(base, target, mode) ==
  LET tags == Tags(base, target)
      corrected == [i \in DOMAIN tags |->
                      ZigzagEncode(Wrapped(base[i], target[i]) - mode)]
  IN  [tags |-> tags, mode |-> mode,
       diffs |-> Pushed(Tagged(tags, SET_TO_DIFF), corrected),
       target_values |-> Pushed(Tagged(tags, SET_TO_TARGET_VALUE), target),
       appended_balances |-> Remaining(base, target)]

\* A faulty variant: the sum is not cast back to a u64.
DecodeBalanceUncast(balance, i, delta) ==
  LET tag == delta.tags[i]
      place == Rank(Tagged(delta.tags, tag), i)
  IN  CASE tag = SET_NO_CHANGE       -> balance
        [] tag = SET_TO_ZERO         -> 0
        [] tag = SET_TO_TARGET_VALUE -> delta.target_values[place]
        [] tag = SET_TO_DIFF         ->
             Signed(balance) + ZigzagDecode(delta.diffs[place]) + delta.mode

DecodeBalance(balance, i, delta) ==
  LET tag == delta.tags[i]
      place == Rank(Tagged(delta.tags, tag), i)
  IN  CASE tag = SET_NO_CHANGE       -> balance
        [] tag = SET_TO_ZERO         -> 0
        [] tag = SET_TO_TARGET_VALUE -> delta.target_values[place]
        [] tag = SET_TO_DIFF         ->
             (Signed(balance) + ZigzagDecode(delta.diffs[place]) + delta.mode)
               % Modulus

DecodeBalances(balances, delta) ==
  [i \in 1..Len(balances) |->
     IF i \in DOMAIN delta.tags THEN DecodeBalance(balances[i], i, delta)
     ELSE balances[i]]
    \o delta.appended_balances

DiffBalances(base, target, mode) ==
  LET delta == EncodeBalances(base, target, mode)
  IN  [tags |-> PackTags(delta.tags), mode |-> mode,
       varint_payload |-> WriteVarints(delta.diffs),
       target_values |-> delta.target_values,
       appended_balances |-> delta.appended_balances]

ApplyBalances(balances, delta) ==
  DecodeBalances(balances,
    [tags |-> UnpackTags(delta.tags), mode |-> delta.mode,
     diffs |-> ReadVarints(delta.varint_payload),
     target_values |-> delta.target_values,
     appended_balances |-> delta.appended_balances])
=============================================================================
