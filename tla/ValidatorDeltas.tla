--------------------------- MODULE ValidatorDeltas --------------------------
(***************************************************************************)
(* The delta of the validator registry (validators.rs): patches of single  *)
(* fields for the validators both registries have, whole records for the   *)
(* new ones.  The public key is left out: it never changes and is never    *)
(* patched.  The byte form and the iterator form are one algorithm.        *)
(***************************************************************************)
EXTENDS Integers, Sequences

CONSTANTS
  FarFuture,            \* u64::MAX, the epoch of what has not happened
  WithdrawabilityDelay  \* MIN_VALIDATOR_WITHDRAWABILITY_DELAY (types.rs)

ASSUME EpochAssumption == FarFuture \in Nat /\ WithdrawabilityDelay \in Nat

SaturatingAdd(epoch, delay) ==
  IF epoch + delay > FarFuture THEN FarFuture ELSE epoch + delay

\* A ValidatorField is the field of a record it is about, which for
\* WithdrawableEpochSlashed is withdrawable_epoch.
NoPatch == [field |-> "None", value |-> 0]
Patch(field, b, t) ==
  IF b[field] = t[field] THEN NoPatch ELSE [field |-> field, value |-> t[field]]

\* A faulty variant for the mutation runs: the withdrawable epoch is stored
\* only for validators that were slashed before.
PatchesIfSlashedBefore(b, t) ==
  <<Patch("withdrawal_credentials", b, t), Patch("effective_balance", b, t),
    Patch("slashed", b, t), Patch("activation_eligibility_epoch", b, t),
    Patch("activation_epoch", b, t), Patch("exit_epoch", b, t),
    IF b.slashed THEN Patch("withdrawable_epoch", b, t) ELSE NoPatch>>

\* The patches of one validator, in the order in which they are stored; those
\* that are NoPatch are not.
Patches(b, t) ==
  <<Patch("withdrawal_credentials", b, t), Patch("effective_balance", b, t),
    Patch("slashed", b, t), Patch("activation_eligibility_epoch", b, t),
    Patch("activation_epoch", b, t), Patch("exit_epoch", b, t),
    IF t.slashed THEN Patch("withdrawable_epoch", b, t) ELSE NoPatch>>

\* The withdrawable epoch of a validator that is not slashed, when this patch
\* arrives, follows from its exit epoch.
ApplyPatch(v, patch) ==
  IF patch.field = "None" THEN v
  ELSE IF patch.field = "exit_epoch" /\ ~v.slashed
  THEN [v EXCEPT !.exit_epoch = patch.value,
                 !.withdrawable_epoch =
                    SaturatingAdd(patch.value, WithdrawabilityDelay)]
  ELSE [v EXCEPT ![patch.field] = patch.value]

ApplyPatches(v, patches) ==
  LET v1 == ApplyPatch(v, patches[1])
      v2 == ApplyPatch(v1, patches[2])
      v3 == ApplyPatch(v2, patches[3])
      v4 == ApplyPatch(v3, patches[4])
      v5 == ApplyPatch(v4, patches[5])
      v6 == ApplyPatch(v5, patches[6])
  IN  ApplyPatch(v6, patches[7])

DiffValidators(base, target) ==
  [patches |-> [i \in 1..(IF Len(base) <= Len(target)
                          THEN Len(base) ELSE Len(target)) |->
                  Patches(base[i], target[i])],
   appended_validators |-> SubSeq(target, Len(base) + 1, Len(target))]

\* A patch for a validator the registry does not have is skipped.
ApplyValidators(registry, delta) ==
  [i \in 1..Len(registry) |->
     IF i \in DOMAIN delta.patches
     THEN ApplyPatches(registry[i], delta.patches[i])
     ELSE registry[i]]
    \o delta.appended_validators
=============================================================================
