----------------------------- MODULE RingDeltas -----------------------------
(***************************************************************************)
(* The deltas of the four circular buffers of a beacon state: block and    *)
(* state roots (recent_roots.rs), RANDAO mixes (randao_mixes.rs) and       *)
(* slashing sums (slashings.rs).                                           *)
(*                                                                         *)
(* A buffer is a function on 0..capacity-1.  A delta is what the code      *)
(* stores: the roots and mixes of a window, without any index, and the     *)
(* index/value pairs of the slashing entries that differ.                  *)
(***************************************************************************)
EXTENDS Integers, FiniteSetsExt

CONSTANTS
  SlotsPerEpoch,  \* SLOTS_PER_EPOCH (types.rs)
  RootsLen,       \* capacity of block_roots and of state_roots
  MixesLen,       \* capacity of randao_mixes
  SlashingsLen,   \* capacity of slashings
  U16             \* the number of values of a u16

ASSUME RingAssumption ==
  /\ SlotsPerEpoch \in Nat \ {0}
  /\ RootsLen \in Nat \ {0}
  /\ MixesLen \in Nat \ {0}
  /\ SlashingsLen \in Nat \ {0}
  /\ U16 \in Nat \ {0}

Epoch(slot) == slot \div SlotsPerEpoch

-----------------------------------------------------------------------------
(* Copying a window of a ring.  The loops of apply_roots and apply_randao  *)
(* write values[0], values[1], ... at the indices first, first + 1, ...    *)
(* modulo the capacity: an entry holds the last value written to it.       *)

\* The values of the n consecutive ring positions that start at first.
ReadRing(buffer, capacity, first, n) ==
  [i \in 0..(n - 1) |-> buffer[(first + i) % capacity]]

\* The iterations that write entry j.
Writes(values, capacity, first, j) ==
  {i \in DOMAIN values : (first + i) % capacity = j}

WriteRing(buffer, capacity, first, values) ==
  [j \in DOMAIN buffer |->
     IF Writes(values, capacity, first, j) = {} THEN buffer[j]
     ELSE values[Max(Writes(values, capacity, first, j))]]

\* Two rings agree on every entry that no position of first..last maps to.
AgreeOutside(base, target, capacity, first, last) ==
  \A j \in 0..(capacity - 1) :
    (\A p \in first..last : p % capacity # j) => target[j] = base[j]

-----------------------------------------------------------------------------
(* recent_roots.rs: one root for each slot of [base, target), the target   *)
(* slot itself excluded.                                                   *)

\* Faulty variants for the mutation runs: the last slot before the target is
\* left out, the writes start one slot late.
DiffRootsShort(base, target, buffer) ==
  ReadRing(buffer, RootsLen, base, target - base - 1)

ApplyRootsLate(base, buffer, roots) ==
  WriteRing(buffer, RootsLen, base + 1, roots)

DiffRoots(base, target, buffer) ==
  ReadRing(buffer, RootsLen, base, target - base)

ApplyRoots(base, buffer, roots) ==
  WriteRing(buffer, RootsLen, base, roots)

(* randao_mixes.rs: one mix for each epoch of [base, target], both ends    *)
(* included, because the mix of the current epoch changes with each block. *)

\* Faulty variants: the target's epoch is left out, the writes start one
\* epoch late.
DiffRandaoExclusive(base, target, buffer) ==
  ReadRing(buffer, MixesLen, Epoch(base), Epoch(target) - Epoch(base))

ApplyRandaoLate(base, buffer, mixes) ==
  WriteRing(buffer, MixesLen, Epoch(base) + 1, mixes)

DiffRandao(base, target, buffer) ==
  ReadRing(buffer, MixesLen, Epoch(base), Epoch(target) - Epoch(base) + 1)

ApplyRandao(base, buffer, mixes) ==
  WriteRing(buffer, MixesLen, Epoch(base), mixes)

(* slashings.rs: the entries of the epochs of (base, target] that differ,  *)
(* each as its ring index, narrowed to a u16, and its new value.  The      *)
(* narrowing is what "idx as u16" does; two updates of one index carry the *)
(* same value unless it folds two indices together, and then the update    *)
(* of the later epoch is the one that stays.                               *)

\* Faulty variants: the target's epoch is left out, the difference is stored
\* in the place of the new value.
DiffSlashingsExclusive(base, target, baseBuffer, targetBuffer) ==
  {<<epoch, (epoch % SlashingsLen) % U16, targetBuffer[epoch % SlashingsLen]>> :
     epoch \in {e \in (Epoch(base) + 1)..(Epoch(target) - 1) :
                  baseBuffer[e % SlashingsLen] # targetBuffer[e % SlashingsLen]}}

DiffSlashingsRelative(base, target, baseBuffer, targetBuffer) ==
  {<<epoch, (epoch % SlashingsLen) % U16,
     targetBuffer[epoch % SlashingsLen] - baseBuffer[epoch % SlashingsLen]>> :
     epoch \in {e \in (Epoch(base) + 1)..Epoch(target) :
                  baseBuffer[e % SlashingsLen] # targetBuffer[e % SlashingsLen]}}

DiffSlashings(base, target, baseBuffer, targetBuffer) ==
  {<<epoch, (epoch % SlashingsLen) % U16, targetBuffer[epoch % SlashingsLen]>> :
     epoch \in {e \in (Epoch(base) + 1)..Epoch(target) :
                  baseBuffer[e % SlashingsLen] # targetBuffer[e % SlashingsLen]}}

Updates(updates, j) == {u \in updates : u[2] = j}

LastUpdate(updates) == CHOOSE u \in updates : \A w \in updates : w[1] <= u[1]

\* A faulty variant: updates are added.
ApplySlashingsAdding(buffer, updates) ==
  [j \in DOMAIN buffer |->
     IF Updates(updates, j) = {} THEN buffer[j]
     ELSE buffer[j] + LastUpdate(Updates(updates, j))[3]]

ApplySlashings(buffer, updates) ==
  [j \in DOMAIN buffer |->
     IF Updates(updates, j) = {} THEN buffer[j]
     ELSE LastUpdate(Updates(updates, j))[3]]
=============================================================================
