---------------------------- MODULE RingArchive -----------------------------
(***************************************************************************)
(* The circular buffers of a beacon state, their deltas, and a reader that *)
(* rebuilds checkpointed states from a snapshot.                           *)
(*                                                                         *)
(* ProcessSlot, ProcessBlock and Slash are what the consensus client does  *)
(* to the buffers between two calls of the library (process_slots,         *)
(* process_randao, process_randao_mixes_reset, process_slashings_reset and *)
(* slash_validator of the consensus specification); they are external to   *)
(* the repository.  Checkpoint is lib.rs `create` on the two last          *)
(* checkpoints, Restore is lib.rs `apply` on the reader's state.           *)
(***************************************************************************)
EXTENDS RingDeltas, Sequences

CONSTANTS
  Roots,           \* the block or state roots a slot can have
  Mixes,           \* the RANDAO mixes a block can leave
  ZeroRoot,        \* what a root entry holds before its slot is processed
  MaxSlashed,      \* bound on the sum slashed in an epoch
  MaxSlot,         \* bound on the slot
  MaxCheckpoints   \* bound on the number of checkpoints

ASSUME ArchiveAssumption ==
  /\ MaxSlashed \in Nat
  /\ MaxSlot \in Nat
  /\ MaxCheckpoints \in Nat \ {0}
  \* Nothing in the code checks that a ring index fits its u16; the longest
  \* ring of the protocol, EPOCHS_PER_SLASHINGS_VECTOR = 8192, does.
  /\ SlashingsLen <= U16

VARIABLES
  live,         \* the client's state: slot, roots, mixes, slashings
  checkpoints,  \* the states checkpointed so far; the first is the snapshot
  archive,      \* archive[k]: the delta from checkpoint k to checkpoint k+1
  position,     \* the checkpoint the reader has reached
  replica       \* the reader's state, rebuilt from the snapshot

vars == <<live, checkpoints, archive, position, replica>>

States ==
  [slot: Nat,
   roots: [0..(RootsLen - 1) -> Roots \cup {ZeroRoot}],
   mixes: [0..(MixesLen - 1) -> Mixes],
   slashings: [0..(SlashingsLen - 1) -> Nat]]

TypeOK ==
  /\ live \in States
  /\ checkpoints \in Seq(States)
  /\ position \in 1..Len(checkpoints)
  /\ replica \in States

-----------------------------------------------------------------------------
(* create and apply, as far as they concern the rings.  base_slot travels  *)
(* in the delta.  The scalar header, which holds the slot, is replaced     *)
(* whole.                                                                  *)

Create(base, target) ==
  [base_slot |-> base.slot,
   scalar_header |-> target.slot,
   roots |-> DiffRoots(base.slot, target.slot, target.roots),
   mixes |-> DiffRandao(base.slot, target.slot, target.mixes),
   slashings |-> DiffSlashings(base.slot, target.slot,
                               base.slashings, target.slashings)]

\* A faulty variant for the mutation runs: the header is not replaced.
ApplyWithoutHeader(state, delta) ==
  [slot |-> state.slot,
   roots |-> ApplyRoots(delta.base_slot, state.roots, delta.roots),
   mixes |-> ApplyRandao(delta.base_slot, state.mixes, delta.mixes),
   slashings |-> ApplySlashings(state.slashings, delta.slashings)]

\* A faulty variant: the windows start at the reader's slot.
ApplyAtReader(state, delta) ==
  [slot |-> delta.scalar_header,
   roots |-> ApplyRoots(state.slot, state.roots, delta.roots),
   mixes |-> ApplyRandao(state.slot, state.mixes, delta.mixes),
   slashings |-> ApplySlashings(state.slashings, delta.slashings)]

Apply(state, delta) ==
  [slot |-> delta.scalar_header,
   roots |-> ApplyRoots(delta.base_slot, state.roots, delta.roots),
   mixes |-> ApplyRandao(delta.base_slot, state.mixes, delta.mixes),
   slashings |-> ApplySlashings(state.slashings, delta.slashings)]

-----------------------------------------------------------------------------
(* The consensus client.                                                   *)

\* The root of the slot is recorded and the slot advances.  At the end of an
\* epoch the entry of the next epoch is prepared in both epoch rings: the
\* mix is carried over, the slashing sum restarts from zero.
ProcessSlot(root) ==
  LET epoch == Epoch(live.slot)
      endOfEpoch == Epoch(live.slot + 1) # epoch
  IN  /\ live.slot < MaxSlot
      /\ live' =
           [slot |-> live.slot + 1,
            roots |-> [live.roots EXCEPT ![live.slot % RootsLen] = root],
            mixes |-> IF endOfEpoch
                      THEN [live.mixes EXCEPT ![(epoch + 1) % MixesLen] =
                                                live.mixes[epoch % MixesLen]]
                      ELSE live.mixes,
            slashings |-> IF endOfEpoch
                          THEN [live.slashings EXCEPT
                                  ![(epoch + 1) % SlashingsLen] = 0]
                          ELSE live.slashings]
      /\ UNCHANGED <<checkpoints, archive, position, replica>>

\* A block of the current slot mixes its RANDAO reveal into the epoch's mix.
ProcessBlock(mix) ==
  /\ live' = [live EXCEPT !.mixes[Epoch(live.slot) % MixesLen] = mix]
  /\ UNCHANGED <<checkpoints, archive, position, replica>>

\* A validator is slashed: its balance is added to the epoch's sum.
Slash ==
  LET index == Epoch(live.slot) % SlashingsLen
  IN  /\ live.slashings[index] < MaxSlashed
      /\ live' = [live EXCEPT !.slashings[index] = @ + 1]
      /\ UNCHANGED <<checkpoints, archive, position, replica>>

-----------------------------------------------------------------------------
(* The library.                                                            *)

\* The live state is checkpointed: the delta from the last checkpoint.
Checkpoint ==
  /\ Len(checkpoints) < MaxCheckpoints
  /\ checkpoints' = Append(checkpoints, live)
  /\ archive' = Append(archive, Create(checkpoints[Len(checkpoints)], live))
  /\ UNCHANGED <<live, position, replica>>

\* The reader applies the next delta of the archive in place.
Restore ==
  /\ position < Len(checkpoints)
  /\ position' = position + 1
  /\ replica' = Apply(replica, archive[position])
  /\ UNCHANGED <<live, checkpoints, archive>>

\* The genesis state: every mix is the hash of the Eth1 block that started it.
Genesis(mix) ==
  [slot |-> 0,
   roots |-> [i \in 0..(RootsLen - 1) |-> ZeroRoot],
   mixes |-> [i \in 0..(MixesLen - 1) |-> mix],
   slashings |-> [i \in 0..(SlashingsLen - 1) |-> 0]]

Init ==
  /\ \E mix \in Mixes : live = Genesis(mix)
  /\ checkpoints = <<live>>
  /\ archive = <<>>
  /\ position = 1
  /\ replica = live

Next ==
  \/ \E root \in Roots : ProcessSlot(root)
  \/ \E mix \in Mixes : ProcessBlock(mix)
  \/ Slash
  \/ Checkpoint
  \/ Restore

Spec == Init /\ [][Next]_vars

-----------------------------------------------------------------------------
(* Properties.                                                             *)

\* The root rings of the reader are those of the checkpoint it has reached,
\* although a delta holds only the roots of [base_slot, target_slot) and no
\* index (diff_roots, apply_roots), whatever the span and the capacity.
RootsRestored == replica.roots = checkpoints[position].roots

\* The same for the RANDAO mixes: the window of epochs of diff_randao
\* covers every entry that slots, blocks and epoch ends can have changed.
MixesRestored == replica.mixes = checkpoints[position].mixes

\* A slashing entry of the reader can differ from the checkpoint's only if
\* it is the entry of the base epoch of a delta the reader has applied:
\* diff_slashings starts one epoch after it and misses nothing else.
SlashingsConfined ==
  \A j \in 0..(SlashingsLen - 1) :
    replica.slashings[j] # checkpoints[position].slashings[j] =>
      \E k \in 1..(position - 1) :
        Epoch(checkpoints[k].slot) % SlashingsLen = j

\* What lib.rs:380-382 says of a delta, for the slashing ring: applying it
\* to the base state reconstructs the target state.
SlashingsRestored == replica.slashings = checkpoints[position].slashings

\* A reader that stopped after an apply and does not know it may apply the
\* same delta again: the rings do not change (apply_roots, apply_randao and
\* apply_slashings overwrite, they never accumulate).
RetryIsHarmless ==
  position > 1 => Apply(replica, archive[position - 1]) = replica

\* In-place application touches no entry of a ring outside the window of
\* the delta, the epochs and slots between the two checkpoints.
RestoreStaysInWindow ==
  [][position' # position =>
       LET base == checkpoints[position]
           target == checkpoints[position']
       IN  /\ AgreeOutside(replica.roots, replica'.roots, RootsLen,
                           base.slot, target.slot - 1)
           /\ AgreeOutside(replica.mixes, replica'.mixes, MixesLen,
                           Epoch(base.slot), Epoch(target.slot))
           /\ AgreeOutside(replica.slashings, replica'.slashings,
                           SlashingsLen,
                           Epoch(base.slot), Epoch(target.slot))]_vars

\* The states of a reader that goes through the archive but never gets the
\* deltas of lost: apply checks the fork of a delta, not its base_slot.
StatesWithout(lost) ==
  LET after[k \in 0..Len(archive)] ==
        IF k = 0 THEN checkpoints[1]
        ELSE IF k \in lost THEN after[k - 1]
        ELSE Apply(after[k - 1], archive[k])
  IN  after

\* The entries of each ring that delta k is about.
RootsWindow(k) ==
  {slot % RootsLen : slot \in checkpoints[k].slot..(checkpoints[k + 1].slot - 1)}

MixesWindow(k) ==
  {epoch % MixesLen :
     epoch \in Epoch(checkpoints[k].slot)..Epoch(checkpoints[k + 1].slot)}

SlashingsWindow(k) ==
  {epoch % SlashingsLen :
     epoch \in Epoch(checkpoints[k].slot)..Epoch(checkpoints[k + 1].slot)}

\* One of the lost deltas up to the n-th was about entry j, and none that
\* was applied after it.
Spoilt(window(_), lost, n, j) ==
  \E k \in lost :
    /\ k <= n /\ j \in window(k)
    /\ \A l \in (k + 1)..n : j \in window(l) => l \in lost

\* Deltas that get lost spoil the entries of their windows only.  Those of
\* the roots and the mixes are mended by the next delta applied whose window
\* has them.  The slashings need not be, since a delta stores just what
\* differs from its base.
LostDeltasConfined ==
  \A lost \in SUBSET DOMAIN archive :
    LET n == Len(archive)
        rebuilt == StatesWithout(lost)[n]
        target == checkpoints[n + 1]
    IN  /\ \A j \in 0..(RootsLen - 1) :
             rebuilt.roots[j] # target.roots[j] =>
               Spoilt(RootsWindow, lost, n, j)
        /\ \A j \in 0..(MixesLen - 1) :
             rebuilt.mixes[j] # target.mixes[j] =>
               Spoilt(MixesWindow, lost, n, j)
        /\ \A j \in 0..(SlashingsLen - 1) :
             rebuilt.slashings[j] # target.slashings[j] =>
               \/ \E k \in lost : j \in SlashingsWindow(k)
               \/ \E k \in DOMAIN archive :
                    Epoch(checkpoints[k].slot) % SlashingsLen = j

\* Between two checkpoints, and from the last one to the live state, a ring
\* entry changes only if a slot or an epoch of the window maps to it.
Follows(base, target) ==
  /\ base.slot <= target.slot
  /\ AgreeOutside(base.roots, target.roots, RootsLen,
                  base.slot, target.slot - 1)
  /\ AgreeOutside(base.mixes, target.mixes, MixesLen,
                  Epoch(base.slot), Epoch(target.slot))
  /\ AgreeOutside(base.slashings, target.slashings, SlashingsLen,
                  Epoch(base.slot), Epoch(target.slot))

CheckpointsFollow ==
  /\ \A k \in 1..(Len(checkpoints) - 1) :
       Follows(checkpoints[k], checkpoints[k + 1])
  /\ Follows(checkpoints[Len(checkpoints)], live)

\* The archive holds the delta of each pair of neighbouring checkpoints.
ArchiveComplete ==
  archive = [k \in 1..(Len(checkpoints) - 1) |->
               Create(checkpoints[k], checkpoints[k + 1])]

SlotRestored == replica.slot = checkpoints[position].slot

\* The inductive invariant of the proofs: a delta whose window covers every
\* entry that changed turns its base into its target.
IInv ==
  /\ TypeOK
  /\ CheckpointsFollow
  /\ ArchiveComplete
  /\ SlotRestored
  /\ RootsRestored
  /\ MixesRestored
  /\ SlashingsConfined

\* The archive of DeltaArchive, seen through every part of the state but the
\* slashing sums, which SlashingsConfined is about.
View(state) == <<state.slot, state.roots, state.mixes>>

Promise ==
  INSTANCE DeltaArchive WITH
    current <- View(live),
    checkpoints <- [k \in 1..Len(checkpoints) |-> View(checkpoints[k])],
    replica <- View(replica)

ImplementsArchive == Promise!Spec
=============================================================================
