---------------------------- MODULE DeltaArchive ----------------------------
(***************************************************************************)
(* What the crate promises to an archive of beacon states.                 *)
(*                                                                         *)
(* A client keeps one full snapshot and, for every later checkpoint, the   *)
(* delta from the checkpoint before it.  A reader starts from the snapshot *)
(* and applies the deltas one after the other.  "Applying the delta to the *)
(* corresponding base state reconstructs the target state" (lib.rs) then   *)
(* means: the reader visits exactly the states that were checkpointed, in  *)
(* the order in which they were checkpointed.                              *)
(*                                                                         *)
(* Every component machine of this project (RingArchive, QueueArchive,     *)
(* ListArchive, RegistryArchive) keeps real deltas and real in-place       *)
(* updates; each one is shown to implement this specification, in which a  *)
(* restore simply reads the checkpoint it should reproduce.                *)
(***************************************************************************)
EXTENDS Naturals, Sequences

VARIABLES
  current,      \* the live state of the client
  checkpoints,  \* every state checkpointed so far; the first is the snapshot
  position,     \* the checkpoint the reader has reached
  replica       \* the state the reader holds

vars == <<current, checkpoints, position, replica>>

Init ==
  /\ checkpoints = <<current>>
  /\ position = 1
  /\ replica = current

\* The client's state moves on; the archive knows nothing of it yet.
Advance(next) ==
  /\ current' = next
  /\ UNCHANGED <<checkpoints, position, replica>>

\* The live state is checkpointed.
Checkpoint ==
  /\ checkpoints' = Append(checkpoints, current)
  /\ UNCHANGED <<current, position, replica>>

\* The reader moves to the next checkpoint and holds exactly that state.
Restore ==
  /\ position < Len(checkpoints)
  /\ position' = position + 1
  /\ replica' = checkpoints[position + 1]
  /\ UNCHANGED <<current, checkpoints>>

\* Advance with the next state as the witness: the live state is arbitrary.
Next == Advance(current') \/ Checkpoint \/ Restore

Spec == Init /\ [][Next]_vars
=============================================================================
