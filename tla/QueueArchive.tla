---------------------------- MODULE QueueArchive ----------------------------
(***************************************************************************)
(* A pending queue of an Electra beacon state (deposits, partial           *)
(* withdrawals or consolidations), its deltas (pending_queue.rs) and a     *)
(* reader that rebuilds it.                                                *)
(*                                                                         *)
(* The queue is a sequence of items; the code sees its serialization, in   *)
(* which every item takes ItemSize bytes, and computes the number of       *)
(* consumed items from lengths in bytes.  Enqueue and Process are the      *)
(* consensus client's, external to the repository.                         *)
(***************************************************************************)
EXTENDS Integers, Sequences, FiniteSetsExt

CONSTANTS
  Items,           \* serialized queue items; equal items are equal bytes
  ItemSize,        \* item_ssz_size: 192, 24 or 16 bytes (lib.rs)
  U32,             \* the number of values of a u32
  MaxLen,          \* the limit of the SSZ list
  MaxCheckpoints   \* bound on the number of checkpoints

ASSUME QueueAssumption ==
  /\ ItemSize \in Nat \ {0}
  /\ U32 \in Nat \ {0}
  /\ MaxLen \in Nat /\ MaxLen <= U32  \* the limits of the protocol: 2^27, 2^18
  /\ MaxCheckpoints \in Nat \ {0}

VARIABLES
  queue,        \* the client's queue
  checkpoints,  \* the queues checkpointed so far; the first is the snapshot
  archive,      \* archive[k]: the delta from checkpoint k to checkpoint k+1
  position,     \* the checkpoint the reader has reached
  replica       \* the reader's queue

vars == <<queue, checkpoints, archive, position, replica>>

TypeOK ==
  /\ queue \in Seq(Items) /\ Len(queue) <= MaxLen
  /\ checkpoints \in Seq(Seq(Items))
  /\ position \in 1..Len(checkpoints)
  /\ replica \in Seq(Items)

-----------------------------------------------------------------------------
(* The delta of a queue.  Operators called a faulty variant are slips the  *)
(* mutation runs put in the place of the operator after them.              *)

Fifo(consumed, appended) ==
  [kind |-> "Fifo", consumed_count |-> consumed, appended_items |-> appended]

FullReplacement(items) == [kind |-> "FullReplacement", items |-> items]

\* A faulty variant: the last item is not searched.
MatchesButLast(haystack, needle) ==
  {i \in 0..(Len(haystack) - 2) : haystack[i + 1] = needle}

\* The item boundaries at which the needle occurs, counted from zero.
Matches(haystack, needle) ==
  {i \in 0..(Len(haystack) - 1) : haystack[i + 1] = needle}

\* What is left of a queue when n items are taken from its front.
Drop(items, n) == SubSeq(items, n + 1, Len(items))

\* A faulty variant: bytes are counted, not items.
AllConsumedBytes(base) == (Len(base) * ItemSize) % U32

\* Everything was consumed: the length in bytes is narrowed to 32 bits
\* before it is divided by the item size.
AllConsumed(base) == ((Len(base) * ItemSize) % U32) \div ItemSize

\* The overlap that starts at boundary i of the base: what is left of the
\* base must be a prefix of the target.
Overlaps(base, target, i) ==
  LET rest == Drop(base, i)
  IN  /\ Len(rest) <= Len(target)
      /\ SubSeq(target, 1, Len(rest)) = rest

\* A faulty variant: a match is taken for an overlap.
DiffQueueUnchecked(base, target) ==
  IF target = <<>> THEN Fifo(AllConsumed(base), <<>>)
  ELSE IF base = <<>> THEN Fifo(0, target)
  ELSE IF Matches(base, Head(target)) = {} THEN FullReplacement(target)
  ELSE LET i == Min(Matches(base, Head(target)))
       IN  Fifo(i % U32, Drop(target, Len(base) - i))

DiffQueue(base, target) ==
  IF target = <<>> THEN Fifo(AllConsumed(base), <<>>)
  ELSE IF base = <<>> THEN Fifo(0, target)
  ELSE IF Matches(base, Head(target)) = {} THEN FullReplacement(target)
  ELSE LET i == Min(Matches(base, Head(target)))
       IN  IF Overlaps(base, target, i)
           THEN Fifo(i % U32, Drop(target, Len(base) - i))
           ELSE FullReplacement(target)

\* The drain of more items than there are clears the queue.
ApplyQueue(base, delta) ==
  IF delta.kind = "FullReplacement" THEN delta.items
  ELSE IF delta.consumed_count > Len(base) THEN delta.appended_items
  ELSE Drop(base, delta.consumed_count) \o delta.appended_items

-----------------------------------------------------------------------------
(* The consensus client.                                                   *)

\* A block appends an item.
Enqueue(item) ==
  /\ Len(queue) < MaxLen
  /\ queue' = Append(queue, item)
  /\ UNCHANGED <<checkpoints, archive, position, replica>>

\* Epoch or block processing takes n items from the front.  It may postpone
\* one of them, which goes to the back (process_pending_deposits); several
\* are postponed by several steps.
Process(n, postponed) ==
  /\ queue' = Drop(queue, n) \o postponed
  /\ UNCHANGED <<checkpoints, archive, position, replica>>

-----------------------------------------------------------------------------
(* The library.                                                            *)

Checkpoint ==
  /\ Len(checkpoints) < MaxCheckpoints
  /\ checkpoints' = Append(checkpoints, queue)
  /\ archive' =
       Append(archive, DiffQueue(checkpoints[Len(checkpoints)], queue))
  /\ UNCHANGED <<queue, position, replica>>

Restore ==
  /\ position < Len(checkpoints)
  /\ position' = position + 1
  /\ replica' = ApplyQueue(replica, archive[position])
  /\ UNCHANGED <<queue, checkpoints, archive>>

Init ==
  /\ queue = <<>>
  /\ checkpoints = <<queue>>
  /\ archive = <<>>
  /\ position = 1
  /\ replica = queue

Next ==
  \/ \E item \in Items : Enqueue(item)
  \/ \E n \in 1..Len(queue) :
       \/ Process(n, <<>>)
       \/ \E i \in 1..n : Process(n, <<queue[i]>>)
  \/ Checkpoint
  \/ Restore

Spec == Init /\ [][Next]_vars

-----------------------------------------------------------------------------
(* Properties.                                                             *)

\* The reader's queue is the checkpointed one, whatever was appended,
\* consumed, postponed or enqueued twice in between (diff_queue and
\* apply_queue), as long as lengths in bytes fit 32 bits.
QueueRestored == replica = checkpoints[position]

\* A delta found everything consumed of a queue whose length in bytes does not
\* fit 32 bits.
Narrowed(k) ==
  checkpoints[k + 1] = <<>> /\ Len(checkpoints[k]) * ItemSize >= U32

\* Such a delta has been applied, and none since has replaced the queue.
LeftBehind ==
  \E k \in 1..(position - 1) :
    Narrowed(k) /\ \A l \in k..(position - 1) : archive[l].kind = "Fifo"

\* The narrowing at pending_queue.rs:201 is the only thing that can spoil the
\* reader's queue.  It always does, by leaving items behind: FIFO steps never
\* consume them, so the queue is too long until a delta replaces it.
QueueRestoredUnlessNarrowed ==
  IF LeftBehind
  THEN Len(replica) > Len(checkpoints[position])
  ELSE replica = checkpoints[position]

\* A delta applied in order never drains more than there is, narrowed or not:
\* apply_queue never falls back to clearing the queue.
NeverOverdrained ==
  position < Len(checkpoints) =>
    \/ archive[position].kind = "FullReplacement"
    \/ archive[position].consumed_count <= Len(replica)

\* The inductive invariant of the proofs.
ArchiveComplete ==
  archive = [k \in 1..(Len(checkpoints) - 1) |->
               DiffQueue(checkpoints[k], checkpoints[k + 1])]

IInv ==
  /\ TypeOK
  /\ \A k \in 1..Len(checkpoints) : Len(checkpoints[k]) <= MaxLen
  /\ ArchiveComplete
  /\ QueueRestoredUnlessNarrowed

Distinct(items) ==
  \A i, j \in 1..Len(items) : i # j => items[i] # items[j]

\* diff_queue tries only the first item equal to the target's head, so a FIFO
\* step over equal items may be stored in full.  If no item is queued twice
\* and part of the base is still queued, it is stored as a FIFO step, with
\* the number of items really consumed and just the items really appended.
PureFifoIsCompact ==
  \A k \in 1..Len(archive) :
    LET base == checkpoints[k]
        target == checkpoints[k + 1]
    IN  \A n \in 0..(Len(base) - 1) :
          (Overlaps(base, target, n) /\ Distinct(base) /\ Distinct(target))
            => archive[k] = Fifo(n, Drop(target, Len(base) - n))

Promise == INSTANCE DeltaArchive WITH current <- queue

\* The queue and its reader implement the archive of DeltaArchive, as long as
\* lengths in bytes fit 32 bits.
ImplementsArchive == Promise!Spec
=============================================================================
