------------------------- MODULE QueueArchiveProofs -------------------------
(***************************************************************************)
(* The reader of QueueArchive holds the checkpointed queue unless a length *)
(* in bytes was narrowed, for every set of items, item size and limit; it  *)
(* holds it always if the longest queue in bytes fits 32 bits.             *)
(***************************************************************************)
EXTENDS QueueArchive, RecursionProofs, SequenceTheorems

USE QueueAssumption

\* What is dropped and what is kept make up the sequence.
LEMMA DropFacts ==
  ASSUME NEW items \in Seq(Items), NEW n \in 0..Len(items)
  PROVE  /\ Drop(items, n) \in Seq(Items)
         /\ Len(Drop(items, n)) = Len(items) - n
         /\ SubSeq(items, 1, n) \o Drop(items, n) = items
         /\ n = 0 => Drop(items, n) = items
         /\ n = Len(items) => Drop(items, n) = <<>>
<1>1. Drop(items, n) \in Seq(Items) /\ Len(Drop(items, n)) = Len(items) - n
  BY DEF Drop
<1>2. SubSeq(items, 1, n) \o SubSeq(items, n + 1, Len(items)) = items
  <2>1. SubSeq(items, 1, n) \o SubSeq(items, n + 1, Len(items))
          = SubSeq(items, 1, Len(items))
    <3>1. 1 \in 1..(Len(items) + 1) /\ Len(items) \in n..Len(items)
      OBVIOUS
    <3>2. n \in (1 - 1)..Len(items)
      OBVIOUS
    <3> QED BY <3>1, <3>2, ConcatAdjacentSubSeq, Zenon
  <2> QED BY <2>1, SubSeqFull
<1>3. n = 0 => Drop(items, n) = items
  BY SubSeqFull DEF Drop
<1>4. n = Len(items) => Drop(items, n) = <<>>
  BY <1>1
<1> QED BY <1>1, <1>2, <1>3, <1>4 DEF Drop

\* Multiplying by the item size and dividing by it again gives the number
\* of items, if the product is not narrowed.
LEMMA AllConsumedIsLength ==
  ASSUME NEW base \in Seq(Items), Len(base) * ItemSize < U32
  PROVE  AllConsumed(base) = Len(base)
<1>1. Len(base) * ItemSize \in Nat
  OBVIOUS
<1>2. (Len(base) * ItemSize) % U32 = Len(base) * ItemSize
  BY <1>1
<1>3. (Len(base) * ItemSize) \div ItemSize = Len(base)
  OBVIOUS
<1> QED BY <1>2, <1>3 DEF AllConsumed

\* The length in bytes does not fit.
IsNarrowed(base, target) == target = <<>> /\ Len(base) * ItemSize >= U32

\* A narrowed length gives fewer items.
LEMMA NarrowedIsLess ==
  ASSUME NEW base \in Seq(Items), Len(base) * ItemSize >= U32
  PROVE  AllConsumed(base) \in Nat /\ AllConsumed(base) < Len(base)
<1> DEFINE l == Len(base)
           bytes == l * ItemSize
           kept == bytes % U32
           items == kept \div ItemSize
<1>1. l \in Nat /\ bytes \in Nat /\ bytes >= U32
  OBVIOUS
<1> HIDE DEF bytes
<1>2. kept \in Nat /\ kept < bytes
  BY <1>1
<1> HIDE DEF kept
<1>3. items \in Nat /\ items * ItemSize <= kept
  BY <1>2
<1> HIDE DEF items
<1>4. items * ItemSize < l * ItemSize
  <2>1. items * ItemSize \in Int
    BY <1>3
  <2> QED BY <1>1, <1>2, <1>3, <2>1 DEF bytes
<1>5. items < l
  <2> HIDE DEF l
  <2>1. SUFFICES ASSUME items >= l
                 PROVE  FALSE
    BY <1>1, <1>3
  <2>2. items * ItemSize >= l * ItemSize
    BY <1>1, <1>3, <2>1
  <2>3. items * ItemSize \in Int /\ l * ItemSize \in Int
    BY <1>1, <1>3
  <2> QED BY <1>4, <2>2, <2>3
<1> QED BY <1>3, <1>5 DEF AllConsumed, items, kept, bytes, l

\* What diff_queue makes of two queues, and what apply_queue does with it to a
\* queue at least as long as the base: a full replacement gives the target; a
\* FIFO step keeps the surplus, and adds to it exactly if it is narrowed.
LEMMA QueueStep ==
  ASSUME NEW base \in Seq(Items), NEW target \in Seq(Items), Len(base) <= MaxLen,
         NEW reader \in Seq(Items), Len(reader) >= Len(base)
  PROVE  LET delta == DiffQueue(base, target)
             after == ApplyQueue(reader, delta)
             surplus == Len(reader) - Len(base)
         IN  \/ /\ delta.kind = "FullReplacement"
                /\ after = target
                /\ ~IsNarrowed(base, target)
             \/ /\ delta.kind = "Fifo"
                /\ delta.consumed_count \in 0..Len(base)
                /\ after \in Seq(Items)
                /\ IF IsNarrowed(base, target)
                   THEN Len(after) > Len(target) + surplus
                   ELSE /\ Len(after) = Len(target) + surplus
                        /\ reader = base => after = target
<1> DEFINE delta == DiffQueue(base, target)
           after == ApplyQueue(reader, delta)
           matches == Matches(base, Head(target))
           i == Min(matches)
           l == Len(base)
           r == Len(reader)
<1>1. l \in Nat /\ r \in Nat /\ l <= r
  OBVIOUS
<1>2. ASSUME NEW c \in 0..l, NEW appended \in Seq(Items), delta = Fifo(c, appended)
      PROVE  /\ delta.kind = "Fifo"
             /\ delta.consumed_count \in 0..l
             /\ after = Drop(reader, c) \o appended
             /\ after \in Seq(Items)
             /\ Len(after) = r - c + Len(appended)
  <2>1. /\ delta.kind = "Fifo" /\ delta.consumed_count = c
        /\ delta.appended_items = appended
    BY <1>2 DEF Fifo
  <2> HIDE DEF delta, l, r
  <2>2. c \in 0..r /\ c \in 0..l /\ ~(c > r)
    BY <1>1
  <2>3. after = Drop(reader, c) \o appended
    BY <2>1, <2>2 DEF ApplyQueue, r
  <2> DEFINE rest == Drop(reader, c)
  <2>4. rest \in Seq(Items) /\ Len(rest) = r - c
    BY <2>2, DropFacts DEF r
  <2> HIDE DEF rest
  <2>5. /\ rest \o appended \in Seq(Items)
        /\ Len(rest \o appended) = Len(rest) + Len(appended)
    BY <2>4, ConcatProperties, Zenon
  <2> HIDE DEF after
  <2> QED BY <2>1, <2>2, <2>3, <2>4, <2>5 DEF rest
<1>3. CASE IsNarrowed(base, target)
  <2>1. delta = Fifo(AllConsumed(base), <<>>) /\ Len(target) = 0
    BY <1>3 DEF IsNarrowed, DiffQueue
  <2>2. AllConsumed(base) \in 0..l /\ AllConsumed(base) < l
    BY <1>1, <1>3, NarrowedIsLess DEF IsNarrowed
  <2>3. <<>> \in Seq(Items) /\ Len(<<>>) = 0
    OBVIOUS
  <2> HIDE DEF delta, after, l, r
  <2>4. /\ delta.kind = "Fifo" /\ delta.consumed_count \in 0..l
        /\ after \in Seq(Items) /\ Len(after) = r - AllConsumed(base) + Len(<<>>)
    BY <1>2, <2>1, <2>2, <2>3
  <2>5. Len(after) > Len(target) + (r - l)
    BY <1>1, <2>1, <2>2, <2>3, <2>4
  <2> QED BY <1>3, <2>4, <2>5 DEF delta, after, l, r
<1>4. CASE target = <<>> /\ l * ItemSize < U32
  <2>1. delta = Fifo(l, <<>>) /\ Len(target) = 0 /\ ~IsNarrowed(base, target)
    <3>1. ~(l * ItemSize >= U32)
      BY <1>1, <1>4
    <3>2. AllConsumed(base) = l
      BY <1>4, AllConsumedIsLength
    <3> QED BY <1>4, <3>1, <3>2 DEF IsNarrowed, DiffQueue
  <2>2. <<>> \in Seq(Items) /\ Len(<<>>) = 0
    OBVIOUS
  <2>3. reader = base => Drop(reader, l) \o <<>> = target
    BY <1>4, DropFacts
  <2> HIDE DEF delta, after, l, r
  <2>4. /\ delta.kind = "Fifo" /\ delta.consumed_count \in 0..l
        /\ after = Drop(reader, l) \o <<>>
        /\ after \in Seq(Items) /\ Len(after) = r - l + Len(<<>>)
    <3>1. l \in 0..l
      BY <1>1
    <3> QED BY <1>2, <2>1, <2>2, <3>1
  <2>5. Len(after) = Len(target) + (r - l)
    BY <1>1, <2>1, <2>2, <2>4
  <2> QED BY <2>1, <2>3, <2>4, <2>5 DEF delta, after, l, r
<1>5. CASE target # <<>> /\ base = <<>>
  <2>1. delta = Fifo(0, target) /\ ~IsNarrowed(base, target) /\ l = 0
    BY <1>5 DEF IsNarrowed, DiffQueue
  <2>2. reader = base => Drop(reader, 0) \o target = target
    <3>1. Drop(base, 0) = <<>>
      BY <1>5, DropFacts
    <3> QED BY <3>1, ConcatEmptySeq
  <2> HIDE DEF delta, after, l, r
  <2>3. /\ delta.kind = "Fifo" /\ delta.consumed_count \in 0..l
        /\ after = Drop(reader, 0) \o target
        /\ after \in Seq(Items) /\ Len(after) = r - 0 + Len(target)
    BY <1>1, <1>2, <2>1
  <2>4. Len(after) = Len(target) + (r - l)
    BY <1>1, <2>1, <2>3
  <2> QED BY <2>1, <2>2, <2>3, <2>4 DEF delta, after, l, r
<1>6. CASE /\ target # <<>> /\ base # <<>>
           /\ matches = {} \/ ~Overlaps(base, target, i)
  <2>1. delta = FullReplacement(target) /\ ~IsNarrowed(base, target)
    BY <1>6 DEF DiffQueue, IsNarrowed
  <2> HIDE DEF delta
  <2>2. delta.kind = "FullReplacement" /\ ApplyQueue(reader, delta) = target
    BY <2>1 DEF ApplyQueue, FullReplacement
  <2> QED BY <2>1, <2>2 DEF delta
<1>7. CASE /\ target # <<>> /\ base # <<>>
           /\ matches # {} /\ Overlaps(base, target, i)
  <2>1. i \in 0..(l - 1)
    <3>1. matches \subseteq Nat /\ matches \subseteq 0..(l - 1)
      BY DEF Matches
    <3> QED BY <1>7, <3>1, LeastExists
  <2> DEFINE m == l - i
             appended == Drop(target, m)
  <2> HIDE DEF i, matches
  <2>2. i % U32 = i
    BY <1>1, <2>1, SMTT(30) DEF QueueAssumption
  <2>3. delta = Fifo(i, appended) /\ ~IsNarrowed(base, target)
    BY <1>7, <2>2 DEF DiffQueue, IsNarrowed, i, matches
  <2>4. /\ Len(Drop(base, i)) = m
        /\ m \in 0..Len(target)
        /\ SubSeq(target, 1, m) = Drop(base, i)
    <3>1. Len(Drop(base, i)) = m
      BY <2>1, DropFacts
    <3> QED BY <1>7, <2>1, <3>1 DEF Overlaps
  <2>5. /\ Drop(base, i) \o appended = target
        /\ appended \in Seq(Items) /\ Len(appended) = Len(target) - m
    BY <2>4, DropFacts
  <2>6. Len(target) \in Nat
    OBVIOUS
  <2> HIDE DEF appended
  <2>7. /\ delta.kind = "Fifo" /\ delta.consumed_count \in 0..l
        /\ after = Drop(reader, i) \o appended
        /\ after \in Seq(Items) /\ Len(after) = r - i + Len(appended)
    <3>1. i \in 0..l
      BY <1>1, <2>1
    <3> HIDE DEF delta, after, l, r
    <3> QED BY <1>2, <2>3, <2>5, <3>1
  <2> HIDE DEF delta, after
  <2>8. Len(after) = Len(target) + (r - l)
    <3> HIDE DEF l, r
    <3> QED BY <1>1, <2>1, <2>4, <2>5, <2>6, <2>7
  <2> QED BY <2>3, <2>5, <2>7, <2>8 DEF delta, after
<1> HIDE DEF delta, after, matches, i
<1>8. IsNarrowed(base, target) <=> target = <<>> /\ ~(l * ItemSize < U32)
  BY <1>1 DEF IsNarrowed
<1> QED BY <1>3, <1>4, <1>5, <1>6, <1>7, <1>8 DEF delta, after

-----------------------------------------------------------------------------
(* The machine.                                                            *)

\* A delta of the archive was made from the checkpoint before it.
LEMMA ArchivedDelta ==
  ASSUME IInv, NEW k \in 1..(Len(checkpoints) - 1)
  PROVE  /\ checkpoints[k] \in Seq(Items) /\ Len(checkpoints[k]) <= MaxLen
         /\ checkpoints[k + 1] \in Seq(Items)
         /\ archive[k] = DiffQueue(checkpoints[k], checkpoints[k + 1])
         /\ Narrowed(k) <=> IsNarrowed(checkpoints[k], checkpoints[k + 1])
<1>1. checkpoints[k] \in Seq(Items) /\ checkpoints[k + 1] \in Seq(Items)
  BY DEF IInv, TypeOK
<1>2. Len(checkpoints[k]) <= MaxLen
  BY DEF IInv, TypeOK
<1>3. archive[k] = DiffQueue(checkpoints[k], checkpoints[k + 1])
  BY DEF IInv, ArchiveComplete
<1>4. Narrowed(k) <=> IsNarrowed(checkpoints[k], checkpoints[k + 1])
  BY DEF Narrowed, IsNarrowed
<1> QED BY <1>1, <1>2, <1>3, <1>4

LEMMA InitIInv ==
  Init => IInv
<1> SUFFICES ASSUME Init
             PROVE  IInv
  OBVIOUS
<1>1. TypeOK
  BY DEF Init, TypeOK, QueueAssumption
<1>2. \A k \in 1..Len(checkpoints) : Len(checkpoints[k]) <= MaxLen
  BY DEF Init, QueueAssumption
<1>3. ArchiveComplete
  BY DEF Init, ArchiveComplete
<1>4. QueueRestoredUnlessNarrowed
  <2>1. position = 1 /\ replica = checkpoints[position]
    BY DEF Init
  <2>2. ~LeftBehind
    BY <2>1 DEF LeftBehind
  <2> QED BY <2>1, <2>2 DEF QueueRestoredUnlessNarrowed
<1> QED BY <1>1, <1>2, <1>3, <1>4 DEF IInv

\* The client changes nothing but the queue, and keeps it within the limit.
LEMMA ClientKeepsIInv ==
  ASSUME IInv, queue' \in Seq(Items), Len(queue') <= MaxLen,
         UNCHANGED <<checkpoints, archive, position, replica>>
  PROVE  IInv'
BY DEF IInv, TypeOK, ArchiveComplete, QueueRestoredUnlessNarrowed, LeftBehind,
       Narrowed

LEMMA EnqueueKeepsIInv ==
  ASSUME IInv, NEW item \in Items, Enqueue(item)
  PROVE  IInv'
<1>1. queue \in Seq(Items) /\ Len(queue) < MaxLen
  BY DEF IInv, TypeOK, Enqueue
<1>2. queue' \in Seq(Items) /\ Len(queue') <= MaxLen
  BY <1>1, AppendProperties DEF Enqueue, QueueAssumption
<1> QED BY <1>2, ClientKeepsIInv DEF Enqueue

LEMMA ProcessKeepsIInv ==
  ASSUME IInv, NEW n \in 1..Len(queue), NEW postponed \in Seq(Items),
         Len(postponed) <= n, Process(n, postponed)
  PROVE  IInv'
<1>1. queue \in Seq(Items) /\ Len(queue) <= MaxLen
  BY DEF IInv, TypeOK
<1>2. n \in 0..Len(queue)
  BY <1>1
<1>3. Drop(queue, n) \in Seq(Items) /\ Len(Drop(queue, n)) = Len(queue) - n
  BY <1>1, <1>2, DropFacts
<1>4. /\ queue' \in Seq(Items)
      /\ Len(queue') = Len(queue) - n + Len(postponed)
  BY <1>3, ConcatProperties DEF Process
<1>5. Len(queue') <= MaxLen
  BY <1>1, <1>4 DEF QueueAssumption
<1> QED BY <1>4, <1>5, ClientKeepsIInv DEF Process

LEMMA CheckpointKeepsIInv ==
  ASSUME IInv, Checkpoint
  PROVE  IInv'
<1> DEFINE n == Len(checkpoints)
<1>1. n \in Nat \ {0} /\ queue \in Seq(Items) /\ Len(queue) <= MaxLen
  BY DEF IInv, TypeOK
<1>2. /\ checkpoints' \in Seq(Seq(Items))
      /\ Len(checkpoints') = n + 1
      /\ checkpoints'[n + 1] = queue
      /\ \A k \in 1..n : checkpoints'[k] = checkpoints[k]
  BY <1>1, AppendProperties DEF IInv, TypeOK, Checkpoint
<1>3. TypeOK'
  BY <1>1, <1>2 DEF IInv, TypeOK, Checkpoint
<1>4. \A k \in 1..Len(checkpoints') : Len(checkpoints'[k]) <= MaxLen
  <2> SUFFICES ASSUME NEW k \in 1..(n + 1)
               PROVE  Len(checkpoints'[k]) <= MaxLen
    BY <1>2
  <2>1. CASE k = n + 1
    BY <1>1, <1>2, <2>1
  <2>2. CASE k \in 1..n
    BY <1>2, <2>2 DEF IInv
  <2> QED BY <1>1, <2>1, <2>2
<1>5. ArchiveComplete'
  <2>1. \A k \in 1..(n - 1) : archive[k] = DiffQueue(checkpoints[k],
                                                     checkpoints[k + 1])
    BY DEF IInv, ArchiveComplete
  <2>2. archive \in Seq({DiffQueue(b, t) : b, t \in Seq(Items)})
        /\ Len(archive) = n - 1
    <3>1. \A k \in 1..(n - 1) : checkpoints[k] \in Seq(Items)
                              /\ checkpoints[k + 1] \in Seq(Items)
      BY DEF IInv, TypeOK
    <3>2. archive = [k \in 1..(n - 1) |->
                       DiffQueue(checkpoints[k], checkpoints[k + 1])]
      BY DEF IInv, ArchiveComplete
    <3>3. \A k \in 1..(n - 1) : DiffQueue(checkpoints[k], checkpoints[k + 1])
                                  \in {DiffQueue(b, t) : b, t \in Seq(Items)}
      BY <3>1
    <3> QED BY <1>1, <3>2, <3>3
  <2>3. archive' = [k \in 1..n |->
                      IF k = n THEN DiffQueue(checkpoints[n], queue)
                      ELSE archive[k]]
    BY <1>1, <2>2, AppendProperties DEF Checkpoint
  <2>4. \A k \in 1..n :
          (IF k = n THEN DiffQueue(checkpoints[n], queue) ELSE archive[k])
            = DiffQueue(checkpoints'[k], checkpoints'[k + 1])
    <3> SUFFICES ASSUME NEW k \in 1..n
                 PROVE  (IF k = n THEN DiffQueue(checkpoints[n], queue)
                         ELSE archive[k])
                          = DiffQueue(checkpoints'[k], checkpoints'[k + 1])
      OBVIOUS
    <3>1. CASE k = n
      BY <1>2, <3>1
    <3>2. CASE k # n
      <4>1. k \in 1..(n - 1) /\ k + 1 \in 1..n
        BY <1>1, <3>2
      <4> QED BY <1>2, <2>1, <3>2, <4>1
    <3> QED BY <3>1, <3>2
  <2>5. Len(checkpoints') - 1 = n
    BY <1>1, <1>2
  <2> QED BY <2>3, <2>4, <2>5 DEF ArchiveComplete
<1>6. QueueRestoredUnlessNarrowed'
  <2>1. /\ position \in 1..n /\ position' = position /\ replica' = replica
        /\ checkpoints'[position] = checkpoints[position]
    BY <1>1, <1>2 DEF IInv, TypeOK, Checkpoint
  <2>2. ASSUME NEW k \in 1..(position - 1)
        PROVE  Narrowed(k)' <=> Narrowed(k)
    <3>1. k \in 1..n /\ k + 1 \in 1..n
      BY <1>1, <2>1
    <3> QED BY <1>2, <3>1 DEF Narrowed
  <2>3. ASSUME NEW l \in 1..(position - 1)
        PROVE  archive'[l] = archive[l]
    <3>1. l \in 1..(n - 1)
      BY <1>1, <2>1
    <3>2. Len(checkpoints') - 1 = n /\ l \in 1..n /\ l + 1 \in 1..n
      BY <1>1, <1>2, <3>1
    <3>3. archive'[l] = DiffQueue(checkpoints'[l], checkpoints'[l + 1])
      BY <1>5, <3>2 DEF ArchiveComplete
    <3>4. archive[l] = DiffQueue(checkpoints[l], checkpoints[l + 1])
      BY <3>1 DEF IInv, ArchiveComplete
    <3> QED BY <1>2, <3>2, <3>3, <3>4
  <2>4. LeftBehind' <=> LeftBehind
    <3>1. \A k \in 1..(position - 1) : \A l \in k..(position - 1) :
            l \in 1..(position - 1)
      BY <2>1
    <3> QED BY <2>1, <2>2, <2>3, <3>1 DEF LeftBehind
  <2> QED BY <2>1, <2>4 DEF IInv, QueueRestoredUnlessNarrowed
<1> QED BY <1>3, <1>4, <1>5, <1>6 DEF IInv

\* Items stay behind from a narrowed delta to the next full replacement.
LEMMA LeftBehindGoesOn ==
  ASSUME IInv, Restore
  PROVE  LeftBehind' <=> /\ archive[position].kind = "Fifo"
                         /\ LeftBehind \/ Narrowed(position)
<1>1. /\ position \in Nat \ {0} /\ position' - 1 = position
      /\ checkpoints' = checkpoints /\ archive' = archive
  BY DEF IInv, TypeOK, Restore
<1>2. \A k : Narrowed(k)' <=> Narrowed(k)
  BY <1>1 DEF Narrowed
<1>3. LeftBehind' <=>
        \E k \in 1..position :
          Narrowed(k) /\ \A l \in k..position : archive[l].kind = "Fifo"
  BY <1>1, <1>2 DEF LeftBehind
<1>4. ASSUME NEW k \in 1..position
      PROVE  (\A l \in k..position : archive[l].kind = "Fifo") <=>
               /\ archive[position].kind = "Fifo"
               /\ \A l \in k..(position - 1) : archive[l].kind = "Fifo"
  <2>1. position \in k..position /\ k..(position - 1) \subseteq k..position
    BY <1>1
  <2>2. \A l \in k..position : l = position \/ l \in k..(position - 1)
    BY <1>1
  <2> QED BY <2>1, <2>2
<1>5. /\ 1..(position - 1) \subseteq 1..position /\ position \in 1..position
      /\ \A k \in 1..position : k = position \/ k \in 1..(position - 1)
      /\ position..(position - 1) = {}
  BY <1>1
<1> QED BY <1>3, <1>4, <1>5 DEF LeftBehind

LEMMA RestoreKeepsIInv ==
  ASSUME IInv, Restore
  PROVE  IInv'
<1> DEFINE base == checkpoints[position]
           target == checkpoints[position + 1]
           delta == archive[position]
           narrowed == IsNarrowed(base, target)
<1>1. /\ position \in 1..(Len(checkpoints) - 1)
      /\ position' = position + 1 /\ replica' = ApplyQueue(replica, delta)
      /\ UNCHANGED <<queue, checkpoints, archive>>
  BY DEF IInv, TypeOK, Restore
<1>2. /\ base \in Seq(Items) /\ Len(base) <= MaxLen /\ target \in Seq(Items)
      /\ delta = DiffQueue(base, target)
      /\ Narrowed(position) <=> narrowed
  BY <1>1, ArchivedDelta
<1>3. replica \in Seq(Items)
  BY DEF IInv, TypeOK
<1>4. IF LeftBehind THEN Len(replica) > Len(base) ELSE replica = base
  BY DEF IInv, QueueRestoredUnlessNarrowed
<1>5. LeftBehind' <=> delta.kind = "Fifo" /\ (LeftBehind \/ narrowed)
  BY <1>2, LeftBehindGoesOn
<1>6. /\ Len(base) \in Nat /\ Len(target) \in Nat /\ Len(replica) \in Nat
      /\ Len(replica) >= Len(base)
  BY <1>2, <1>3, <1>4
<1> HIDE DEF base, target, delta, narrowed
<1>7. \/ delta.kind = "FullReplacement" /\ replica' = target /\ ~narrowed
      \/ /\ delta.kind = "Fifo"
         /\ replica' \in Seq(Items)
         /\ IF narrowed
            THEN Len(replica') > Len(target) + (Len(replica) - Len(base))
            ELSE /\ Len(replica') = Len(target) + (Len(replica) - Len(base))
                 /\ replica = base => replica' = target
  BY <1>1, <1>2, <1>3, <1>6, QueueStep DEF narrowed
<1>8. replica' \in Seq(Items)
  BY <1>2, <1>7
<1>9. TypeOK'
  BY <1>1, <1>8 DEF IInv, TypeOK
<1>10. IF LeftBehind' THEN Len(replica') > Len(target) ELSE replica' = target
  <2>1. Len(replica') \in Nat
    BY <1>8
  <2>2. CASE delta.kind = "FullReplacement"
    BY <1>5, <1>7, <2>2
  <2>3. CASE delta.kind = "Fifo" /\ narrowed
    BY <1>5, <1>6, <1>7, <2>1, <2>3
  <2>4. CASE delta.kind = "Fifo" /\ ~narrowed /\ LeftBehind
    BY <1>4, <1>5, <1>6, <1>7, <2>1, <2>4
  <2>5. CASE delta.kind = "Fifo" /\ ~narrowed /\ ~LeftBehind
    BY <1>4, <1>5, <1>7, <2>5
  <2> QED BY <1>7, <2>2, <2>3, <2>4, <2>5
<1>11. checkpoints'[position'] = target
  BY <1>1 DEF target
<1>12. QueueRestoredUnlessNarrowed'
  BY <1>10, <1>11 DEF QueueRestoredUnlessNarrowed
<1> QED BY <1>1, <1>9, <1>12 DEF IInv, ArchiveComplete

\* Every reachable state satisfies the inductive invariant.
THEOREM Invariance == Spec => []IInv
<1>1. Init => IInv
  BY InitIInv
<1>2. IInv /\ [Next]_vars => IInv'
  <2> SUFFICES ASSUME IInv, [Next]_vars
               PROVE  IInv'
    OBVIOUS
  <2>1. CASE \E item \in Items : Enqueue(item)
    BY <2>1, EnqueueKeepsIInv
  <2>2. CASE \E n \in 1..Len(queue) :
               \/ Process(n, <<>>)
               \/ \E i \in 1..n : Process(n, <<queue[i]>>)
    <3>1. PICK n \in 1..Len(queue) : \/ Process(n, <<>>)
                                     \/ \E i \in 1..n : Process(n, <<queue[i]>>)
      BY <2>2
    <3>2. CASE Process(n, <<>>)
      <4>1. <<>> \in Seq(Items) /\ Len(<<>>) <= n
        BY DEF IInv, TypeOK
      <4> QED BY <3>2, <4>1, ProcessKeepsIInv
    <3>3. CASE \E i \in 1..n : Process(n, <<queue[i]>>)
      <4>1. PICK i \in 1..n : Process(n, <<queue[i]>>)
        BY <3>3
      <4>2. queue[i] \in Items
        BY DEF IInv, TypeOK
      <4>3. <<queue[i]>> \in Seq(Items) /\ Len(<<queue[i]>>) <= n
        BY <4>2 DEF IInv, TypeOK
      <4> QED BY <4>1, <4>3, ProcessKeepsIInv
    <3> QED BY <3>1, <3>2, <3>3
  <2>3. CASE Checkpoint
    BY <2>3, CheckpointKeepsIInv
  <2>4. CASE Restore
    BY <2>4, RestoreKeepsIInv
  <2>5. CASE UNCHANGED vars
    BY <2>5 DEF vars, IInv, TypeOK, ArchiveComplete, QueueRestoredUnlessNarrowed,
                LeftBehind, Narrowed
  <2> QED BY <2>1, <2>2, <2>3, <2>4, <2>5 DEF Next
<1> QED BY <1>1, <1>2, PTL DEF Spec

\* The reader holds the queue of the checkpoint it has reached, for every set
\* of items, duplicates included, unless a length was narrowed; then its queue
\* is too long until the next full replacement (diff_queue, apply_queue).
THEOREM QueueIsRestoredUnlessNarrowed == Spec => []QueueRestoredUnlessNarrowed
<1>1. IInv => QueueRestoredUnlessNarrowed
  BY DEF IInv
<1> QED BY <1>1, Invariance, PTL

\* Applied in order, no delta drains more items than the reader's queue has,
\* narrowed lengths included: the fallback of apply_queue that clears the
\* queue is never taken.
THEOREM QueueIsNeverOverdrained == Spec => []NeverOverdrained
<1>1. IInv => NeverOverdrained
  <2> SUFFICES ASSUME IInv, position < Len(checkpoints)
               PROVE  \/ archive[position].kind = "FullReplacement"
                      \/ archive[position].consumed_count <= Len(replica)
    BY DEF NeverOverdrained
  <2> DEFINE base == checkpoints[position]
             target == checkpoints[position + 1]
  <2>1. position \in 1..(Len(checkpoints) - 1)
    BY DEF IInv, TypeOK
  <2>2. /\ base \in Seq(Items) /\ Len(base) <= MaxLen /\ target \in Seq(Items)
        /\ archive[position] = DiffQueue(base, target)
    BY <2>1, ArchivedDelta
  <2>3. Len(replica) >= Len(base)
    <3>1. replica \in Seq(Items)
      BY DEF IInv, TypeOK
    <3>2. Len(replica) > Len(base) \/ replica = base
      BY DEF IInv, QueueRestoredUnlessNarrowed
    <3> QED BY <2>2, <3>1, <3>2
  <2> HIDE DEF base, target
  <2>4. Len(base) >= Len(base)
    BY <2>2
  <2>5. \/ archive[position].kind = "FullReplacement"
        \/ archive[position].consumed_count \in 0..Len(base)
    BY <2>2, <2>4, QueueStep
  <2> QED BY <2>2, <2>3, <2>5
<1> QED BY <1>1, Invariance, PTL

\* The longest queue in bytes fits 32 bits.
Fits == MaxLen * ItemSize < U32

\* Then no delta is narrowed.
LEMMA NothingIsNarrowed ==
  ASSUME Fits, IInv
  PROVE  QueueRestored /\ ~LeftBehind
<1>1. ASSUME NEW k \in 1..(position - 1)
      PROVE  ~Narrowed(k)
  <2>1. k \in 1..(Len(checkpoints) - 1)
    BY DEF IInv, TypeOK
  <2>2. checkpoints[k] \in Seq(Items) /\ Len(checkpoints[k]) <= MaxLen
    BY <2>1, ArchivedDelta
  <2> DEFINE n == Len(checkpoints[k])
  <2>3. n \in Nat /\ n <= MaxLen
    BY <2>2
  <2> HIDE DEF n
  <2>4. n * ItemSize <= MaxLen * ItemSize
    BY <2>3 DEF QueueAssumption
  <2>5. n * ItemSize \in Int /\ MaxLen * ItemSize \in Int
    BY <2>3 DEF QueueAssumption
  <2>6. ~(n * ItemSize >= U32)
    BY <2>4, <2>5 DEF Fits, QueueAssumption
  <2> QED BY <2>6 DEF Narrowed, n
<1>2. ~LeftBehind
  BY <1>1 DEF LeftBehind
<1> QED BY <1>2 DEF IInv, QueueRestoredUnlessNarrowed, QueueRestored

\* The reader then always holds the queue of the checkpoint it has reached.
THEOREM QueueIsRestored ==
  ASSUME Fits
  PROVE  Spec => []QueueRestored
<1>1. IInv => QueueRestored
  BY NothingIsNarrowed
<1> QED BY <1>1, Invariance, PTL

\* The first match is the overlap, when no item is queued twice and part of the
\* base is still in the target.
LEMMA OverlapIsFound ==
  ASSUME NEW base \in Seq(Items), NEW target \in Seq(Items),
         Len(base) <= MaxLen,
         NEW n \in 0..(Len(base) - 1), Overlaps(base, target, n), Distinct(base)
  PROVE  DiffQueue(base, target) = Fifo(n, Drop(target, Len(base) - n))
<1> DEFINE matches == Matches(base, Head(target))
<1>1. n \in 0..Len(base) /\ n \in Nat /\ Len(base) \in Nat /\ n < Len(base)
  OBVIOUS
<1>2. /\ Len(Drop(base, n)) = Len(base) - n
      /\ Len(base) - n \in 1..Len(target)
      /\ SubSeq(target, 1, Len(base) - n) = Drop(base, n)
  BY <1>1, DropFacts, SMTT(30) DEF Overlaps
<1>3. target # <<>> /\ base # <<>>
  BY <1>1, <1>2
<1>4. Head(target) = base[n + 1]
  <2>1. SubSeq(target, 1, Len(base) - n)[1] = target[1]
    BY <1>2
  <2>2. Drop(base, n)[1] = base[n + 1]
    BY <1>1 DEF Drop
  <2> QED BY <1>2, <1>3, <2>1, <2>2
<1>5. matches = {n}
  <2>1. n \in matches
    BY <1>1, <1>4 DEF Matches
  <2>2. ASSUME NEW i \in matches
        PROVE  i = n
    <3>1. i \in 0..(Len(base) - 1) /\ base[i + 1] = base[n + 1]
      BY <1>4 DEF Matches
    <3>2. i + 1 \in 1..Len(base) /\ n + 1 \in 1..Len(base)
      BY <1>1, <3>1
    <3>3. i + 1 = n + 1
      BY <3>1, <3>2 DEF Distinct
    <3> QED BY <1>1, <3>1, <3>3
  <2> QED BY <2>1, <2>2
<1>6. Min(matches) = n
  BY <1>1, <1>5, LeastExists
<1>7. n % U32 = n
  BY <1>1 DEF QueueAssumption
<1>8. matches # {}
  BY <1>5
<1> HIDE DEF matches
<1> QED BY <1>3, <1>6, <1>7, <1>8 DEF DiffQueue, matches

\* If no item is queued twice, a step that only consumes and appends is stored
\* as such, with the very numbers of the step.
THEOREM PureFifoIsFound == Spec => []PureFifoIsCompact
<1>1. ASSUME IInv, NEW k \in 1..Len(archive), NEW n \in 0..(Len(checkpoints[k]) - 1),
             Overlaps(checkpoints[k], checkpoints[k + 1], n), Distinct(checkpoints[k])
      PROVE  archive[k]
               = Fifo(n, Drop(checkpoints[k + 1], Len(checkpoints[k]) - n))
  <2>1. k \in 1..(Len(checkpoints) - 1)
    BY <1>1 DEF IInv, TypeOK, ArchiveComplete
  <2>2. /\ archive[k] = DiffQueue(checkpoints[k], checkpoints[k + 1])
        /\ checkpoints[k] \in Seq(Items) /\ checkpoints[k + 1] \in Seq(Items)
        /\ Len(checkpoints[k]) <= MaxLen
    BY <1>1, <2>1, ArchivedDelta
  <2> QED BY <1>1, <2>2, OverlapIsFound
<1>2. IInv => PureFifoIsCompact
  BY <1>1 DEF PureFifoIsCompact
<1> QED BY <1>2, Invariance, PTL

\* The queue, its deltas and the reader implement the archive of
\* DeltaArchive: every step of the machine is a step of the archive or
\* changes nothing it sees, and the reader visits the checkpointed queues in
\* order.
THEOREM QueueImplementsArchive ==
  ASSUME Fits
  PROVE  Spec => ImplementsArchive
<1>1. Init => Promise!Init
  BY DEF Init, Promise!Init
<1>2. IInv /\ QueueRestored' /\ [Next]_vars => [Promise!Next]_(Promise!vars)
  <2> SUFFICES ASSUME IInv, QueueRestored', [Next]_vars
               PROVE  [Promise!Next]_(Promise!vars)
    OBVIOUS
  <2>1. CASE UNCHANGED <<checkpoints, archive, position, replica>>
    BY <2>1 DEF Promise!Next, Promise!Advance
  <2>2. CASE Checkpoint
    BY <2>2 DEF Checkpoint, Promise!Next, Promise!Checkpoint
  <2>3. CASE Restore
    <3>1. position \in 1..(Len(checkpoints) - 1)
      BY <2>3 DEF IInv, TypeOK, Restore
    <3>2. replica' = checkpoints[position + 1]
      BY <2>3 DEF Restore, QueueRestored
    <3> QED BY <2>3, <3>2 DEF Restore, Promise!Next, Promise!Restore
  <2>4. CASE UNCHANGED vars
    BY <2>1, <2>4 DEF vars
  <2> QED BY <2>1, <2>2, <2>3, <2>4 DEF Next, Enqueue, Process
<1> QED BY <1>1, <1>2, Invariance, QueueIsRestored, PTL
        DEF Spec, ImplementsArchive, Promise!Spec
=============================================================================
