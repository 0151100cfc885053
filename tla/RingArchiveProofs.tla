------------------------- MODULE RingArchiveProofs --------------------------
(***************************************************************************)
(* The reader of RingArchive holds the checkpointed rings, for every       *)
(* capacity, epoch length, set of roots and mixes and number of            *)
(* checkpoints.                                                            *)
(***************************************************************************)
EXTENDS RingArchive, RecursionProofs, SequenceTheorems

-----------------------------------------------------------------------------
(* The ring deltas, for every capacity and every window.                   *)

\* A ring with the entries of first..last taken from another.
Overwritten(base, target, capacity, first, last) ==
  [j \in 0..(capacity - 1) |->
     IF \E p \in first..last : p % capacity = j THEN target[j] ELSE base[j]]

\* Whatever the ring held before: the entries of the window are written with
\* the values read, the others stay.
LEMMA WriteInWindow ==
  ASSUME NEW capacity \in Nat \ {0}, NEW first \in Nat, NEW n \in Nat,
         NEW base, DOMAIN base = 0..(capacity - 1), NEW target
  PROVE  WriteRing(base, capacity, first,
                   ReadRing(target, capacity, first, n))
           = Overwritten(base, target, capacity, first, first + n - 1)
<1> DEFINE values == ReadRing(target, capacity, first, n)
           hits(j) == Writes(values, capacity, first, j)
<1>1. DOMAIN values = 0..(n - 1)
  BY DEF ReadRing
<1>2. ASSUME NEW j \in 0..(capacity - 1)
      PROVE  WriteRing(base, capacity, first, values)[j]
               = IF \E p \in first..(first + n - 1) : p % capacity = j
                 THEN target[j] ELSE base[j]
  <2>1. hits(j) \subseteq 0..(n - 1)
    BY <1>1 DEF Writes
  <2>2. CASE hits(j) = {}
    <3>1. ASSUME NEW p \in first..(first + n - 1), p % capacity = j
          PROVE  FALSE
      <4>1. p - first \in 0..(n - 1) /\ first + (p - first) = p
        OBVIOUS
      <4>2. p - first \in hits(j)
        BY <4>1, <1>1, <3>1 DEF Writes
      <4> QED BY <4>2, <2>2
    <3> QED BY <2>2, <3>1 DEF WriteRing
  <2>3. CASE hits(j) # {}
    <3>1. Max(hits(j)) \in hits(j)
      BY <2>1, <2>3, GreatestExists
    <3>2. /\ Max(hits(j)) \in 0..(n - 1)
          /\ (first + Max(hits(j))) % capacity = j
      BY <3>1, <1>1 DEF Writes
    <3>3. values[Max(hits(j))] = target[j]
      BY <3>2 DEF ReadRing
    <3>4. first + Max(hits(j)) \in first..(first + n - 1)
      BY <3>2
    <3> QED BY <2>3, <3>2, <3>3, <3>4 DEF WriteRing
  <2> QED BY <2>2, <2>3
<1>3. WriteRing(base, capacity, first, values)
        = [j \in 0..(capacity - 1) |->
             WriteRing(base, capacity, first, values)[j]]
  BY DEF WriteRing
<1> HIDE DEF values
<1>4. WriteRing(base, capacity, first, values)
        = [j \in 0..(capacity - 1) |->
             IF \E p \in first..(first + n - 1) : p % capacity = j
             THEN target[j] ELSE base[j]]
  BY <1>2, <1>3
<1> QED BY <1>4 DEF values, Overwritten

\* Writing a window that was read from the target ring onto the base ring
\* gives the target ring, if the two differ only at entries of the window:
\* an entry written twice (a window longer than the ring) is written with
\* the same value (diff_roots/apply_roots, diff_randao/apply_randao).
LEMMA WriteOfRead ==
  ASSUME NEW capacity \in Nat \ {0}, NEW first \in Nat, NEW n \in Nat, NEW V,
         NEW base \in [0..(capacity - 1) -> V],
         NEW target \in [0..(capacity - 1) -> V],
         AgreeOutside(base, target, capacity, first, first + n - 1)
  PROVE  WriteRing(base, capacity, first,
                   ReadRing(target, capacity, first, n)) = target
<1>1. WriteRing(base, capacity, first, ReadRing(target, capacity, first, n))
        = Overwritten(base, target, capacity, first, first + n - 1)
  <2>1. capacity \in Nat \ {0} /\ first \in Nat /\ n \in Nat
    OBVIOUS
  <2>2. DOMAIN base = 0..(capacity - 1)
    OBVIOUS
  <2> QED BY <2>1, <2>2, WriteInWindow
<1>2. \A j \in 0..(capacity - 1) :
        (\A p \in first..(first + n - 1) : p % capacity # j)
          => target[j] = base[j]
  BY DEF AgreeOutside
<1>3. target = [j \in 0..(capacity - 1) |-> target[j]]
  OBVIOUS
<1> QED BY <1>1, <1>2, <1>3 DEF Overwritten

-----------------------------------------------------------------------------
(* The archive.                                                            *)

USE RingAssumption, ArchiveAssumption

\* Epochs are naturals, grow with the slot, and the slot after the end of an
\* epoch belongs to the next epoch.
LEMMA EpochFacts ==
  ASSUME NEW s \in Nat, NEW t \in Nat, s <= t
  PROVE  /\ Epoch(s) \in Nat /\ Epoch(t) \in Nat
         /\ Epoch(s) <= Epoch(t)
         /\ Epoch(t + 1) \in {Epoch(t), Epoch(t) + 1}
BY DEF Epoch

\* diff_roots followed by apply_roots turns the base ring into the target
\* ring if the two differ only at slots of the window.
LEMMA RootsRoundTrip ==
  ASSUME NEW base \in States, NEW target \in States, Follows(base, target)
  PROVE  ApplyRoots(base.slot, base.roots,
                    DiffRoots(base.slot, target.slot, target.roots))
           = target.roots
<1> DEFINE n == target.slot - base.slot
<1>1. base.slot \in Nat /\ n \in Nat /\ base.slot + n - 1 = target.slot - 1
  BY SMTT(30) DEF States, Follows
<1>2. /\ base.roots \in [0..(RootsLen - 1) -> Roots \cup {ZeroRoot}]
      /\ target.roots \in [0..(RootsLen - 1) -> Roots \cup {ZeroRoot}]
  BY DEF States
<1>3. AgreeOutside(base.roots, target.roots, RootsLen,
                   base.slot, base.slot + n - 1)
  BY <1>1 DEF Follows
<1>4. RootsLen \in Nat \ {0}
  OBVIOUS
<1> HIDE DEF n
<1>5. WriteRing(base.roots, RootsLen, base.slot,
                ReadRing(target.roots, RootsLen, base.slot, n)) = target.roots
  BY <1>1, <1>2, <1>3, <1>4, WriteOfRead, Zenon
<1> QED BY <1>5 DEF ApplyRoots, DiffRoots, n

\* The same for diff_randao and apply_randao and the epochs of the window.
LEMMA MixesRoundTrip ==
  ASSUME NEW base \in States, NEW target \in States, Follows(base, target)
  PROVE  ApplyRandao(base.slot, base.mixes,
                     DiffRandao(base.slot, target.slot, target.mixes))
           = target.mixes
<1> DEFINE first == Epoch(base.slot)
           n == Epoch(target.slot) - Epoch(base.slot) + 1
<1>1. base.slot \in Nat /\ target.slot \in Nat /\ base.slot <= target.slot
  BY DEF States, Follows
<1>2. first \in Nat /\ n \in Nat /\ first + n - 1 = Epoch(target.slot)
  BY <1>1, EpochFacts
<1>3. /\ base.mixes \in [0..(MixesLen - 1) -> Mixes]
      /\ target.mixes \in [0..(MixesLen - 1) -> Mixes]
  BY DEF States
<1>4. AgreeOutside(base.mixes, target.mixes, MixesLen,
                   first, first + n - 1)
  BY <1>2 DEF Follows
<1>5. MixesLen \in Nat \ {0}
  OBVIOUS
<1> HIDE DEF n, first
<1>6. WriteRing(base.mixes, MixesLen, first,
                ReadRing(target.mixes, MixesLen, first, n)) = target.mixes
  BY <1>2, <1>3, <1>4, <1>5, WriteOfRead, Zenon
<1> QED BY <1>6 DEF ApplyRandao, DiffRandao, n, first

-----------------------------------------------------------------------------
(* What the client does between two calls of the library.                  *)

\* Two rings that agree outside a window still do when the window grows to
\* include next and one of them changes only at the entry of next.
LEMMA AgreeAfterWrite ==
  ASSUME NEW capacity \in Nat \ {0}, NEW first \in Nat,
         NEW last \in Int, NEW next \in Nat, first <= next, last <= next,
         NEW base, NEW before, NEW after,
         AgreeOutside(base, before, capacity, first, last),
         \A j \in 0..(capacity - 1) :
           after[j] # before[j] => j = next % capacity
  PROVE  AgreeOutside(base, after, capacity, first, next)
<1> SUFFICES ASSUME NEW j \in 0..(capacity - 1),
                    \A p \in first..next : p % capacity # j
             PROVE  after[j] = base[j]
  BY DEF AgreeOutside
<1>1. after[j] = before[j]
  OBVIOUS
<1>2. \A p \in first..last : p % capacity # j
  OBVIOUS
<1> QED BY <1>1, <1>2 DEF AgreeOutside

\* Each step of the client keeps the live state a state and keeps it within
\* the window that starts at any state it followed before.
LEMMA ClientStep ==
  ASSUME NEW base \in States, live \in States, Follows(base, live),
         \/ \E root \in Roots : ProcessSlot(root)
         \/ \E mix \in Mixes : ProcessBlock(mix)
         \/ Slash
  PROVE  live' \in States /\ Follows(base, live')
<1> DEFINE s == live.slot
           b == base.slot
<1>1. /\ s \in Nat /\ b \in Nat /\ b <= s
      /\ RootsLen \in Nat \ {0} /\ MixesLen \in Nat \ {0}
      /\ SlashingsLen \in Nat \ {0}
  BY DEF States, Follows
<1>2. /\ Epoch(b) \in Nat /\ Epoch(s) \in Nat /\ Epoch(b) <= Epoch(s)
      /\ Epoch(s + 1) \in {Epoch(s), Epoch(s) + 1}
  BY <1>1, EpochFacts
<1>3. /\ base.roots \in [0..(RootsLen - 1) -> Roots \cup {ZeroRoot}]
      /\ live.roots \in [0..(RootsLen - 1) -> Roots \cup {ZeroRoot}]
      /\ base.mixes \in [0..(MixesLen - 1) -> Mixes]
      /\ live.mixes \in [0..(MixesLen - 1) -> Mixes]
      /\ base.slashings \in [0..(SlashingsLen - 1) -> Nat]
      /\ live.slashings \in [0..(SlashingsLen - 1) -> Nat]
  BY DEF States
<1>4. /\ AgreeOutside(base.roots, live.roots, RootsLen, b, s - 1)
      /\ AgreeOutside(base.mixes, live.mixes, MixesLen, Epoch(b), Epoch(s))
      /\ AgreeOutside(base.slashings, live.slashings, SlashingsLen,
                      Epoch(b), Epoch(s))
  BY DEF Follows
<1>5. /\ s % RootsLen \in 0..(RootsLen - 1)
      /\ Epoch(s) % MixesLen \in 0..(MixesLen - 1)
      /\ (Epoch(s) + 1) % MixesLen \in 0..(MixesLen - 1)
      /\ Epoch(s) % SlashingsLen \in 0..(SlashingsLen - 1)
  BY <1>1, <1>2
<1>6. ASSUME NEW root \in Roots, ProcessSlot(root)
      PROVE  live' \in States /\ Follows(base, live')
  <2>1. /\ live'.slot = s + 1
        /\ live'.roots = [live.roots EXCEPT ![s % RootsLen] = root]
        /\ live'.mixes =
             IF Epoch(s + 1) # Epoch(s)
             THEN [live.mixes EXCEPT ![(Epoch(s) + 1) % MixesLen] =
                                       live.mixes[Epoch(s) % MixesLen]]
             ELSE live.mixes
        /\ live'.slashings =
             IF Epoch(s + 1) # Epoch(s)
             THEN [live.slashings EXCEPT ![(Epoch(s) + 1) % SlashingsLen] = 0]
             ELSE live.slashings
    BY <1>6 DEF ProcessSlot
  <2>2. live' \in States
    <3>1. live'.slot \in Nat
      BY <1>1, <2>1
    <3>2. live'.roots \in [0..(RootsLen - 1) -> Roots \cup {ZeroRoot}]
      BY <1>3, <1>6, <2>1
    <3>3. live'.mixes \in [0..(MixesLen - 1) -> Mixes]
      <4>1. live.mixes[Epoch(s) % MixesLen] \in Mixes
        BY <1>3, <1>5
      <4>2. [live.mixes EXCEPT ![(Epoch(s) + 1) % MixesLen] =
                                 live.mixes[Epoch(s) % MixesLen]]
              \in [0..(MixesLen - 1) -> Mixes]
        BY <1>3, <4>1
      <4> QED BY <1>3, <2>1, <4>2
    <3>4. live'.slashings \in [0..(SlashingsLen - 1) -> Nat]
      <4>1. [live.slashings EXCEPT ![(Epoch(s) + 1) % SlashingsLen] = 0]
              \in [0..(SlashingsLen - 1) -> Nat]
        BY <1>3
      <4> QED BY <1>3, <2>1, <4>1
    <3> QED BY <1>6, <3>1, <3>2, <3>3, <3>4 DEF ProcessSlot, States
  <2>3. AgreeOutside(base.roots, live'.roots, RootsLen, b, s)
    <3>1. \A j \in 0..(RootsLen - 1) :
            live'.roots[j] # live.roots[j] => j = s % RootsLen
      BY <1>3, <2>1
    <3>2. s - 1 \in Int /\ s - 1 <= s /\ b <= s
      BY <1>1
    <3> HIDE DEF s, b
    <3> QED BY <1>1, <1>4, <3>1, <3>2, AgreeAfterWrite, Zenon
  <2>4. /\ Epoch(s) \in Int /\ Epoch(s + 1) \in Nat /\ Epoch(b) \in Nat
        /\ Epoch(b) <= Epoch(s + 1) /\ Epoch(s) <= Epoch(s + 1)
    BY <1>2
  <2>5. AgreeOutside(base.mixes, live'.mixes, MixesLen,
                     Epoch(b), Epoch(s + 1))
    <3>1. \A j \in 0..(MixesLen - 1) :
            live'.mixes[j] # live.mixes[j] =>
              j = Epoch(s + 1) % MixesLen
      BY <1>2, <1>3, <2>1
    <3> HIDE DEF s, b
    <3> QED BY <1>1, <1>4, <2>4, <3>1, AgreeAfterWrite, Zenon
  <2>6. AgreeOutside(base.slashings, live'.slashings, SlashingsLen,
                     Epoch(b), Epoch(s + 1))
    <3>1. \A j \in 0..(SlashingsLen - 1) :
            live'.slashings[j] # live.slashings[j] =>
              j = Epoch(s + 1) % SlashingsLen
      BY <1>2, <1>3, <2>1
    <3> HIDE DEF s, b
    <3> QED BY <1>1, <1>4, <2>4, <3>1, AgreeAfterWrite, Zenon
  <2> QED BY <1>1, <2>1, <2>2, <2>3, <2>5, <2>6 DEF Follows
<1>7. ASSUME NEW mix \in Mixes, ProcessBlock(mix)
      PROVE  live' \in States /\ Follows(base, live')
  <2>1. /\ live' = [live EXCEPT
                      !.mixes = [live.mixes EXCEPT
                                   ![Epoch(s) % MixesLen] = mix]]
        /\ live' \in States
    BY <1>3, <1>7 DEF ProcessBlock, States
  <2>2. /\ live'.slot = s /\ live'.roots = live.roots
        /\ live'.slashings = live.slashings
        /\ live'.mixes = [live.mixes EXCEPT ![Epoch(s) % MixesLen] = mix]
    BY <2>1 DEF States
  <2>3. AgreeOutside(base.mixes, live'.mixes, MixesLen, Epoch(b), Epoch(s))
    <3>1. \A j \in 0..(MixesLen - 1) :
            live'.mixes[j] # live.mixes[j] => j = Epoch(s) % MixesLen
      BY <1>3, <2>2
    <3>2. Epoch(s) \in Int /\ Epoch(s) <= Epoch(s)
      BY <1>2
    <3> HIDE DEF s, b
    <3> QED BY <1>1, <1>2, <1>4, <3>1, <3>2, AgreeAfterWrite, Zenon
  <2> QED BY <1>1, <1>4, <2>1, <2>2, <2>3 DEF Follows
<1>8. ASSUME Slash
      PROVE  live' \in States /\ Follows(base, live')
  <2>1. /\ live' = [live EXCEPT
                      !.slashings = [live.slashings EXCEPT
                                       ![Epoch(s) % SlashingsLen] = @ + 1]]
        /\ live' \in States
    <3>1. [live.slashings EXCEPT ![Epoch(s) % SlashingsLen] = @ + 1]
            \in [0..(SlashingsLen - 1) -> Nat]
      <4>1. live.slashings[Epoch(s) % SlashingsLen] \in Nat
        <5> DEFINE i == Epoch(s) % SlashingsLen
        <5>1. i \in 0..(SlashingsLen - 1)
          BY <1>5
        <5> HIDE DEF i
        <5>2. live.slashings[i] \in Nat
          BY <1>3, <5>1
        <5> QED BY <5>2 DEF i
      <4> DEFINE sum == live.slashings[Epoch(s) % SlashingsLen] + 1
      <4>2. sum \in Nat
        BY <4>1
      <4> HIDE DEF sum
      <4>3. [live.slashings EXCEPT ![Epoch(s) % SlashingsLen] = sum]
              \in [0..(SlashingsLen - 1) -> Nat]
        BY <1>3, <4>2
      <4> QED BY <4>3 DEF sum
    <3> QED BY <1>8, <3>1 DEF Slash, States
  <2>2. /\ live'.slot = s /\ live'.roots = live.roots
        /\ live'.mixes = live.mixes
        /\ live'.slashings = [live.slashings EXCEPT
                                ![Epoch(s) % SlashingsLen] = @ + 1]
    BY <2>1 DEF States
  <2>3. AgreeOutside(base.slashings, live'.slashings, SlashingsLen,
                     Epoch(b), Epoch(s))
    <3>1. \A j \in 0..(SlashingsLen - 1) :
            live'.slashings[j] # live.slashings[j] =>
              j = Epoch(s) % SlashingsLen
      BY <1>3, <2>2
    <3>2. Epoch(s) \in Int /\ Epoch(s) <= Epoch(s)
      BY <1>2
    <3> HIDE DEF s, b
    <3> QED BY <1>1, <1>2, <1>4, <3>1, <3>2, AgreeAfterWrite, Zenon
  <2> QED BY <1>1, <1>4, <2>1, <2>2, <2>3 DEF Follows
<1> QED BY <1>6, <1>7, <1>8

-----------------------------------------------------------------------------
(* The slashing ring.                                                      *)

\* Every update of diff_slashings carries the target's value of its index.
LEMMA UpdatesAreExact ==
  ASSUME NEW base \in States, NEW target \in States,
         base.slot <= target.slot, NEW j \in 0..(SlashingsLen - 1)
  PROVE  LET updates ==
               Updates(DiffSlashings(base.slot, target.slot,
                                     base.slashings, target.slashings), j)
         IN  updates # {} => LastUpdate(updates)[3] = target.slashings[j]
<1> DEFINE updates ==
             Updates(DiffSlashings(base.slot, target.slot,
                                   base.slashings, target.slashings), j)
<1> SUFFICES ASSUME updates # {}
             PROVE  LastUpdate(updates)[3] = target.slashings[j]
  OBVIOUS
<1> DEFINE last == Epoch(target.slot)
           epochs == {u[1] : u \in updates}
<1>1. base.slot \in Nat /\ target.slot \in Nat
  BY DEF States
<1>2. Epoch(base.slot) \in Nat /\ last \in Nat
  BY <1>1, EpochFacts
<1>3. \A u \in updates :
        /\ u[1] \in 0..last
        /\ u[3] = target.slashings[j]
  <2>1. ASSUME NEW e \in (Epoch(base.slot) + 1)..last,
               (e % SlashingsLen) % U16 = j
        PROVE  e % SlashingsLen = j
    <3>1. e % SlashingsLen \in 0..(SlashingsLen - 1)
      BY <1>2
    <3>2. (e % SlashingsLen) % U16 = e % SlashingsLen
      BY <3>1
    <3> QED BY <2>1, <3>2
  <2>2. ASSUME NEW u \in updates
        PROVE  u[1] \in 0..last /\ u[3] = target.slashings[j]
    <3>1. PICK e \in (Epoch(base.slot) + 1)..last :
            u = <<e, (e % SlashingsLen) % U16,
                  target.slashings[e % SlashingsLen]>>
      BY DEF Updates, DiffSlashings
    <3>2. u[1] = e /\ (e % SlashingsLen) % U16 = j
      BY <3>1 DEF Updates
    <3>3. e % SlashingsLen = j
      BY <2>1, <3>2
    <3> QED BY <1>2, <3>1, <3>2, <3>3
  <2> QED BY <2>2
<1>4. epochs \subseteq 0..((last + 1) - 1) /\ epochs # {} /\ last + 1 \in Nat
  BY <1>2, <1>3
<1>5. Max(epochs) \in epochs /\ \A k \in epochs : k <= Max(epochs)
  BY <1>4, GreatestExists
<1>6. PICK u \in updates : \A w \in updates : w[1] <= u[1]
  BY <1>5
<1>7. LastUpdate(updates) \in updates
  BY <1>6 DEF LastUpdate
<1> QED BY <1>3, <1>7

\* Applying a slashing delta makes every entry exact, but for the entry of
\* the base epoch and for entries that were not those of the base.
LEMMA SlashingsStep ==
  ASSUME NEW base \in States, NEW target \in States, NEW state \in States,
         Follows(base, target), NEW after,
         after = ApplySlashings(state.slashings,
                   DiffSlashings(base.slot, target.slot,
                                 base.slashings, target.slashings))
  PROVE  /\ after \in [0..(SlashingsLen - 1) -> Nat]
         /\ \A j \in 0..(SlashingsLen - 1) :
              after[j] # target.slashings[j] =>
                \/ j = Epoch(base.slot) % SlashingsLen
                \/ state.slashings[j] # base.slashings[j]
<1> DEFINE delta == DiffSlashings(base.slot, target.slot,
                                  base.slashings, target.slashings)
           first == Epoch(base.slot)
           last == Epoch(target.slot)
<1>1. base.slot \in Nat /\ target.slot \in Nat /\ base.slot <= target.slot
  BY DEF States, Follows
<1>2. first \in Nat /\ last \in Nat /\ first <= last
  BY <1>1, EpochFacts
<1>3. /\ state.slashings \in [0..(SlashingsLen - 1) -> Nat]
      /\ target.slashings \in [0..(SlashingsLen - 1) -> Nat]
  BY DEF States
<1>4. ASSUME NEW j \in 0..(SlashingsLen - 1)
      PROVE  after[j] = IF Updates(delta, j) = {} THEN state.slashings[j]
                        ELSE target.slashings[j]
  <2>1. j \in DOMAIN state.slashings
    BY <1>3
  <2>2. after[j] = IF Updates(delta, j) = {} THEN state.slashings[j]
                   ELSE LastUpdate(Updates(delta, j))[3]
    BY <2>1 DEF ApplySlashings
  <2>3. Updates(delta, j) # {} =>
          LastUpdate(Updates(delta, j))[3] = target.slashings[j]
    BY <1>1, UpdatesAreExact
  <2> QED BY <2>2, <2>3
<1>5. ASSUME NEW j \in 0..(SlashingsLen - 1),
             Updates(delta, j) = {},
             j # first % SlashingsLen
      PROVE  target.slashings[j] = base.slashings[j]
  <2>1. CASE \E e \in (first + 1)..last : e % SlashingsLen = j
    <3>1. PICK e \in (first + 1)..last : e % SlashingsLen = j
      BY <2>1
    <3>2. (e % SlashingsLen) % U16 = j
      BY <3>1
    <3>3. ASSUME base.slashings[j] # target.slashings[j]
          PROVE  FALSE
      <4> DEFINE u == <<e, (e % SlashingsLen) % U16,
                        target.slashings[e % SlashingsLen]>>
      <4>1. u \in delta
        BY <3>1, <3>3 DEF DiffSlashings
      <4>2. u[2] = j
        BY <3>2
      <4> QED BY <1>5, <4>1, <4>2 DEF Updates
    <3> QED BY <3>3
  <2>2. CASE ~ \E e \in (first + 1)..last : e % SlashingsLen = j
    <3>1. \A e \in first..last : e % SlashingsLen # j
      BY <1>2, <1>5, <2>2
    <3> QED BY <3>1 DEF Follows, AgreeOutside
  <2> QED BY <2>1, <2>2
<1>6. after \in [0..(SlashingsLen - 1) -> Nat]
  <2>1. after = [j \in 0..(SlashingsLen - 1) |-> after[j]]
    BY <1>3 DEF ApplySlashings
  <2>2. \A j \in 0..(SlashingsLen - 1) : after[j] \in Nat
    BY <1>3, <1>4
  <2> QED BY <2>1, <2>2
<1>7. ASSUME NEW j \in 0..(SlashingsLen - 1),
             after[j] # target.slashings[j],
             j # first % SlashingsLen
      PROVE  state.slashings[j] # base.slashings[j]
  BY <1>4, <1>5, <1>7
<1> QED BY <1>6, <1>7

-----------------------------------------------------------------------------
(* The reader and the archive.                                             *)

\* One apply turns a replica that matches the base into one that matches
\* the target, as far as its slashing entries allow.
LEMMA ApplyOfCreate ==
  ASSUME NEW base \in States, NEW target \in States, NEW state \in States,
         Follows(base, target), state.slot = base.slot,
         state.roots = base.roots, state.mixes = base.mixes
  PROVE  LET after == Apply(state, Create(base, target)) IN
         /\ after \in States
         /\ after.slot = target.slot
         /\ after.roots = target.roots
         /\ after.mixes = target.mixes
         /\ \A j \in 0..(SlashingsLen - 1) :
              after.slashings[j] # target.slashings[j] =>
                \/ j = Epoch(base.slot) % SlashingsLen
                \/ state.slashings[j] # base.slashings[j]
<1> DEFINE after == Apply(state, Create(base, target))
           slashings ==
      ApplySlashings(state.slashings,
        DiffSlashings(base.slot, target.slot,
                      base.slashings, target.slashings))
<1>1. after = [slot |-> target.slot, roots |-> target.roots,
               mixes |-> target.mixes, slashings |-> slashings]
  BY RootsRoundTrip, MixesRoundTrip DEF Apply, Create
<1>2. /\ slashings \in [0..(SlashingsLen - 1) -> Nat]
      /\ \A j \in 0..(SlashingsLen - 1) :
           slashings[j] # target.slashings[j] =>
             \/ j = Epoch(base.slot) % SlashingsLen
             \/ state.slashings[j] # base.slashings[j]
  BY SlashingsStep
<1> HIDE DEF slashings
<1>3. after \in States
  BY <1>1, <1>2 DEF States
<1> QED BY <1>1, <1>2, <1>3

\* A state follows itself: nothing has changed, and the window is empty or
\* holds the current epoch alone.
LEMMA FollowsReflexive ==
  ASSUME NEW state \in States
  PROVE  Follows(state, state)
BY DEF Follows, AgreeOutside, States

LEMMA InitIInv == Init => IInv
<1> SUFFICES ASSUME Init PROVE IInv
  OBVIOUS
<1>1. live \in States
  BY DEF Init, Genesis, States
<1>2. checkpoints = <<live>> /\ archive = <<>> /\ position = 1 /\ replica = live
  BY DEF Init
<1>3. TypeOK
  BY <1>1, <1>2 DEF TypeOK
<1>4. CheckpointsFollow
  BY <1>1, <1>2, FollowsReflexive DEF CheckpointsFollow
<1>5. ArchiveComplete
  BY <1>2 DEF ArchiveComplete
<1>6. SlotRestored /\ RootsRestored /\ MixesRestored /\ SlashingsConfined
  BY <1>2 DEF SlotRestored, RootsRestored, MixesRestored, SlashingsConfined
<1> QED BY <1>3, <1>4, <1>5, <1>6 DEF IInv

\* A step of the client leaves the archive and the reader alone.
LEMMA ClientKeepsIInv ==
  ASSUME IInv,
         \/ \E root \in Roots : ProcessSlot(root)
         \/ \E mix \in Mixes : ProcessBlock(mix)
         \/ Slash
  PROVE  IInv'
<1>1. UNCHANGED <<checkpoints, archive, position, replica>>
  BY DEF ProcessSlot, ProcessBlock, Slash
<1> DEFINE last == checkpoints[Len(checkpoints)]
<1>2. live \in States /\ last \in States /\ Follows(last, live)
  BY DEF IInv, TypeOK, CheckpointsFollow
<1>3. live' \in States /\ Follows(last, live')
  BY <1>2, ClientStep
<1>4. TypeOK'
  BY <1>1, <1>3 DEF IInv, TypeOK
<1>5. CheckpointsFollow'
  BY <1>1, <1>3 DEF IInv, CheckpointsFollow
<1>6. ArchiveComplete'
  BY <1>1 DEF IInv, ArchiveComplete
<1>7. (SlotRestored /\ RootsRestored /\ MixesRestored /\ SlashingsConfined)'
  BY <1>1 DEF IInv, SlotRestored, RootsRestored, MixesRestored,
              SlashingsConfined
<1> QED BY <1>4, <1>5, <1>6, <1>7 DEF IInv

\* A checkpoint extends the archive by the delta that ends in it.
LEMMA CheckpointKeepsIInv ==
  ASSUME IInv, Checkpoint
  PROVE  IInv'
<1> DEFINE n == Len(checkpoints)
           Deltas == {Create(b, t) : b \in States, t \in States}
<1>1. /\ live \in States /\ checkpoints \in Seq(States)
      /\ position \in 1..n /\ replica \in States
      /\ n \in Nat \ {0}
      /\ \A k \in 1..n : checkpoints[k] \in States
  BY DEF IInv, TypeOK
<1>2. archive \in Seq(Deltas) /\ Len(archive) = n - 1
  <2>1. archive = [k \in 1..(n - 1) |->
                     Create(checkpoints[k], checkpoints[k + 1])]
    BY DEF IInv, ArchiveComplete
  <2>2. \A k \in 1..(n - 1) :
          Create(checkpoints[k], checkpoints[k + 1]) \in Deltas
    <3>1. \A k \in 1..(n - 1) : checkpoints[k] \in States
                            /\ checkpoints[k + 1] \in States
      BY <1>1
    <3> QED BY <3>1
  <2> HIDE DEF Deltas
  <2> QED BY <1>1, <2>1, <2>2
<1>3. /\ checkpoints' = Append(checkpoints, live)
      /\ archive' = Append(archive, Create(checkpoints[n], live))
      /\ UNCHANGED <<live, position, replica>>
  BY DEF Checkpoint
<1>4. /\ checkpoints' \in Seq(States) /\ Len(checkpoints') = n + 1
      /\ \A k \in 1..n : checkpoints'[k] = checkpoints[k]
      /\ checkpoints'[n + 1] = live
  BY <1>1, <1>3
<1>5. TypeOK'
  BY <1>1, <1>3, <1>4 DEF TypeOK
<1>6. CheckpointsFollow'
  <2>1. \A k \in 1..n : Follows(checkpoints'[k], checkpoints'[k + 1])
    BY <1>1, <1>4 DEF IInv, CheckpointsFollow
  <2>2. Follows(checkpoints'[n + 1], live')
    BY <1>1, <1>3, <1>4, FollowsReflexive
  <2> QED BY <1>1, <1>4, <2>1, <2>2 DEF CheckpointsFollow
<1>7. ArchiveComplete'
  <2>1. \A k \in 1..(n - 1) :
          archive[k] = Create(checkpoints[k], checkpoints[k + 1])
    BY <1>1 DEF IInv, ArchiveComplete
  <2>2. /\ archive' = [k \in 1..n |-> archive'[k]]
        /\ \A k \in 1..(n - 1) : archive'[k] = archive[k]
        /\ archive'[n] = Create(checkpoints[n], live)
    <3> HIDE DEF Deltas
    <3> DEFINE new == Create(checkpoints[n], live)
    <3>1. new \in Deltas
      BY <1>1 DEF Deltas
    <3> HIDE DEF new
    <3>2. /\ archive' \in Seq(Deltas) /\ Len(archive') = n
          /\ \A k \in 1..(n - 1) : archive'[k] = archive[k]
          /\ archive'[n] = new
      <4>1. archive' = Append(archive, new)
        BY <1>3 DEF new
      <4>2. Len(archive) + 1 = n
        BY <1>1, <1>2
      <4> QED BY <1>2, <3>1, <4>1, <4>2, AppendProperties
    <3>3. archive' = [k \in 1..n |-> archive'[k]]
      BY <1>1, <3>2
    <3> QED BY <3>2, <3>3 DEF new
  <2>3. ASSUME NEW k \in 1..n
        PROVE  archive'[k] = Create(checkpoints'[k], checkpoints'[k + 1])
    <3>1. CASE k = n
      BY <1>1, <1>4, <2>2, <3>1
    <3>2. CASE k # n
      <4>1. k \in 1..(n - 1) /\ k + 1 \in 1..n
        BY <1>1, <3>2
      <4> QED BY <1>4, <2>1, <2>2, <4>1
    <3> QED BY <3>1, <3>2
  <2> QED BY <1>1, <1>4, <2>2, <2>3 DEF ArchiveComplete
<1>8. checkpoints'[position'] = checkpoints[position]
  BY <1>1, <1>3, <1>4
<1>9. (SlotRestored /\ RootsRestored /\ MixesRestored)'
  BY <1>3, <1>8 DEF IInv, SlotRestored, RootsRestored, MixesRestored
<1>10. SlashingsConfined'
  <2>1. \A k \in 1..(position - 1) : checkpoints'[k] = checkpoints[k]
    BY <1>1, <1>4
  <2> QED BY <1>3, <1>8, <2>1 DEF IInv, SlashingsConfined
<1> QED BY <1>5, <1>6, <1>7, <1>9, <1>10 DEF IInv

\* A restore moves the replica from a checkpoint to the next one.
LEMMA RestoreKeepsIInv ==
  ASSUME IInv, Restore
  PROVE  IInv'
<1> DEFINE base == checkpoints[position]
           target == checkpoints[position + 1]
<1>1. /\ position' = position + 1
      /\ replica' = Apply(replica, archive[position])
      /\ UNCHANGED <<live, checkpoints, archive>>
      /\ position < Len(checkpoints)
  BY DEF Restore
<1>2. /\ checkpoints \in Seq(States) /\ Len(checkpoints) \in Nat
      /\ position \in 1..(Len(checkpoints) - 1)
      /\ base \in States /\ target \in States /\ replica \in States
  BY <1>1 DEF IInv, TypeOK
<1>3. Follows(base, target) /\ archive[position] = Create(base, target)
  BY <1>2 DEF IInv, CheckpointsFollow, ArchiveComplete
<1>4. replica.slot = base.slot /\ replica.roots = base.roots
      /\ replica.mixes = base.mixes
  BY DEF IInv, SlotRestored, RootsRestored, MixesRestored
<1> HIDE DEF base, target
<1>5. /\ replica' \in States
      /\ replica'.slot = target.slot
      /\ replica'.roots = target.roots
      /\ replica'.mixes = target.mixes
      /\ \A j \in 0..(SlashingsLen - 1) :
           replica'.slashings[j] # target.slashings[j] =>
             \/ j = Epoch(base.slot) % SlashingsLen
             \/ replica.slashings[j] # base.slashings[j]
  <2>1. replica' = Apply(replica, Create(base, target))
    BY <1>1, <1>3
  <2> QED BY <1>2, <1>3, <1>4, <2>1, ApplyOfCreate
<1>6. checkpoints'[position'] = target
  BY <1>1 DEF target
<1>7. TypeOK'
  BY <1>1, <1>2, <1>5 DEF IInv, TypeOK
<1>8. CheckpointsFollow' /\ ArchiveComplete'
  BY <1>1 DEF IInv, CheckpointsFollow, ArchiveComplete
<1>9. (SlotRestored /\ RootsRestored /\ MixesRestored)'
  BY <1>5, <1>6 DEF SlotRestored, RootsRestored, MixesRestored
<1>10. SlashingsConfined'
  <2>1. ASSUME NEW j \in 0..(SlashingsLen - 1),
               replica'.slashings[j] # target.slashings[j]
        PROVE  \E k \in 1..position :
                 Epoch(checkpoints[k].slot) % SlashingsLen = j
    <3>1. CASE j = Epoch(base.slot) % SlashingsLen
      BY <1>2, <3>1 DEF base
    <3>2. CASE replica.slashings[j] # base.slashings[j]
      <4>1. PICK k \in 1..(position - 1) :
              Epoch(checkpoints[k].slot) % SlashingsLen = j
        BY <3>2 DEF IInv, SlashingsConfined, base
      <4> QED BY <1>2, <4>1
    <3> QED BY <1>5, <2>1, <3>1, <3>2
  <2>2. position' - 1 = position
    BY <1>1, <1>2
  <2> QED BY <1>1, <1>6, <2>1, <2>2 DEF SlashingsConfined
<1> QED BY <1>7, <1>8, <1>9, <1>10 DEF IInv

\* The inductive invariant holds in every reachable state.
THEOREM Invariance == Spec => []IInv
<1>1. Init => IInv
  BY InitIInv
<1>2. IInv /\ [Next]_vars => IInv'
  <2> SUFFICES ASSUME IInv, [Next]_vars PROVE IInv'
    OBVIOUS
  <2>1. CASE \/ \E root \in Roots : ProcessSlot(root)
             \/ \E mix \in Mixes : ProcessBlock(mix)
             \/ Slash
    BY <2>1, ClientKeepsIInv
  <2>2. CASE Checkpoint
    BY <2>2, CheckpointKeepsIInv
  <2>3. CASE Restore
    BY <2>3, RestoreKeepsIInv
  <2>4. CASE UNCHANGED vars
    BY <2>4 DEF vars, IInv, TypeOK, CheckpointsFollow, ArchiveComplete,
                SlotRestored, RootsRestored, MixesRestored, SlashingsConfined
  <2> QED BY <2>1, <2>2, <2>3, <2>4 DEF Next
<1> QED BY <1>1, <1>2, PTL DEF Spec

\* Type correctness of the machine.
THEOREM TypeCorrect == Spec => []TypeOK
<1>1. IInv => TypeOK
  BY DEF IInv
<1> QED BY <1>1, Invariance, PTL

\* After any number of deltas, over any span, the reader's root rings are
\* the checkpointed ones (diff_roots, apply_roots).
THEOREM RootsAreRestored == Spec => []RootsRestored
<1>1. IInv => RootsRestored
  BY DEF IInv
<1> QED BY <1>1, Invariance, PTL

\* So are its RANDAO mixes (diff_randao, apply_randao).
THEOREM MixesAreRestored == Spec => []MixesRestored
<1>1. IInv => MixesRestored
  BY DEF IInv
<1> QED BY <1>1, Invariance, PTL

\* What diff_slashings misses stays at the entries of base epochs.
THEOREM SlashingsAreConfined == Spec => []SlashingsConfined
<1>1. IInv => SlashingsConfined
  BY DEF IInv
<1> QED BY <1>1, Invariance, PTL

-----------------------------------------------------------------------------
(* Deltas that are applied again, and what an apply leaves alone.          *)

\* Writing the same values to the same window once more changes nothing.
LEMMA WriteTwice ==
  ASSUME NEW buffer, NEW capacity, NEW first, NEW values
  PROVE  LET once == WriteRing(buffer, capacity, first, values)
         IN  WriteRing(once, capacity, first, values) = once
BY DEF WriteRing

\* Nor does storing the same slashing updates once more.
LEMMA UpdateTwice ==
  ASSUME NEW buffer, NEW updates
  PROVE  LET once == ApplySlashings(buffer, updates)
         IN  ApplySlashings(once, updates) = once
BY DEF ApplySlashings

LEMMA ApplyTwice ==
  ASSUME NEW state, NEW delta
  PROVE  Apply(Apply(state, delta), delta) = Apply(state, delta)
<1> DEFINE roots == ApplyRoots(delta.base_slot, state.roots, delta.roots)
           mixes == ApplyRandao(delta.base_slot, state.mixes, delta.mixes)
           slashings == ApplySlashings(state.slashings, delta.slashings)
<1>1. ApplyRoots(delta.base_slot, roots, delta.roots) = roots
  BY WriteTwice DEF ApplyRoots
<1>2. ApplyRandao(delta.base_slot, mixes, delta.mixes) = mixes
  BY WriteTwice DEF ApplyRandao
<1>3. ApplySlashings(slashings, delta.slashings) = slashings
  BY UpdateTwice
<1>4. Apply(state, delta) = [slot |-> delta.scalar_header, roots |-> roots,
                             mixes |-> mixes, slashings |-> slashings]
  BY DEF Apply
<1> HIDE DEF roots, mixes, slashings
<1> QED BY <1>1, <1>2, <1>3, <1>4 DEF Apply

\* A reader that does not know whether its last call of apply was completed
\* may repeat it: apply_roots, apply_randao and apply_slashings overwrite.
THEOREM RetryingIsHarmless == Spec => []RetryIsHarmless
<1>1. Init => RetryIsHarmless
  BY DEF Init, RetryIsHarmless
<1>2. IInv /\ RetryIsHarmless /\ [Next]_vars => RetryIsHarmless'
  <2> SUFFICES ASSUME IInv, RetryIsHarmless, [Next]_vars, position' > 1
               PROVE  Apply(replica', archive'[position' - 1]) = replica'
    BY DEF RetryIsHarmless
  <2>1. /\ position \in 1..Len(checkpoints) /\ Len(checkpoints) \in Nat
        /\ archive = [k \in 1..(Len(checkpoints) - 1) |->
                        Create(checkpoints[k], checkpoints[k + 1])]
    BY DEF IInv, TypeOK, ArchiveComplete
  <2>2. CASE UNCHANGED <<archive, position, replica>>
    BY <2>1, <2>2 DEF RetryIsHarmless
  <2>3. CASE Checkpoint
    <3>1. UNCHANGED <<position, replica>> /\ IInv'
      BY <2>3, CheckpointKeepsIInv DEF Checkpoint
    <3>2. archive' = [k \in 1..(Len(checkpoints') - 1) |->
                        Create(checkpoints'[k], checkpoints'[k + 1])]
      BY <3>1 DEF IInv, ArchiveComplete
    <3>3. /\ Len(checkpoints') = Len(checkpoints) + 1
          /\ \A k \in 1..Len(checkpoints) : checkpoints'[k] = checkpoints[k]
      BY <2>3 DEF Checkpoint, IInv, TypeOK
    <3>4. /\ position - 1 \in 1..(Len(checkpoints) - 1)
          /\ position - 1 \in 1..(Len(checkpoints') - 1)
          /\ position \in 1..Len(checkpoints)
          /\ position - 1 \in 1..Len(checkpoints)
          /\ (position - 1) + 1 = position
      BY <2>1, <3>1, <3>3
    <3>5. archive'[position - 1] = archive[position - 1]
      BY <2>1, <3>2, <3>3, <3>4
    <3> QED BY <3>1, <3>4, <3>5 DEF RetryIsHarmless
  <2>4. CASE Restore
    <3>1. /\ replica' = Apply(replica, archive[position])
          /\ archive' = archive /\ position' - 1 = position
      BY <2>1, <2>4 DEF Restore
    <3> QED BY <3>1, ApplyTwice
  <2> QED BY <2>2, <2>3, <2>4
          DEF Next, vars, ProcessSlot, ProcessBlock, Slash
<1> QED BY <1>1, <1>2, Invariance, PTL DEF Spec

\* apply writes the entries of the slots and epochs of the delta alone, the
\* windows of two neighbouring checkpoints.
THEOREM RestoringStaysInWindow == Spec => RestoreStaysInWindow
<1> DEFINE base == checkpoints[position]
           target == checkpoints[position']
           Stays ==
             /\ AgreeOutside(replica.roots, replica'.roots, RootsLen,
                             base.slot, target.slot - 1)
             /\ AgreeOutside(replica.mixes, replica'.mixes, MixesLen,
                             Epoch(base.slot), Epoch(target.slot))
             /\ AgreeOutside(replica.slashings, replica'.slashings,
                             SlashingsLen,
                             Epoch(base.slot), Epoch(target.slot))
<1>1. IInv /\ IInv' /\ [Next]_vars => [position' # position => Stays]_vars
  <2> SUFFICES ASSUME IInv, IInv', Restore
               PROVE  Stays
    BY DEF Next, vars, ProcessSlot, ProcessBlock, Slash, Checkpoint
  <2>1. /\ position' = position + 1 /\ UNCHANGED <<checkpoints, archive>>
        /\ position \in 1..(Len(checkpoints) - 1)
        /\ base \in States /\ target \in States /\ replica \in States
    BY DEF Restore, IInv, TypeOK
  <2>2. /\ Follows(base, target)
        /\ archive[position] = Create(base, target)
    BY <2>1 DEF IInv, CheckpointsFollow, ArchiveComplete
  <2>3. /\ replica.roots = base.roots /\ replica'.roots = target.roots
        /\ replica.mixes = base.mixes /\ replica'.mixes = target.mixes
    BY <2>1 DEF IInv, RootsRestored, MixesRestored
  <2> DEFINE updates == DiffSlashings(base.slot, target.slot,
                                      base.slashings, target.slashings)
  <2>4. replica'.slashings = ApplySlashings(replica.slashings, updates)
    BY <2>2 DEF Restore, Apply, Create
  <2> HIDE DEF base, target
  <2>5. ASSUME NEW j \in 0..(SlashingsLen - 1),
               \A p \in Epoch(base.slot)..Epoch(target.slot) :
                 p % SlashingsLen # j
        PROVE  replica'.slashings[j] = replica.slashings[j]
    <3>1. base.slot \in Nat /\ target.slot \in Nat /\ base.slot <= target.slot
      BY <2>1, <2>2 DEF States, Follows
    <3>2. /\ Epoch(base.slot) \in Nat /\ Epoch(target.slot) \in Nat
      BY <3>1, EpochFacts
    <3>3. ASSUME NEW e \in (Epoch(base.slot) + 1)..Epoch(target.slot)
          PROVE  (e % SlashingsLen) % U16 # j
      <4>1. e \in Nat /\ e \in Epoch(base.slot)..Epoch(target.slot)
        BY <3>2
      <4>2. e % SlashingsLen \in 0..(SlashingsLen - 1)
        BY <4>1
      <4>3. (e % SlashingsLen) % U16 = e % SlashingsLen
        BY <4>2
      <4> QED BY <2>5, <4>1, <4>3
    <3>4. Updates(updates, j) = {}
      BY <3>3 DEF Updates, DiffSlashings
    <3>5. j \in DOMAIN replica.slashings
      BY <2>1 DEF States
    <3> QED BY <2>4, <3>4, <3>5 DEF ApplySlashings
  <2> QED BY <2>2, <2>3, <2>5 DEF Follows, AgreeOutside
<1> QED BY <1>1, Invariance, PTL DEF Spec, RestoreStaysInWindow

-----------------------------------------------------------------------------
(* Deltas that are lost.                                                   *)

\* The equations that define the states of a reader without the lost deltas:
\* for every length there is a function that satisfies them up to there.
LEMMA StatesWithoutEquations ==
  ASSUME NEW lost, Len(archive) \in Nat
  PROVE  LET after == StatesWithout(lost)
         IN  /\ after[0] = checkpoints[1]
             /\ \A k \in 1..Len(archive) :
                  after[k] = IF k \in lost THEN after[k - 1]
                             ELSE Apply(after[k - 1], archive[k])
<1> DEFINE Next1(g, k) == IF k = 0 THEN checkpoints[1]
                          ELSE IF k \in lost THEN g[k - 1]
                          ELSE Apply(g[k - 1], archive[k])
           Defined == {m \in Nat : \E g : g = [k \in 0..m |-> Next1(g, k)]}
<1>1. 0 \in Defined
  <2> DEFINE g == [k \in 0..0 |-> checkpoints[1]]
  <2>1. g = [k \in 0..0 |-> Next1(g, k)]
    OBVIOUS
  <2> QED BY <2>1
<1>2. ASSUME NEW m \in Nat, m \in Defined
      PROVE  m + 1 \in Defined
  <2>1. PICK g : g = [k \in 0..m |-> Next1(g, k)]
    BY <1>2
  <2> DEFINE h == [k \in 0..(m + 1) |-> IF k = m + 1 THEN Next1(g, m + 1)
                                        ELSE g[k]]
  <2>2. ASSUME NEW k \in 0..(m + 1)
        PROVE  h[k] = Next1(h, k)
    <3>1. k # 0 => h[k - 1] = g[k - 1]
      OBVIOUS
    <3>2. h[k] = Next1(g, k)
      <4>1. CASE k = m + 1
        BY <4>1
      <4>2. CASE k # m + 1
        <5>1. k \in 0..m
          BY <4>2
        <5>2. g[k] = Next1(g, k)
          BY <2>1, <5>1, Zenon
        <5> QED BY <4>2, <5>2
      <4> QED BY <4>1, <4>2
    <3> QED BY <3>1, <3>2
  <2>3. h = [k \in 0..(m + 1) |-> h[k]]
    OBVIOUS
  <2> HIDE DEF h, Next1
  <2>4. h = [k \in 0..(m + 1) |-> Next1(h, k)]
    BY <2>2, <2>3
  <2> QED BY <2>4
<1> HIDE DEF Defined
<1>3. Len(archive) \in Defined
  BY <1>1, <1>2, SetInduction
<1>4. \E g : g = [k \in 0..Len(archive) |-> Next1(g, k)]
  BY <1>3 DEF Defined
<1> DEFINE after == CHOOSE g : g = [k \in 0..Len(archive) |-> Next1(g, k)]
<1>5. after = [k \in 0..Len(archive) |-> Next1(after, k)]
  <2> HIDE DEF Next1
  <2> QED BY <1>4, Zenon
<1>6. after = StatesWithout(lost)
  BY DEF StatesWithout
<1> HIDE DEF after
<1>7. after[0] = Next1(after, 0)
      /\ \A k \in 1..Len(archive) : after[k] = Next1(after, k)
  BY <1>5
<1> QED BY <1>6, <1>7

\* A delta from base to target has made the second of two states of the first:
\* an entry of it differs from the target's only if the delta is not about it
\* and it differed from the base's.
LeavesElsewhere(base, target, state, after) ==
  /\ after \in States
  /\ \A j \in 0..(RootsLen - 1) :
       after.roots[j] # target.roots[j] =>
         /\ state.roots[j] # base.roots[j]
         /\ \A p \in base.slot..(target.slot - 1) : p % RootsLen # j
  /\ \A j \in 0..(MixesLen - 1) :
       after.mixes[j] # target.mixes[j] =>
         /\ state.mixes[j] # base.mixes[j]
         /\ \A p \in Epoch(base.slot)..Epoch(target.slot) : p % MixesLen # j
  /\ \A j \in 0..(SlashingsLen - 1) :
       after.slashings[j] # target.slashings[j] =>
         \/ j = Epoch(base.slot) % SlashingsLen
         \/ state.slashings[j] # base.slashings[j]

\* What apply does to a state that is not the delta's base.
LEMMA ApplyElsewhere ==
  ASSUME NEW base \in States, NEW target \in States, NEW state \in States,
         Follows(base, target)
  PROVE  LeavesElsewhere(base, target, state, Apply(state, Create(base, target)))
<1> USE DEF LeavesElsewhere
<1> DEFINE after == Apply(state, Create(base, target))
           span == target.slot - base.slot
           first == Epoch(base.slot)
           last == Epoch(target.slot)
           epochs == last - first + 1
           roots == Overwritten(state.roots, target.roots, RootsLen,
                                base.slot, target.slot - 1)
           mixes == Overwritten(state.mixes, target.mixes, MixesLen,
                                first, last)
           slashings ==
             ApplySlashings(state.slashings,
               DiffSlashings(base.slot, target.slot,
                             base.slashings, target.slashings))
<1>1. /\ base.slot \in Nat /\ target.slot \in Nat /\ base.slot <= target.slot
      /\ span \in Nat /\ base.slot + span - 1 = target.slot - 1
  BY SMTT(30) DEF States, Follows
<1>2. /\ first \in Nat /\ epochs \in Nat /\ first + epochs - 1 = last
  <2>1. first \in Nat /\ last \in Nat /\ first <= last
    BY <1>1, EpochFacts
  <2> HIDE DEF first, last
  <2> QED BY <2>1
<1>3. DOMAIN state.roots = 0..(RootsLen - 1) /\ RootsLen \in Nat \ {0}
  BY DEF States
<1>4. DOMAIN state.mixes = 0..(MixesLen - 1) /\ MixesLen \in Nat \ {0}
  BY DEF States
<1>5. ApplyRoots(base.slot, state.roots,
                 DiffRoots(base.slot, target.slot, target.roots)) = roots
  <2> DEFINE old == state.roots
             new == target.roots
             from == base.slot
  <2>1. RootsLen \in Nat \ {0} /\ from \in Nat /\ span \in Nat
    BY <1>1, <1>3
  <2>2. DOMAIN old = 0..(RootsLen - 1)
    BY <1>3
  <2> HIDE DEF span, old, new, from
  <2>3. WriteRing(old, RootsLen, from, ReadRing(new, RootsLen, from, span))
          = Overwritten(old, new, RootsLen, from, from + span - 1)
    BY <2>1, <2>2, WriteInWindow
  <2> QED BY <1>1, <2>3 DEF ApplyRoots, DiffRoots, span, old, new, from
<1>6. ApplyRandao(base.slot, state.mixes,
                  DiffRandao(base.slot, target.slot, target.mixes)) = mixes
  <2> DEFINE old == state.mixes
             new == target.mixes
  <2>1. MixesLen \in Nat \ {0} /\ first \in Nat /\ epochs \in Nat
    BY <1>2, <1>4
  <2>2. DOMAIN old = 0..(MixesLen - 1)
    BY <1>4
  <2> HIDE DEF first, epochs, last, old, new
  <2>3. WriteRing(old, MixesLen, first, ReadRing(new, MixesLen, first, epochs))
          = Overwritten(old, new, MixesLen, first, first + epochs - 1)
    BY <2>1, <2>2, WriteInWindow
  <2>4. WriteRing(old, MixesLen, first, ReadRing(new, MixesLen, first, epochs))
          = mixes
    BY <1>2, <2>3 DEF old, new
  <2> QED BY <2>4 DEF ApplyRandao, DiffRandao, first, epochs, last, old, new
<1>7. after = [slot |-> target.slot, roots |-> roots, mixes |-> mixes,
               slashings |-> slashings]
  BY <1>5, <1>6 DEF Apply, Create
<1>8. /\ slashings \in [0..(SlashingsLen - 1) -> Nat]
      /\ \A j \in 0..(SlashingsLen - 1) :
           slashings[j] # target.slashings[j] =>
             \/ j = Epoch(base.slot) % SlashingsLen
             \/ state.slashings[j] # base.slashings[j]
  BY SlashingsStep
<1> HIDE DEF slashings
<1>9. roots \in [0..(RootsLen - 1) -> Roots \cup {ZeroRoot}]
  <2>1. /\ state.roots \in [0..(RootsLen - 1) -> Roots \cup {ZeroRoot}]
        /\ target.roots \in [0..(RootsLen - 1) -> Roots \cup {ZeroRoot}]
    BY DEF States
  <2> QED BY <2>1 DEF Overwritten
<1>10. mixes \in [0..(MixesLen - 1) -> Mixes]
  <2>1. /\ state.mixes \in [0..(MixesLen - 1) -> Mixes]
        /\ target.mixes \in [0..(MixesLen - 1) -> Mixes]
    BY DEF States
  <2> QED BY <2>1 DEF Overwritten
<1>11. ASSUME NEW j \in 0..(RootsLen - 1), roots[j] # target.roots[j]
       PROVE  /\ state.roots[j] # base.roots[j]
              /\ \A p \in base.slot..(target.slot - 1) : p % RootsLen # j
  <2>1. roots[j] = IF \E p \in base.slot..(target.slot - 1) : p % RootsLen = j
                   THEN target.roots[j] ELSE state.roots[j]
    BY DEF Overwritten
  <2>2. \A p \in base.slot..(target.slot - 1) : p % RootsLen # j
    BY <1>11, <2>1
  <2>3. target.roots[j] = base.roots[j]
    BY <2>2 DEF Follows, AgreeOutside
  <2> QED BY <1>11, <2>1, <2>2, <2>3
<1>12. ASSUME NEW j \in 0..(MixesLen - 1), mixes[j] # target.mixes[j]
       PROVE  /\ state.mixes[j] # base.mixes[j]
              /\ \A p \in first..last : p % MixesLen # j
  <2>1. mixes[j] = IF \E p \in first..last : p % MixesLen = j
                   THEN target.mixes[j] ELSE state.mixes[j]
    BY DEF Overwritten
  <2>2. \A p \in first..last : p % MixesLen # j
    BY <1>12, <2>1
  <2>3. target.mixes[j] = base.mixes[j]
    BY <2>2 DEF Follows, AgreeOutside
  <2> QED BY <1>12, <2>1, <2>2, <2>3
<1> HIDE DEF roots, mixes, after
<1>13. after \in States
  BY <1>1, <1>7, <1>8, <1>9, <1>10 DEF States
<1>14. after.roots = roots /\ after.mixes = mixes
       /\ after.slashings = slashings
  BY <1>7
<1> QED BY <1>8, <1>11, <1>12, <1>13, <1>14 DEF after, first, last

\* LostDeltasConfined after the first n deltas.
ConfinedUpTo(lost, n) ==
  LET state == StatesWithout(lost)[n]
      target == checkpoints[n + 1]
  IN  /\ state \in States
      /\ \A j \in 0..(RootsLen - 1) :
           state.roots[j] # target.roots[j] =>
             Spoilt(RootsWindow, lost, n, j)
      /\ \A j \in 0..(MixesLen - 1) :
           state.mixes[j] # target.mixes[j] =>
             Spoilt(MixesWindow, lost, n, j)
      /\ \A j \in 0..(SlashingsLen - 1) :
           state.slashings[j] # target.slashings[j] =>
             \/ \E k \in lost : j \in SlashingsWindow(k)
             \/ \E k \in 1..n :
                  Epoch(checkpoints[k].slot) % SlashingsLen = j

\* One more delta, lost or not, keeps it so.
LEMMA ConfinedStep ==
  ASSUME IInv, NEW lost \in SUBSET DOMAIN archive,
         NEW n \in 1..Len(archive), ConfinedUpTo(lost, n - 1)
  PROVE  ConfinedUpTo(lost, n)
<1> DEFINE before == StatesWithout(lost)[n - 1]
           after == StatesWithout(lost)[n]
           base == checkpoints[n]
           target == checkpoints[n + 1]
<1>1. /\ Len(archive) = Len(checkpoints) - 1 /\ Len(checkpoints) \in Nat
      /\ n \in 1..(Len(checkpoints) - 1)
      /\ archive[n] = Create(base, target)
      /\ base \in States /\ target \in States /\ Follows(base, target)
  BY DEF IInv, TypeOK, ArchiveComplete, CheckpointsFollow
<1>2. after = IF n \in lost THEN before ELSE Apply(before, archive[n])
  BY <1>1, StatesWithoutEquations
<1>3. n = (n - 1) + 1 /\ before \in States
  BY <1>1 DEF ConfinedUpTo
<1>4. /\ \A j \in 0..(RootsLen - 1) :
           before.roots[j] # base.roots[j] =>
             Spoilt(RootsWindow, lost, n - 1, j)
      /\ \A j \in 0..(MixesLen - 1) :
           before.mixes[j] # base.mixes[j] =>
             Spoilt(MixesWindow, lost, n - 1, j)
      /\ \A j \in 0..(SlashingsLen - 1) :
           before.slashings[j] # base.slashings[j] =>
             \/ \E k \in lost : j \in SlashingsWindow(k)
             \/ \E k \in 1..(n - 1) :
                  Epoch(checkpoints[k].slot) % SlashingsLen = j
  BY <1>3 DEF ConfinedUpTo
<1> HIDE DEF before, after, base, target
<1>5. /\ after \in States
      /\ \A j \in 0..(RootsLen - 1) :
           after.roots[j] # target.roots[j] =>
             IF j \in RootsWindow(n) THEN n \in lost
             ELSE before.roots[j] # base.roots[j]
      /\ \A j \in 0..(MixesLen - 1) :
           after.mixes[j] # target.mixes[j] =>
             IF j \in MixesWindow(n) THEN n \in lost
             ELSE before.mixes[j] # base.mixes[j]
      /\ \A j \in 0..(SlashingsLen - 1) :
           after.slashings[j] # target.slashings[j] =>
             \/ n \in lost /\ j \in SlashingsWindow(n)
             \/ j = Epoch(base.slot) % SlashingsLen
             \/ before.slashings[j] # base.slashings[j]
  <2>1. CASE n \in lost
    BY <1>1, <1>2, <1>3, <2>1, ZenonT(40)
    DEF Follows, AgreeOutside, RootsWindow, MixesWindow, SlashingsWindow,
        base, target
  <2>2. CASE n \notin lost
    <3>1. after = Apply(before, Create(base, target))
      BY <1>1, <1>2, <2>2
    <3>2. LeavesElsewhere(base, target, before, after)
      BY <1>1, <1>3, <3>1, ApplyElsewhere
    <3> QED BY <3>2 DEF LeavesElsewhere, RootsWindow, MixesWindow, base, target
  <2> QED BY <2>1, <2>2
<1>6. ASSUME NEW j \in 0..(RootsLen - 1), after.roots[j] # target.roots[j]
      PROVE  Spoilt(RootsWindow, lost, n, j)
  <2>1. CASE j \in RootsWindow(n)
    BY <1>1, <1>5, <1>6, <2>1 DEF Spoilt
  <2>2. CASE j \notin RootsWindow(n)
    <3>1. PICK k \in lost :
            /\ k <= n - 1 /\ j \in RootsWindow(k)
            /\ \A l \in (k + 1)..(n - 1) : j \in RootsWindow(l) => l \in lost
      BY <1>4, <1>5, <1>6, <2>2 DEF Spoilt
    <3>2. k \in Nat
      BY <1>1 DEF IInv, ArchiveComplete
    <3> QED BY <1>1, <2>2, <3>1, <3>2 DEF Spoilt
  <2> QED BY <2>1, <2>2
<1>7. ASSUME NEW j \in 0..(MixesLen - 1), after.mixes[j] # target.mixes[j]
      PROVE  Spoilt(MixesWindow, lost, n, j)
  <2>1. CASE j \in MixesWindow(n)
    BY <1>1, <1>5, <1>7, <2>1 DEF Spoilt
  <2>2. CASE j \notin MixesWindow(n)
    <3>1. PICK k \in lost :
            /\ k <= n - 1 /\ j \in MixesWindow(k)
            /\ \A l \in (k + 1)..(n - 1) : j \in MixesWindow(l) => l \in lost
      BY <1>4, <1>5, <1>7, <2>2 DEF Spoilt
    <3>2. k \in Nat
      BY <1>1 DEF IInv, ArchiveComplete
    <3> QED BY <1>1, <2>2, <3>1, <3>2 DEF Spoilt
  <2> QED BY <2>1, <2>2
<1>8. ASSUME NEW j \in 0..(SlashingsLen - 1),
             after.slashings[j] # target.slashings[j]
      PROVE  \/ \E k \in lost : j \in SlashingsWindow(k)
             \/ \E k \in 1..n : Epoch(checkpoints[k].slot) % SlashingsLen = j
  BY <1>1, <1>4, <1>5, <1>8 DEF base
<1> QED BY <1>5, <1>6, <1>7, <1>8 DEF ConfinedUpTo, after, target

\* Whichever deltas are lost: roots and mixes are wrong in their windows only
\* and until the next delta applied that is about the entry, slashing sums in
\* their windows and, as ever, in the entries of base epochs.
THEOREM LostDeltasAreConfined == Spec => []LostDeltasConfined
<1>1. ASSUME IInv
      PROVE  LostDeltasConfined
  <2> SUFFICES ASSUME NEW lost \in SUBSET DOMAIN archive
               PROVE  ConfinedUpTo(lost, Len(archive))
    <3>1. DOMAIN archive = 1..Len(archive)
      BY <1>1 DEF IInv, TypeOK, ArchiveComplete
    <3> QED BY <3>1 DEF LostDeltasConfined, ConfinedUpTo
  <2>1. /\ Len(archive) = Len(checkpoints) - 1 /\ Len(checkpoints) \in Nat \ {0}
        /\ checkpoints[1] \in States
    BY <1>1 DEF IInv, TypeOK, ArchiveComplete
  <2> DEFINE Held == {n \in Nat : n <= Len(archive) => ConfinedUpTo(lost, n)}
  <2>2. 0 \in Held
    <3>1. StatesWithout(lost)[0] = checkpoints[1]
      BY <2>1, StatesWithoutEquations
    <3> QED BY <2>1, <3>1 DEF ConfinedUpTo
  <2>3. ASSUME NEW n \in Nat, n \in Held
        PROVE  n + 1 \in Held
    <3> SUFFICES ASSUME n + 1 <= Len(archive)
                 PROVE  ConfinedUpTo(lost, n + 1)
      OBVIOUS
    <3>1. n + 1 \in 1..Len(archive) /\ (n + 1) - 1 = n /\ n <= Len(archive)
      BY <2>1
    <3>2. ConfinedUpTo(lost, n)
      BY <2>3, <3>1
    <3> QED BY <1>1, <3>1, <3>2, ConfinedStep
  <2> HIDE DEF Held
  <2>4. Len(archive) \in Held /\ Len(archive) \in Nat
    BY <2>1, <2>2, <2>3, SetInduction
  <2> QED BY <2>4 DEF Held
<1> QED BY <1>1, Invariance, PTL

-----------------------------------------------------------------------------
(* The rings and their reader implement DeltaArchive.                      *)

Viewed == [k \in 1..Len(checkpoints) |-> View(checkpoints[k])]

\* A checkpoint appends the view of the live state.
LEMMA CheckpointAppendsView ==
  ASSUME IInv, Checkpoint
  PROVE  Viewed' = Append(Viewed, View(live))
<1> DEFINE n == Len(checkpoints)
           Views == {View(state) : state \in States}
<1>1. n \in Nat /\ live \in States
      /\ \A k \in 1..n : checkpoints[k] \in States
  BY DEF IInv, TypeOK
<1>2. /\ Len(checkpoints') = n + 1
      /\ checkpoints'[n + 1] = live
      /\ \A k \in 1..n : checkpoints'[k] = checkpoints[k]
  BY DEF IInv, TypeOK, Checkpoint
<1>3. Viewed \in Seq(Views) /\ Len(Viewed) = n
  <2>1. \A k \in 1..n : View(checkpoints[k]) \in Views
    BY <1>1
  <2> HIDE DEF Views
  <2> QED BY <1>1, <2>1 DEF Viewed
<1>4. View(live) \in Views
  BY <1>1
<1>5. Append(Viewed, View(live)) =
        [k \in 1..(n + 1) |-> IF k = n + 1 THEN View(live) ELSE Viewed[k]]
  <2> HIDE DEF Views
  <2> DEFINE appended == Append(Viewed, View(live))
  <2>1. /\ appended \in Seq(Views)
        /\ Len(appended) = n + 1
        /\ \A k \in 1..n : appended[k] = Viewed[k]
        /\ appended[n + 1] = View(live)
    BY <1>3, <1>4, AppendProperties
  <2> HIDE DEF appended
  <2>2. appended = [k \in 1..(n + 1) |-> appended[k]]
    BY <1>1, <2>1
  <2>3. \A k \in 1..(n + 1) : appended[k] =
          IF k = n + 1 THEN View(live) ELSE Viewed[k]
    BY <1>1, <2>1
  <2> QED BY <2>2, <2>3 DEF appended
<1>6. ASSUME NEW k \in 1..(n + 1)
      PROVE  View(checkpoints'[k])
               = IF k = n + 1 THEN View(live) ELSE Viewed[k]
  <2>1. CASE k = n + 1
    BY <1>2, <2>1
  <2>2. CASE k # n + 1
    <3>1. k \in 1..n
      BY <1>1, <2>2
    <3> QED BY <1>2, <2>2, <3>1 DEF Viewed
  <2> QED BY <2>1, <2>2
<1>7. Viewed' = [k \in 1..(n + 1) |-> View(checkpoints'[k])]
  BY <1>2 DEF Viewed
<1> QED BY <1>5, <1>6, <1>7

\* The machine of the rings, its slashing sums left out, implements the
\* archive: the reader's slot, roots and mixes are at each position those of
\* the checkpoint with that number, in order.
THEOREM RingsImplementArchive == Spec => ImplementsArchive
<1>1. Init => Promise!Init
  <2> SUFFICES ASSUME Init
               PROVE  Promise!Init
    OBVIOUS
  <2>1. Viewed = <<View(live)>>
    BY DEF Init, Viewed
  <2> QED BY <2>1 DEF Init, Viewed, Promise!Init
<1>2. IInv /\ IInv' /\ [Next]_vars => [Promise!Next]_(Promise!vars)
  <2> SUFFICES ASSUME IInv, IInv', [Next]_vars
               PROVE  [Promise!Next]_(Promise!vars)
    OBVIOUS
  <2>1. CASE UNCHANGED <<checkpoints, archive, position, replica>>
    BY <2>1 DEF Promise!Next, Promise!Advance
  <2>2. CASE Checkpoint
    <3>1. Viewed' = Append(Viewed, View(live))
      BY <2>2, CheckpointAppendsView
    <3>2. UNCHANGED <<live, position, replica>>
      BY <2>2 DEF Checkpoint
    <3>3. View(live)' = View(live) /\ View(replica)' = View(replica)
      BY <3>2
    <3> QED BY <3>1, <3>2, <3>3
            DEF Viewed, Promise!Next, Promise!Checkpoint
  <2>3. CASE Restore
    <3>1. /\ position \in 1..(Len(checkpoints) - 1)
          /\ position' = position + 1
          /\ UNCHANGED <<live, checkpoints>>
      BY <2>3 DEF IInv, TypeOK, Restore
    <3>2. View(replica') = View(checkpoints'[position'])
      BY DEF IInv, SlotRestored, RootsRestored, MixesRestored, View
    <3>3. /\ Len(Viewed) = Len(checkpoints)
          /\ View(replica') = Viewed[position + 1]
          /\ Viewed' = Viewed
          /\ View(live)' = View(live)
      BY <3>1, <3>2 DEF Viewed, IInv, TypeOK
    <3>4. position < Len(Viewed)
      BY <3>1, <3>3 DEF IInv, TypeOK
    <3> QED BY <3>1, <3>3, <3>4
            DEF Viewed, Promise!Next, Promise!Restore
  <2>4. CASE UNCHANGED vars
    BY <2>1, <2>4 DEF vars
  <2> QED BY <2>1, <2>2, <2>3, <2>4
          DEF Next, ProcessSlot, ProcessBlock, Slash
<1> QED BY <1>1, <1>2, Invariance, PTL
        DEF Spec, ImplementsArchive, Promise!Spec
=============================================================================
