------------------------- MODULE ApplyInPlaceProofs -------------------------
(***************************************************************************)
(* A call of apply, written field by field with panics in between, looks   *)
(* from outside like the one step of StateDelta; what it may leave behind, *)
(* and where it may panic, for every choice of forks, slips and bounds.    *)
(***************************************************************************)
EXTENDS ApplyInPlace, RecursionProofs, SequenceTheorems

-----------------------------------------------------------------------------
(* The order of the fields.                                                *)

Names == Universal \cup Optional

LEMMA OrderValues ==
  /\ Len(Order) = 20 /\ Done = 21
  /\ Order[1] = "scalar_header" /\ Order[2] = "balances"
  /\ Order[3] = "validators" /\ Order[4] = "block_roots"
  /\ Order[5] = "state_roots" /\ Order[6] = "randao_mixes"
  /\ Order[7] = "slashings" /\ Order[8] = "eth1_data_votes"
  /\ Order[9] = "historical_roots"
  /\ Order[10] = "previous_epoch_attestations"
  /\ Order[11] = "current_epoch_attestations"
  /\ Order[12] = "previous_participation"
  /\ Order[13] = "current_participation"
  /\ Order[14] = "inactivity_scores"
  /\ Order[15] = "current_sync_committee"
  /\ Order[16] = "next_sync_committee"
  /\ Order[17] = "historical_summaries"
  /\ Order[18] = "pending_deposits"
  /\ Order[19] = "pending_partial_withdrawals"
  /\ Order[20] = "pending_consolidations"
BY DEF Order, Done

\* No field is written twice in a call.
LEMMA OrderIsInjective ==
  ASSUME NEW i \in 1..Len(Order), NEW j \in 1..Len(Order), Order[i] = Order[j]
  PROVE  i = j
<1>1. \A n \in 1..20 : n \in {1, 2, 3, 4, 5, 6, 7, 8, 9, 10,
                              11, 12, 13, 14, 15, 16, 17, 18, 19, 20}
  OBVIOUS
<1>2. i \in 1..20 /\ j \in 1..20
  BY OrderValues
<1> QED BY <1>1, <1>2, OrderValues

\* Every field has its place.
LEMMA OrderIsComplete ==
  ASSUME NEW f \in Names
  PROVE  \E n \in 1..Len(Order) : Order[n] = f
<1>1. f \in {Order[1], Order[2], Order[3], Order[4], Order[5], Order[6],
             Order[7], Order[8], Order[9], Order[10], Order[11], Order[12],
             Order[13], Order[14], Order[15], Order[16], Order[17],
             Order[18], Order[19], Order[20]}
  BY OrderValues DEF Names, Universal, Optional, UntilAltair, UntilCapella,
                     SinceAltair, SinceCapella, SinceElectra
<1>2. Len(Order) = 20
  BY OrderValues
<1> QED BY <1>1, <1>2

\* The fields of a fork are fields, the universal ones among them.
LEMMA FieldsFacts ==
  ASSUME NEW f
  PROVE  Universal \subseteq FieldsOf(f) /\ FieldsOf(f) \subseteq Names
BY DEF FieldsOf, Names, Optional

LEMMA CountedFacts ==
  /\ Counted \subseteq Names /\ "balances" \in Universal
  /\ "scalar_header" \in Universal
  /\ "inactivity_scores" \in Asserted
BY DEF Counted, Names, Universal, Optional, SinceAltair, Asserted

-----------------------------------------------------------------------------
\* The field to be written after the i-th: none that the delta and the state
\* share is passed over.
LEMMA FollowingFacts ==
  ASSUME NEW i \in 0..Len(Order)
  PROVE  /\ Following(i) \in (i + 1)..Done
         /\ Following(i) # Done => Order[Following(i)] \in Atomic!Updated
         /\ \A j \in (i + 1)..(Following(i) - 1) :
              Order[j] \notin Atomic!Updated
<1> DEFINE S == {Done} \cup
                  {j \in (i + 1)..Len(Order) : Order[j] \in Atomic!Updated}
<1>1. Len(Order) = 20 /\ Done = 21
  BY OrderValues
<1>2. S \subseteq Nat /\ S # {} /\ S \subseteq (i + 1)..Done
  BY <1>1
<1>3. Following(i) = Min(S)
  BY DEF Following
<1>4. Following(i) \in S /\ \A k \in S : Following(i) <= k
  <2> HIDE DEF S
  <2> QED BY <1>2, <1>3, LeastExists
<1>5. ASSUME NEW j \in (i + 1)..(Following(i) - 1)
      PROVE  Order[j] \notin Atomic!Updated
  <2>1. j < Following(i) /\ j \in (i + 1)..Len(Order)
    BY <1>1, <1>2, <1>4
  <2> QED BY <1>1, <1>4, <2>1
<1> QED BY <1>1, <1>2, <1>4, <1>5

\* What a call has gone past after the next field.
LEMMA PastFacts ==
  ASSUME NEW i \in 1..Len(Order), NEW f
  PROVE  /\ f \in {Order[n] : n \in 1..(Following(i) - 1)}
                 /\ f \in Atomic!Updated
           <=> \/ f \in {Order[n] : n \in 1..(i - 1)} /\ f \in Atomic!Updated
               \/ f = Order[i] /\ f \in Atomic!Updated
         /\ {Order[n] : n \in 1..(Following(0) - 1)} \cap Atomic!Updated = {}
         /\ Order[i] \notin {Order[n] : n \in 1..(i - 1)}
<1>1. Len(Order) = 20 /\ Done = 21
  BY OrderValues
<1>2. /\ Following(i) \in (i + 1)..Done
      /\ \A j \in (i + 1)..(Following(i) - 1) : Order[j] \notin Atomic!Updated
  BY <1>1, FollowingFacts
<1>3. /\ Following(0) \in 1..Done
      /\ \A j \in 1..(Following(0) - 1) : Order[j] \notin Atomic!Updated
  <2>1. 0 \in 0..Len(Order) /\ 0 + 1 = 1
    BY <1>1
  <2> QED BY <2>1, FollowingFacts
<1>4. \A n \in 1..(i - 1) : n \in 1..Len(Order) /\ n # i
  BY <1>1
<1>5. Order[i] \notin {Order[n] : n \in 1..(i - 1)}
  BY <1>4, OrderIsInjective
<1>6. \A n \in 1..(Following(i) - 1) :
        n \in 1..(i - 1) \/ n = i \/ n \in (i + 1)..(Following(i) - 1)
  BY <1>1, <1>2
<1>7. 1..(i - 1) \subseteq 1..(Following(i) - 1) /\ i \in 1..(Following(i) - 1)
  BY <1>1, <1>2
<1> QED BY <1>2, <1>3, <1>5, <1>6, <1>7

-----------------------------------------------------------------------------
(* The instance of StateDelta has copies of the constant definitions.      *)

LEMMA SameFields ==
  /\ Atomic!Universal = Universal /\ Atomic!Optional = Optional
  /\ Atomic!Asserted = Asserted /\ Atomic!Order = Order
  /\ Atomic!Overwriting = Overwriting
  /\ Atomic!OverwritingUnlessGrown = OverwritingUnlessGrown
BY DEF Atomic!Universal, Universal, Atomic!Optional, Optional,
       Atomic!Asserted, Asserted, Atomic!Order, Order,
       Atomic!Overwriting, Overwriting,
       Atomic!OverwritingUnlessGrown, OverwritingUnlessGrown,
       Atomic!UntilAltair, UntilAltair, Atomic!UntilCapella, UntilCapella,
       Atomic!SinceAltair, SinceAltair, Atomic!SinceCapella, SinceCapella,
       Atomic!SinceElectra, SinceElectra

LEMMA SameFieldsOf ==
  ASSUME NEW f
  PROVE  Atomic!FieldsOf(f) = FieldsOf(f)
BY DEF Atomic!FieldsOf, FieldsOf, Atomic!Universal, Universal,
       Atomic!UntilAltair, UntilAltair, Atomic!UntilCapella, UntilCapella,
       Atomic!SinceAltair, SinceAltair, Atomic!SinceCapella, SinceCapella,
       Atomic!SinceElectra, SinceElectra, Atomic!Altair, Altair,
       Atomic!Capella, Capella, Atomic!Electra, Electra

LEMMA SameDeltas == Atomic!Deltas = Deltas
BY SameFields DEF Atomic!Deltas, Deltas

-----------------------------------------------------------------------------
(* What the invariant says, in the form the proofs use.                    *)

LEMMA ForksAreNaturals == Forks \subseteq Nat
BY DeltaAssumption DEF Heze

LEMMA StateFacts ==
  ASSUME IInv
  PROVE  /\ debug \in BOOLEAN
         /\ forks \in Seq(Forks) /\ Len(forks) \in Nat \ {0}
         /\ archive \in Seq(Deltas) /\ Len(archive) = Len(forks) - 1
         /\ sizes \in Seq(Nat) /\ Len(sizes) = Len(forks)
         /\ \A k \in 1..Len(forks) : forks[k] \in Forks /\ sizes[k] \in Nat
         /\ \A k \in 1..(Len(forks) - 1) : archive[k] \in Deltas
         /\ position \in 1..Len(forks) /\ position \in Nat \ {0}
         /\ replica.fork \in Forks
         /\ replica = [fork |-> replica.fork, values |-> replica.values]
         /\ before = [fork |-> replica.fork, values |-> before.values]
         /\ before.fork = replica.fork
         /\ replica.values \in [FieldsOf(replica.fork) -> Nat \cup {Garbled}]
         /\ before.values \in [FieldsOf(replica.fork) -> Nat \cup {Garbled}]
         /\ lengths \in [Counted \cap FieldsOf(replica.fork) -> 1..TooLong]
         /\ step \in 0..Done
         /\ interrupted \in Seq([delta: Nat, at: 1..Done])
<1>1. TypeOK /\ Atomic!TypeOK
  BY DEF IInv, TypeOK
<1>2. /\ replica = [fork |-> replica.fork, values |-> replica.values]
      /\ before = [fork |-> replica.fork, values |-> before.values]
  BY DEF IInv, CallValid
<1>3. before.fork = replica.fork
  BY <1>2
<1>4. debug \in BOOLEAN
  BY <1>1, DeltaAssumption DEF Atomic!TypeOK
<1>5. /\ forks \in Seq(Forks) /\ archive \in Seq(Deltas)
      /\ Len(archive) = Len(forks) - 1 /\ position \in 1..Len(forks)
  BY <1>1, SameDeltas DEF Atomic!TypeOK
<1>6. /\ sizes \in Seq(Nat) /\ Len(sizes) = Len(forks)
      /\ lengths \in [Counted \cap FieldsOf(replica.fork) -> 1..TooLong]
      /\ replica.values \in [FieldsOf(replica.fork) -> Nat \cup {Garbled}]
      /\ step \in 0..Done
      /\ interrupted \in Seq([delta: Nat, at: 1..Done])
  BY <1>1 DEF TypeOK
<1>7. /\ before.fork \in Forks
      /\ before.values \in [FieldsOf(before.fork) -> Nat \cup {Garbled}]
  BY <1>1, SameFieldsOf DEF Atomic!TypeOK
<1>8. /\ Len(forks) \in Nat \ {0} /\ position \in Nat \ {0}
      /\ \A k \in 1..Len(forks) : forks[k] \in Forks /\ sizes[k] \in Nat
      /\ \A k \in 1..(Len(forks) - 1) : archive[k] \in Deltas
  <2>1. Len(forks) \in Nat \ {0} /\ position \in Nat \ {0}
    BY <1>5
  <2>2. \A k \in 1..Len(forks) : forks[k] \in Forks
    BY <1>5
  <2>3. \A k \in 1..Len(forks) : sizes[k] \in Nat
    BY <1>6
  <2>4. \A k \in 1..(Len(forks) - 1) : archive[k] \in Deltas
    BY <1>5
  <2> QED BY <2>1, <2>2, <2>3, <2>4
<1> QED BY <1>2, <1>3, <1>4, <1>5, <1>6, <1>7, <1>8

\* A delta that has passed the checks.
LEMMA ValidFacts ==
  ASSUME IInv, Atomic!Valid
  PROVE  /\ position \in 1..(Len(forks) - 1) /\ position + 1 \in 1..Len(forks)
         /\ replica.fork = forks[position + 1]
         /\ Atomic!Updated = archive[position].fields
         /\ Universal \subseteq Atomic!Updated
         /\ Atomic!Updated \subseteq Names
         /\ debug => \A f \in Asserted \cap DOMAIN replica.values :
                       f \in Atomic!Updated
         /\ sizes[position] \in Nat /\ sizes[position + 1] \in Nat
         /\ Added(position) \in 0..MaxDeposits
<1>1. /\ position \in 1..(Len(forks) - 1) /\ position + 1 \in 1..Len(forks)
      /\ before.fork = archive[position].fork
      /\ archive[position].fields \subseteq FieldsOf(archive[position].fork)
  <2>1. /\ position < Len(forks) /\ before.fork = archive[position].fork
        /\ archive[position].fields \subseteq FieldsOf(archive[position].fork)
    BY SameFieldsOf DEF Atomic!Valid, Atomic!InOrder, Atomic!Delta
  <2> QED BY <2>1, StateFacts
<1>2. /\ archive[position].fork = forks[position + 1]
      /\ Universal \subseteq archive[position].fields
      /\ debug => \A f \in Asserted :
                    f \in archive[position].fields
                      <=> f \in FieldsOf(forks[position + 1])
      /\ Added(position) \in 0..MaxDeposits
  BY <1>1 DEF IInv, ArchiveKept
<1>3. replica.fork = forks[position + 1]
  BY <1>1, <1>2, StateFacts
<1>4. /\ DOMAIN replica.values = FieldsOf(replica.fork)
      /\ DOMAIN before.values = FieldsOf(replica.fork)
  BY StateFacts
<1>5. Atomic!Updated = archive[position].fields
  BY <1>1, <1>2, <1>3, <1>4 DEF Atomic!Updated, Atomic!Delta
<1>6. Atomic!Updated \subseteq Names
  BY <1>4, FieldsFacts DEF Atomic!Updated
<1>7. sizes[position] \in Nat /\ sizes[position + 1] \in Nat
  BY <1>1, StateFacts
<1> QED BY <1>1, <1>2, <1>3, <1>4, <1>5, <1>6, <1>7

\* No registry of a checkpoint is too long, which an induction shows: the
\* registry grows by at most MaxDeposits from one checkpoint to the next.
LEMMA SizesFit ==
  ASSUME IInv
  PROVE  /\ TooLong \in Nat
         /\ \A k \in 1..Len(forks) : sizes[k] \in 1..TooLong
<1> DEFINE S == {n \in Nat : n + 1 \in 1..Len(forks) =>
                   sizes[n + 1] \in sizes[1]..(sizes[1] + MaxDeposits * n)}
<1>1. /\ MaxDeposits \in Nat /\ MaxCheckpoints \in Nat
      /\ Len(forks) \in Nat \ {0} /\ Len(forks) <= MaxCheckpoints
      /\ \A k \in 1..Len(forks) : sizes[k] \in Nat
      /\ sizes[1] \in Nat \ {0}
  <2>1. Len(forks) \in Nat \ {0} /\ \A k \in 1..Len(forks) : sizes[k] \in Nat
    BY StateFacts
  <2>2. Len(forks) <= MaxCheckpoints /\ sizes[1] > 0
    BY DEF IInv, ArchiveKept
  <2>3. 1 \in 1..Len(forks)
    BY <2>1
  <2>4. MaxDeposits \in Nat /\ MaxCheckpoints \in Nat
    BY DeltaAssumption, InterruptAssumption
  <2> QED BY <2>1, <2>2, <2>3, <2>4
<1>2. 0 \in S
  BY <1>1
<1>3. ASSUME NEW n \in Nat, n \in S
      PROVE  n + 1 \in S
  <2> SUFFICES ASSUME n + 2 \in 1..Len(forks)
               PROVE  sizes[n + 2] \in
                        sizes[1]..(sizes[1] + MaxDeposits * (n + 1))
    <3>1. (n + 1) + 1 = n + 2 /\ n + 1 \in Nat
      OBVIOUS
    <3> QED BY <3>1
  <2>1. n + 1 \in 1..(Len(forks) - 1) /\ n + 1 \in 1..Len(forks)
    BY <1>1
  <2>2. /\ sizes[n + 1] \in Nat /\ sizes[n + 2] \in Nat
        /\ sizes[n + 2] - sizes[n + 1] \in 0..MaxDeposits
    <3>1. Added(n + 1) \in 0..MaxDeposits
      BY <2>1 DEF IInv, ArchiveKept
    <3>2. (n + 1) + 1 = n + 2
      OBVIOUS
    <3> QED BY <1>1, <2>1, <3>1, <3>2 DEF Added
  <2>3. sizes[n + 1] \in sizes[1]..(sizes[1] + MaxDeposits * n)
    BY <1>3, <2>1
  <2>4. MaxDeposits * (n + 1) = MaxDeposits * n + MaxDeposits
    BY <1>1
  <2>5. MaxDeposits * n \in Nat
    BY <1>1
  <2> QED BY <1>1, <2>2, <2>3, <2>4, <2>5
<1>4. Nat \subseteq S
  <2> HIDE DEF S
  <2> QED BY <1>2, <1>3, SetInduction
<1>5. MaxDeposits * MaxCheckpoints \in Nat
  BY <1>1
<1>6. ASSUME NEW k \in 1..Len(forks)
      PROVE  sizes[k] \in 1..TooLong
  <2>1. k - 1 \in Nat /\ (k - 1) + 1 = k /\ k - 1 <= MaxCheckpoints
    BY <1>1
  <2>2. sizes[k] \in sizes[1]..(sizes[1] + MaxDeposits * (k - 1))
    <3>1. k - 1 \in S
      BY <1>4, <2>1
    <3> QED BY <2>1, <3>1
  <2>3. /\ MaxDeposits * (k - 1) \in Nat
        /\ MaxDeposits * (k - 1) <= MaxDeposits * MaxCheckpoints
    <3> HIDE DEF S
    <3>1. \A m \in Nat : MaxDeposits * m \in Nat
      BY <1>1
    <3>2. MaxCheckpoints - (k - 1) \in Nat
      BY <1>1, <2>1
    <3>3. MaxDeposits * MaxCheckpoints
            = MaxDeposits * (k - 1) + MaxDeposits * (MaxCheckpoints - (k - 1))
      BY <1>1, <2>1
    <3> QED BY <1>1, <1>5, <2>1, <3>1, <3>2, <3>3
  <2> QED BY <1>1, <1>5, <2>2, <2>3 DEF TooLong
<1> QED BY <1>1, <1>5, <1>6 DEF TooLong

-----------------------------------------------------------------------------
(* The initial states.                                                     *)

\* Between two calls no field has been gone past.
LEMMA NothingPast ==
  ASSUME step = 0
  PROVE  Past = {} /\ ~Writing
BY OrderValues DEF Past, Writing

LEMMA InitialState ==
  ASSUME Init
  PROVE  /\ debug \in BOOLEAN /\ debug \in Builds /\ fork \in Forks
         /\ forks = <<fork>> /\ archive = <<>> /\ position = 1
         /\ result = "none" /\ replica = before /\ sizes = <<1>>
         /\ replica.fork = fork
         /\ replica = [fork |-> replica.fork, values |-> replica.values]
         /\ replica.values = [f \in FieldsOf(fork) |-> 1]
         /\ lengths = [f \in Counted \cap FieldsOf(fork) |-> 1]
         /\ step = 0 /\ beyond = 0 /\ interrupted = <<>>
<1>1. /\ debug \in Builds /\ fork \in Forks
      /\ forks = <<fork>> /\ archive = <<>> /\ position = 1
      /\ result = "none"
      /\ before = [fork |-> fork, values |-> [f \in FieldsOf(fork) |-> 1]]
  BY SameFieldsOf DEF Init, Atomic!Init
<1>2. debug \in BOOLEAN
  BY <1>1, DeltaAssumption
<1>3. /\ replica = before /\ sizes = <<1>>
      /\ lengths = [f \in Counted \cap FieldsOf(fork) |-> 1]
      /\ step = 0 /\ beyond = 0 /\ interrupted = <<>>
  BY DEF Init
<1> QED BY <1>1, <1>2, <1>3

LEMMA InitTypeOK ==
  ASSUME Init
  PROVE  TypeOK
<1> USE InitialState
<1>1. Len(forks) = 1 /\ Len(archive) = 0 /\ Len(sizes) = 1 /\ sizes[1] = 1
  OBVIOUS
<1>2. Atomic!TypeOK
  <2>1. forks \in Seq(Forks) /\ archive \in Seq(Atomic!Deltas)
    <3>1. fork \in Forks /\ forks = <<fork>> /\ archive = <<>>
      OBVIOUS
    <3>2. <<fork>> \in Seq(Forks) /\ <<>> \in Seq(Atomic!Deltas)
      BY <3>1, EmptySeq
    <3> QED BY <3>1, <3>2
  <2>2. before.fork \in Forks
    OBVIOUS
  <2>3. before.values \in [Atomic!FieldsOf(before.fork) -> Nat \cup {Garbled}]
    BY SameFieldsOf
  <2> QED BY <1>1, <2>1, <2>2, <2>3 DEF Atomic!TypeOK
<1>3. TooLong \in Nat /\ 1 \in 1..TooLong
  <2>1. MaxDeposits * MaxCheckpoints \in Nat
    BY DeltaAssumption, InterruptAssumption
  <2> QED BY <1>1, <2>1 DEF TooLong
<1>4. replica.values \in [FieldsOf(replica.fork) -> Nat \cup {Garbled}]
  OBVIOUS
<1>5. lengths \in [Counted \cap FieldsOf(replica.fork) -> 1..TooLong]
  BY <1>3
<1>6. sizes \in Seq(Nat) /\ interrupted \in Seq([delta: Nat, at: 1..Done])
  <2>1. <<1>> \in Seq(Nat) /\ <<>> \in Seq([delta: Nat, at: 1..Done])
    BY EmptySeq
  <2>2. sizes = <<1>> /\ interrupted = <<>>
    OBVIOUS
  <2> QED BY <2>1, <2>2
<1>7. step \in 0..Done /\ beyond \in 0..position
  BY OrderValues
<1> QED BY <1>1, <1>2, <1>4, <1>5, <1>6, <1>7 DEF TypeOK

LEMMA InitIInv ==
  ASSUME Init
  PROVE  IInv
<1>1. TypeOK
  BY InitTypeOK
<1> USE InitialState
<1>2. Len(forks) = 1 /\ sizes[1] = 1 /\ Past = {} /\ ~Writing
  BY NothingPast
<1>3. ArchiveKept
  BY <1>2, DeltaAssumption DEF ArchiveKept
<1>4. CallValid
  BY <1>2 DEF CallValid
<1>5. WrittenKept
  BY DEF WrittenKept
<1>6. ForkBoundaryHolds
  BY DEF ForkBoundaryHolds
<1>7. InterruptedKept
  BY DEF InterruptedKept
<1>8. WrongnessExplained
  BY DEF WrongnessExplained, Explained
<1>9. LengthsKept
  <2>1. \A f \in DOMAIN lengths : LongEnough(f)
    BY <1>2 DEF LongEnough
  <2>2. "balances" \in Counted \cap FieldsOf(fork)
    BY FieldsFacts, CountedFacts DEF Counted
  <2>3. lengths["balances"] = 1
    BY <2>2
  <2>4. ~Touched("balances")
    BY DEF Touched
  <2> QED BY <1>2, <2>1, <2>3, <2>4 DEF LengthsKept
<1> QED BY <1>1, <1>3, <1>4, <1>5, <1>6, <1>7, <1>8, <1>9 DEF IInv

-----------------------------------------------------------------------------
(* Between two calls.                                                      *)

\* The caller that has seen a panic has a delta to try again.
LEMMA PanickedIsValid ==
  ASSUME IInv, result = "Panicked" \/ step # 0
  PROVE  Atomic!Valid
BY DEF IInv, CallValid

\* An open call, interrupted and to be begun again.
LEMMA TouchedFacts ==
  ASSUME IInv, NEW f, Touched(f)
  PROVE  result = "Panicked"
BY DEF IInv, InterruptedKept, Touched

\* A checkpoint, or a fork of the chain, changes nothing for the reader.
LEMMA BetweenCalls ==
  ASSUME IInv, step = 0, TypeOK', ArchiveKept',
         UNCHANGED <<debug, position, replica, before, lengths, step, beyond,
                     interrupted>>,
         Len(forks) <= Len(forks'),
         Len(forks') \in Nat,
         \A k \in 1..Len(forks) : forks'[k] = forks[k] /\ sizes'[k] = sizes[k],
         \A k \in 1..(Len(forks) - 1) : archive'[k] = archive[k],
         result = "Panicked" <=> result' = "Panicked"
  PROVE  IInv'
<1> USE DEF Atomic!Delta
<1>1. /\ position \in 1..Len(forks) /\ Len(forks) \in Nat \ {0}
      /\ before.fork = replica.fork
  BY StateFacts
<1>2. /\ \A k \in 1..(position - 1) : /\ archive'[k] = archive[k]
                                      /\ Added(k)' = Added(k)
      /\ \A k \in 1..position : forks'[k] = forks[k] /\ sizes'[k] = sizes[k]
  BY <1>1 DEF Added
<1>3. ASSUME result = "Panicked"
      PROVE  /\ Atomic!Valid /\ Atomic!Valid'
             /\ archive'[position] = archive[position]
             /\ sizes'[position + 1] = sizes[position + 1]
             /\ Added(position)' = Added(position)
             /\ Atomic!Updated' = Atomic!Updated
  <2>1. Atomic!Valid
    BY <1>3, PanickedIsValid
  <2>2. /\ position \in 1..(Len(forks) - 1) /\ position + 1 \in 1..Len(forks)
    BY <2>1, ValidFacts
  <2>3. archive'[position] = archive[position]
        /\ sizes'[position + 1] = sizes[position + 1]
        /\ sizes'[position] = sizes[position]
    BY <1>1, <2>2
  <2>4. Atomic!Valid'
    <3>1. position < Len(forks')
      BY <1>1, <2>2
    <3> QED BY <2>1, <2>3, <3>1, SameFieldsOf
            DEF Atomic!Valid, Atomic!InOrder
  <2>5. Atomic!Updated' = Atomic!Updated
    BY <2>3 DEF Atomic!Updated
  <2>6. Added(position)' = Added(position)
    BY <2>3 DEF Added
  <2> QED BY <2>1, <2>3, <2>4, <2>5, <2>6
<1>4. Past = {} /\ Past' = {} /\ ~Writing'
  BY NothingPast DEF Past, Writing
<1>5. CallValid'
  <2>1. result' = "Panicked" => Atomic!Valid'
    BY <1>3
  <2>2. \A state \in {replica, before} :
          state = [fork |-> replica.fork, values |-> state.values]
    BY DEF IInv, CallValid
  <2> QED BY <1>4, <2>1, <2>2 DEF CallValid
<1>6. WrittenKept'
  BY DEF IInv, WrittenKept
<1>7. ForkBoundaryHolds'
  BY <1>1, <1>2 DEF IInv, ForkBoundaryHolds
<1>8. InterruptedKept'
  BY DEF IInv, InterruptedKept
<1>9. ASSUME NEW f
      PROVE  /\ WasMissing(f)' <=> WasMissing(f)
             /\ WasRepeated(f)' <=> WasRepeated(f)
             /\ Touched(f)' <=> Touched(f)
             /\ StuckAt(f)' <=> StuckAt(f)
  <2>1. WasMissing(f)' <=> WasMissing(f)
    BY <1>2 DEF WasMissing
  <2>2. WasRepeated(f)' <=> WasRepeated(f)
    <3>1. \A i \in DOMAIN interrupted :
            interrupted[i].delta < position
              => interrupted[i].delta \in 1..(position - 1)
      BY <1>1 DEF IInv, InterruptedKept
    <3>2. \A i \in DOMAIN interrupted :
            interrupted[i].delta < position =>
              /\ archive'[interrupted[i].delta] = archive[interrupted[i].delta]
              /\ Added(interrupted[i].delta)' = Added(interrupted[i].delta)
      BY <1>2, <3>1
    <3> QED BY <3>2 DEF WasRepeated
  <2>3. Touched(f)' <=> Touched(f)
    BY DEF Touched
  <2>4. StuckAt(f)' <=> StuckAt(f)
    BY <1>1, <1>2, <1>3, <1>4 DEF StuckAt
  <2> QED BY <2>1, <2>2, <2>3, <2>4
<1>10. WrongnessExplained'
  <2> SUFFICES ASSUME NEW f \in DOMAIN replica.values
               PROVE  Explained(f)'
    BY DEF WrongnessExplained
  <2>1. Explained(f)
    BY DEF IInv, WrongnessExplained
  <2>2. Touched(f) => result = "Panicked"
    BY TouchedFacts
  <2> QED BY <1>3, <1>4, <1>9, <2>1, <2>2 DEF Explained
<1>11. LengthsKept'
  <2>1. ASSUME NEW f \in DOMAIN lengths
        PROVE  LongEnough(f)'
    <3>1. LongEnough(f)
      BY DEF IInv, LengthsKept
    <3> QED BY <1>1, <1>2, <1>4, <3>1 DEF LongEnough
  <2>2. ASSUME debug
        PROVE  lengths["balances"]
                 = (sizes[IF "balances" \in Past \/ Touched("balances")
                          THEN position + 1 ELSE position])'
    <3>1. lengths["balances"]
            = sizes[IF "balances" \in Past \/ Touched("balances")
                    THEN position + 1 ELSE position]
      BY <2>2 DEF IInv, LengthsKept
    <3>2. Touched("balances") => sizes'[position + 1] = sizes[position + 1]
      BY <1>3, TouchedFacts
    <3> QED BY <1>1, <1>2, <1>4, <1>9, <3>1, <3>2
  <2> QED BY <2>1, <2>2 DEF LengthsKept
<1> QED BY <1>5, <1>6, <1>7, <1>8, <1>10, <1>11 DEF IInv

\* What the type invariant says of the variables one by one.
LEMMA TypeParts ==
  ASSUME TypeOK
  PROVE  /\ debug \in Builds /\ fork \in Forks
         /\ forks \in Seq(Forks) /\ archive \in Seq(Deltas)
         /\ Len(archive) = Len(forks) - 1
         /\ position \in 1..Len(forks)
         /\ before.fork \in Forks
         /\ before.values \in [FieldsOf(before.fork) -> Nat \cup {Garbled}]
         /\ result \in {"none", "Ok", "Panicked"} \cup Atomic!Refusals
         /\ replica.values \in [FieldsOf(replica.fork) -> Nat \cup {Garbled}]
         /\ sizes \in Seq(Nat) /\ Len(sizes) = Len(forks)
         /\ lengths \in [Counted \cap FieldsOf(replica.fork) -> 1..TooLong]
         /\ step \in 0..Done /\ beyond \in 0..position
         /\ interrupted \in Seq([delta: Nat, at: 1..Done])
BY SameDeltas, SameFieldsOf DEF TypeOK, Atomic!TypeOK

\* The chain goes on to the next of the forks.
LEMMA ForkKeeps ==
  ASSUME IInv, Fork
  PROVE  IInv'
<1>1. /\ step = 0
      /\ \E later \in Forks : later > fork
      /\ fork' = Atomic!Min({later \in Forks : later > fork})
      /\ UNCHANGED <<debug, forks, archive, position, before, result>>
      /\ UNCHANGED <<sizes, replica, lengths, step, beyond, interrupted>>
  BY DEF Fork, Atomic!Fork
<1>2. fork' \in Forks
  <2> DEFINE S == {later \in Forks : later > fork}
  <2>1. S \subseteq Nat /\ S # {} /\ S \subseteq Forks
    BY <1>1, ForksAreNaturals
  <2>2. fork' = Min(S)
    BY <1>1 DEF Atomic!Min, Min
  <2> HIDE DEF S
  <2> QED BY <2>1, <2>2, LeastExists
<1>3. TypeOK
  BY DEF IInv
<1>4. TypeOK'
  BY <1>1, <1>2, <1>3 DEF TypeOK, Atomic!TypeOK, TooLong
<1>5. ArchiveKept'
  BY <1>1 DEF IInv, ArchiveKept, Added
<1>6. Len(forks) \in Nat
  BY StateFacts
<1> QED BY <1>1, <1>4, <1>5, <1>6, BetweenCalls

\* A refused delta was no delta of a call that panicked.
LEMMA RefuseKeeps ==
  ASSUME IInv, Refuse
  PROVE  IInv'
<1>1. /\ step = 0
      /\ UNCHANGED <<debug, fork, forks, archive, position, before>>
      /\ UNCHANGED <<sizes, replica, lengths, step, beyond, interrupted>>
      /\ result' \in Atomic!Refusals
  BY DEF Refuse, Atomic!RejectFork, Atomic!RejectField, Atomic!client,
         Atomic!Refusals
<1>2. ~Atomic!Valid
  BY DEF Refuse, Atomic!RejectFork, Atomic!RejectField, Atomic!Valid
<1>3. result # "Panicked"
  BY <1>2, PanickedIsValid
<1>4. result' # "Panicked"
  BY <1>1 DEF Atomic!Refusals
<1>5. TypeOK
  BY DEF IInv
<1>6. TypeOK'
  BY <1>1, <1>5 DEF TypeOK, Atomic!TypeOK, TooLong
<1>7. ArchiveKept'
  BY <1>1 DEF IInv, ArchiveKept, Added
<1>8. Len(forks) \in Nat
  BY StateFacts
<1> QED BY <1>1, <1>3, <1>4, <1>6, <1>7, <1>8, BetweenCalls

\* Slips concern the fields that not every fork has.
LEMMA PresentedFacts ==
  ASSUME NEW f, NEW fields \in Atomic!Presented(f)
  PROVE  Universal \subseteq fields /\ fields \subseteq Names
<1>1. PICK slip \in SUBSET Slips :
        fields = Atomic!SymDiff(Atomic!FieldsOf(f), slip)
  BY DEF Atomic!Presented
<1>2. Slips \subseteq Optional
  BY DeltaAssumption
<1>3. Optional \cap Universal = {}
  BY DEF Optional, Universal, UntilAltair, UntilCapella, SinceAltair,
         SinceCapella, SinceElectra
<1>4. fields = {x \in FieldsOf(f) \cup slip :
                  x \notin FieldsOf(f) \/ x \notin slip}
  BY <1>1, SameFieldsOf DEF Atomic!SymDiff
<1> QED BY <1>2, <1>3, <1>4, FieldsFacts DEF Names

\* A debug build has compared the fields with the fork; any build stamps the
\* delta with the fork of its target.
LEMMA CheckpointKeeps ==
  ASSUME IInv, NEW fields \in Atomic!Presented(fork),
         NEW added \in 0..MaxDeposits, Checkpoint(fields, added)
  PROVE  IInv'
<1> DEFINE delta == [fork |-> fork, fields |-> fields]
           size == sizes[Len(sizes)] + added
<1>1. /\ step = 0 /\ Len(forks) < MaxCheckpoints
      /\ forks' = Append(forks, fork)
      /\ archive' = Append(archive, delta)
      /\ sizes' = Append(sizes, size)
      /\ UNCHANGED <<debug, fork, position, before, result>>
      /\ UNCHANGED <<replica, lengths, step, beyond, interrupted>>
  BY DEF Checkpoint, Atomic!Create
<1>2. debug => \A f \in Asserted : f \in fields <=> f \in FieldsOf(fork)
  BY SameFields, SameFieldsOf DEF Checkpoint, Atomic!Create
<1>3. Universal \subseteq fields /\ fields \subseteq Names
  BY PresentedFacts
<1>4. TypeOK
  BY DEF IInv
<1>5. /\ forks \in Seq(Forks) /\ archive \in Seq(Deltas) /\ sizes \in Seq(Nat)
      /\ Len(archive) = Len(forks) - 1 /\ Len(sizes) = Len(forks)
      /\ Len(forks) \in Nat \ {0} /\ fork \in Forks
      /\ position \in 1..Len(forks) /\ MaxDeposits \in Nat
      /\ MaxCheckpoints \in Nat
  BY <1>4, TypeParts, StateFacts, DeltaAssumption, InterruptAssumption
<1>6. delta \in Deltas
  BY <1>3, <1>5 DEF Deltas, Names
<1>7. sizes[Len(sizes)] \in Nat /\ size \in Nat
  <2>1. Len(sizes) \in 1..Len(forks)
    BY <1>5
  <2> QED BY <1>5, <2>1, StateFacts, SMTT(30)
<1> HIDE DEF delta, size
<1>8. /\ forks' \in Seq(Forks) /\ Len(forks') = Len(forks) + 1
      /\ forks'[Len(forks) + 1] = fork
      /\ \A k \in 1..Len(forks) : forks'[k] = forks[k]
  BY <1>1, <1>5, AppendProperties
<1>9. /\ archive' \in Seq(Deltas) /\ Len(archive') = Len(forks)
      /\ archive'[Len(forks)] = delta
      /\ \A k \in 1..(Len(forks) - 1) : archive'[k] = archive[k]
  <2>1. Len(archive) + 1 = Len(forks)
    BY <1>5
  <2>2. /\ archive' \in Seq(Deltas) /\ Len(archive') = Len(archive) + 1
        /\ archive'[Len(archive) + 1] = delta
        /\ \A k \in 1..Len(archive) : archive'[k] = archive[k]
    BY <1>1, <1>5, <1>6, AppendProperties
  <2> QED BY <1>5, <2>1, <2>2
<1>10. /\ sizes' \in Seq(Nat) /\ Len(sizes') = Len(forks) + 1
       /\ sizes'[Len(forks) + 1] = size
       /\ \A k \in 1..Len(forks) : sizes'[k] = sizes[k]
  <2>1. /\ sizes' \in Seq(Nat) /\ Len(sizes') = Len(sizes) + 1
        /\ sizes'[Len(sizes) + 1] = size
        /\ \A k \in 1..Len(sizes) : sizes'[k] = sizes[k]
    <3>1. sizes \in Seq(Nat) /\ size \in Nat /\ sizes' = Append(sizes, size)
      BY <1>1, <1>5, <1>7
    <3> QED BY <3>1, AppendProperties
  <2> QED BY <1>5, <2>1
<1>11. TooLong' = TooLong
  <2>1. sizes'[1] = sizes[1]
    BY <1>5, <1>10
  <2> QED BY <2>1 DEF TooLong
<1>12. TypeOK'
  <2>1. /\ Len(archive') = Len(forks') - 1 /\ Len(sizes') = Len(forks')
        /\ position \in 1..Len(forks')
    BY <1>5, <1>8, <1>9, <1>10
  <2>2. /\ debug \in Builds
        /\ before.fork \in Forks
        /\ before.values \in [FieldsOf(before.fork) -> Nat \cup {Garbled}]
        /\ result \in {"none", "Ok", "Panicked"} \cup Atomic!Refusals
    BY <1>4, TypeParts
  <2>3. Atomic!TypeOK'
    BY <1>1, <1>5, <1>8, <1>9, <2>1, <2>2, SameDeltas, SameFieldsOf
       DEF Atomic!TypeOK
  <2>4. /\ replica.values \in [FieldsOf(replica.fork) -> Nat \cup {Garbled}]
        /\ lengths \in [Counted \cap FieldsOf(replica.fork) -> 1..TooLong]
        /\ step \in 0..Done /\ beyond \in 0..position
        /\ interrupted \in Seq([delta: Nat, at: 1..Done])
    BY <1>4, TypeParts
  <2> QED BY <1>1, <1>10, <1>11, <2>1, <2>3, <2>4 DEF TypeOK
<1>13. ArchiveKept'
  <2>1. Len(forks') <= MaxCheckpoints
    BY <1>1, <1>5, <1>8
  <2>2. ASSUME NEW k \in 1..(Len(forks') - 1)
        PROVE  /\ archive'[k].fork = forks'[k + 1]
               /\ Universal \subseteq archive'[k].fields
               /\ debug => \A f \in Asserted :
                     f \in archive'[k].fields <=> f \in FieldsOf(forks'[k + 1])
               /\ sizes'[k + 1] - sizes'[k] \in 0..MaxDeposits
    <3>1. CASE k = Len(forks)
      <4>1. archive'[k] = [fork |-> fork, fields |-> fields]
            /\ forks'[k + 1] = fork
        BY <1>8, <1>9, <3>1 DEF delta
      <4>2. sizes'[k + 1] - sizes'[k] \in 0..MaxDeposits
        <5>1. sizes'[k + 1] = size /\ sizes'[k] = sizes[Len(sizes)]
          BY <1>5, <1>10, <3>1
        <5>2. added \in Int
          BY <1>5
        <5>3. size - sizes[Len(sizes)] = added
          BY <1>7, <5>2 DEF size
        <5> QED BY <5>1, <5>3
      <4> QED BY <1>2, <1>3, <4>1, <4>2
    <3>2. CASE k # Len(forks)
      <4>1. k \in 1..(Len(forks) - 1) /\ k + 1 \in 1..Len(forks)
            /\ k \in 1..Len(forks)
        BY <1>5, <1>8, <3>2, SMTT(30)
      <4>2. /\ archive'[k] = archive[k] /\ forks'[k + 1] = forks[k + 1]
            /\ sizes'[k] = sizes[k] /\ sizes'[k + 1] = sizes[k + 1]
        BY <1>8, <1>9, <1>10, <4>1
      <4>3. /\ archive[k].fork = forks[k + 1]
            /\ Universal \subseteq archive[k].fields
            /\ debug => \A f \in Asserted :
                   f \in archive[k].fields <=> f \in FieldsOf(forks[k + 1])
            /\ sizes[k + 1] - sizes[k] \in 0..MaxDeposits
        BY <4>1 DEF IInv, ArchiveKept, Added
      <4> QED BY <4>2, <4>3
    <3> QED BY <3>1, <3>2
  <2>3. sizes'[1] > 0
    <3>1. sizes'[1] = sizes[1]
      BY <1>5, <1>10
    <3> QED BY <3>1 DEF IInv, ArchiveKept
  <2> QED BY <1>1, <2>1, <2>2, <2>3 DEF ArchiveKept, Added
<1>14. Len(forks) <= Len(forks') /\ Len(forks') \in Nat
  BY <1>5, <1>8
<1>15. \A k \in 1..Len(forks) : forks'[k] = forks[k] /\ sizes'[k] = sizes[k]
  BY <1>8, <1>10
<1> QED BY <1>1, <1>9, <1>12, <1>13, <1>14, <1>15, BetweenCalls

-----------------------------------------------------------------------------
(* A call.                                                                 *)

LEMMA MinOfTwo ==
  ASSUME NEW a \in Nat, NEW b \in Nat
  PROVE  Min({a, b}) = IF a <= b THEN a ELSE b
<1> DEFINE S == {a, b}
<1>1. S \subseteq Nat /\ S # {} /\ a \in S /\ b \in S
      /\ \A m \in S : m = a \/ m = b
  OBVIOUS
<1> HIDE DEF S
<1>2. Min(S) \in S /\ Min(S) <= a /\ Min(S) <= b
  BY <1>1, LeastExists
<1>3. Min(S) = a \/ Min(S) = b
  BY <1>1, <1>2
<1>4. Min(S) = IF a <= b THEN a ELSE b
  BY <1>2, <1>3
<1> QED BY <1>4 DEF S

\* The field about to be written.
LEMMA WritingFacts ==
  ASSUME IInv, Writing
  PROVE  /\ Atomic!Valid /\ step \in 1..Len(Order) /\ step # 0
         /\ Field \in Atomic!Updated /\ Field \notin Past
         /\ Field \in DOMAIN replica.values
         /\ replica.values[Field] = before.values[Field]
         /\ Field \in Counted => Field \in DOMAIN lengths
<1>1. step \in 1..Len(Order) /\ step # 0
  BY OrderValues DEF Writing
<1>2. Atomic!Valid /\ Field \in Atomic!Updated
  BY <1>1 DEF IInv, CallValid
<1>3. Field \notin Past
  BY <1>1, PastFacts DEF Past, Field
<1>4. /\ Field \in DOMAIN before.values
      /\ DOMAIN before.values = FieldsOf(replica.fork)
      /\ DOMAIN replica.values = FieldsOf(replica.fork)
      /\ DOMAIN lengths = Counted \cap FieldsOf(replica.fork)
  BY <1>2, StateFacts DEF Atomic!Updated
<1>5. replica.values[Field] = before.values[Field]
  BY <1>1, <1>3, <1>4 DEF IInv, WrittenKept
<1> QED BY <1>1, <1>2, <1>3, <1>4, <1>5

\* A list that is written gets the length of the next checkpoint if it had
\* that of its own, and is no shorter if it was no shorter.
LEMMA NewLengthsFacts ==
  ASSUME IInv, Writing, Field \in Counted, NEW n \in NewLengths
  PROVE  /\ n \in 1..TooLong
         /\ lengths[Field] >= sizes[position] => n >= sizes[position + 1]
         /\ Field = "balances" /\ lengths[Field] = sizes[position]
              => n = sizes[position + 1]
<1> DEFINE now == lengths[Field]
           small == sizes[position]
           large == sizes[position + 1]
<1>1. /\ Added(position) = large - small
      /\ Added(position) \in 0..MaxDeposits
      /\ position \in 1..Len(forks) /\ position + 1 \in 1..Len(forks)
  BY WritingFacts, ValidFacts, StateFacts DEF Added
<1>2. /\ TooLong \in Nat
      /\ small \in 1..TooLong /\ large \in 1..TooLong
  BY <1>1, SizesFit
<1>3. now \in 1..TooLong
  <2>1. Field \in DOMAIN lengths
    BY WritingFacts
  <2>2. lengths \in [Counted \cap FieldsOf(replica.fork) -> 1..TooLong]
    BY StateFacts
  <2> QED BY <2>1, <2>2
<1>4. \/ n = Min({now + Added(position), TooLong})
      \/ Field = "inactivity_scores" /\ n = large
  BY DEF NewLengths
<1> HIDE DEF now, small, large
<1>5. MaxDeposits \in Nat /\ Added(position) \in Nat
  BY <1>1, InterruptAssumption
<1>6. now + Added(position) \in Nat
  BY <1>2, <1>3, <1>5
<1>7. Min({now + Added(position), TooLong})
        = IF now + Added(position) <= TooLong
          THEN now + Added(position) ELSE TooLong
  BY <1>2, <1>6, MinOfTwo
<1>8. n \in 1..TooLong
  <2>1. CASE n = large
    BY <1>2, <2>1
  <2>2. CASE n = Min({now + Added(position), TooLong})
    <3> DEFINE more == now + Added(position)
    <3>1. more \in Nat /\ more > 0
      BY <1>2, <1>3, <1>5
    <3> HIDE DEF more
    <3>2. n = IF more <= TooLong THEN more ELSE TooLong
      BY <1>7, <2>2 DEF more
    <3>3. TooLong > 0
      BY <1>2
    <3> QED BY <1>2, <3>1, <3>2, <3>3
  <2> QED BY <1>4, <2>1, <2>2
<1>9. now >= small => n >= large
  BY <1>1, <1>2, <1>3, <1>4, <1>5, <1>7
<1>10. Field = "balances" /\ now = small => n = large
  BY <1>1, <1>2, <1>3, <1>4, <1>5, <1>7
<1> QED BY <1>8, <1>9, <1>10 DEF now, small, large

\* What does not change as long as the client and the position do not.
LEMMA SameArchive ==
  ASSUME IInv, UNCHANGED client
  PROVE  /\ ArchiveKept' /\ TooLong' = TooLong
         /\ \A k : Added(k)' = Added(k)
<1>1. TooLong' = TooLong
  BY DEF client, TooLong
<1>2. ASSUME NEW k
      PROVE  Added(k)' = Added(k)
  BY DEF client, Added
<1>3. ArchiveKept'
  BY <1>2 DEF IInv, client, ArchiveKept
<1> QED BY <1>1, <1>2, <1>3

\* The calls of the past, as long as the position and the interrupted calls
\* do not change.
LEMMA SamePast ==
  ASSUME IInv, UNCHANGED <<client, position, interrupted>>, NEW f
  PROVE  /\ WasMissing(f)' <=> WasMissing(f)
         /\ WasRepeated(f)' <=> WasRepeated(f)
         /\ Touched(f)' <=> Touched(f)
<1>1. \A k : Added(k)' = Added(k)
  BY SameArchive
<1>2. WasMissing(f)' <=> WasMissing(f)
  BY DEF client, WasMissing
<1>3. WasRepeated(f)' <=> WasRepeated(f)
  BY <1>1 DEF client, WasRepeated
<1>4. Touched(f)' <=> Touched(f)
  BY DEF Touched
<1> QED BY <1>2, <1>3, <1>4

\* A call begins with the first field to be written.
LEMMA BeginKeeps ==
  ASSUME IInv, Begin
  PROVE  IInv'
<1>1. /\ step = 0 /\ Atomic!Valid /\ step' = Following(0)
      /\ UNCHANGED <<client, position, result, replica, before, lengths,
                     beyond, interrupted>>
  BY DEF Begin
<1>2. UNCHANGED <<debug, fork, forks, archive, sizes>>
  BY <1>1 DEF client
<1>3. /\ ArchiveKept' /\ TooLong' = TooLong /\ \A k : Added(k)' = Added(k)
  BY <1>1, SameArchive
<1>4. /\ step' \in 1..Done
      /\ step' # Done => Order[step'] \in Atomic!Updated
      /\ {Order[n] : n \in 1..(step' - 1)} \cap Atomic!Updated = {}
  <2>1. 0 \in 0..Len(Order) /\ 1 \in 1..Len(Order) /\ 0 + 1 = 1
    BY OrderValues
  <2> QED BY <1>1, <2>1, FollowingFacts, PastFacts
<1>5. Past = {} /\ Past' \cap Atomic!Updated = {}
  BY <1>1, <1>4, NothingPast DEF Past
<1>6. Atomic!Updated' = Atomic!Updated /\ Atomic!Valid'
  BY <1>1, <1>2 DEF Atomic!Updated, Atomic!Delta, Atomic!Valid,
                    Atomic!InOrder
<1>7. TypeOK'
  <2>1. TypeOK /\ step' \in 0..Done
    BY <1>4, OrderValues DEF IInv
  <2>2. Atomic!TypeOK'
    BY <1>1, <1>2, <2>1 DEF TypeOK, Atomic!TypeOK
  <2> QED BY <1>1, <1>2, <1>3, <2>1, <2>2 DEF TypeOK
<1>8. CallValid'
  <2>1. Writing' => Field' \in Atomic!Updated
    BY <1>4, OrderValues DEF Writing, Field
  <2>2. \A state \in {replica, before} :
          state = [fork |-> replica.fork, values |-> state.values]
    BY DEF IInv, CallValid
  <2> QED BY <1>1, <1>6, <2>1, <2>2 DEF CallValid
<1>9. WrittenKept'
  <2>1. replica = before
    BY <1>1 DEF IInv, WrittenKept
  <2>2. \A f \in DOMAIN before.values : ~(f \in Past' /\ f \in Atomic!Updated')
    BY <1>5, <1>6
  <2>3. step' # 0
    BY <1>4
  <2> QED BY <1>1, <2>1, <2>2, <2>3 DEF WrittenKept
<1>10. ForkBoundaryHolds'
  BY <1>1, <1>2 DEF IInv, ForkBoundaryHolds
<1>11. InterruptedKept'
  BY <1>1 DEF IInv, InterruptedKept
<1>12. WrongnessExplained'
  <2> SUFFICES ASSUME NEW f \in DOMAIN replica.values
               PROVE  Explained(f)'
    BY <1>1 DEF WrongnessExplained
  <2>1. Explained(f)
    BY DEF IInv, WrongnessExplained
  <2>2. ASSUME NEW stuck \in Counted, StuckAt(stuck)
        PROVE  StuckAt(stuck)'
    BY <1>1, <1>2, <1>5, <1>6, <2>2 DEF StuckAt
  <2>3. /\ WasMissing(f)' <=> WasMissing(f)
        /\ WasRepeated(f)' <=> WasRepeated(f)
        /\ Touched(f)' <=> Touched(f)
    BY <1>1, SamePast
  <2> QED BY <1>1, <1>3, <1>5, <1>6, <2>1, <2>2, <2>3 DEF Explained
<1>13. LengthsKept'
  <2>1. ASSUME NEW f \in DOMAIN lengths
        PROVE  LongEnough(f)'
    <3>1. LongEnough(f)
      BY DEF IInv, LengthsKept
    <3> QED BY <1>1, <1>2, <1>3, <1>5, <1>6, <3>1 DEF LongEnough
  <2>2. "balances" \in Atomic!Updated
    BY <1>1, ValidFacts, CountedFacts
  <2>3. Touched("balances")' <=> Touched("balances")
    BY <1>1, SamePast
  <2>4. \A f \in DOMAIN lengths' : LongEnough(f)'
    BY <1>1, <2>1
  <2>5. ASSUME debug
        PROVE  lengths'["balances"]
                 = sizes'[IF "balances" \in Past' \/ Touched("balances")'
                          THEN position' + 1 ELSE position']
    <3>1. lengths["balances"]
            = sizes[IF "balances" \in Past \/ Touched("balances")
                    THEN position + 1 ELSE position]
      BY <2>5 DEF IInv, LengthsKept
    <3>2. "balances" \notin Past' /\ "balances" \notin Past
      BY <1>5, <2>2
    <3> QED BY <1>1, <1>2, <2>3, <3>1, <3>2
  <2> QED BY <1>2, <2>4, <2>5 DEF LengthsKept
<1> QED BY <1>3, <1>7, <1>8, <1>9, <1>10, <1>11, <1>12, <1>13 DEF IInv

\* A field that is written is either fit for the delta, and then those of the
\* call of StateDelta, or spoilt, and then it was explained before.
LEMMA WriteFacts ==
  ASSUME IInv, Write
  PROVE  /\ UNCHANGED <<debug, fork, forks, archive, sizes>>
         /\ UNCHANGED <<position, result, before, beyond, interrupted>>
         /\ step' = Following(step) /\ step' \in 1..Done
         /\ step' # Done => Order[step'] \in Atomic!Updated
         /\ \A f : f \in Past' /\ f \in Atomic!Updated
                     <=> (f \in Past /\ f \in Atomic!Updated) \/ f = Field
         /\ DOMAIN lengths' = DOMAIN lengths
         /\ \A f \in DOMAIN lengths : f # Field => lengths'[f] = lengths[f]
         /\ Field \in Counted => lengths'[Field] \in NewLengths
         /\ ~AssertionFails
         /\ ~(MayLackEntries /\ beyond = position)
<1>1. /\ UNCHANGED <<client, position, result, before, beyond, interrupted>>
      /\ step' = Following(step)
      /\ ~AssertionFails
      /\ ~(MayLackEntries /\ beyond = position)
      /\ Writing
  BY DEF Write
<1>2. IF Field \in Counted
      THEN \E n \in NewLengths : lengths' = [lengths EXCEPT ![Field] = n]
      ELSE UNCHANGED lengths
  BY DEF Write
<1>3. UNCHANGED <<debug, fork, forks, archive, sizes>>
  BY <1>1 DEF client
<1>4. step \in 1..Len(Order) /\ Field \in Atomic!Updated
  BY <1>1, WritingFacts
<1>5. /\ step' \in 1..Done
      /\ step' # Done => Order[step'] \in Atomic!Updated
  <2>1. step \in 0..Len(Order)
    BY <1>4
  <2>2. /\ Following(step) \in (step + 1)..Done
        /\ Following(step) # Done => Order[Following(step)] \in Atomic!Updated
    BY <2>1, FollowingFacts
  <2>3. \A k \in (step + 1)..Done : k \in 1..Done
    BY <1>4, OrderValues
  <2> QED BY <1>1, <2>2, <2>3
<1>6. ASSUME NEW f
      PROVE  f \in Past' /\ f \in Atomic!Updated
               <=> (f \in Past /\ f \in Atomic!Updated) \/ f = Field
  <2>1. f \in {Order[n] : n \in 1..(Following(step) - 1)}
             /\ f \in Atomic!Updated
          <=> \/ f \in {Order[n] : n \in 1..(step - 1)} /\ f \in Atomic!Updated
              \/ f = Order[step] /\ f \in Atomic!Updated
    BY <1>4, PastFacts
  <2> QED BY <1>1, <1>4, <2>1 DEF Past, Field
<1>7. Field \in Counted => Field \in DOMAIN lengths
  BY <1>1, WritingFacts
<1>8. /\ DOMAIN lengths' = DOMAIN lengths
      /\ \A f \in DOMAIN lengths : f # Field => lengths'[f] = lengths[f]
      /\ Field \in Counted => lengths'[Field] \in NewLengths
  BY <1>2, <1>7
<1>9. UNCHANGED <<position, result, before, beyond, interrupted>>
  BY <1>1
<1>10. /\ step' = Following(step) /\ ~AssertionFails
       /\ ~(MayLackEntries /\ beyond = position)
  BY <1>1
<1> QED BY <1>3, <1>5, <1>6, <1>8, <1>9, <1>10

LEMMA WrittenState ==
  ASSUME IInv, Write
  PROVE  replica' = [fork |-> replica.fork,
                     values |-> [replica.values EXCEPT ![Field] =
                                   IF Sound THEN position + 1 ELSE Garbled]]
<1>1. replica = [fork |-> replica.fork, values |-> replica.values]
  BY StateFacts
<1>2. replica' = [replica EXCEPT !.values[Field] =
                    IF Sound THEN position + 1 ELSE Garbled]
  BY DEF Write
<1> QED BY <1>1, <1>2

LEMMA WriteTypeOK ==
  ASSUME IInv, Write
  PROVE  /\ TypeOK' /\ replica'.fork = replica.fork
         /\ DOMAIN replica'.values = DOMAIN replica.values
         /\ replica'.values[Field] =
              IF Sound THEN position + 1 ELSE Garbled
         /\ \A f \in DOMAIN replica.values :
              f # Field => replica'.values[f] = replica.values[f]
<1>1. Writing /\ UNCHANGED client
  BY DEF Write
<1>2. /\ UNCHANGED <<debug, fork, forks, archive, sizes>>
      /\ UNCHANGED <<position, result, before, beyond, interrupted>>
      /\ step' \in 1..Done
      /\ DOMAIN lengths' = DOMAIN lengths
      /\ \A f \in DOMAIN lengths : f # Field => lengths'[f] = lengths[f]
      /\ Field \in Counted => lengths'[Field] \in NewLengths
  BY WriteFacts
<1>3. /\ replica'.fork = replica.fork
      /\ replica'.values = [replica.values EXCEPT ![Field] =
                              IF Sound THEN position + 1 ELSE Garbled]
  BY WrittenState
<1>4. Field \in DOMAIN replica.values
  BY <1>1, WritingFacts
<1>5. /\ position \in Nat \ {0}
      /\ replica.values \in [FieldsOf(replica.fork) -> Nat \cup {Garbled}]
      /\ lengths \in [Counted \cap FieldsOf(replica.fork) -> 1..TooLong]
  BY StateFacts
<1>6. /\ DOMAIN replica'.values = DOMAIN replica.values
      /\ replica'.values[Field] = IF Sound THEN position + 1 ELSE Garbled
      /\ \A f \in DOMAIN replica.values :
           f # Field => replica'.values[f] = replica.values[f]
  BY <1>3, <1>4
<1>7. replica'.values \in [FieldsOf(replica'.fork) -> Nat \cup {Garbled}]
  <2>1. position + 1 \in Nat
    BY <1>5
  <2>2. (IF Sound THEN position + 1 ELSE Garbled) \in Nat \cup {Garbled}
    BY <2>1
  <2> DEFINE value == IF Sound THEN position + 1 ELSE Garbled
  <2> HIDE DEF value
  <2>3. replica'.values = [replica.values EXCEPT ![Field] = value]
    BY <1>3 DEF value
  <2>4. value \in Nat \cup {Garbled}
    BY <2>2 DEF value
  <2> QED BY <1>3, <1>5, <2>3, <2>4
<1>8. lengths' \in [Counted \cap FieldsOf(replica'.fork) -> 1..TooLong]
  <2>1. ASSUME NEW f \in DOMAIN lengths
        PROVE  lengths'[f] \in 1..TooLong
    <3>1. CASE f = Field
      <4>1. Field \in Counted
        BY <1>5, <3>1
      <4>2. lengths'[Field] \in NewLengths
        BY <1>2, <4>1
      <4> QED BY <1>1, <3>1, <4>1, <4>2, NewLengthsFacts
    <3>2. CASE f # Field
      BY <1>2, <1>5, <3>2
    <3> QED BY <3>1, <3>2
  <2>2. DOMAIN lengths = Counted \cap FieldsOf(replica.fork)
    BY <1>5
  <2>3. \E m : lengths' = [f \in DOMAIN lengths' |-> lengths'[f]]
    <3>1. CASE Field \in Counted
      BY <3>1 DEF Write
    <3>2. CASE Field \notin Counted
      BY <1>5, <3>2 DEF Write
    <3> QED BY <3>1, <3>2
  <2> QED BY <1>2, <1>3, <2>1, <2>2, <2>3
<1>9. TooLong' = TooLong
  BY <1>1, SameArchive
<1>10. TypeOK
  BY DEF IInv
<1>11. Atomic!TypeOK'
  BY <1>2, <1>10 DEF TypeOK, Atomic!TypeOK
<1>12. sizes \in Seq(Nat) /\ Len(sizes) = Len(forks)
       /\ beyond \in 0..position
       /\ interrupted \in Seq([delta: Nat, at: 1..Done])
       /\ step' \in 0..Done
  BY <1>2, <1>10, TypeParts, OrderValues, SMTT(30)
<1>13. TypeOK'
  BY <1>2, <1>7, <1>8, <1>9, <1>11, <1>12 DEF TypeOK
<1> QED BY <1>3, <1>6, <1>13

\* The atomic call, seen from the state a call began with, is not affected by
\* what it writes.
LEMMA SameCall ==
  ASSUME IInv, UNCHANGED <<debug, fork, forks, archive, sizes>>,
         UNCHANGED <<position, before>>
  PROVE  /\ Atomic!Updated' = Atomic!Updated
         /\ Atomic!Valid' <=> Atomic!Valid
         /\ Atomic!Sound' = Atomic!Sound
         /\ Atomic!PerhapsSound' = Atomic!PerhapsSound
BY DEF Atomic!Updated, Atomic!Delta, Atomic!Valid, Atomic!InOrder,
       Atomic!Sound, Atomic!PerhapsSound

\* Whether the field is fit for the delta was decided when the call began,
\* but for the formats that overwrite as long as they append nothing.
LEMMA SoundFacts ==
  ASSUME IInv, Writing
  PROVE  /\ Sound => Field \in Atomic!Sound \cup Atomic!PerhapsSound
         /\ ~Sound => /\ Field \notin Atomic!Sound
                      /\ replica.values[Field] # position
                      /\ Field \notin {"scalar_header"}
                      /\ replica.values[Field] = position + 1 =>
                           /\ Field \notin Overwriting
                           /\ Field \in OverwritingUnlessGrown =>
                                Added(position) > 0
<1>1. /\ Field \in Atomic!Updated
      /\ replica.values[Field] = before.values[Field]
      /\ Atomic!Valid
  BY WritingFacts
<1>2. Added(position) \in Nat
  BY <1>1, ValidFacts, InterruptAssumption
<1>3. /\ Atomic!Overwriting = Overwriting
      /\ Atomic!OverwritingUnlessGrown = OverwritingUnlessGrown
  BY SameFields
<1>4. ASSUME Sound
      PROVE  Field \in Atomic!Sound \cup Atomic!PerhapsSound
  BY <1>1, <1>3, <1>4 DEF Sound, Atomic!Sound, Atomic!PerhapsSound
<1>5. ASSUME ~Sound
      PROVE  /\ Field \notin Atomic!Sound
             /\ replica.values[Field] # position
             /\ Field \notin {"scalar_header"}
             /\ replica.values[Field] = position + 1 =>
                  /\ Field \notin Overwriting
                  /\ Field \in OverwritingUnlessGrown => Added(position) # 0
  BY <1>1, <1>3, <1>5 DEF Sound, Atomic!Sound
<1> QED BY <1>2, <1>4, <1>5

\* No field is written at which every call of the delta panics.
LEMMA StuckIsNotWritten ==
  ASSUME IInv, Write
  PROVE  ~StuckAt(Field)
<1>1. ~AssertionFails /\ ~(MayLackEntries /\ beyond = position)
  BY DEF Write
<1> QED BY <1>1 DEF StuckAt, AssertionFails, MayLackEntries

LEMMA WriteExplained ==
  ASSUME IInv, Write
  PROVE  WrongnessExplained'
<1>1. /\ UNCHANGED <<debug, fork, forks, archive, sizes>>
      /\ UNCHANGED <<position, result, before, beyond, interrupted>>
      /\ \A f : f \in Past' /\ f \in Atomic!Updated
                  <=> (f \in Past /\ f \in Atomic!Updated) \/ f = Field
      /\ \A f \in DOMAIN lengths : f # Field => lengths'[f] = lengths[f]
  BY WriteFacts
<1>2. Writing /\ UNCHANGED client
  BY DEF Write
<1>3. /\ DOMAIN replica'.values = DOMAIN replica.values
      /\ replica'.values[Field] = IF Sound THEN position + 1 ELSE Garbled
      /\ \A f \in DOMAIN replica.values :
           f # Field => replica'.values[f] = replica.values[f]
  BY WriteTypeOK
<1>4. Atomic!Updated' = Atomic!Updated
  BY <1>1, SameCall
<1>5. /\ Field \in Atomic!Updated /\ Field \notin Past
      /\ Field \in DOMAIN replica.values
  BY <1>2, WritingFacts
<1>6. Added(position)' = Added(position)
  BY <1>1 DEF Added
<1>7. ASSUME NEW stuck \in Counted, StuckAt(stuck)
      PROVE  StuckAt(stuck)'
  <2>1. stuck # Field
    BY <1>7, StuckIsNotWritten
  <2>2. stuck \in DOMAIN lengths
    BY <1>7, StateFacts DEF StuckAt, Atomic!Updated
  <2>3. stuck \in (Counted \cap Atomic!Updated) \ Past'
    BY <1>1, <1>7, <2>1 DEF StuckAt
  <2> QED BY <1>1, <1>4, <1>7, <2>1, <2>2, <2>3 DEF StuckAt
<1> SUFFICES ASSUME NEW f \in DOMAIN replica.values
             PROVE  Explained(f)'
  BY <1>3 DEF WrongnessExplained
<1>8. Explained(f)
  BY DEF IInv, WrongnessExplained
<1>9. /\ WasMissing(f)' <=> WasMissing(f)
      /\ WasRepeated(f)' <=> WasRepeated(f)
      /\ Touched(f)' <=> Touched(f)
  BY <1>1, <1>2, SamePast
<1>10. CASE f # Field
  BY <1>1, <1>3, <1>4, <1>6, <1>7, <1>8, <1>9, <1>10 DEF Explained
<1>11. CASE f = Field /\ Sound
  <2>1. f \in Past' /\ f \in Atomic!Updated'
    BY <1>1, <1>4, <1>5, <1>11
  <2>2. replica'.values[f] = position' + 1
    BY <1>1, <1>3, <1>11
  <2> QED BY <2>1, <2>2 DEF Explained
<1>12. CASE f = Field /\ ~Sound
  <2>1. /\ replica.values[f] # position /\ f \notin {"scalar_header"}
        /\ replica.values[f] = position + 1 =>
             /\ f \notin Overwriting
             /\ f \in OverwritingUnlessGrown => Added(position) > 0
    BY <1>2, <1>12, SoundFacts
  <2>2. \/ WasMissing(f) \/ WasRepeated(f)
        \/ /\ Touched(f)
           /\ f \notin Overwriting \cup {"scalar_header"}
           /\ f \in OverwritingUnlessGrown => Added(position) > 0
        \/ \E stuck \in Counted : StuckAt(stuck)
    BY <1>5, <1>8, <1>12, <2>1 DEF Explained
  <2> QED BY <1>1, <1>4, <1>5, <1>6, <1>7, <1>9, <1>12, <2>2 DEF Explained
<1> QED BY <1>10, <1>11, <1>12

LEMMA WriteWritten ==
  ASSUME IInv, Write
  PROVE  CallValid' /\ WrittenKept'
<1>1. /\ UNCHANGED <<debug, fork, forks, archive, sizes>>
      /\ UNCHANGED <<position, result, before, beyond, interrupted>>
      /\ step' \in 1..Done
      /\ step' # Done => Order[step'] \in Atomic!Updated
      /\ \A f : f \in Past' /\ f \in Atomic!Updated
                  <=> (f \in Past /\ f \in Atomic!Updated) \/ f = Field
  BY WriteFacts
<1>2. Writing
  BY DEF Write
<1>3. /\ Atomic!Updated' = Atomic!Updated
      /\ Atomic!Valid' <=> Atomic!Valid
      /\ Atomic!Sound' = Atomic!Sound
      /\ Atomic!PerhapsSound' = Atomic!PerhapsSound
  BY <1>1, SameCall
<1>4. /\ Field \in Atomic!Updated /\ Field \notin Past
      /\ Field \in DOMAIN replica.values
      /\ Atomic!Valid /\ step # 0
  BY <1>2, WritingFacts
<1>5. /\ replica'.fork = replica.fork
      /\ replica'.values[Field] = IF Sound THEN position + 1 ELSE Garbled
      /\ \A f \in DOMAIN replica.values :
           f # Field => replica'.values[f] = replica.values[f]
  BY WriteTypeOK
<1>6. DOMAIN before.values = DOMAIN replica.values
  BY StateFacts
<1>7. CallValid'
  <2>1. Writing' => Field' \in Atomic!Updated
    BY <1>1, OrderValues DEF Writing, Field
  <2>2. before = [fork |-> replica.fork, values |-> before.values]
    BY StateFacts
  <2>3. replica' = [fork |-> replica'.fork, values |-> replica'.values]
    BY WrittenState
  <2>4. \A state \in {replica', before'} :
          state = [fork |-> replica'.fork, values |-> state.values]
    BY <1>1, <1>5, <2>2, <2>3
  <2> QED BY <1>3, <1>4, <2>1, <2>4 DEF CallValid
<1>8. WrittenKept'
  <2>1. step' # 0
    BY <1>1
  <2>2. ASSUME NEW f \in DOMAIN before.values
        PROVE  IF f \in Past' /\ f \in Atomic!Updated'
               THEN \/ /\ replica'.values[f] = position' + 1
                       /\ f \in Atomic!Sound' \cup Atomic!PerhapsSound'
                    \/ replica'.values[f] = Garbled /\ f \notin Atomic!Sound'
               ELSE replica'.values[f] = before'.values[f]
    <3>1. CASE f = Field
      <4>1. /\ Sound => Field \in Atomic!Sound \cup Atomic!PerhapsSound
            /\ ~Sound => Field \notin Atomic!Sound
        BY <1>2, SoundFacts
      <4> QED BY <1>1, <1>3, <1>4, <1>5, <3>1, <4>1
    <3>2. CASE f # Field
      <4>1. IF f \in Past /\ f \in Atomic!Updated
            THEN \/ /\ replica.values[f] = position + 1
                    /\ f \in Atomic!Sound \cup Atomic!PerhapsSound
                 \/ replica.values[f] = Garbled /\ f \notin Atomic!Sound
            ELSE replica.values[f] = before.values[f]
        BY <1>4 DEF IInv, WrittenKept
      <4>2. replica'.values[f] = replica.values[f]
        BY <1>5, <1>6, <3>2
      <4> QED BY <1>1, <1>3, <3>2, <4>1, <4>2
    <3> QED BY <3>1, <3>2
  <2> QED BY <1>1, <2>1, <2>2 DEF WrittenKept
<1> QED BY <1>7, <1>8

LEMMA WriteLengths ==
  ASSUME IInv, Write
  PROVE  LengthsKept'
<1>1. /\ UNCHANGED <<debug, fork, forks, archive, sizes>>
      /\ UNCHANGED <<position, result, before, beyond, interrupted>>
      /\ \A f : f \in Past' /\ f \in Atomic!Updated
                  <=> (f \in Past /\ f \in Atomic!Updated) \/ f = Field
      /\ DOMAIN lengths' = DOMAIN lengths
      /\ \A f \in DOMAIN lengths : f # Field => lengths'[f] = lengths[f]
      /\ Field \in Counted => lengths'[Field] \in NewLengths
      /\ ~AssertionFails
  BY WriteFacts
<1>2. Writing /\ UNCHANGED client
  BY DEF Write
<1>3. Atomic!Updated' = Atomic!Updated
  BY <1>1, SameCall
<1>4. /\ Field \in Atomic!Updated /\ Field \notin Past
      /\ Field \in Counted => Field \in DOMAIN lengths
      /\ Atomic!Valid
  BY <1>2, WritingFacts
<1>5. \A k : Added(k)' = Added(k)
  BY <1>2, SameArchive
<1>6. Touched("balances")' <=> Touched("balances")
  BY <1>1, <1>2, SamePast
<1>7. "balances" \in Atomic!Updated /\ "balances" \in Counted
  BY <1>4, ValidFacts, CountedFacts DEF Counted
<1>8. DOMAIN lengths = Counted \cap FieldsOf(replica.fork)
  BY StateFacts
<1>9. ASSUME NEW f \in DOMAIN lengths
      PROVE  LongEnough(f)'
  <2>1. LongEnough(f)
    BY DEF IInv, LengthsKept
  <2>2. CASE f # Field
    BY <1>1, <1>3, <1>5, <2>1, <2>2 DEF LongEnough
  <2>3. CASE f = Field
    <3>1. Field \in Counted /\ lengths'[Field] \in NewLengths
      BY <1>1, <1>8, <2>3
    <3>2. lengths[Field] >= sizes[position]
            => lengths'[Field] >= sizes[position + 1]
      BY <1>2, <3>1, NewLengthsFacts
    <3>3. f \in Past' /\ f \in Atomic!Updated'
      BY <1>1, <1>3, <1>4, <2>3
    <3> QED BY <1>1, <1>4, <1>5, <2>1, <2>3, <3>2, <3>3 DEF LongEnough
  <2> QED BY <2>2, <2>3
<1>10. \A f \in DOMAIN lengths' : LongEnough(f)'
  BY <1>1, <1>9
<1>11. ASSUME debug
       PROVE  lengths'["balances"]
                = sizes'[IF "balances" \in Past' \/ Touched("balances")'
                         THEN position' + 1 ELSE position']
  <2>1. lengths["balances"]
          = sizes[IF "balances" \in Past \/ Touched("balances")
                  THEN position + 1 ELSE position]
    BY <1>11 DEF IInv, LengthsKept
  <2>2. CASE Field # "balances"
    <3>1. "balances" \in DOMAIN lengths
      BY <1>7, <1>8, StateFacts DEF Atomic!Updated
    <3>2. lengths'["balances"] = lengths["balances"]
      BY <1>1, <2>2, <3>1
    <3>3. "balances" \in Past' <=> "balances" \in Past
      BY <1>1, <1>7, <2>2
    <3> QED BY <1>1, <1>6, <2>1, <3>2, <3>3
  <2>3. CASE Field = "balances"
    <3>1. lengths[Field] = sizes[position]
      BY <1>1, <1>11, <2>3 DEF AssertionFails
    <3>2. lengths'[Field] = sizes[position + 1]
      BY <1>1, <1>2, <1>7, <2>3, <3>1, NewLengthsFacts
    <3>3. "balances" \in Past'
      BY <1>1, <1>7, <2>3
    <3> QED BY <1>1, <2>3, <3>2, <3>3
  <2> QED BY <2>2, <2>3
<1> QED BY <1>1, <1>10, <1>11 DEF LengthsKept

LEMMA WriteKeeps ==
  ASSUME IInv, Write
  PROVE  IInv'
<1>1. /\ UNCHANGED <<debug, fork, forks, archive, sizes>>
      /\ UNCHANGED <<position, result, before, beyond, interrupted>>
  BY WriteFacts
<1>2. TypeOK' /\ replica'.fork = replica.fork
  BY WriteTypeOK
<1>3. UNCHANGED client
  BY DEF Write
<1>4. ArchiveKept'
  BY <1>3, SameArchive
<1>5. ForkBoundaryHolds'
  BY <1>1, <1>2 DEF IInv, ForkBoundaryHolds
<1>6. InterruptedKept'
  BY <1>1 DEF IInv, InterruptedKept
<1> QED BY <1>2, <1>4, <1>5, <1>6, WriteWritten, WriteExplained,
           WriteLengths DEF IInv

\* A call that has come to its end has gone past every field.
LEMMA ReturnFacts ==
  ASSUME IInv, Return
  PROVE  /\ Atomic!Valid /\ position' = position + 1
         /\ position + 1 \in 1..Len(forks)
         /\ Atomic!Updated = archive[position].fields
         /\ replica.fork = forks[position + 1]
         /\ UNCHANGED <<debug, fork, forks, archive, sizes>>
         /\ UNCHANGED <<replica, lengths, beyond, interrupted>>
         /\ before' = replica /\ step' = 0 /\ result' = "Ok"
         /\ Names \subseteq Past
         /\ Past' = {}
         /\ \A f : ~Touched(f)'
<1>1. /\ step = Done /\ position' = position + 1 /\ result' = "Ok"
      /\ before' = replica /\ step' = 0
      /\ UNCHANGED <<client, replica, lengths, beyond, interrupted>>
  BY DEF Return
<1>2. UNCHANGED <<debug, fork, forks, archive, sizes>>
  BY <1>1 DEF client
<1>3. step # 0 /\ step = 21
  BY <1>1, OrderValues
<1>4. Atomic!Valid
  BY <1>3, PanickedIsValid
<1>5. Names \subseteq Past
  <2>1. ASSUME NEW f \in Names
        PROVE  f \in Past
    <3>1. PICK n \in 1..Len(Order) : Order[n] = f
      BY OrderIsComplete
    <3>2. n \in 1..(step - 1)
      BY <1>3, OrderValues
    <3> QED BY <3>1, <3>2 DEF Past
  <2> QED BY <2>1
<1>6. Past' = {}
  BY <1>1 DEF Past
<1>7. ASSUME NEW f
      PROVE  ~Touched(f)'
  <2>1. \A i \in DOMAIN interrupted : interrupted[i].delta # position + 1
    BY StateFacts, SMTT(30) DEF IInv, InterruptedKept
  <2> QED BY <1>1, <2>1 DEF Touched
<1> QED BY <1>1, <1>2, <1>4, <1>5, <1>6, <1>7, ValidFacts

\* What the delta that was applied has left wrong was wrong before, or was
\* changed twice.
LEMMA ReturnExplained ==
  ASSUME IInv, Return
  PROVE  WrongnessExplained'
<1>1. /\ Atomic!Valid /\ position' = position + 1
      /\ Atomic!Updated = archive[position].fields
      /\ UNCHANGED <<debug, fork, forks, archive, sizes>>
      /\ UNCHANGED <<replica, lengths, beyond, interrupted>>
      /\ step' = 0 /\ Names \subseteq Past
  BY ReturnFacts
<1>2. position \in Nat \ {0} /\ step # 0
  BY StateFacts, OrderValues DEF Return
<1>3. \A k : Added(k)' = Added(k)
  BY <1>1 DEF Added
<1>4. /\ DOMAIN replica.values = FieldsOf(replica.fork)
      /\ DOMAIN before.values = FieldsOf(replica.fork)
  BY StateFacts
<1>5. Atomic!Updated \subseteq Past
  BY <1>1, ValidFacts
<1> SUFFICES ASSUME NEW f \in DOMAIN replica.values
             PROVE  Explained(f)'
  BY <1>1 DEF WrongnessExplained
<1>6. Explained(f) /\ f \in Past
  BY <1>1, <1>4, FieldsFacts DEF IInv, WrongnessExplained
<1>7. WasMissing(f) => WasMissing(f)'
  BY <1>1, <1>2 DEF WasMissing
<1>8. WasRepeated(f) => WasRepeated(f)'
  <2>1. \A i \in DOMAIN interrupted :
          interrupted[i].delta < position
            => interrupted[i].delta < position + 1
    BY <1>2 DEF IInv, InterruptedKept
  <2> QED BY <1>1, <1>3, <2>1 DEF WasRepeated
<1>9. CASE f \notin Atomic!Updated
  <2>1. ~(debug /\ f \in Asserted)
    BY <1>1, <1>9, ValidFacts
  <2>2. position \in 1..(position' - 1)
    BY <1>1, <1>2
  <2> QED BY <1>1, <1>9, <2>1, <2>2 DEF Explained, WasMissing
<1>10. CASE f \in Atomic!Updated
  <2>1. replica.values[f] = position + 1 \/ replica.values[f] = Garbled
    BY <1>2, <1>4, <1>6, <1>10 DEF IInv, WrittenKept
  <2>2. CASE replica.values[f] = position + 1
    BY <1>1, <2>2 DEF Explained
  <2>3. CASE replica.values[f] # position + 1
    <3>1. replica.values[f] # position
      BY <1>2, <2>1, <2>3, DeltaAssumption
    <3>2. \A stuck \in Counted : ~StuckAt(stuck)
      BY <1>5 DEF StuckAt
    <3>3. CASE WasMissing(f) \/ WasRepeated(f)
      BY <1>7, <1>8, <3>3 DEF Explained
    <3>4. CASE /\ Touched(f)
               /\ f \notin Overwriting \cup {"scalar_header"}
               /\ f \in OverwritingUnlessGrown => Added(position) > 0
      <4>1. PICK i \in DOMAIN interrupted :
              /\ interrupted[i].delta = position
              /\ \E n \in 1..(interrupted[i].at - 1) : Order[n] = f
        BY <3>4 DEF Touched
      <4>2. interrupted[i].delta < position'
        BY <1>1, <1>2, <4>1
      <4>3. f \in archive[interrupted[i].delta].fields
        BY <1>1, <1>10, <4>1
      <4>4. f \in OverwritingUnlessGrown => Added(interrupted[i].delta)' > 0
        BY <1>1, <3>4, <4>1 DEF Added
      <4>5. WasRepeated(f)'
        BY <1>1, <3>4, <4>1, <4>2, <4>3, <4>4 DEF WasRepeated
      <4> QED BY <4>5 DEF Explained
    <3> QED BY <1>6, <2>3, <3>1, <3>2, <3>3, <3>4 DEF Explained
  <2> QED BY <2>2, <2>3
<1> QED BY <1>9, <1>10

\* The lists are those of the next checkpoint now, but for scores that were
\* to grow by a delta without scores.
LEMMA ReturnLengths ==
  ASSUME IInv, Return
  PROVE  LengthsKept'
<1>1. /\ Atomic!Valid /\ position' = position + 1
      /\ Atomic!Updated = archive[position].fields
      /\ UNCHANGED <<debug, fork, forks, archive, sizes>>
      /\ UNCHANGED <<replica, lengths, beyond, interrupted>>
      /\ Names \subseteq Past /\ Past' = {}
      /\ \A f : ~Touched(f)'
  BY ReturnFacts
<1>2. position \in Nat \ {0}
  BY StateFacts
<1>3. \A k : Added(k)' = Added(k)
  BY <1>1 DEF Added
<1>4. /\ DOMAIN replica.values = FieldsOf(replica.fork)
      /\ DOMAIN lengths = Counted \cap FieldsOf(replica.fork)
  BY StateFacts
<1>5. /\ sizes[position] \in Nat /\ sizes[position + 1] \in Nat
      /\ Added(position) = sizes[position + 1] - sizes[position]
      /\ Added(position) \in 0..MaxDeposits
      /\ Universal \subseteq Atomic!Updated
  BY <1>1, ValidFacts DEF Added
<1>6. ASSUME NEW f \in DOMAIN lengths
      PROVE  LongEnough(f)'
  <2>1. LongEnough(f) /\ f \in Past /\ f \in Counted /\ f \in DOMAIN replica.values
    BY <1>1, <1>4, CountedFacts DEF IInv, LengthsKept
  <2>2. (~debug /\ \E k \in 1..(position - 1) :
            Added(k) > 0 /\ f \notin archive[k].fields)
          => LongEnough(f)'
    BY <1>1, <1>2, <1>3 DEF LongEnough
  <2>3. CASE f \in Atomic!Updated
    BY <1>1, <2>1, <2>2, <2>3 DEF LongEnough
  <2>4. CASE f \notin Atomic!Updated
    <3>1. f \in Asserted /\ ~debug
      BY <1>1, <1>5, <2>1, <2>4, CountedFacts, ValidFacts DEF Counted
    <3>2. CASE Added(position) > 0
      <4>1. position \in 1..(position' - 1)
        BY <1>1, <1>2
      <4>2. Added(position) > 0 /\ f \notin archive[position].fields
        BY <1>1, <2>4, <3>2
      <4> QED BY <1>1, <1>3, <3>1, <4>1, <4>2 DEF LongEnough
    <3>3. CASE ~(Added(position) > 0)
      <4>1. sizes[position + 1] = sizes[position]
        BY <1>5, <3>3, InterruptAssumption
      <4> QED BY <1>1, <2>1, <2>2, <2>4, <4>1 DEF LongEnough
    <3> QED BY <3>2, <3>3
  <2> QED BY <2>3, <2>4
<1>7. ASSUME debug
      PROVE  lengths["balances"] = sizes[position + 1]
  <2>1. "balances" \in Past
    BY <1>1, CountedFacts DEF Names
  <2> QED BY <1>7, <2>1 DEF IInv, LengthsKept
<1> QED BY <1>1, <1>6, <1>7 DEF LengthsKept

LEMMA ReturnKeeps ==
  ASSUME IInv, Return
  PROVE  IInv'
<1>1. /\ Atomic!Valid /\ position' = position + 1
      /\ position + 1 \in 1..Len(forks)
      /\ replica.fork = forks[position + 1]
      /\ UNCHANGED <<debug, fork, forks, archive, sizes>>
      /\ UNCHANGED <<replica, lengths, beyond, interrupted>>
      /\ before' = replica /\ step' = 0 /\ result' = "Ok"
  BY ReturnFacts
<1>2. UNCHANGED client
  BY <1>1 DEF client
<1>3. ArchiveKept' /\ TooLong' = TooLong
  BY <1>2, SameArchive
<1>4. /\ replica.fork \in Forks /\ position \in Nat
      /\ replica = [fork |-> replica.fork, values |-> replica.values]
  BY StateFacts
<1>5. TypeOK'
  <2>1. TypeOK
    BY DEF IInv
  <2>2. /\ debug \in Builds /\ fork \in Forks
        /\ forks \in Seq(Forks) /\ archive \in Seq(Deltas)
        /\ Len(archive) = Len(forks) - 1
        /\ replica.values \in [FieldsOf(replica.fork) -> Nat \cup {Garbled}]
        /\ sizes \in Seq(Nat) /\ Len(sizes) = Len(forks)
        /\ lengths \in [Counted \cap FieldsOf(replica.fork) -> 1..TooLong]
        /\ beyond \in 0..position
        /\ interrupted \in Seq([delta: Nat, at: 1..Done])
    BY <2>1, TypeParts
  <2>3. Atomic!TypeOK'
    BY <1>1, <1>4, <2>2, SameDeltas, SameFieldsOf DEF Atomic!TypeOK
  <2>4. beyond \in 0..position' /\ 0 \in 0..Done
    <3>1. beyond \in 0..position /\ position' = position + 1
      BY <1>1, <2>2
    <3>2. Done = 21
      BY OrderValues
    <3> QED BY <1>4, <3>1, <3>2
  <2> QED BY <1>1, <1>3, <2>2, <2>3, <2>4 DEF TypeOK
<1>6. CallValid'
  <2>1. ~Writing'
    BY <1>1 DEF Writing
  <2> QED BY <1>1, <1>4, <2>1 DEF CallValid
<1>7. WrittenKept'
  BY <1>1 DEF WrittenKept
<1>8. ForkBoundaryHolds'
  BY <1>1 DEF ForkBoundaryHolds
<1>9. InterruptedKept'
  BY <1>1, <1>4 DEF IInv, InterruptedKept
<1> QED BY <1>3, <1>5, <1>6, <1>7, <1>8, <1>9, ReturnExplained,
           ReturnLengths DEF IInv

-----------------------------------------------------------------------------
(* Panics.                                                                 *)

\* A panic ends the call, and all it may have changed are the values.
LEMMA EndFacts ==
  ASSUME IInv, EndInPanic, step # 0,
         replica' = [fork |-> replica.fork, values |-> replica'.values],
         DOMAIN replica'.values = DOMAIN replica.values
  PROVE  /\ UNCHANGED <<debug, fork, forks, archive, sizes>>
         /\ UNCHANGED <<position, lengths>>
         /\ result' = "Panicked" /\ before' = replica' /\ step' = 0
         /\ replica'.fork = replica.fork
         /\ Atomic!Valid /\ Atomic!Updated' = Atomic!Updated
         /\ Past' = {}
         /\ CallValid' /\ WrittenKept' /\ ArchiveKept' /\ TooLong' = TooLong
         /\ ForkBoundaryHolds'
<1>1. /\ result' = "Panicked" /\ before' = replica' /\ step' = 0
      /\ UNCHANGED <<client, position, lengths>>
  BY DEF EndInPanic
<1>2. UNCHANGED <<debug, fork, forks, archive, sizes>>
  BY <1>1 DEF client
<1>3. Atomic!Valid
  BY PanickedIsValid
<1>4. Past' = {} /\ ~Writing'
  BY <1>1 DEF Past, Writing
<1>5. ArchiveKept' /\ TooLong' = TooLong
  BY <1>1, SameArchive
<1>6. replica'.fork = replica.fork
  OBVIOUS
<1>7. /\ before.fork = replica.fork
      /\ DOMAIN before.values = DOMAIN replica.values
  BY StateFacts
<1>8. Atomic!Updated' = Atomic!Updated
  BY <1>1, <1>2, <1>7 DEF Atomic!Updated, Atomic!Delta
<1>9. Atomic!Valid'
  BY <1>1, <1>2, <1>3, <1>6, <1>7
     DEF Atomic!Valid, Atomic!InOrder, Atomic!Delta
<1>10. CallValid'
  BY <1>1, <1>4, <1>6, <1>9 DEF CallValid
<1>11. WrittenKept'
  BY <1>1 DEF WrittenKept
<1>12. ForkBoundaryHolds'
  BY <1>1, <1>2, <1>6 DEF IInv, ForkBoundaryHolds
<1> QED BY <1>1, <1>2, <1>3, <1>4, <1>5, <1>6, <1>8, <1>10, <1>11, <1>12

\* An interrupted call leaves the lists long enough for the checkpoint it
\* began at.
LEMMA EndLengths ==
  ASSUME IInv, EndInPanic, Atomic!Valid, Past' = {},
         NEW f \in DOMAIN lengths
  PROVE  LongEnough(f)'
<1>1. UNCHANGED client /\ UNCHANGED <<debug, archive, sizes, position, lengths>>
  BY DEF EndInPanic, client
<1>2. \A k : Added(k)' = Added(k)
  BY <1>1, SameArchive
<1>3. LongEnough(f)
  BY DEF IInv, LengthsKept
<1>4. /\ sizes[position] \in Nat /\ sizes[position + 1] \in Nat
      /\ Added(position) \in 0..MaxDeposits
      /\ Added(position) = sizes[position + 1] - sizes[position]
  BY ValidFacts DEF Added
<1>5. lengths[f] \in Nat
  BY StateFacts, SizesFit
<1>6. sizes[position] <= sizes[position + 1]
  BY <1>4, InterruptAssumption
<1>7. lengths[f] >= sizes[position + 1] => lengths[f] >= sizes[position]
  BY <1>4, <1>5, <1>6
<1> QED BY <1>1, <1>2, <1>3, <1>7 DEF LongEnough

\* Where apply itself panics: at the balances, or at scores that are missing.
LEMMA LibraryPanicsFacts ==
  ASSUME IInv, LibraryPanics
  PROVE  /\ Writing /\ EndInPanic /\ UNCHANGED interrupted
         /\ Field \in Counted /\ Field \in Atomic!Updated
         /\ debug => Field = "balances" /\ lengths[Field] # sizes[position]
         /\ \/ /\ debug /\ Field = "balances"
               /\ lengths[Field] # sizes[position]
               /\ UNCHANGED <<replica, beyond>>
            \/ /\ lengths[Field] < sizes[position] /\ beyond' = position
               /\ replica' = [fork |-> replica.fork,
                              values |-> [replica.values EXCEPT
                                            ![Field] = Garbled]]
<1>1. /\ Writing /\ EndInPanic /\ UNCHANGED interrupted
  BY DEF LibraryPanics
<1>2. /\ Field \in Atomic!Updated /\ Field \notin Past
      /\ Field \in Counted => Field \in DOMAIN lengths
      /\ Atomic!Valid
  BY <1>1, WritingFacts
<1>3. CASE AssertionFails /\ UNCHANGED <<replica, beyond>>
  BY <1>1, <1>2, <1>3 DEF AssertionFails, Counted
<1>4. CASE /\ MayLackEntries
           /\ replica' = [replica EXCEPT !.values[Field] = Garbled]
           /\ beyond' = position
  <2>1. /\ Field \in Counted /\ lengths[Field] < sizes[position]
        /\ ~AssertionFails
    BY <1>4 DEF MayLackEntries
  <2>2. replica' = [fork |-> replica.fork,
                    values |-> [replica.values EXCEPT ![Field] = Garbled]]
    <3>1. replica = [fork |-> replica.fork, values |-> replica.values]
      BY StateFacts
    <3>2. replica' = [replica EXCEPT !.values[Field] = Garbled]
      BY <1>4
    <3> QED BY <3>1, <3>2
  <2>3. lengths[Field] \in Nat /\ sizes[position] \in Nat
    BY <1>2, <2>1, StateFacts, ValidFacts, SizesFit
  <2>4. debug => lengths[Field] >= sizes[position]
    BY <1>2, <2>1 DEF IInv, LengthsKept, LongEnough
  <2>5. ~debug
    BY <2>1, <2>3, <2>4
  <2>6. beyond' = position
    BY <1>4
  <2> QED BY <1>1, <1>2, <2>1, <2>2, <2>5, <2>6
<1>5. \/ AssertionFails /\ UNCHANGED <<replica, beyond>>
      \/ /\ MayLackEntries
         /\ replica' = [replica EXCEPT !.values[Field] = Garbled]
         /\ beyond' = position
  BY DEF LibraryPanics
<1> QED BY <1>3, <1>4, <1>5

LEMMA LibraryPanicsState ==
  ASSUME IInv, LibraryPanics
  PROVE  /\ replica' = [fork |-> replica.fork, values |-> replica'.values]
         /\ DOMAIN replica'.values = DOMAIN replica.values
         /\ replica'.values \in [FieldsOf(replica.fork) -> Nat \cup {Garbled}]
         /\ beyond' \in 0..position
<1>1. /\ replica = [fork |-> replica.fork, values |-> replica.values]
      /\ replica.values \in [FieldsOf(replica.fork) -> Nat \cup {Garbled}]
      /\ position \in Nat
  BY StateFacts
<1>2. TypeOK
  BY DEF IInv
<1>3. beyond \in 0..position
  BY <1>2, TypeParts
<1>4. CASE UNCHANGED <<replica, beyond>>
  <2>1. replica' = replica /\ beyond' = beyond
    BY <1>4
  <2> QED BY <1>1, <1>3, <2>1
<1>5. CASE /\ beyond' = position
           /\ replica' = [fork |-> replica.fork,
                          values |-> [replica.values EXCEPT
                                        ![Field] = Garbled]]
  <2> DEFINE values == [replica.values EXCEPT ![Field] = Garbled]
  <2>1. /\ values \in [FieldsOf(replica.fork) -> Nat \cup {Garbled}]
        /\ DOMAIN values = DOMAIN replica.values
    BY <1>1
  <2>2. replica' = [fork |-> replica.fork, values |-> values]
    BY <1>5
  <2> HIDE DEF values
  <2>3. replica'.values = values
    BY <2>2
  <2>4. beyond' \in 0..position
    BY <1>1, <1>5
  <2>5. replica' = [fork |-> replica.fork, values |-> replica'.values]
    BY <2>2, <2>3
  <2> QED BY <2>1, <2>3, <2>4, <2>5
<1> QED BY <1>4, <1>5, LibraryPanicsFacts

\* After a panic the invariants on the state hold if its type is right.
LEMMA EndTypeOK ==
  ASSUME IInv, EndInPanic, step # 0,
         replica' = [fork |-> replica.fork, values |-> replica'.values],
         replica'.values \in [FieldsOf(replica.fork) -> Nat \cup {Garbled}],
         beyond' \in 0..position,
         interrupted' \in Seq([delta: Nat, at: 1..Done])
  PROVE  TypeOK'
<1>1. /\ UNCHANGED <<debug, fork, forks, archive, sizes>>
      /\ UNCHANGED <<position, lengths>>
      /\ result' = "Panicked" /\ before' = replica' /\ step' = 0
      /\ replica'.fork = replica.fork /\ TooLong' = TooLong
  <2>1. DOMAIN replica'.values = DOMAIN replica.values
    BY StateFacts
  <2> QED BY <2>1, EndFacts
<1>2. TypeOK
  BY DEF IInv
<1>3. /\ debug \in Builds /\ fork \in Forks
      /\ forks \in Seq(Forks) /\ archive \in Seq(Deltas)
      /\ Len(archive) = Len(forks) - 1 /\ position \in 1..Len(forks)
      /\ sizes \in Seq(Nat) /\ Len(sizes) = Len(forks)
      /\ lengths \in [Counted \cap FieldsOf(replica.fork) -> 1..TooLong]
  BY <1>2, TypeParts
<1>4. replica.fork \in Forks /\ 0 \in 0..Done
  BY StateFacts, OrderValues
<1>5. Atomic!TypeOK'
  BY <1>1, <1>3, <1>4, SameDeltas, SameFieldsOf DEF Atomic!TypeOK
<1> QED BY <1>1, <1>3, <1>4, <1>5 DEF TypeOK

\* Every later call of the delta panics at the same field, if an accessor
\* does not panic before.
LEMMA LibraryPanicsKeeps ==
  ASSUME IInv, LibraryPanics
  PROVE  IInv'
<1>1. /\ Writing /\ EndInPanic /\ UNCHANGED interrupted
      /\ Field \in Counted /\ Field \in Atomic!Updated
      /\ debug => Field = "balances" /\ lengths[Field] # sizes[position]
      /\ \/ /\ debug /\ Field = "balances"
            /\ lengths[Field] # sizes[position]
         \/ lengths[Field] < sizes[position] /\ beyond' = position
  BY LibraryPanicsFacts
<1>2. step # 0 /\ Field \notin Past
  BY <1>1, WritingFacts
<1>3. /\ replica' = [fork |-> replica.fork, values |-> replica'.values]
      /\ DOMAIN replica'.values = DOMAIN replica.values
      /\ replica'.values \in [FieldsOf(replica.fork) -> Nat \cup {Garbled}]
      /\ beyond' \in 0..position
  BY LibraryPanicsState
<1>4. /\ UNCHANGED <<debug, fork, forks, archive, sizes>>
      /\ UNCHANGED <<position, lengths>>
      /\ result' = "Panicked" /\ before' = replica' /\ step' = 0
      /\ Atomic!Valid /\ Atomic!Updated' = Atomic!Updated
      /\ Past' = {}
      /\ CallValid' /\ WrittenKept' /\ ArchiveKept'
      /\ ForkBoundaryHolds'
  BY <1>1, <1>2, <1>3, EndFacts
<1>5. TypeOK'
  <2>1. interrupted' \in Seq([delta: Nat, at: 1..Done])
    BY <1>1, StateFacts
  <2> QED BY <1>1, <1>2, <1>3, <2>1, EndTypeOK
<1>6. InterruptedKept'
  BY <1>1, <1>4 DEF IInv, InterruptedKept
<1>7. WrongnessExplained'
  <2>1. PICK stuck \in Counted : stuck = Field
    BY <1>1
  <2>2. stuck \in (Counted \cap Atomic!Updated') \ Past'
    BY <1>1, <1>4, <2>1
  <2>3. \/ debug' /\ stuck = "balances" /\ lengths'[stuck] # sizes'[position']
        \/ lengths'[stuck] < sizes'[position'] /\ beyond' = position'
    BY <1>1, <1>4, <2>1
  <2>4. StuckAt(stuck)'
    BY <1>4, <2>2, <2>3 DEF StuckAt
  <2> QED BY <2>4 DEF WrongnessExplained, Explained
<1>8. \A f \in DOMAIN lengths : LongEnough(f)'
  BY <1>1, <1>4, EndLengths
<1>9. ASSUME debug
      PROVE  lengths["balances"]
               = sizes[IF Touched("balances") THEN position + 1 ELSE position]
  <2>1. "balances" \notin Past
    BY <1>1, <1>2, <1>9
  <2> QED BY <1>9, <2>1 DEF IInv, LengthsKept
<1>10. Touched("balances")' <=> Touched("balances")
  BY <1>1, <1>4 DEF Touched
<1>11. LengthsKept'
  BY <1>4, <1>8, <1>9, <1>10 DEF LengthsKept
<1> QED BY <1>4, <1>5, <1>6, <1>7, <1>11 DEF IInv

\* An accessor that panics leaves a call to be begun again.
LEMMA AccessorPanicsFacts ==
  ASSUME IInv, AccessorPanics
  PROVE  /\ EndInPanic /\ UNCHANGED <<replica, beyond>> /\ step \in 1..Done
         /\ step # 0
         /\ interrupted' \in Seq([delta: Nat, at: 1..Done])
         /\ Len(interrupted') = Len(interrupted) + 1
         /\ \A i \in DOMAIN interrupted :
              i \in DOMAIN interrupted' /\ interrupted'[i] = interrupted[i]
         /\ Len(interrupted) + 1 \in DOMAIN interrupted'
         /\ interrupted'[Len(interrupted) + 1]
              = [delta |-> position, at |-> step]
         /\ \A i \in DOMAIN interrupted' :
              i \in DOMAIN interrupted \/ i = Len(interrupted) + 1
<1> DEFINE call == [delta |-> position, at |-> step]
<1>1. /\ EndInPanic /\ UNCHANGED <<replica, beyond>>
      /\ interrupted' = Append(interrupted, call)
      /\ Writing \/ step = Done
  BY DEF AccessorPanics
<1>2. step \in 1..Done /\ step # 0
  BY <1>1, OrderValues DEF Writing
<1>3. /\ interrupted \in Seq([delta: Nat, at: 1..Done])
      /\ call \in [delta: Nat, at: 1..Done]
  BY <1>2, StateFacts
<1> HIDE DEF call
<1>4. /\ interrupted' \in Seq([delta: Nat, at: 1..Done])
      /\ Len(interrupted') = Len(interrupted) + 1
      /\ \A i \in 1..Len(interrupted) : interrupted'[i] = interrupted[i]
      /\ interrupted'[Len(interrupted) + 1] = call
  BY <1>1, <1>3, AppendProperties
<1>5. /\ Len(interrupted) \in Nat
      /\ DOMAIN interrupted = 1..Len(interrupted)
      /\ DOMAIN interrupted' = 1..(Len(interrupted) + 1)
  BY <1>3, <1>4
<1>6. /\ \A i \in DOMAIN interrupted :
           i \in DOMAIN interrupted' /\ interrupted'[i] = interrupted[i]
      /\ Len(interrupted) + 1 \in DOMAIN interrupted'
      /\ \A i \in DOMAIN interrupted' :
           i \in DOMAIN interrupted \/ i = Len(interrupted) + 1
  BY <1>4, <1>5
<1> QED BY <1>1, <1>2, <1>4, <1>6 DEF call

LEMMA AccessorPanicsKeeps ==
  ASSUME IInv, AccessorPanics
  PROVE  IInv'
<1>1. /\ EndInPanic /\ replica' = replica /\ beyond' = beyond
      /\ step # 0
      /\ interrupted' \in Seq([delta: Nat, at: 1..Done])
      /\ \A i \in DOMAIN interrupted :
           i \in DOMAIN interrupted' /\ interrupted'[i] = interrupted[i]
      /\ Len(interrupted) + 1 \in DOMAIN interrupted'
      /\ interrupted'[Len(interrupted) + 1].delta = position
      /\ interrupted'[Len(interrupted) + 1].at = step
      /\ \A i \in DOMAIN interrupted' :
           i \in DOMAIN interrupted \/ i = Len(interrupted) + 1
  BY AccessorPanicsFacts
<1>2. /\ replica = [fork |-> replica.fork, values |-> replica.values]
      /\ replica.values \in [FieldsOf(replica.fork) -> Nat \cup {Garbled}]
      /\ position \in Nat \ {0}
  BY StateFacts
<1>3. beyond \in 0..position
  BY TypeParts DEF IInv
<1>4. /\ UNCHANGED <<debug, fork, forks, archive, sizes>>
      /\ UNCHANGED <<position, lengths>>
      /\ result' = "Panicked" /\ before' = replica' /\ step' = 0
      /\ Atomic!Valid /\ Atomic!Updated' = Atomic!Updated
      /\ Past' = {}
      /\ CallValid' /\ WrittenKept' /\ ArchiveKept'
      /\ ForkBoundaryHolds'
  BY <1>1, <1>2, EndFacts
<1>5. TypeOK'
  BY <1>1, <1>2, <1>3, EndTypeOK
<1>6. InterruptedKept'
  BY <1>1, <1>2, <1>4 DEF IInv, InterruptedKept
<1>7. ASSUME NEW f
      PROVE  Touched(f)' <=> Touched(f) \/ f \in Past
  BY <1>1, <1>4 DEF Touched, Past
<1>8. \A k : Added(k)' = Added(k)
  BY <1>4 DEF Added
<1>9. WrongnessExplained'
  <2> SUFFICES ASSUME NEW f \in DOMAIN replica.values
               PROVE  Explained(f)'
    BY <1>1 DEF WrongnessExplained
  <2>1. Explained(f)
    BY DEF IInv, WrongnessExplained
  <2>2. WasMissing(f)' <=> WasMissing(f)
    BY <1>4 DEF WasMissing
  <2>3. WasRepeated(f) => WasRepeated(f)'
    <3>1. ASSUME WasRepeated(f)
          PROVE  WasRepeated(f)'
      <4>1. PICK i \in DOMAIN interrupted :
              /\ interrupted[i].delta < position
              /\ f \in archive[interrupted[i].delta].fields
              /\ \E n \in 1..(interrupted[i].at - 1) : Order[n] = f
              /\ f \in OverwritingUnlessGrown =>
                   Added(interrupted[i].delta) > 0
        BY <3>1 DEF WasRepeated
      <4>2. i \in DOMAIN interrupted' /\ interrupted'[i] = interrupted[i]
        BY <1>1
      <4>3. f \in OverwritingUnlessGrown => Added(interrupted[i].delta)' > 0
        BY <1>4, <4>1, <4>2 DEF Added
      <4>4. f \notin Overwriting \cup {"scalar_header"}
        BY <3>1 DEF WasRepeated
      <4> QED BY <1>4, <4>1, <4>2, <4>3, <4>4 DEF WasRepeated
    <3> QED BY <3>1
  <2>4. ASSUME NEW stuck \in Counted, StuckAt(stuck)
        PROVE  StuckAt(stuck)'
    BY <1>1, <1>4, <2>4 DEF StuckAt
  <2>5. Added(position)' = Added(position)
    BY <1>4 DEF Added
  <2> QED BY <1>1, <1>4, <1>7, <2>1, <2>2, <2>3, <2>4, <2>5 DEF Explained
<1>10. \A f \in DOMAIN lengths : LongEnough(f)'
  BY <1>1, <1>4, EndLengths
<1>11. LengthsKept'
  <2>1. debug => lengths["balances"]
                   = sizes[IF "balances" \in Past \/ Touched("balances")
                           THEN position + 1 ELSE position]
    BY DEF IInv, LengthsKept
  <2>2. "balances" \in Past' \/ Touched("balances")'
          <=> "balances" \in Past \/ Touched("balances")
    BY <1>4, <1>7
  <2> QED BY <1>4, <1>10, <2>1, <2>2 DEF LengthsKept
<1> QED BY <1>4, <1>5, <1>6, <1>9, <1>11 DEF IInv

-----------------------------------------------------------------------------
(* A snapshot.                                                             *)

\* Nothing of the past is left in a state that was replaced.
LEMMA SnapshotKeeps ==
  ASSUME IInv, LoadSnapshot
  PROVE  IInv'
<1> DEFINE fields == FieldsOf(forks[position + 1])
           size == sizes[position + 1]
<1>1. /\ step = 0 /\ position < Len(forks) /\ position' = position + 1
      /\ before' = [fork |-> forks[position + 1],
                    values |-> [f \in fields |-> position + 1]]
      /\ replica' = before' /\ result' = "none"
      /\ UNCHANGED <<debug, fork, forks, archive, sizes>>
      /\ UNCHANGED <<step, beyond, interrupted>>
      /\ lengths' = [f \in Counted \cap fields |-> size]
  BY SameFieldsOf DEF LoadSnapshot, Atomic!LoadSnapshot, Atomic!InOrder,
                      Atomic!client
<1>2. UNCHANGED client
  BY <1>1 DEF client
<1>3. ArchiveKept' /\ TooLong' = TooLong
  BY <1>2, SameArchive
<1>4. /\ position \in Nat \ {0} /\ position + 1 \in 1..Len(forks)
  BY <1>1, StateFacts
<1>5. forks[position + 1] \in Forks /\ size \in 1..TooLong
  BY <1>4, StateFacts, SizesFit
<1>6. TypeOK
  BY DEF IInv
<1> HIDE DEF size, fields
<1>7. /\ replica'.fork = forks[position + 1]
      /\ replica'.values = [f \in fields |-> position + 1]
      /\ before'.fork = forks[position + 1]
      /\ before'.values = [f \in fields |-> position + 1]
      /\ replica' = [fork |-> replica'.fork, values |-> replica'.values]
  BY <1>1
<1>8. replica'.values \in [fields -> Nat \cup {Garbled}]
  BY <1>4, <1>7
<1>9. TypeOK'
  <2>1. /\ debug \in Builds /\ fork \in Forks
        /\ forks \in Seq(Forks) /\ archive \in Seq(Deltas)
        /\ Len(archive) = Len(forks) - 1
        /\ sizes \in Seq(Nat) /\ Len(sizes) = Len(forks)
        /\ step \in 0..Done /\ beyond \in 0..position
        /\ interrupted \in Seq([delta: Nat, at: 1..Done])
    BY <1>6, TypeParts
  <2>2. Atomic!TypeOK'
    BY <1>1, <1>4, <1>5, <1>7, <1>8, <2>1, SameDeltas, SameFieldsOf
       DEF Atomic!TypeOK, fields
  <2>3. lengths' \in [Counted \cap fields -> 1..TooLong]
    BY <1>1, <1>5
  <2>4. beyond \in 0..(position + 1)
    BY <1>4, <2>1
  <2> QED BY <1>1, <1>3, <1>7, <1>8, <2>1, <2>2, <2>3, <2>4 DEF TypeOK, fields
<1>10. Past' = {} /\ ~Writing'
  BY <1>1 DEF Past, Writing
<1>11. CallValid'
  BY <1>1, <1>7, <1>10 DEF CallValid
<1>12. WrittenKept'
  BY <1>1 DEF WrittenKept
<1>13. ForkBoundaryHolds'
  BY <1>1, <1>7 DEF ForkBoundaryHolds
<1>14. \A i \in DOMAIN interrupted :
         interrupted[i].delta \in 1..(position + 1)
           /\ interrupted[i].delta # position + 1
  BY <1>4 DEF IInv, InterruptedKept
<1>15. InterruptedKept'
  BY <1>1, <1>14 DEF InterruptedKept
<1>16. WrongnessExplained'
  BY <1>1, <1>7 DEF WrongnessExplained, Explained
<1>17. LengthsKept'
  <2>1. \A f \in Counted \cap fields : lengths'[f] = size
    BY <1>1
  <2>2. ASSUME NEW f \in DOMAIN lengths'
        PROVE  LongEnough(f)'
    <3>1. lengths'[f] >= sizes'[position']
      BY <1>1, <1>5, <2>1 DEF size
    <3> QED BY <1>10, <3>1 DEF LongEnough
  <2>3. "balances" \in Counted \cap fields
    BY FieldsFacts, CountedFacts DEF Counted, fields
  <2>4. ~Touched("balances")'
    BY <1>1, <1>14 DEF Touched
  <2> QED BY <1>1, <1>10, <2>1, <2>2, <2>3, <2>4 DEF LengthsKept, size
<1> QED BY <1>3, <1>9, <1>11, <1>12, <1>13, <1>15, <1>16, <1>17 DEF IInv

-----------------------------------------------------------------------------
(* The invariant, and the safety properties it implies.                    *)

LEMMA StutterKeeps ==
  ASSUME IInv, UNCHANGED all
  PROVE  IInv'
<1>1. /\ UNCHANGED <<debug, fork, forks, archive, sizes>>
      /\ UNCHANGED <<position, result, replica, before, lengths, step>>
      /\ UNCHANGED <<beyond, interrupted>>
      /\ UNCHANGED client
  BY DEF all, client
<1>2. ArchiveKept' /\ TooLong' = TooLong
  BY <1>1, SameArchive
<1>3. TypeOK'
  BY <1>1, <1>2 DEF IInv, TypeOK, Atomic!TypeOK
<1>4. /\ Atomic!Updated' = Atomic!Updated /\ Atomic!Sound' = Atomic!Sound
      /\ Atomic!PerhapsSound' = Atomic!PerhapsSound
  BY <1>1, SameCall
<1>5. Atomic!Valid' <=> Atomic!Valid
  BY <1>1, SameCall
<1>6. Past' = Past
  BY <1>1 DEF Past
<1>7. CallValid'
  BY <1>1, <1>4, <1>5 DEF IInv, CallValid, Writing, Field
<1>8. WrittenKept'
  BY <1>1, <1>4, <1>6 DEF IInv, WrittenKept
<1>9. ForkBoundaryHolds'
  BY <1>1 DEF IInv, ForkBoundaryHolds
<1>10. InterruptedKept'
  BY <1>1 DEF IInv, InterruptedKept
<1>11. WrongnessExplained'
  <2> SUFFICES ASSUME NEW f \in DOMAIN replica.values
               PROVE  Explained(f)'
    BY <1>1 DEF WrongnessExplained
  <2>1. Explained(f)
    BY DEF IInv, WrongnessExplained
  <2>2. ASSUME NEW stuck \in Counted, StuckAt(stuck)
        PROVE  StuckAt(stuck)'
    BY <1>1, <1>4, <1>6, <2>2 DEF StuckAt
  <2>3. /\ WasMissing(f)' <=> WasMissing(f)
        /\ WasRepeated(f)' <=> WasRepeated(f)
        /\ Touched(f)' <=> Touched(f)
    BY <1>1, SamePast
  <2>4. Added(position)' = Added(position)
    BY <1>1 DEF Added
  <2> QED BY <1>1, <1>4, <1>6, <2>1, <2>2, <2>3, <2>4 DEF Explained
<1>12. LengthsKept'
  <2>1. \A k : Added(k)' = Added(k)
    BY <1>1, SameArchive
  <2>2. ASSUME NEW f \in DOMAIN lengths
        PROVE  LongEnough(f)'
    <3>1. LongEnough(f)
      BY DEF IInv, LengthsKept
    <3> QED BY <1>1, <1>4, <1>6, <2>1, <3>1 DEF LongEnough
  <2>3. Touched("balances")' <=> Touched("balances")
    BY <1>1, SamePast
  <2>4. debug => lengths["balances"]
                   = sizes[IF "balances" \in Past \/ Touched("balances")
                           THEN position + 1 ELSE position]
    BY DEF IInv, LengthsKept
  <2> QED BY <1>1, <1>6, <2>2, <2>3, <2>4 DEF LengthsKept
<1> QED BY <1>2, <1>3, <1>7, <1>8, <1>9, <1>10, <1>11, <1>12 DEF IInv

LEMMA StepKeeps ==
  ASSUME IInv, [Next]_all
  PROVE  IInv'
<1>1. CASE \E fields \in Atomic!Presented(fork), added \in 0..MaxDeposits :
             Checkpoint(fields, added)
  BY <1>1, CheckpointKeeps
<1>2. CASE UNCHANGED all
  BY <1>2, StutterKeeps
<1> QED BY <1>1, <1>2, ForkKeeps, RefuseKeeps, BeginKeeps, WriteKeeps,
           ReturnKeeps, LibraryPanicsKeeps, AccessorPanicsKeeps,
           SnapshotKeeps DEF Next

\* The invariant of the calls of apply and of their panics: what is still to
\* be said of a state at any point of a call.
THEOREM Invariance == Spec => []IInv
<1>1. Init => IInv
  BY InitIInv
<1>2. IInv /\ [Next]_all => IInv'
  BY StepKeeps
<1> QED BY <1>1, <1>2, PTL DEF Spec

\* Fields, lengths and interrupted calls have their types: no list of the
\* reader is empty or longer than the growth of the registry allows.
THEOREM TypeCorrect == Spec => []TypeOK
<1>1. IInv => TypeOK
  BY DEF IInv
<1> QED BY <1>1, Invariance, PTL

\* validate_fork: the reader's state is always of the fork of the checkpoint
\* it has reached, and no delta crosses a boundary unnoticed.
THEOREM ForkBoundaryIsKept == Spec => []ForkBoundaryHolds
<1>1. IInv => ForkBoundaryHolds
  BY DEF IInv
<1> QED BY <1>1, Invariance, PTL

\* A state that calls of apply ended well with is wrong only in fields that a
\* delta lacked, or that an interrupted delta has changed twice.
THEOREM WrongOnlyWhereExplained == Spec => []WrongOnlyIfMissingOrRepeated
<1>1. ASSUME IInv
      PROVE  WrongOnlyIfMissingOrRepeated
  <2> SUFFICES ASSUME step = 0, result # "Panicked",
                      NEW f \in DOMAIN replica.values,
                      replica.values[f] # position
               PROVE  WasMissing(f) \/ WasRepeated(f)
    BY DEF WrongOnlyIfMissingOrRepeated
  <2>1. Explained(f)
    BY <1>1 DEF IInv, WrongnessExplained
  <2>2. ~Touched(f)
    BY <1>1, TouchedFacts
  <2>3. Past = {}
    BY NothingPast
  <2>4. \A stuck : ~StuckAt(stuck)
    BY DEF StuckAt
  <2> QED BY <2>1, <2>2, <2>3, <2>4 DEF Explained
<1>2. IInv => WrongOnlyIfMissingOrRepeated
  BY <1>1
<1> QED BY <1>2, Invariance, PTL

\* The two ways to a panic of apply itself.
LEMMA PanicIsExplained ==
  ASSUME IInv, LibraryPanics
  PROVE  PanicIsDue
<1>1. /\ Writing /\ Field \in Counted
      /\ debug => Field = "balances" /\ lengths[Field] # sizes[position]
      /\ debug \/ lengths[Field] < sizes[position]
  BY LibraryPanicsFacts
<1>2. /\ Atomic!Valid /\ Field \notin Past /\ Field \in DOMAIN lengths
  BY <1>1, WritingFacts
<1>3. /\ sizes[position] \in Nat /\ sizes[position + 1] \in Nat
      /\ Added(position) \in 0..MaxDeposits
      /\ Added(position) = sizes[position + 1] - sizes[position]
      /\ position \in 1..(Len(forks) - 1)
  BY <1>2, ValidFacts DEF Added
<1>4. CASE debug
  <2>1. lengths["balances"]
          = sizes[IF "balances" \in Past \/ Touched("balances")
                  THEN position + 1 ELSE position]
    BY <1>4 DEF IInv, LengthsKept
  <2>2. Touched("balances") /\ sizes[position + 1] # sizes[position]
    BY <1>1, <1>2, <1>4, <2>1
  <2>3. Added(position) > 0
    BY <1>3, <2>2, InterruptAssumption
  <2> QED BY <1>4, <2>2, <2>3 DEF Touched, PanicIsDue
<1>5. CASE ~debug
  <2>1. lengths[Field] \in Nat
    BY <1>2, StateFacts, SizesFit
  <2>2. LongEnough(Field)
    BY <1>2 DEF IInv, LengthsKept
  <2>3. PICK k \in 1..(position - 1) :
          Added(k) > 0 /\ Field \notin archive[k].fields
    BY <1>1, <1>2, <1>3, <1>5, <2>1, <2>2 DEF LongEnough
  <2>4. k \in 1..(Len(forks) - 1)
    BY <1>3, StateFacts
  <2>5. "balances" \in archive[k].fields
    BY <2>4, CountedFacts DEF IInv, ArchiveKept
  <2>6. Field = "inactivity_scores"
    BY <1>1, <2>3, <2>5 DEF Counted
  <2> QED BY <1>5, <2>3, <2>6 DEF PanicIsDue
<1> QED BY <1>4, <1>5

\* apply itself panics only in a second call for a delta that adds
\* validators, on a debug build, or behind a delta that added validators but
\* lacked their scores, on a release build.
THEOREM PanicsAreExplained == Spec => PanicsExplained
<1>1. IInv /\ [Next]_all => [LibraryPanics => PanicIsDue]_all
  BY PanicIsExplained
<1> QED BY <1>1, Invariance, PTL DEF Spec, PanicsExplained

-----------------------------------------------------------------------------
(* A call is one step of StateDelta.                                       *)

LEMMA AfterFacts ==
  ASSUME IInv, NEW written, NEW sound
  PROVE  Atomic!After(written, sound)
           = [fork |-> replica.fork,
              values |-> [f \in DOMAIN before.values |->
                            IF f \notin written THEN before.values[f]
                            ELSE IF f \in sound THEN position + 1
                            ELSE Garbled]]
<1>1. before = [fork |-> replica.fork, values |-> before.values]
  BY StateFacts
<1> QED BY <1>1 DEF Atomic!After

\* The fields left as the target has them, of those of which that depends on
\* what the delta appends.
AsTarget == {f \in Atomic!PerhapsSound : replica.values[f] = position + 1}

\* What a call has written so far.
LEMMA WrittenAsCall ==
  ASSUME IInv, step # 0
  PROVE  replica = Atomic!After(Past \cap Atomic!Updated,
                                Atomic!Sound \cup AsTarget)
<1> DEFINE written == Past \cap Atomic!Updated
           sound == Atomic!Sound \cup AsTarget
           wrote == [f \in DOMAIN before.values |->
                       IF f \notin written THEN before.values[f]
                       ELSE IF f \in sound THEN position + 1 ELSE Garbled]
<1>1. /\ replica = [fork |-> replica.fork, values |-> replica.values]
      /\ replica.values \in [FieldsOf(replica.fork) -> Nat \cup {Garbled}]
      /\ DOMAIN before.values = FieldsOf(replica.fork)
      /\ position \in Nat
  BY StateFacts
<1>2. ASSUME NEW f \in DOMAIN before.values
      PROVE  replica.values[f] =
               IF f \notin written THEN before.values[f]
               ELSE IF f \in sound THEN position + 1 ELSE Garbled
  <2>1. IF f \in Past /\ f \in Atomic!Updated
        THEN \/ /\ replica.values[f] = position + 1
                /\ f \in Atomic!Sound \cup Atomic!PerhapsSound
             \/ replica.values[f] = Garbled /\ f \notin Atomic!Sound
        ELSE replica.values[f] = before.values[f]
    BY DEF IInv, WrittenKept
  <2>2. position + 1 # Garbled
    BY <1>1, DeltaAssumption
  <2> QED BY <2>1, <2>2 DEF AsTarget
<1>3. replica.values = wrote
  <2>1. replica.values = [f \in DOMAIN before.values |-> replica.values[f]]
    BY <1>1
  <2> QED BY <1>2, <2>1
<1>4. Atomic!After(written, sound) = [fork |-> replica.fork, values |-> wrote]
  <2> HIDE DEF written, sound
  <2> QED BY AfterFacts
<1> HIDE DEF wrote
<1> QED BY <1>1, <1>3, <1>4

LEMMA AsTargetFacts == AsTarget \in SUBSET Atomic!PerhapsSound
BY DEF AsTarget

\* The end of a call is its step.
LEMMA ReturnIsApply ==
  ASSUME IInv, Return
  PROVE  Atomic!ApplyFields
<1>1. /\ Atomic!Valid /\ position' = position + 1
      /\ UNCHANGED <<debug, fork, forks, archive, sizes>>
      /\ before' = replica /\ result' = "Ok" /\ Names \subseteq Past
  BY ReturnFacts
<1>2. step # 0
  BY OrderValues DEF Return
<1>3. Past \cap Atomic!Updated = Atomic!Updated
  BY <1>1, ValidFacts
<1>4. before' = Atomic!After(Atomic!Updated, Atomic!Sound \cup AsTarget)
  BY <1>1, <1>2, <1>3, WrittenAsCall
<1>5. UNCHANGED Atomic!client
  BY <1>1 DEF Atomic!client
<1> QED BY <1>1, <1>4, <1>5, AsTargetFacts DEF Atomic!ApplyFields

\* A panic is its step, up to a field that was not, or not quite, written.
LEMMA PanicIsApply ==
  ASSUME IInv, EndInPanic, step # 0, NEW n \in 1..Len(Order),
         Past \cap Atomic!Updated
           = {Order[i] : i \in 1..(n - 1)} \cap Atomic!Updated,
         \/ replica' = replica
         \/ replica' = Atomic!After(
              (Past \cap Atomic!Updated) \cup ({Order[n]} \cap Atomic!Updated),
              (Atomic!Sound \cup AsTarget) \ {Order[n]})
  PROVE  Atomic!ApplyPanics
<1>1. /\ result' = "Panicked" /\ before' = replica'
      /\ UNCHANGED <<client, position>>
  BY DEF EndInPanic
<1>2. UNCHANGED <<Atomic!client, position>>
  BY <1>1 DEF client, Atomic!client
<1>3. Atomic!Valid
  BY PanickedIsValid
<1>4. n \in 1..Len(Atomic!Order) /\ Atomic!Order = Order
  BY SameFields
<1>5. replica = Atomic!After(Past \cap Atomic!Updated,
                             Atomic!Sound \cup AsTarget)
  BY WrittenAsCall
<1> DEFINE written == {Order[i] : i \in 1..(n - 1)} \cap Atomic!Updated
<1>6. \/ before' = Atomic!After(written, Atomic!Sound \cup AsTarget)
      \/ before' = Atomic!After(written \cup ({Order[n]} \cap Atomic!Updated),
                                (Atomic!Sound \cup AsTarget) \ {Order[n]})
  BY <1>1, <1>5
<1>7. \E m \in 1..Len(Atomic!Order), more \in SUBSET Atomic!PerhapsSound :
        LET past == {Atomic!Order[i] : i \in 1..(m - 1)} \cap Atomic!Updated
        IN  \/ before' = Atomic!After(past, Atomic!Sound \cup more)
            \/ before' = Atomic!After(
                 past \cup ({Atomic!Order[m]} \cap Atomic!Updated),
                 (Atomic!Sound \cup more) \ {Atomic!Order[m]})
  <2>1. n \in 1..Len(Atomic!Order) /\ AsTarget \in SUBSET Atomic!PerhapsSound
    BY <1>4, AsTargetFacts
  <2> USE <2>1
  <2> WITNESS n \in 1..Len(Atomic!Order),
              AsTarget \in SUBSET Atomic!PerhapsSound
  <2>2. written = {Atomic!Order[i] : i \in 1..(n - 1)} \cap Atomic!Updated
    BY <1>4
  <2> HIDE DEF written
  <2> QED BY <1>4, <1>6, <2>2
<1> QED BY <1>1, <1>2, <1>3, <1>7 DEF Atomic!ApplyPanics

LEMMA LibraryPanicIsApply ==
  ASSUME IInv, LibraryPanics
  PROVE  Atomic!ApplyPanics
<1>1. /\ Writing /\ EndInPanic /\ Field \in Atomic!Updated
      /\ \/ replica' = replica
         \/ replica' = [fork |-> replica.fork,
                        values |-> [replica.values EXCEPT ![Field] = Garbled]]
  BY LibraryPanicsFacts
<1>2. /\ step # 0 /\ step \in 1..Len(Order) /\ Field \notin Past
      /\ Field \in DOMAIN replica.values
  BY <1>1, WritingFacts
<1>3. Past \cap Atomic!Updated
        = {Order[i] : i \in 1..(step - 1)} \cap Atomic!Updated
  BY DEF Past
<1> DEFINE written == (Past \cap Atomic!Updated)
                        \cup ({Order[step]} \cap Atomic!Updated)
           sound == (Atomic!Sound \cup AsTarget) \ {Order[step]}
<1>4. ASSUME replica' = [fork |-> replica.fork,
                         values |-> [replica.values EXCEPT
                                       ![Field] = Garbled]]
      PROVE  replica' = Atomic!After(written, sound)
  <2> DEFINE wrote == [f \in DOMAIN before.values |->
                         IF f \notin Past \cap Atomic!Updated
                         THEN before.values[f]
                         ELSE IF f \in Atomic!Sound \cup AsTarget
                         THEN position + 1 ELSE Garbled]
             panicked == [f \in DOMAIN before.values |->
                            IF f \notin written THEN before.values[f]
                            ELSE IF f \in sound THEN position + 1
                            ELSE Garbled]
  <2>1. replica.values = wrote
    <3>1. replica = [fork |-> replica.fork, values |-> wrote]
      BY <1>2, WrittenAsCall, AfterFacts
    <3> HIDE DEF wrote
    <3>2. [fork |-> replica.fork, values |-> wrote].values = wrote
      OBVIOUS
    <3> QED BY <3>1, <3>2
  <2>2. [replica.values EXCEPT ![Field] = Garbled] = panicked
    <3>1. DOMAIN replica.values = DOMAIN before.values
      BY <2>1
    <3>2. \A f \in DOMAIN before.values :
            [replica.values EXCEPT ![Field] = Garbled][f] = panicked[f]
      BY <1>1, <1>2, <2>1 DEF Field
    <3> QED BY <3>1, <3>2
  <2>3. Atomic!After(written, sound)
          = [fork |-> replica.fork, values |-> panicked]
    <3> HIDE DEF written, sound
    <3> QED BY AfterFacts
  <2> HIDE DEF panicked, written, sound
  <2> QED BY <1>4, <2>2, <2>3
<1> QED BY <1>1, <1>2, <1>3, <1>4, PanicIsApply

LEMMA AccessorPanicIsApply ==
  ASSUME IInv, AccessorPanics
  PROVE  Atomic!ApplyPanics
<1>1. EndInPanic /\ replica' = replica /\ step # 0
  BY AccessorPanicsFacts
<1>2. CASE Writing
  <2>1. step \in 1..Len(Order)
    BY <1>2 DEF Writing
  <2> QED BY <1>1, <2>1, PanicIsApply DEF Past
<1>3. CASE step = Done /\ Order[Len(Order)] \notin Atomic!Updated
  <2>1. Len(Order) = 20 /\ step = 21 /\ 20 \in 1..Len(Order)
    BY <1>3, OrderValues
  <2>2. \A k \in 1..(step - 1) : k \in 1..(20 - 1) \/ k = 20
    BY <2>1
  <2>3. 1..(20 - 1) \subseteq 1..(step - 1)
    BY <2>1
  <2>4. Past \cap Atomic!Updated
          = {Order[i] : i \in 1..(20 - 1)} \cap Atomic!Updated
    BY <1>3, <2>1, <2>2, <2>3 DEF Past
  <2> QED BY <1>1, <2>1, <2>4, PanicIsApply
<1> QED BY <1>2, <1>3 DEF AccessorPanics

\* Every step of the call in place is a step of the call as a whole, or one
\* that it does not see.
LEMMA StepIsAtomic ==
  ASSUME IInv, [Next]_all
  PROVE  [Atomic!Next]_(Atomic!vars)
<1>1. CASE Fork
  BY <1>1 DEF Fork, Atomic!Next
<1>2. ASSUME NEW fields \in Atomic!Presented(fork),
             NEW added \in 0..MaxDeposits, Checkpoint(fields, added)
      PROVE  Atomic!Next
  BY <1>2 DEF Checkpoint, Atomic!Next
<1>3. CASE Refuse
  BY <1>3 DEF Refuse, Atomic!Next
<1>4. CASE Begin
  BY <1>4 DEF Begin, client, Atomic!vars
<1>5. CASE Write
  BY <1>5, WriteFacts DEF Atomic!vars
<1>6. CASE Return
  BY <1>6, ReturnIsApply DEF Atomic!Next
<1>7. CASE LibraryPanics
  BY <1>7, LibraryPanicIsApply DEF Atomic!Next
<1>8. CASE AccessorPanics
  BY <1>8, AccessorPanicIsApply DEF Atomic!Next
<1>9. CASE LoadSnapshot
  BY <1>9 DEF LoadSnapshot, Atomic!Next
<1>10. CASE UNCHANGED all
  BY <1>10 DEF all, client, Atomic!vars
<1> QED BY <1>1, <1>2, <1>3, <1>4, <1>5, <1>6, <1>7, <1>8, <1>9, <1>10
        DEF Next

\* Seen from outside a call of apply is one step: it refuses, updates the
\* fields that the delta and the state share, or panics on the way
\* (apply, with the checks first and the fields in their order).
THEOREM CallsImplementStateDelta == Spec => ImplementsStateDelta
<1>1. Init => Atomic!Init
  BY DEF Init
<1>2. IInv /\ [Next]_all => [Atomic!Next]_(Atomic!vars)
  BY StepIsAtomic
<1> QED BY <1>1, <1>2, Invariance, PTL
        DEF Spec, ImplementsStateDelta, Atomic!Spec
=============================================================================
