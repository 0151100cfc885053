------------------------ MODULE RegistryArchiveProofs -----------------------
(***************************************************************************)
(* The reader of RegistryArchive holds the state that was checkpointed,    *)
(* record by record and number by number, for all values of the constants  *)
(* for which the client's epochs stay below the one that stands for never. *)
(* The deltas fit its lists, and one that arrives twice changes only       *)
(* balances; the byte form of the registry agrees with them.               *)
(***************************************************************************)
EXTENDS RegistryArchive, ValidatorDeltasProofs

USE RegistryAssumption, EpochAssumption DEF RegistryAssumption, EpochAssumption

\* The epochs the client may set are real ones.
EpochsFit ==
  /\ \A delay \in ActivationDelays : MaxChanges + delay <= FarFuture
  /\ \A delay \in ExitDelays :
       MaxChanges + delay + WithdrawabilityDelay <= FarFuture
  /\ MaxChanges + SlashedDelay <= FarFuture

-----------------------------------------------------------------------------
(* The inductive invariant.                                                *)

\* The lists of a state are as long as its registry, and every record is one
\* the protocol produces.
GoodState(s) ==
  /\ s \in States
  /\ Len(s.balances) = Len(s.validators)
  /\ Len(s.inactivity_scores) = Len(s.validators)
  /\ Len(s.previous_participation) = Len(s.validators)
  /\ Len(s.current_participation) = Len(s.validators)
  /\ \A i \in 1..Len(s.validators) : Lawful(s.validators[i])

\* No validator disappears, and none that was slashed is pardoned.
Follows(s, t) ==
  /\ Len(s.validators) <= Len(t.validators)
  /\ \A i \in 1..Len(s.validators) : StaysSlashed(s.validators[i], t.validators[i])

ClientIsLawful ==
  /\ GoodState(live)
  /\ changes \in 0..MaxChanges
  /\ live.epoch <= changes

CheckpointsFollow ==
  /\ checkpoints \in Seq(States) /\ Len(checkpoints) > 0
  /\ \A k \in 1..Len(checkpoints) : GoodState(checkpoints[k])
  /\ \A k \in 1..(Len(checkpoints) - 1) : Follows(checkpoints[k], checkpoints[k + 1])
  /\ Follows(checkpoints[Len(checkpoints)], live)

Created(base, target) ==
  {Create(base, target, mode) : mode \in Modes(base.balances, target.balances)}

ArchiveComplete ==
  /\ archive \in Seq(UNION {Created(b, t) : b, t \in States})
  /\ Len(archive) = Len(checkpoints) - 1
  /\ \A k \in 1..Len(archive) : archive[k] \in Created(checkpoints[k], checkpoints[k + 1])

IInv ==
  /\ ClientIsLawful
  /\ CheckpointsFollow
  /\ ArchiveComplete
  /\ position \in 1..Len(checkpoints)

-----------------------------------------------------------------------------
(* The client.                                                             *)

LEMMA FollowsIsTransitive ==
  ASSUME NEW r \in States, NEW s \in States, NEW t \in States,
         Follows(r, s), Follows(s, t)
  PROVE  Follows(r, t)
<1>1. ASSUME NEW state \in States
      PROVE  Len(state.validators) \in Nat
  <2>1. state.validators \in Seq(Validators)
    BY DEF States
  <2> QED BY <2>1
<1>2. Len(r.validators) \in Nat /\ Len(s.validators) \in Nat
      /\ Len(t.validators) \in Nat
  BY <1>1
<1> QED BY <1>2 DEF Follows, StaysSlashed

\* A change of the client keeps the invariant if it leads to a good state that
\* follows the one before.
LEMMA ChangeKeepsIInv ==
  ASSUME IInv, NEW state, Change(state),
         GoodState(state), Follows(live, state), state.epoch <= changes + 1
  PROVE  IInv'
<1>1. changes + 1 \in 0..MaxChanges
  BY DEF IInv, ClientIsLawful, Change
<1>2. ClientIsLawful'
  BY <1>1 DEF Change, ClientIsLawful
<1>3. Follows(checkpoints[Len(checkpoints)], state)
  <2>1. checkpoints[Len(checkpoints)] \in States
    BY DEF IInv, CheckpointsFollow
  <2>2. live \in States /\ state \in States
    BY DEF IInv, ClientIsLawful, GoodState
  <2> QED BY <2>1, <2>2, FollowsIsTransitive DEF IInv, CheckpointsFollow
<1>4. CheckpointsFollow'
  BY <1>3 DEF Change, library, IInv, CheckpointsFollow
<1> QED BY <1>2, <1>4 DEF Change, library, IInv, ArchiveComplete

\* Replacing one record by one that the protocol allows is such a change.
LEMMA ChangeValidatorKeepsIInv ==
  ASSUME IInv, NEW i \in Indices, NEW v \in Validators, ChangeValidator(i, v),
         Lawful(v), StaysSlashed(live.validators[i], v)
  PROVE  IInv'
<1> DEFINE registry == [live.validators EXCEPT ![i] = v]
           state == [live EXCEPT !.validators = registry]
<1>1. live \in States /\ live.validators \in Seq(Validators) /\ live.epoch <= changes
      /\ live.epoch \in Nat
  BY DEF IInv, ClientIsLawful, GoodState, States
<1>2. /\ registry \in Seq(Validators) /\ Len(registry) = Len(live.validators)
      /\ i \in 1..Len(live.validators) /\ registry[i] = v
      /\ \A j \in 1..Len(live.validators) : j # i => registry[j] = live.validators[j]
  BY <1>1 DEF Indices
<1> HIDE DEF registry
<1>3. /\ state \in States /\ state.validators = registry
      /\ state.epoch = live.epoch /\ state.balances = live.balances
      /\ state.previous_participation = live.previous_participation
      /\ state.current_participation = live.current_participation
      /\ state.inactivity_scores = live.inactivity_scores
  BY <1>1, <1>2 DEF States
<1>4. Change(state)
  BY DEF ChangeValidator, registry
<1> HIDE DEF state
<1>5. GoodState(state)
  BY <1>2, <1>3 DEF IInv, ClientIsLawful, GoodState
<1>6. Follows(live, state)
  BY <1>2, <1>3 DEF Follows, StaysSlashed
<1>7. state.epoch <= changes + 1
  BY <1>1, <1>3 DEF IInv, ClientIsLawful
<1> QED BY <1>4, <1>5, <1>6, <1>7, ChangeKeepsIInv
\* Replacing a list of numbers by another of the same length is one as well.
LEMMA ChangeListKeepsIInv ==
  ASSUME IInv, NEW state \in States, Change(state),
         state.validators = live.validators, state.epoch <= changes + 1,
         Len(state.balances) = Len(live.validators),
         Len(state.inactivity_scores) = Len(live.validators),
         Len(state.previous_participation) = Len(live.validators),
         Len(state.current_participation) = Len(live.validators)
  PROVE  IInv'
<1>1. Len(live.validators) \in Nat
  BY DEF IInv, ClientIsLawful, GoodState, States
<1>2. GoodState(state) /\ Follows(live, state)
  BY <1>1 DEF IInv, ClientIsLawful, GoodState, Follows, StaysSlashed
<1> QED BY <1>2, ChangeKeepsIInv

LEMMA LiveTyped ==
  ASSUME IInv
  PROVE  /\ live \in States /\ live.epoch \in Nat /\ live.epoch <= changes
         /\ live.validators \in Seq(Validators)
         /\ \A i \in Indices : /\ live.validators[i] \in Validators
                               /\ Lawful(live.validators[i])
<1>1. live \in States /\ live.epoch <= changes
  BY DEF IInv, ClientIsLawful, GoodState
<1>2. live.epoch \in Nat /\ live.validators \in Seq(Validators)
  BY <1>1 DEF States
<1>3. ASSUME NEW i \in Indices
      PROVE  live.validators[i] \in Validators /\ Lawful(live.validators[i])
  <2>1. i \in 1..Len(live.validators)
    BY <1>2 DEF Indices
  <2> QED BY <1>2, <2>1 DEF IInv, ClientIsLawful, GoodState
<1> QED BY <1>1, <1>2, <1>3

LEMMA NewValidatorIsLawful ==
  ASSUME NEW c \in Credentials, NEW e \in EffectiveBalances
  PROVE  NewValidator(c, e) \in Validators /\ Lawful(NewValidator(c, e))
BY DEF NewValidator, Validators, Epochs, Lawful, SaturatingAdd

LEMMA DepositKeepsIInv ==
  ASSUME IInv, NEW c \in Credentials, NEW e \in EffectiveBalances,
         NEW b \in Balances, Deposit(c, e, b)
  PROVE  IInv'
<1> DEFINE registry == Append(live.validators, NewValidator(c, e))
           balances == Append(live.balances, b)
           previous == Append(live.previous_participation, 0)
           current == Append(live.current_participation, 0)
           scores == Append(live.inactivity_scores, 0)
           state == [live EXCEPT !.validators = registry, !.balances = balances,
                                 !.previous_participation = previous,
                                 !.current_participation = current,
                                 !.inactivity_scores = scores]
           n == Len(live.validators)
<1>1. live \in States /\ GoodState(live) /\ n \in Nat
      /\ live.epoch \in Nat /\ live.epoch <= changes /\ changes \in Nat
  BY DEF IInv, ClientIsLawful, GoodState, States
<1>2. /\ registry \in Seq(Validators) /\ Len(registry) = n + 1
      /\ registry[n + 1] = NewValidator(c, e)
      /\ \A i \in 1..n : registry[i] = live.validators[i]
  BY <1>1, NewValidatorIsLawful, AppendProperties DEF States
<1>3. /\ balances \in Seq(0..(Modulus - 1)) /\ Len(balances) = n + 1
      /\ previous \in Seq(Nat) /\ Len(previous) = n + 1
      /\ current \in Seq(Nat) /\ Len(current) = n + 1
      /\ scores \in Seq(Nat) /\ Len(scores) = n + 1
  BY <1>1, AppendProperties DEF States, GoodState
<1> HIDE DEF registry, balances, previous, current, scores
<1>4. /\ state \in States /\ state.validators = registry
      /\ state.epoch = live.epoch /\ state.balances = balances
      /\ state.previous_participation = previous
      /\ state.current_participation = current
      /\ state.inactivity_scores = scores
  BY <1>1, <1>2, <1>3 DEF States
<1>5. Change(state)
  BY DEF Deposit, registry, balances, previous, current, scores
<1> HIDE DEF state
<1>6. GoodState(state)
  <2>1. \A i \in 1..(n + 1) : Lawful(registry[i])
    BY <1>1, <1>2, NewValidatorIsLawful DEF GoodState
  <2> QED BY <1>2, <1>3, <1>4, <2>1 DEF GoodState
<1>7. Follows(live, state)
  BY <1>1, <1>2, <1>4 DEF Follows, StaysSlashed
<1> QED BY <1>1, <1>4, <1>5, <1>6, <1>7, ChangeKeepsIInv

LEMMA UpdateValidatorKeepsIInv ==
  ASSUME IInv, NEW i \in Indices, NEW c \in Credentials,
         NEW e \in EffectiveBalances, UpdateValidator(i, c, e)
  PROVE  IInv'
<1> DEFINE v == [live.validators[i] EXCEPT !.withdrawal_credentials = c,
                                           !.effective_balance = e]
<1>1. v \in Validators /\ Lawful(v) /\ StaysSlashed(live.validators[i], v)
  BY LiveTyped DEF Validators, Lawful, StaysSlashed
<1>2. ChangeValidator(i, v)
  BY DEF UpdateValidator
<1> HIDE DEF v
<1> QED BY <1>1, <1>2, ChangeValidatorKeepsIInv

LEMMA ActivateKeepsIInv ==
  ASSUME EpochsFit, IInv, NEW i \in Indices, NEW delay \in ActivationDelays,
         Activate(i, delay)
  PROVE  IInv'
<1> DEFINE v == live.validators[i]
           w == IF v.activation_eligibility_epoch = FarFuture
                THEN [v EXCEPT !.activation_eligibility_epoch = live.epoch + 1]
                ELSE [v EXCEPT !.activation_epoch = live.epoch + delay]
<1>1. v \in Validators /\ Lawful(v) /\ live.epoch \in Nat /\ live.epoch <= changes
  BY LiveTyped
<1>2. changes \in Nat /\ changes < MaxChanges /\ ChangeValidator(i, w)
  BY DEF Activate, ChangeValidator, Change, IInv, ClientIsLawful
<1>3. live.epoch + 1 \in Epochs /\ live.epoch + delay \in Epochs
  BY <1>1, <1>2 DEF EpochsFit, Epochs
<1> HIDE DEF v
<1>4. w \in Validators /\ Lawful(w) /\ StaysSlashed(v, w)
  BY <1>1, <1>3 DEF Validators, Lawful, StaysSlashed
<1> HIDE DEF w
<1> QED BY <1>2, <1>4, ChangeValidatorKeepsIInv DEF v

\* An exit sets both epochs, as far apart as the decoder will assume.
LEMMA ExitedIsLawful ==
  ASSUME EpochsFit, IInv, changes < MaxChanges, NEW v \in Validators, Lawful(v),
         NEW delay \in ExitDelays
  PROVE  /\ Exited(v, delay) \in Validators /\ Lawful(Exited(v, delay))
         /\ Exited(v, delay).slashed = v.slashed
<1>1. CASE v.exit_epoch # FarFuture
  BY <1>1 DEF Exited
<1>2. CASE v.exit_epoch = FarFuture
  <2> DEFINE exit == live.epoch + delay
             w == [v EXCEPT !.exit_epoch = exit,
                            !.withdrawable_epoch = exit + WithdrawabilityDelay]
  <2>1. live.epoch \in Nat /\ changes \in Nat /\ live.epoch <= changes
    BY LiveTyped DEF IInv, ClientIsLawful
  <2>2. exit \in Epochs /\ exit + WithdrawabilityDelay \in Epochs
    BY <2>1 DEF EpochsFit, Epochs
  <2>3. Exited(v, delay) = w
    BY <1>2 DEF Exited
  <2> HIDE DEF exit
  <2>4. /\ w \in Validators /\ w.slashed = v.slashed /\ w.exit_epoch = exit
        /\ w.withdrawable_epoch = exit + WithdrawabilityDelay
    BY <2>2 DEF Validators
  <2>5. SaturatingAdd(exit, WithdrawabilityDelay) = exit + WithdrawabilityDelay
    BY <2>2 DEF Epochs, SaturatingAdd
  <2> HIDE DEF w
  <2> QED BY <2>3, <2>4, <2>5 DEF Lawful
<1> QED BY <1>1, <1>2

LEMMA ExitKeepsIInv ==
  ASSUME EpochsFit, IInv, NEW i \in Indices, NEW delay \in ExitDelays,
         Exit(i, delay)
  PROVE  IInv'
<1> DEFINE v == live.validators[i]
           w == Exited(v, delay)
<1>1. v \in Validators /\ Lawful(v)
  BY LiveTyped
<1>2. changes < MaxChanges /\ ChangeValidator(i, w)
  BY DEF Exit, ChangeValidator, Change
<1>3. w \in Validators /\ Lawful(w) /\ StaysSlashed(v, w)
  BY <1>1, <1>2, ExitedIsLawful DEF StaysSlashed
<1> HIDE DEF w
<1> QED BY <1>2, <1>3, ChangeValidatorKeepsIInv

LEMMA SlashKeepsIInv ==
  ASSUME EpochsFit, IInv, NEW i \in Indices, NEW delay \in ExitDelays,
         Slash(i, delay)
  PROVE  IInv'
<1> DEFINE v == live.validators[i]
           exited == Exited(v, delay)
           epoch == Max({exited.withdrawable_epoch, live.epoch + SlashedDelay})
           w == [exited EXCEPT !.slashed = TRUE, !.withdrawable_epoch = epoch]
<1>1. v \in Validators /\ Lawful(v) /\ live.epoch \in Nat /\ live.epoch <= changes
  BY LiveTyped
<1>2. changes \in Nat /\ changes < MaxChanges /\ ChangeValidator(i, w)
  BY DEF Slash, ChangeValidator, Change, IInv, ClientIsLawful
<1>3. exited \in Validators
  BY <1>1, <1>2, ExitedIsLawful
<1> HIDE DEF exited
<1>4. epoch \in Epochs
  <2> DEFINE a == exited.withdrawable_epoch
             b == live.epoch + SlashedDelay
  <2>1. a \in Epochs /\ b \in Epochs
    BY <1>1, <1>2, <1>3 DEF Validators, EpochsFit, Epochs
  <2>2. \E x \in {a, b} : \A y \in {a, b} : x >= y
    BY <2>1 DEF Epochs
  <2> HIDE DEF a, b
  <2>3. Max({a, b}) \in {a, b}
    BY <2>2 DEF Max
  <2> QED BY <2>1, <2>3 DEF a, b
<1> HIDE DEF epoch
<1>5. w \in Validators /\ Lawful(w) /\ StaysSlashed(v, w)
  BY <1>3, <1>4 DEF Validators, Lawful, StaysSlashed
<1> HIDE DEF w
<1> QED BY <1>2, <1>5, ChangeValidatorKeepsIInv
LEMMA IndicesAreUpTo ==
  ASSUME IInv
  PROVE  Indices = 1..Len(live.validators) /\ Len(live.validators) \in Nat
BY LiveTyped DEF Indices

LEMMA ListOnIndices ==
  ASSUME NEW n \in Nat, NEW S, NEW T \in SUBSET S, NEW list \in [1..n -> T]
  PROVE  list \in Seq(S) /\ Len(list) = n
OBVIOUS

LEMMA ProcessBalancesKeepsIInv ==
  ASSUME IInv, NEW balances \in [Indices -> Balances], ProcessBalances(balances)
  PROVE  IInv'
<1> DEFINE state == [live EXCEPT !.balances = balances]
<1>1. balances \in Seq(0..(Modulus - 1)) /\ Len(balances) = Len(live.validators)
  BY IndicesAreUpTo, ListOnIndices
<1>2. /\ state \in States /\ state.validators = live.validators
      /\ state.epoch = live.epoch /\ state.balances = balances
      /\ state.previous_participation = live.previous_participation
      /\ state.current_participation = live.current_participation
      /\ state.inactivity_scores = live.inactivity_scores
  BY <1>1, LiveTyped DEF States
<1>3. Change(state)
  BY DEF ProcessBalances
<1>4. GoodState(live) /\ state.epoch <= changes + 1
  BY <1>2, LiveTyped DEF IInv, ClientIsLawful
<1> HIDE DEF state
<1> QED BY <1>1, <1>2, <1>3, <1>4, ChangeListKeepsIInv DEF GoodState

LEMMA ProcessScoresKeepsIInv ==
  ASSUME IInv, NEW scores \in [Indices -> Scores], ProcessScores(scores)
  PROVE  IInv'
<1> DEFINE state == [live EXCEPT !.inactivity_scores = scores]
<1>1. scores \in Seq(Nat) /\ Len(scores) = Len(live.validators)
  BY IndicesAreUpTo, ListOnIndices
<1>2. /\ state \in States /\ state.validators = live.validators
      /\ state.epoch = live.epoch /\ state.balances = live.balances
      /\ state.previous_participation = live.previous_participation
      /\ state.current_participation = live.current_participation
      /\ state.inactivity_scores = scores
  BY <1>1, LiveTyped DEF States
<1>3. Change(state)
  BY DEF ProcessScores
<1>4. GoodState(live) /\ state.epoch <= changes + 1
  BY <1>2, LiveTyped DEF IInv, ClientIsLawful
<1> HIDE DEF state
<1> QED BY <1>1, <1>2, <1>3, <1>4, ChangeListKeepsIInv DEF GoodState

LEMMA FlaggedIsAList ==
  ASSUME NEW list \in Seq(Nat), NEW attesters, NEW flags \in Flags
  PROVE  /\ Flagged(list, attesters, flags) \in Seq(Nat)
         /\ Len(Flagged(list, attesters, flags)) = Len(list)
<1>1. \A i \in 1..Len(list) :
        (IF i \in attesters THEN flags ELSE list[i]) \in Nat
  OBVIOUS
<1>2. DOMAIN list = 1..Len(list) /\ Len(list) \in Nat
  OBVIOUS
<1> QED BY <1>1, <1>2 DEF Flagged

LEMMA AttestKeepsIInv ==
  ASSUME IInv, NEW attesters, NEW flags \in Flags, Attest(attesters, flags)
  PROVE  IInv'
<1> DEFINE current == Flagged(live.current_participation, attesters, flags)
           previous == Flagged(live.previous_participation, attesters, flags)
           state1 == [live EXCEPT !.current_participation = current]
           state2 == [live EXCEPT !.previous_participation = previous]
<1>1. /\ current \in Seq(Nat) /\ Len(current) = Len(live.current_participation)
      /\ previous \in Seq(Nat) /\ Len(previous) = Len(live.previous_participation)
  BY LiveTyped, FlaggedIsAList DEF States
<1>2. Change(state1) \/ Change(state2)
  BY DEF Attest
<1> HIDE DEF current, previous
<1>3. \A state \in {state1, state2} :
        /\ state \in States /\ state.validators = live.validators
        /\ state.epoch = live.epoch /\ state.balances = live.balances
        /\ state.previous_participation \in {live.previous_participation, previous}
        /\ state.current_participation \in {live.current_participation, current}
        /\ state.inactivity_scores = live.inactivity_scores
  BY <1>1, LiveTyped DEF States
<1>4. GoodState(live) /\ live.epoch \in Nat /\ changes \in Nat /\ live.epoch <= changes
  BY LiveTyped DEF IInv, ClientIsLawful
<1> HIDE DEF state1, state2
<1>5. PICK state \in {state1, state2} : Change(state)
  BY <1>2
<1>6. /\ state.epoch <= changes + 1
      /\ Len(state.balances) = Len(live.validators)
      /\ Len(state.inactivity_scores) = Len(live.validators)
      /\ Len(state.previous_participation) = Len(live.validators)
      /\ Len(state.current_participation) = Len(live.validators)
  BY <1>1, <1>3, <1>4, SMTT(30) DEF GoodState
<1> QED BY <1>3, <1>5, <1>6, ChangeListKeepsIInv

LEMMA EndEpochKeepsIInv ==
  ASSUME IInv, EndEpoch
  PROVE  IInv'
<1> DEFINE zeros == Zeros(Len(live.current_participation))
           state == [live EXCEPT
                       !.epoch = live.epoch + 1,
                       !.previous_participation = live.current_participation,
                       !.current_participation = zeros]
<1>1. live.current_participation \in Seq(Nat)
  BY LiveTyped DEF States
<1>2. zeros \in Seq(Nat) /\ Len(zeros) = Len(live.current_participation)
  BY <1>1 DEF Zeros
<1>3. Change(state)
  BY DEF EndEpoch
<1> HIDE DEF zeros
<1>4. /\ state \in States /\ state.validators = live.validators
      /\ state.epoch = live.epoch + 1 /\ state.balances = live.balances
      /\ state.previous_participation = live.current_participation
      /\ state.current_participation = zeros
      /\ state.inactivity_scores = live.inactivity_scores
  <2>1. live \in States /\ live.epoch + 1 \in Nat
    BY LiveTyped
  <2> QED BY <1>1, <1>2, <2>1 DEF States
<1>5. GoodState(live) /\ live.epoch \in Nat /\ changes \in Nat /\ live.epoch <= changes
  BY LiveTyped DEF IInv, ClientIsLawful
<1> HIDE DEF state
<1> QED BY <1>2, <1>3, <1>4, <1>5, ChangeListKeepsIInv DEF GoodState
-----------------------------------------------------------------------------
(* The library.                                                            *)

LEMMA CheckpointKeepsIInv ==
  ASSUME IInv, Checkpoint
  PROVE  IInv'
<1> DEFINE n == Len(checkpoints)
           base == checkpoints[n]
           Deltas == UNION {Created(b, t) : b, t \in States}
<1>1. /\ n \in Nat /\ n > 0 /\ checkpoints \in Seq(States)
      /\ base \in States /\ GoodState(base) /\ Follows(base, live)
      /\ live \in States /\ GoodState(live)
  BY DEF IInv, CheckpointsFollow, ClientIsLawful, GoodState
<1>2. /\ checkpoints' \in Seq(States) /\ Len(checkpoints') = n + 1
      /\ checkpoints'[n + 1] = live
      /\ \A k \in 1..n : checkpoints'[k] = checkpoints[k]
  BY <1>1, AppendProperties DEF Checkpoint
<1>3. PICK delta \in Created(base, live) : archive' = Append(archive, delta)
  BY <1>1 DEF Checkpoint, Created, Last
<1>4. delta \in Deltas /\ archive \in Seq(Deltas) /\ Len(archive) = n - 1
  BY <1>1, <1>3 DEF IInv, ArchiveComplete
<1> HIDE DEF Deltas
<1>5. /\ archive' \in Seq(Deltas) /\ Len(archive') = n
      /\ archive'[n] = delta
      /\ \A k \in 1..(n - 1) : archive'[k] = archive[k]
  BY <1>1, <1>3, <1>4, AppendProperties
<1>6. ClientIsLawful'
  BY DEF Checkpoint, IInv, ClientIsLawful
<1>7. CheckpointsFollow'
  <2>1. \A k \in 1..(n + 1) : GoodState(checkpoints'[k])
    BY <1>1, <1>2 DEF IInv, CheckpointsFollow
  <2>2. \A k \in 1..n : Follows(checkpoints'[k], checkpoints'[k + 1])
    <3> SUFFICES ASSUME NEW k \in 1..n
                 PROVE  Follows(checkpoints'[k], checkpoints'[k + 1])
      OBVIOUS
    <3>1. CASE k = n
      BY <1>1, <1>2, <3>1
    <3>2. CASE k # n
      <4>1. k \in 1..(n - 1) /\ k + 1 \in 1..n
        BY <1>1, <3>2
      <4> QED BY <1>2, <4>1 DEF IInv, CheckpointsFollow
    <3> QED BY <3>1, <3>2
  <2>3. Follows(live, live)
    BY <1>1 DEF GoodState, States, Follows, StaysSlashed
  <2>4. live' = live
    BY DEF Checkpoint
  <2> QED BY <1>1, <1>2, <2>1, <2>2, <2>3, <2>4 DEF CheckpointsFollow
<1>8. \A k \in 1..n : archive'[k] \in Created(checkpoints'[k], checkpoints'[k + 1])
  <2> SUFFICES ASSUME NEW k \in 1..n
               PROVE  archive'[k] \in Created(checkpoints'[k], checkpoints'[k + 1])
    OBVIOUS
  <2>1. CASE k = n
    BY <1>1, <1>2, <1>3, <1>5, <2>1
  <2>2. CASE k # n
    <3>1. k \in 1..(n - 1) /\ k + 1 \in 1..n
      BY <1>1, <2>2
    <3> QED BY <1>2, <1>4, <1>5, <3>1 DEF IInv, ArchiveComplete
  <2> QED BY <2>1, <2>2
<1>9. ArchiveComplete'
  BY <1>1, <1>2, <1>5, <1>8 DEF ArchiveComplete, Deltas
<1> QED BY <1>1, <1>2, <1>6, <1>7, <1>9 DEF IInv, Checkpoint

LEMMA InitIInv ==
  Init => IInv
<1> SUFFICES ASSUME Init
             PROVE  IInv
  OBVIOUS
<1>1. PICK n \in SnapshotSizes, c \in Credentials, e \in EffectiveBalances :
        \E balances \in [1..n -> Balances], score \in Scores :
          live = [epoch |-> 0,
                  validators |->
                    [i \in 1..n |->
                       [NewValidator(c, e) EXCEPT
                          !.activation_eligibility_epoch = 0,
                          !.activation_epoch = 0]],
                  balances |-> balances,
                  previous_participation |-> Zeros(n),
                  current_participation |-> Zeros(n),
                  inactivity_scores |-> [i \in 1..n |-> score]]
  BY DEF Init
<1>2. PICK balances \in [1..n -> Balances], score \in Scores :
          live = [epoch |-> 0,
                  validators |->
                    [i \in 1..n |->
                       [NewValidator(c, e) EXCEPT
                          !.activation_eligibility_epoch = 0,
                          !.activation_epoch = 0]],
                  balances |-> balances,
                  previous_participation |-> Zeros(n),
                  current_participation |-> Zeros(n),
                  inactivity_scores |-> [i \in 1..n |-> score]]
  BY <1>1
<1> DEFINE v == [NewValidator(c, e) EXCEPT !.activation_eligibility_epoch = 0,
                                           !.activation_epoch = 0]
<1>3. v \in Validators /\ Lawful(v)
  <2> DEFINE u == NewValidator(c, e)
  <2>1. u \in Validators /\ Lawful(u) /\ 0 \in Epochs
    BY NewValidatorIsLawful DEF Epochs
  <2> HIDE DEF u
  <2>2. /\ v \in Validators /\ v.slashed = u.slashed
        /\ v.exit_epoch = u.exit_epoch
        /\ v.withdrawable_epoch = u.withdrawable_epoch
    BY <2>1 DEF Validators, u
  <2> QED BY <2>1, <2>2 DEF Lawful
<1> HIDE DEF v
<1> DEFINE validators == [i \in 1..n |-> v]
           scores == [i \in 1..n |-> score]
<1>4. n \in Nat
  OBVIOUS
<1>5. /\ validators \in Seq(Validators) /\ Len(validators) = n
      /\ balances \in Seq(0..(Modulus - 1)) /\ Len(balances) = n
      /\ scores \in Seq(Nat) /\ Len(scores) = n
      /\ Zeros(n) \in Seq(Nat) /\ Len(Zeros(n)) = n
      /\ \A i \in 1..n : Lawful(validators[i])
  <2>1. /\ validators \in [1..n -> Validators]
        /\ balances \in [1..n -> 0..(Modulus - 1)]
        /\ scores \in [1..n -> Nat] /\ Zeros(n) \in [1..n -> Nat]
    BY <1>3 DEF Zeros
  <2>2. \A i \in 1..n : Lawful(validators[i])
    BY <1>3
  <2> HIDE DEF validators, scores
  <2> QED BY <1>4, <2>1, <2>2, ListOnIndices
<1>6. live = [epoch |-> 0, validators |-> validators, balances |-> balances,
              previous_participation |-> Zeros(n),
              current_participation |-> Zeros(n), inactivity_scores |-> scores]
  BY <1>2 DEF v
<1> HIDE DEF validators, scores
<1>7. GoodState(live) /\ live \in States /\ live.epoch = 0
  BY <1>5, <1>6 DEF GoodState, States
<1>8. Follows(live, live)
  BY <1>5, <1>6 DEF Follows, StaysSlashed
<1>9. ClientIsLawful
  BY <1>7 DEF Init, ClientIsLawful
<1>10. CheckpointsFollow
  <2>1. checkpoints = <<live>>
    BY DEF Init
  <2>2. checkpoints \in Seq(States) /\ Len(checkpoints) = 1
        /\ checkpoints[1] = live
    BY <1>7, <2>1
  <2> QED BY <1>7, <1>8, <2>2 DEF CheckpointsFollow
<1>11. ArchiveComplete
  BY DEF Init, ArchiveComplete
<1> QED BY <1>9, <1>10, <1>11 DEF Init, IInv

LEMMA NextKeepsIInv ==
  ASSUME EpochsFit, IInv, [Next]_vars
  PROVE  IInv'
<1>1. CASE \E c \in Credentials, e \in EffectiveBalances :
             \/ \E b \in Balances : Deposit(c, e, b)
             \/ \E i \in Indices : UpdateValidator(i, c, e)
  BY <1>1, DepositKeepsIInv, UpdateValidatorKeepsIInv
<1>2. CASE \E i \in Indices :
             \/ \E delay \in ActivationDelays : Activate(i, delay)
             \/ \E delay \in ExitDelays : Exit(i, delay) \/ Slash(i, delay)
  BY <1>2, ActivateKeepsIInv, ExitKeepsIInv, SlashKeepsIInv
<1>3. CASE \E attesters \in SUBSET Indices, flags \in Flags :
             Attest(attesters, flags)
  BY <1>3, AttestKeepsIInv
<1>4. CASE \E balances \in [Indices -> Balances] : ProcessBalances(balances)
  BY <1>4, ProcessBalancesKeepsIInv
<1>5. CASE \E scores \in [Indices -> Scores] : ProcessScores(scores)
  BY <1>5, ProcessScoresKeepsIInv
<1>6. CASE EndEpoch
  BY <1>6, EndEpochKeepsIInv
<1>7. CASE Checkpoint
  BY <1>7, CheckpointKeepsIInv
<1>8. CASE CheckpointPanics
  BY <1>8 DEF CheckpointPanics, IInv, ClientIsLawful, CheckpointsFollow,
              ArchiveComplete
<1>9. CASE Restore
  BY <1>9 DEF Restore, IInv, ClientIsLawful, CheckpointsFollow, ArchiveComplete
<1>10. CASE UNCHANGED vars
  BY <1>10 DEF vars, IInv, ClientIsLawful, CheckpointsFollow, ArchiveComplete
<1> QED
  BY <1>1, <1>2, <1>3, <1>4, <1>5, <1>6, <1>7, <1>8, <1>9, <1>10 DEF Next

\* Every reachable state satisfies the inductive invariant.
THEOREM Invariance ==
  ASSUME EpochsFit
  PROVE  Spec => []IInv
<1>1. Init => IInv
  BY InitIInv
<1>2. IInv /\ [Next]_vars => IInv'
  BY NextKeepsIInv
<1> QED BY <1>1, <1>2, PTL DEF Spec
-----------------------------------------------------------------------------
(* The reader.                                                             *)

LEMMA ReaderStartsAtSnapshot ==
  Init => replica = Target
<1> SUFFICES ASSUME Init
             PROVE  replica = Target
  OBVIOUS
<1>1. checkpoints = <<live>> /\ position = 1 /\ replica = live
  BY DEF Init
<1> QED BY <1>1 DEF Target

\* What a restore finds: two checkpoints of which the second follows the first,
\* and the delta between them.
LEMMA RestoreFinds ==
  ASSUME IInv, Restore
  PROVE  LET base == checkpoints[position]
             target == checkpoints[position + 1]
         IN  /\ GoodState(base) /\ GoodState(target) /\ Follows(base, target)
             /\ \E mode \in Modes(base.balances, target.balances) :
                  replica' = Apply(replica, Create(base, target, mode))
             /\ Target' = target
<1>1. position \in 1..(Len(checkpoints) - 1) /\ position + 1 \in 1..Len(checkpoints)
  BY DEF IInv, CheckpointsFollow, Restore
<1>2. archive[position] \in Created(checkpoints[position], checkpoints[position + 1])
  BY <1>1 DEF IInv, ArchiveComplete
<1> QED BY <1>1, <1>2 DEF IInv, CheckpointsFollow, Created, Restore, Target

\* Other steps do not touch the reader or the checkpoint it has reached.
LEMMA OthersKeepReader ==
  ASSUME IInv, [Next]_vars
  PROVE  Restore \/ (replica' = replica /\ Target' = Target)
<1>1. CASE Checkpoint
  <2>1. /\ checkpoints \in Seq(States) /\ live \in States
        /\ position \in 1..Len(checkpoints)
    BY DEF IInv, CheckpointsFollow, ClientIsLawful, GoodState
  <2>2. checkpoints'[position] = checkpoints[position]
    BY <1>1, <2>1, AppendProperties DEF Checkpoint
  <2> QED BY <1>1, <2>2 DEF Checkpoint, Target
<1>2. CASE CheckpointPanics \/ UNCHANGED vars
  BY <1>2 DEF CheckpointPanics, vars, Target
<1>3. CASE \E state : Change(state)
  BY <1>3 DEF Change, library, Target
<1>4. Restore \/ Checkpoint \/ CheckpointPanics \/ UNCHANGED vars
        \/ \E state : Change(state)
  BY DEF Next, Deposit, UpdateValidator, Activate, Exit, Slash, ChangeValidator,
         ProcessBalances, ProcessScores, Attest, EndEpoch
<1> QED BY <1>1, <1>2, <1>3, <1>4

LEMMA ModesAreDifferences ==
  ASSUME NEW base \in Seq(0..(Modulus - 1)), NEW target \in Seq(0..(Modulus - 1)),
         Len(base) <= Len(target)
  PROVE  Modes(base, target) \subseteq Int
<1>1. ASSUME NEW i \in Changed(base, target)
      PROVE  Wrapped(base[i], target[i]) \in Int
  <2>1. i \in 1..Len(base) /\ i \in 1..Len(target)
    BY DEF Changed, Common
  <2>2. base[i] \in 0..(Modulus - 1) /\ target[i] \in 0..(Modulus - 1)
    BY <2>1, ElementOfSeq
  <2> QED BY <2>2, WrappedDifference
<1> QED BY <1>1 DEF Modes

\* The packed form of a delta gives its numbers.
LEMMA PackedRoundTrip ==
  ASSUME NEW base \in Seq(0..(Modulus - 1)), NEW target \in Seq(0..(Modulus - 1)),
         Len(base) <= Len(target), NEW mode \in Int
  PROVE  ApplyBalances(base, DiffBalances(base, target, mode)) = target
<1> DEFINE delta == EncodeBalances(base, target, mode)
           n == Len(base)
           tags == Tags(base, target)
           diffTags == Tagged(tags, SET_TO_DIFF)
           corrected == [i \in DOMAIN tags |->
                           ZigzagEncode(Wrapped(base[i], target[i]) - mode)]
<1>1. delta.tags = tags /\ delta.diffs = Pushed(diffTags, corrected)
  BY DEF EncodeBalances
<1>2. tags = [i \in 1..n |-> Tag(base[i], target[i])] /\ n \in Nat
  BY DEF Tags, Common
<1>3. ASSUME NEW i \in 1..n
      PROVE  base[i] \in 0..(Modulus - 1) /\ target[i] \in 0..(Modulus - 1)
  <2>1. i \in 1..Len(base) /\ i \in 1..Len(target)
    OBVIOUS
  <2> QED BY <2>1, ElementOfSeq
<1>4. \A i \in 1..n : tags[i] \in 0..(TagValues - 1)
  <2> SUFFICES ASSUME NEW i \in 1..n
               PROVE  tags[i] \in 0..(TagValues - 1)
    OBVIOUS
  <2>1. Tag(base[i], target[i]) \in 0..3
    BY TagMeaning DEF SET_NO_CHANGE, SET_TO_ZERO, SET_TO_TARGET_VALUE, SET_TO_DIFF
  <2> QED BY <1>2, <2>1 DEF TagValues
<1>5. delta.tags \in Seq(0..(TagValues - 1))
  <2> HIDE DEF tags
  <2> QED BY <1>1, <1>2, <1>4
<1>6. \A i \in 1..n : corrected[i] \in Nat
  <2> SUFFICES ASSUME NEW i \in 1..n
               PROVE  corrected[i] \in Nat
    OBVIOUS
  <2>1. Wrapped(base[i], target[i]) - mode \in Int
    BY <1>3, WrappedDifference, SMTT(30)
  <2>2. corrected[i] = ZigzagEncode(Wrapped(base[i], target[i]) - mode)
    BY <1>2
  <2>3. \A k \in Int : ZigzagEncode(k) \in Nat
    BY DEF ZigzagEncode
  <2> QED BY <2>1, <2>2, <2>3
<1>7. delta.diffs \in Seq(Nat)
  <2>1. diffTags \in SUBSET (1..n)
    BY <1>2 DEF Tagged
  <2>2. Cardinality(diffTags) \in Nat
    <3>1. IsFiniteSet(1..n)
      BY <1>2, FS_Interval
    <3>2. IsFiniteSet(diffTags)
      BY <2>1, <3>1, FS_Subset
    <3> QED BY <3>2, FS_CardinalityType
  <2>3. \A k \in 1..Cardinality(diffTags) : Nth(diffTags, k) \in 1..n
    BY <1>2, <2>1, RankOfNth
  <2> HIDE DEF diffTags, corrected
  <2> QED BY <1>1, <1>6, <2>2, <2>3 DEF Pushed
<1> HIDE DEF delta
<1>8. UnpackTags(PackTags(delta.tags)) = delta.tags
      /\ ReadVarints(WriteVarints(delta.diffs)) = delta.diffs
  <2>1. delta.tags \in Seq(0..3)
    BY <1>5 DEF TagValues
  <2> QED BY <1>7, <2>1, TagsRoundTrip, VarintsRoundTrip
<1>9. delta = [tags |-> delta.tags, mode |-> delta.mode, diffs |-> delta.diffs,
               target_values |-> delta.target_values,
               appended_balances |-> delta.appended_balances]
      /\ delta.mode = mode
  BY DEF EncodeBalances, delta
<1>10. ApplyBalances(base, DiffBalances(base, target, mode))
         = DecodeBalances(base, delta)
  BY <1>8, <1>9 DEF ApplyBalances, DiffBalances, delta
<1> QED BY <1>10, BalanceRoundTrip DEF delta

\* The lists of two checkpoints, the second of which follows the first.
LEMMA ListsGrow ==
  ASSUME NEW base, NEW target, GoodState(base), GoodState(target),
         Follows(base, target)
  PROVE  /\ base.epoch \in Nat /\ target.epoch \in Nat
         /\ base.validators \in Seq({v \in Validators : Lawful(v)})
         /\ target.validators \in Seq({v \in Validators : Lawful(v)})
         /\ Len(base.validators) <= Len(target.validators)
         /\ base.balances \in Seq(0..(Modulus - 1))
         /\ target.balances \in Seq(0..(Modulus - 1))
         /\ Len(base.balances) <= Len(target.balances)
         /\ base.previous_participation \in Seq(Nat)
         /\ target.previous_participation \in Seq(Nat)
         /\ Len(base.previous_participation) <= Len(target.previous_participation)
         /\ base.current_participation \in Seq(Nat)
         /\ target.current_participation \in Seq(Nat)
         /\ Len(base.current_participation) <= Len(target.current_participation)
         /\ base.inactivity_scores \in Seq(Nat)
         /\ target.inactivity_scores \in Seq(Nat)
         /\ Len(base.inactivity_scores) <= Len(target.inactivity_scores)
<1>1. ASSUME NEW s, GoodState(s)
      PROVE  s.validators \in Seq({v \in Validators : Lawful(v)})
  <2> DEFINE registry == s.validators
  <2>1. registry \in Seq(Validators) /\ \A i \in 1..Len(registry) : Lawful(registry[i])
    BY <1>1 DEF GoodState, States
  <2> HIDE DEF registry
  <2>2. registry \in Seq({v \in Validators : Lawful(v)})
    BY <2>1
  <2> QED BY <2>2 DEF registry
<1> QED BY <1>1 DEF GoodState, States, Follows

LEMMA LawfulRecords ==
  \A v \in {v \in Validators : Lawful(v)} : IsRecord(v) /\ Lawful(v)
BY DEF Validators, IsRecord, Fields

\* Applied to its base, a delta makes the target of every list.
LEMMA StateIsRebuilt ==
  ASSUME NEW base, NEW target, GoodState(base), GoodState(target),
         Follows(base, target), NEW mode \in Modes(base.balances, target.balances)
  PROVE  Apply(base, Create(base, target, mode)) = target
<1> DEFINE state == Apply(base, Create(base, target, mode))
<1>1. state.validators = target.validators
  <2>1. \A i \in 1..Len(base.validators) :
          StaysSlashed(base.validators[i], target.validators[i])
    BY DEF Follows
  <2>2. ApplyValidators(base.validators,
                        DiffValidators(base.validators, target.validators))
          = target.validators
    BY <2>1, ListsGrow, LawfulRecords, RegistryRoundTrip
  <2> QED BY <2>2 DEF Apply, Create
<1>2. state.balances = target.balances
  <2>1. mode \in Int
    BY ListsGrow, ModesAreDifferences
  <2>2. ApplyBalances(base.balances,
                      DiffBalances(base.balances, target.balances, mode))
          = target.balances
    BY <2>1, ListsGrow, PackedRoundTrip
  <2> QED BY <2>2 DEF Apply, Create
<1>3. \A b, t \in Seq(Nat) :
        Len(b) <= Len(t) => /\ ApplyParticipation(b, DiffParticipation(b, t)) = t
                            /\ ApplyInactivity(b, DiffInactivity(b, t)) = t
  <2> SUFFICES ASSUME NEW b \in Seq(Nat), NEW t \in Seq(Nat), Len(b) <= Len(t)
               PROVE  /\ ApplyParticipation(b, DiffParticipation(b, t)) = t
                      /\ ApplyInactivity(b, DiffInactivity(b, t)) = t
    OBVIOUS
  <2>1. Between(b, b, t)
    BY DifferingFacts, ZenonT(40) DEF Between
  <2> QED BY <2>1, ParticipationRoundTrip, InactivityRoundTrip
<1>4. /\ state.previous_participation = target.previous_participation
      /\ state.current_participation = target.current_participation
      /\ state.inactivity_scores = target.inactivity_scores
      /\ state.epoch = target.epoch
  <2>1. ApplyParticipation(base.previous_participation,
                           DiffParticipation(base.previous_participation,
                                             target.previous_participation))
          = target.previous_participation
    BY <1>3, ListsGrow
  <2>2. ApplyParticipation(base.current_participation,
                           DiffParticipation(base.current_participation,
                                             target.current_participation))
          = target.current_participation
    BY <1>3, ListsGrow
  <2>3. ApplyInactivity(base.inactivity_scores,
                        DiffInactivity(base.inactivity_scores,
                                       target.inactivity_scores))
          = target.inactivity_scores
    BY <1>3, ListsGrow
  <2> QED BY <2>1, <2>2, <2>3 DEF Apply, Create
<1>5. state = [epoch |-> state.epoch, validators |-> state.validators,
               balances |-> state.balances,
               previous_participation |-> state.previous_participation,
               current_participation |-> state.current_participation,
               inactivity_scores |-> state.inactivity_scores]
  BY DEF Apply
<1>6. target = [epoch |-> target.epoch, validators |-> target.validators,
                balances |-> target.balances,
                previous_participation |-> target.previous_participation,
                current_participation |-> target.current_participation,
                inactivity_scores |-> target.inactivity_scores]
  BY DEF GoodState, States
<1> HIDE DEF state
<1> QED BY <1>1, <1>2, <1>4, <1>5, <1>6 DEF state

\* The reader's state is the checkpoint it has reached.
ReaderIsExact == replica = Target

LEMMA StepKeepsReaderExact ==
  IInv /\ ReaderIsExact /\ [Next]_vars => ReaderIsExact'
<1> SUFFICES ASSUME IInv, ReaderIsExact, [Next]_vars
             PROVE  ReaderIsExact'
  OBVIOUS
<1>1. CASE Restore
  <2> DEFINE base == checkpoints[position]
             target == checkpoints[position + 1]
  <2>1. PICK mode \in Modes(base.balances, target.balances) :
          replica' = Apply(replica, Create(base, target, mode))
    BY <1>1, RestoreFinds
  <2>2. /\ GoodState(base) /\ GoodState(target) /\ Follows(base, target)
        /\ Target' = target /\ replica = base
    BY <1>1, RestoreFinds DEF ReaderIsExact, Target
  <2> HIDE DEF base, target
  <2>3. Apply(base, Create(base, target, mode)) = target
    BY <2>2, StateIsRebuilt
  <2> QED BY <2>1, <2>2, <2>3 DEF ReaderIsExact
<1>2. CASE replica' = replica /\ Target' = Target
  BY <1>2 DEF ReaderIsExact
<1> QED BY <1>1, <1>2, OthersKeepReader

\* After any number of deltas, and whatever the client has done between the
\* checkpoints, the reader holds the whole state that was checkpointed.
THEOREM ReaderInvariance ==
  ASSUME EpochsFit
  PROVE  Spec => [](IInv /\ ReaderIsExact)
<1>1. Init => ReaderIsExact
  BY ReaderStartsAtSnapshot DEF ReaderIsExact
<1>2. Spec => []IInv
  BY Invariance
<1> QED BY <1>1, <1>2, StepKeepsReaderExact, PTL DEF Spec

\* The reader's records are those of the checkpoint, whatever deposits,
\* activations, exits and slashings there were.
THEOREM ValidatorsAreRestored ==
  ASSUME EpochsFit
  PROVE  Spec => []ValidatorsRestored
<1>1. ReaderIsExact => ValidatorsRestored
  BY DEF ReaderIsExact, ValidatorsRestored
<1> QED BY <1>1, ReaderInvariance, PTL

\* The reader's balances are those of the checkpoint, whichever mode create
\* chose each time.
THEOREM BalancesAreRestored ==
  ASSUME EpochsFit
  PROVE  Spec => []BalancesRestored
<1>1. ReaderIsExact => BalancesRestored
  BY DEF ReaderIsExact, BalancesRestored
<1> QED BY <1>1, ReaderInvariance, PTL

\* The reader's flags of both epochs are those of the checkpoint, from the gaps
\* between changed indices.
THEOREM FlagsAreRestored ==
  ASSUME EpochsFit
  PROVE  Spec => []FlagsRestored
<1>1. ReaderIsExact => FlagsRestored
  BY DEF ReaderIsExact, FlagsRestored
<1> QED BY <1>1, ReaderInvariance, PTL

\* The reader's scores are those of the checkpoint.
THEOREM ScoresAreRestored ==
  ASSUME EpochsFit
  PROVE  Spec => []ScoresRestored
<1>1. ReaderIsExact => ScoresRestored
  BY DEF ReaderIsExact, ScoresRestored
<1> QED BY <1>1, ReaderInvariance, PTL

-----------------------------------------------------------------------------
(* What follows from it.                                                   *)

\* The states and counters of the machine have their types.
THEOREM TypeCorrect ==
  ASSUME EpochsFit
  PROVE  Spec => []TypeOK
<1> DEFINE Kept == debug \in Builds /\ panicked \in BOOLEAN
<1>1. Init => Kept
  BY DEF Init
<1>2. Kept /\ [Next]_vars => Kept'
  BY DEF Next, vars, Deposit, UpdateValidator, Activate, Exit, Slash,
         ChangeValidator, ProcessBalances, ProcessScores, Attest, EndEpoch, Change,
         library, Checkpoint, CheckpointPanics, Restore
<1>3. IInv /\ ReaderIsExact /\ Kept => TypeOK
  BY DEF IInv, ReaderIsExact, TypeOK, ClientIsLawful, GoodState, CheckpointsFollow,
         ArchiveComplete, Target
<1> QED BY <1>1, <1>2, <1>3, ReaderInvariance, PTL DEF Spec

\* What the archive holds for the reader's next step.
LEMMA ArchiveFinds ==
  ASSUME IInv, NEW k \in 1..Len(archive)
  PROVE  LET base == checkpoints[k]
             target == checkpoints[k + 1]
         IN  /\ GoodState(base) /\ GoodState(target) /\ Follows(base, target)
             /\ \E mode \in Modes(base.balances, target.balances) :
                  archive[k] = Create(base, target, mode)
<1>1. k \in 1..(Len(checkpoints) - 1) /\ k \in 1..Len(checkpoints)
      /\ k + 1 \in 1..Len(checkpoints)
  BY DEF IInv, CheckpointsFollow, ArchiveComplete
<1>2. archive[k] \in Created(checkpoints[k], checkpoints[k + 1])
  BY DEF IInv, ArchiveComplete
<1> QED BY <1>1, <1>2 DEF IInv, CheckpointsFollow, Created

\* The delta the reader is about to apply was made for lists as long as its own:
\* the debug assertion of apply_balances_iter holds, and neither a patch nor a
\* score is skipped.
THEOREM DeltasFitTheReader ==
  ASSUME EpochsFit
  PROVE  Spec => []DeltaFitsReader
<1>1. ASSUME IInv, ReaderIsExact, position < Len(checkpoints)
      PROVE  DeltaFitsReader
  <2> DEFINE base == checkpoints[position]
             target == checkpoints[position + 1]
             delta == archive[position]
  <2>1. position \in 1..Len(archive)
    BY <1>1 DEF IInv, CheckpointsFollow, ArchiveComplete
  <2>2. /\ GoodState(base) /\ GoodState(target) /\ Follows(base, target)
        /\ replica = base
    BY <1>1, <2>1, ArchiveFinds DEF ReaderIsExact, Target
  <2>3. PICK mode \in Modes(base.balances, target.balances) :
          delta = Create(base, target, mode)
    BY <1>1, <2>1, ArchiveFinds
  <2> HIDE DEF base, target, delta
  <2>4. delta.balances.tags.len = Len(replica.balances)
    <3>1. Len(Tags(base.balances, target.balances)) = Len(base.balances)
      <4> DEFINE b == base.balances
                 t == target.balances
      <4>1. b \in Seq(0..(Modulus - 1)) /\ Len(b) <= Len(t)
        BY <2>2, ListsGrow
      <4> HIDE DEF b, t
      <4>2. Len(Tags(b, t)) = Len(b)
        BY <4>1 DEF Tags, Common
      <4> QED BY <4>2 DEF b, t
    <3>2. delta.balances.tags.len = Len(Tags(base.balances, target.balances))
      BY <2>3 DEF Create, DiffBalances, EncodeBalances, PackTags
    <3> QED BY <2>2, <3>1, <3>2
  <2>5. DOMAIN delta.validators.patches \subseteq DOMAIN replica.validators
    <3>1. DOMAIN delta.validators.patches = 1..Len(base.validators)
      BY <2>2, <2>3, ListsGrow DEF Create, DiffValidators
    <3>2. DOMAIN replica.validators = 1..Len(base.validators)
      BY <2>2, ListsGrow
    <3> QED BY <3>1, <3>2
  <2>6. delta.inactivity_scores.kind = "Sparse" =>
          \A k \in 1..Len(delta.inactivity_scores.indices) :
            delta.inactivity_scores.indices[k] \in DOMAIN replica.inactivity_scores
    <3> DEFINE b == base.inactivity_scores
               t == target.inactivity_scores
    <3>1. delta.inactivity_scores = DiffInactivity(b, t)
      BY <2>3 DEF Create
    <3>2. b \in Seq(Nat) /\ t \in Seq(Nat) /\ Len(b) <= Len(t)
      BY <2>2, ListsGrow
    <3>3. replica.inactivity_scores = b
      BY <2>2
    <3> HIDE DEF b, t
    <3>4. DOMAIN b = 1..Len(b)
      BY <3>2
    <3> QED BY <3>1, <3>2, <3>3, <3>4, InactivityIndices
  <2> DEFINE fits(list, flags) ==
               \A k \in 1..Len(flags.new_values) :
                 Places(ReadVarints(flags.sparse_indices))[k] \in DOMAIN list
  <2>7. \A b, t \in Seq(Nat) : Len(b) <= Len(t) => fits(b, DiffParticipation(b, t))
    <3> SUFFICES ASSUME NEW b \in Seq(Nat), NEW t \in Seq(Nat), Len(b) <= Len(t)
                 PROVE  fits(b, DiffParticipation(b, t))
      OBVIOUS
    <3>1. DOMAIN b = 1..Len(b)
      OBVIOUS
    <3> QED BY <3>1, ParticipationDelta
  <2> HIDE DEF fits
  <2>8. fits(replica.previous_participation, delta.previous_participation)
    <3>1. fits(base.previous_participation,
               DiffParticipation(base.previous_participation,
                                 target.previous_participation))
      BY <2>2, <2>7, ListsGrow
    <3> QED BY <2>2, <2>3, <3>1 DEF Create
  <2>9. fits(replica.current_participation, delta.current_participation)
    <3>1. fits(base.current_participation,
               DiffParticipation(base.current_participation,
                                 target.current_participation))
      BY <2>2, <2>7, ListsGrow
    <3> QED BY <2>2, <2>3, <3>1 DEF Create
  <2> QED BY <2>4, <2>5, <2>6, <2>8, <2>9 DEF DeltaFitsReader, delta, fits
<1>2. IInv /\ ReaderIsExact => DeltaFitsReader
  BY <1>1 DEF DeltaFitsReader
<1> QED BY <1>2, ReaderInvariance, PTL

\* The slice functions of the flags reconstruct the target between any two
\* neighbouring checkpoints, in their short form for zeros too.
THEOREM SlicesAgree ==
  ASSUME EpochsFit
  PROVE  Spec => []SliceFormAgrees
<1>1. ASSUME IInv, NEW k \in 1..Len(archive)
      PROVE  LET base == checkpoints[k].current_participation
                 target == checkpoints[k + 1].current_participation
             IN  ApplyParticipationSlice(base, DiffParticipationSlice(base, target))
                   = target
  <2> DEFINE base == checkpoints[k].current_participation
             target == checkpoints[k + 1].current_participation
  <2>1. base \in Seq(Nat) /\ target \in Seq(Nat) /\ Len(base) <= Len(target)
    BY <1>1, ArchiveFinds, ListsGrow
  <2> HIDE DEF base, target
  <2>2. ApplyParticipationSlice(base, DiffParticipationSlice(base, target)) = target
    BY <2>1, SliceRoundTrip
  <2> QED BY <2>2 DEF base, target
<1>2. IInv => SliceFormAgrees
  BY <1>1 DEF SliceFormAgrees
<1> QED BY <1>2, ReaderInvariance, PTL

\* A delta that arrives again, and adds no validator, changes no list but the
\* balances.
THEOREM RetriesKeepAllButBalances ==
  ASSUME EpochsFit
  PROVE  Spec => []RetryKeepsAllButBalances
<1>1. ASSUME IInv, ReaderIsExact, position > 1,
             Len(checkpoints[position - 1].balances) = Len(replica.balances)
      PROVE  [Apply(replica, archive[position - 1]) EXCEPT !.balances = replica.balances]
               = replica
  <2> DEFINE base == checkpoints[position - 1]
             target == replica
             again == Apply(target, archive[position - 1])
  <2>1. position - 1 \in 1..Len(archive) /\ (position - 1) + 1 = position
    BY <1>1 DEF IInv, CheckpointsFollow, ArchiveComplete
  <2>2. /\ GoodState(base) /\ GoodState(target) /\ Follows(base, target)
        /\ \E mode \in Modes(base.balances, target.balances) :
             archive[position - 1] = Create(base, target, mode)
    <3> DEFINE k == position - 1
    <3>1. k \in 1..Len(archive) /\ checkpoints[k + 1] = replica
      BY <1>1, <2>1 DEF ReaderIsExact, Target
    <3> HIDE DEF k
    <3>2. /\ GoodState(checkpoints[k]) /\ GoodState(replica)
          /\ Follows(checkpoints[k], replica)
          /\ \E mode \in Modes(checkpoints[k].balances, replica.balances) :
               archive[k] = Create(checkpoints[k], replica, mode)
      BY <1>1, <3>1, ArchiveFinds
    <3> QED BY <3>2 DEF k
  <2>3. PICK mode \in Modes(base.balances, target.balances) :
          archive[position - 1] = Create(base, target, mode)
    BY <2>2
  <2>4. Len(base.balances) = Len(target.balances)
    BY <1>1
  <2> HIDE DEF base, target
  <2>5. /\ Len(base.validators) = Len(target.validators)
        /\ Len(base.previous_participation) = Len(target.previous_participation)
        /\ Len(base.current_participation) = Len(target.current_participation)
        /\ Len(base.inactivity_scores) = Len(target.inactivity_scores)
    BY <2>2, <2>4 DEF GoodState
  <2>6. again.validators = target.validators
    <3>1. ApplyValidators(target.validators,
                          DiffValidators(base.validators, target.validators))
            = target.validators
      BY <2>2, <2>5, ListsGrow, LawfulRecords, RegistryRepeats
    <3> QED BY <2>3, <3>1 DEF Apply, Create
  <2>7. /\ base.previous_participation \in Seq(Nat)
         /\ target.previous_participation \in Seq(Nat)
         /\ base.current_participation \in Seq(Nat)
         /\ target.current_participation \in Seq(Nat)
         /\ base.inactivity_scores \in Seq(Nat)
         /\ target.inactivity_scores \in Seq(Nat)
    BY <2>2, ListsGrow
  <2>8. \A b, t \in Seq(Nat) :
          Len(b) = Len(t) => /\ ApplyParticipation(t, DiffParticipation(b, t)) = t
                             /\ ApplyInactivity(t, DiffInactivity(b, t)) = t
    <3> SUFFICES ASSUME NEW b \in Seq(Nat), NEW t \in Seq(Nat), Len(b) = Len(t)
                 PROVE  /\ ApplyParticipation(t, DiffParticipation(b, t)) = t
                        /\ ApplyInactivity(t, DiffInactivity(b, t)) = t
      OBVIOUS
    <3>1. Between(t, b, t) /\ Len(b) <= Len(t)
      BY DEF Between
    <3> QED BY <3>1, ParticipationRoundTrip, InactivityRoundTrip
  <2>9. again.previous_participation = target.previous_participation
    <3>1. ApplyParticipation(target.previous_participation,
                             DiffParticipation(base.previous_participation,
                                               target.previous_participation))
            = target.previous_participation
      BY <2>5, <2>8, <2>7
    <3> QED BY <2>3, <3>1 DEF Apply, Create
  <2>10. again.current_participation = target.current_participation
    <3>1. ApplyParticipation(target.current_participation,
                             DiffParticipation(base.current_participation,
                                               target.current_participation))
            = target.current_participation
      BY <2>5, <2>8, <2>7
    <3> QED BY <2>3, <3>1 DEF Apply, Create
  <2>11. again.inactivity_scores = target.inactivity_scores
    <3>1. ApplyInactivity(target.inactivity_scores,
                          DiffInactivity(base.inactivity_scores,
                                         target.inactivity_scores))
            = target.inactivity_scores
      BY <2>5, <2>8, <2>7
    <3> QED BY <2>3, <3>1 DEF Apply, Create
  <2>12. again.epoch = target.epoch
    BY <2>3 DEF Apply, Create
  <2>13. [again EXCEPT !.balances = target.balances]
           = [epoch |-> again.epoch, balances |-> target.balances,
              validators |-> again.validators,
              previous_participation |-> again.previous_participation,
              current_participation |-> again.current_participation,
              inactivity_scores |-> again.inactivity_scores]
    BY DEF Apply
  <2>14. target = [epoch |-> target.epoch, balances |-> target.balances,
                   validators |-> target.validators,
                   previous_participation |-> target.previous_participation,
                   current_participation |-> target.current_participation,
                   inactivity_scores |-> target.inactivity_scores]
    BY <2>2 DEF GoodState, States
  <2> HIDE DEF again
  <2>15. [again EXCEPT !.balances = target.balances] = target
    BY <2>6, <2>9, <2>10, <2>11, <2>12, <2>13, <2>14
  <2> QED BY <2>15 DEF again, target
<1>2. IInv /\ ReaderIsExact => RetryKeepsAllButBalances
  BY <1>1 DEF RetryKeepsAllButBalances
<1> QED BY <1>2, ReaderInvariance, PTL

\* A build with overflow checks panics only on balances beyond the range of i64.
THEOREM PanicsAreBeyondSigned ==
  ASSUME EpochsFit
  PROVE  Spec => PanicsOnlyBeyondSigned
<1> DEFINE Beyond == \E i \in Indices :
             \/ live.balances[i] >= Modulus \div 2
             \/ /\ i <= Len(Last(checkpoints).balances)
                /\ Last(checkpoints).balances[i] >= Modulus \div 2
<1>1. ASSUME IInv, CheckpointPanics
      PROVE  Beyond
  <2> DEFINE base == Last(checkpoints).balances
             target == live.balances
  <2>1. /\ base \in Seq(0..(Modulus - 1)) /\ target \in Seq(0..(Modulus - 1))
        /\ Indices = 1..Len(target)
    <3>1. Last(checkpoints) = checkpoints[Len(checkpoints)]
      BY DEF Last
    <3>2. Len(checkpoints) \in 1..Len(checkpoints)
      BY <1>1 DEF IInv, CheckpointsFollow
    <3>3. GoodState(checkpoints[Len(checkpoints)]) /\ GoodState(live)
      BY <1>1, <3>2 DEF IInv, CheckpointsFollow, ClientIsLawful
    <3> QED BY <1>1, <3>1, <3>3, IndicesAreUpTo DEF GoodState, States
  <2>2. PICK i \in Common(base, target) : Overflows(base[i], target[i])
    BY <1>1 DEF CheckpointPanics, Panics
  <2> HIDE DEF base, target
  <2>3. i \in 1..Len(base) /\ i \in 1..Len(target)
    BY <2>1, <2>2 DEF Common
  <2>4. base[i] \in 0..(Modulus - 1) /\ target[i] \in 0..(Modulus - 1)
    BY <2>1, <2>3, ElementOfSeq
  <2>5. base[i] >= Modulus \div 2 \/ target[i] >= Modulus \div 2
    <3> DEFINE b == base[i]
               t == target[i]
               half == Modulus \div 2
    <3>1. half \in Nat /\ b \in Nat /\ t \in Nat
      BY <2>4, BalanceAssumption DEF BalanceAssumption
    <3>2. Overflows(b, t)
      BY <2>2
    <3> HIDE DEF b, t, half
    <3>3. Signed(t) - Signed(b) \notin (-half)..(half - 1)
      BY <3>2 DEF Overflows, Difference, half
    <3>4. CASE b < half /\ t < half
      <4>1. Signed(b) = b /\ Signed(t) = t
        BY <3>4 DEF Signed, half
      <4> QED BY <3>1, <3>3, <3>4, <4>1
    <3>5. b >= half \/ t >= half \/ (b < half /\ t < half)
      BY <3>1
    <3> QED BY <3>4, <3>5 DEF b, t, half
  <2> QED BY <2>1, <2>3, <2>5 DEF base, target
<1>2. [Next]_vars /\ panicked' /\ ~panicked => CheckpointPanics
  BY DEF Next, vars, Deposit, UpdateValidator, Activate, Exit, Slash,
         ChangeValidator, ProcessBalances, ProcessScores, Attest, EndEpoch, Change,
         library, Checkpoint, CheckpointPanics, Restore
<1>3. IInv /\ [Next]_vars => (panicked' /\ ~panicked => Beyond)
  <2> HIDE DEF Beyond
  <2> QED BY <1>1, <1>2
<1> QED BY <1>3, ReaderInvariance, PTL DEF Spec, PanicsOnlyBeyondSigned

\* The byte form of a delta has the patches of the one that is stored, and makes
\* the buffer of the checkpoint of that of the one before.
THEOREM ByteFormsAgree ==
  ASSUME EpochsFit
  PROVE  Spec => ByteFormAgrees
<1> DEFINE base == Bytes(Last(checkpoints).validators)
           target == Bytes(live.validators)
           delta == DiffValidatorsBytes(base, target)
           Agrees == /\ delta.patches = Last(archive').validators.patches
                     /\ ApplyValidatorsBytes(base, delta) = target
<1>1. IInv /\ [Next]_vars => [archive' # archive => Agrees]_vars
  <2> SUFFICES ASSUME IInv, Checkpoint
               PROVE  Agrees
    BY DEF Next, vars, Deposit, UpdateValidator, Activate, Exit, Slash,
           ChangeValidator, ProcessBalances, ProcessScores, Attest, EndEpoch, Change,
           library, CheckpointPanics, Restore
  <2> DEFINE b == Last(checkpoints)
             R == {v \in Validators : Lawful(v)}
             Deltas == UNION {Created(u, t) : u, t \in States}
  <2>1. GoodState(b) /\ GoodState(live) /\ Follows(b, live)
    BY DEF IInv, ClientIsLawful, CheckpointsFollow, Last
  <2>2. Last(archive').validators.patches
          = DiffValidators(b.validators, live.validators).patches
    <3>1. PICK mode \in Modes(b.balances, live.balances) :
            archive' = Append(archive, Create(b, live, mode))
      BY DEF Checkpoint
    <3>2. archive \in Seq(Deltas)
      BY DEF IInv, ArchiveComplete
    <3> HIDE DEF Deltas, b
    <3>3. Last(archive') = Create(b, live, mode)
      BY <3>1, <3>2 DEF Last
    <3> QED BY <3>3 DEF Create
  <2> HIDE DEF b
  <2>3. /\ b.validators \in Seq(R) /\ live.validators \in Seq(R)
        /\ Len(b.validators) <= Len(live.validators)
        /\ \A i \in 1..Len(b.validators) :
             StaysSlashed(b.validators[i], live.validators[i])
    BY <2>1, ListsGrow DEF Follows
  <2> HIDE DEF R
  <2>4. \A v \in R : IsRecord(v) /\ Lawful(v)
    BY LawfulRecords DEF R
  <2>5. /\ base = Buffer(b.validators) /\ target = Buffer(live.validators)
    BY DEF b, Bytes, Buffer, Records, RecordOf
  <2>6. /\ delta.patches = DiffValidators(b.validators, live.validators).patches
        /\ ApplyValidatorsBytes(base, delta) = target
    <3> HIDE DEF base, target
    <3> QED BY <2>3, <2>4, <2>5, BytesRoundTrip
  <2> QED BY <2>2, <2>6
<1> HIDE DEF Agrees
<1>2. Spec => [][archive' # archive => Agrees]_vars
  BY <1>1, Invariance, PTL DEF Spec
<1> QED BY <1>2 DEF ByteFormAgrees, Agrees


\* The machine implements the archive of DeltaArchive with the whole state in
\* its view: each restore reads the checkpoint it should reproduce.
THEOREM RegistryImplementsArchive ==
  ASSUME EpochsFit
  PROVE  Spec => ImplementsArchive
<1>1. Init => Promise!Init
  BY DEF Init, Promise!Init
<1>2. IInv /\ ReaderIsExact' /\ [Next]_vars => [Promise!Next]_(Promise!vars)
  <2> SUFFICES ASSUME IInv, ReaderIsExact', [Next]_vars
               PROVE  [Promise!Next]_(Promise!vars)
    OBVIOUS
  <2>1. CASE UNCHANGED <<checkpoints, position, replica>>
    BY <2>1 DEF Promise!Next, Promise!Advance
  <2>2. CASE Checkpoint
    BY <2>2 DEF Checkpoint, Promise!Next, Promise!Checkpoint
  <2>3. CASE Restore
    <3>1. replica' = checkpoints[position + 1]
      BY <2>3 DEF ReaderIsExact, Target, Restore
    <3> QED BY <2>3, <3>1 DEF Restore, Promise!Next, Promise!Restore
  <2>4. \/ UNCHANGED <<checkpoints, position, replica>>
        \/ Checkpoint \/ Restore
    BY DEF Next, vars, Deposit, UpdateValidator, Activate, Exit, Slash,
           ChangeValidator, ProcessBalances, ProcessScores, Attest, EndEpoch, Change,
           library, CheckpointPanics
  <2> QED BY <2>1, <2>2, <2>3, <2>4
<1> QED BY <1>1, <1>2, ReaderInvariance, PTL DEF Spec, ImplementsArchive, Promise!Spec
=============================================================================
