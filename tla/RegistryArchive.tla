--------------------------- MODULE RegistryArchive --------------------------
(***************************************************************************)
(* The lists of a beacon state that have one entry for each validator      *)
(* (registry, balances, participation flags of two epochs, inactivity      *)
(* scores), their deltas, and a reader that rebuilds them.                 *)
(*                                                                         *)
(* The actions of the client follow the consensus specification (deposits, *)
(* registry updates, exits, slashings, epoch processing) and are external  *)
(* to the repository.  Epoch processing is split up by the list it writes. *)
(***************************************************************************)
EXTENDS BalanceDeltas, SparseDeltas, ValidatorBytes

CONSTANTS
  Credentials, EffectiveBalances, Balances, Flags, Scores,
  ActivationDelays,   \* how far ahead an activation may be set
  ExitDelays,         \* how far ahead an exit may be set
  SlashedDelay,       \* after how many epochs a slashed validator may leave
  Builds,             \* which builds check for arithmetic overflow
  SnapshotSizes,      \* how many validators the snapshot may have
  MaxValidators,      \* bound on the registry
  MaxChanges,         \* bound on the steps of the client
  MaxCheckpoints      \* bound on the number of checkpoints

ASSUME RegistryAssumption ==
  /\ Balances \subseteq 0..(Modulus - 1)
  /\ Flags \subseteq Nat /\ Scores \subseteq Nat
  /\ ActivationDelays \subseteq Nat \ {0} /\ ExitDelays \subseteq Nat \ {0}
  /\ SlashedDelay \in Nat
  /\ Builds \subseteq BOOLEAN
  /\ SnapshotSizes \subseteq Nat
  /\ MaxValidators \in Nat /\ MaxChanges \in Nat
  /\ MaxCheckpoints \in Nat \ {0}

VARIABLES
  debug,        \* the build checks for overflow, a constant
  live,         \* the client's state
  changes,      \* steps the client has taken
  checkpoints,  \* the states checkpointed so far; the first is the snapshot
  archive,      \* archive[k]: the delta from checkpoint k to checkpoint k+1
  position,     \* the checkpoint the reader has reached
  replica,      \* the reader's state
  panicked      \* creating a delta has panicked

vars ==
  <<debug, live, changes, checkpoints, archive, position, replica, panicked>>
library == <<debug, checkpoints, archive, position, replica, panicked>>

Epochs == 0..FarFuture

Validators ==
  [withdrawal_credentials: Credentials, effective_balance: EffectiveBalances,
   slashed: BOOLEAN,
   activation_eligibility_epoch: Epochs, activation_epoch: Epochs,
   exit_epoch: Epochs, withdrawable_epoch: Epochs]

\* The epoch travels in the scalar header.
States ==
  [epoch: Nat, validators: Seq(Validators), balances: Seq(0..(Modulus - 1)),
   previous_participation: Seq(Nat), current_participation: Seq(Nat),
   inactivity_scores: Seq(Nat)]

TypeOK ==
  /\ debug \in Builds
  /\ live \in States
  /\ changes \in 0..MaxChanges
  /\ checkpoints \in Seq(States) /\ Len(archive) = Len(checkpoints) - 1
  /\ position \in 1..Len(checkpoints)
  /\ replica \in States
  /\ panicked \in BOOLEAN

-----------------------------------------------------------------------------
(* create and apply, as far as they concern these lists.                   *)

Create(base, target, mode) ==
  [scalar_header |-> target.epoch,
   balances |-> DiffBalances(base.balances, target.balances, mode),
   validators |-> DiffValidators(base.validators, target.validators),
   previous_participation |->
     DiffParticipation(base.previous_participation,
                       target.previous_participation),
   current_participation |->
     DiffParticipation(base.current_participation,
                       target.current_participation),
   inactivity_scores |->
     DiffInactivity(base.inactivity_scores, target.inactivity_scores)]

Apply(state, delta) ==
  [epoch |-> delta.scalar_header,
   balances |-> ApplyBalances(state.balances, delta.balances),
   validators |-> ApplyValidators(state.validators, delta.validators),
   previous_participation |->
     ApplyParticipation(state.previous_participation,
                        delta.previous_participation),
   current_participation |->
     ApplyParticipation(state.current_participation,
                        delta.current_participation),
   inactivity_scores |->
     ApplyInactivity(state.inactivity_scores, delta.inactivity_scores)]

\* In a build with overflow checks, the subtraction of two balances panics.
Panics(base, target) ==
  debug /\ \E i \in Common(base.balances, target.balances) :
             Overflows(base.balances[i], target.balances[i])

-----------------------------------------------------------------------------
(* The consensus client.                                                   *)

NewValidator(credentials, effective_balance) ==
  [withdrawal_credentials |-> credentials,
   effective_balance |-> effective_balance, slashed |-> FALSE,
   activation_eligibility_epoch |-> FarFuture, activation_epoch |-> FarFuture,
   exit_epoch |-> FarFuture, withdrawable_epoch |-> FarFuture]

Change(state) ==
  /\ changes < MaxChanges
  /\ changes' = changes + 1
  /\ live' = state
  /\ UNCHANGED library

ChangeValidator(i, validator) ==
  Change([live EXCEPT !.validators[i] = validator])

Indices == DOMAIN live.validators

\* A deposit of a new validator extends every list.
Deposit(credentials, effective_balance, balance) ==
  /\ Len(live.validators) < MaxValidators
  /\ Change([live EXCEPT
       !.validators = Append(@, NewValidator(credentials, effective_balance)),
       !.balances = Append(@, balance),
       !.previous_participation = Append(@, 0),
       !.current_participation = Append(@, 0),
       !.inactivity_scores = Append(@, 0)])

\* A change of the credentials, and an update of the effective balance.
UpdateValidator(i, credentials, effective_balance) ==
  ChangeValidator(i,
    [live.validators[i] EXCEPT !.withdrawal_credentials = credentials,
                               !.effective_balance = effective_balance])

\* process_registry_updates: first eligible, then activated.
Activate(i, delay) ==
  LET v == live.validators[i]
  IN  /\ v.activation_epoch = FarFuture
      /\ ChangeValidator(i,
           IF v.activation_eligibility_epoch = FarFuture
           THEN [v EXCEPT !.activation_eligibility_epoch = live.epoch + 1]
           ELSE [v EXCEPT !.activation_epoch = live.epoch + delay])

\* initiate_validator_exit
Exited(v, delay) ==
  IF v.exit_epoch # FarFuture THEN v
  ELSE [v EXCEPT !.exit_epoch = live.epoch + delay,
                 !.withdrawable_epoch = live.epoch + delay + WithdrawabilityDelay]

Exit(i, delay) ==
  /\ live.validators[i].activation_epoch <= live.epoch
  /\ live.validators[i].exit_epoch = FarFuture
  /\ ChangeValidator(i, Exited(live.validators[i], delay))

\* slash_validator
Slash(i, delay) ==
  LET v == live.validators[i]
      exited == Exited(v, delay)
  IN  /\ ~v.slashed
      /\ v.activation_epoch <= live.epoch /\ live.epoch < v.withdrawable_epoch
      /\ ChangeValidator(i,
           [exited EXCEPT !.slashed = TRUE,
                          !.withdrawable_epoch =
                             Max({@, live.epoch + SlashedDelay})])

\* Rewards, penalties, withdrawals and top-ups may change any balance, and
\* the scores of all validators change together.
ProcessBalances(balances) == Change([live EXCEPT !.balances = balances])
ProcessScores(scores) == Change([live EXCEPT !.inactivity_scores = scores])

\* An aggregate of attestations for the current or, included late, the
\* previous epoch.
Flagged(list, attesters, flags) ==
  [i \in DOMAIN list |-> IF i \in attesters THEN flags ELSE list[i]]

Attest(attesters, flags) ==
  \/ Change([live EXCEPT !.current_participation = Flagged(@, attesters, flags)])
  \/ Change([live EXCEPT !.previous_participation = Flagged(@, attesters, flags)])

\* The epoch ends: process_participation_flag_updates.
EndEpoch ==
  Change([live EXCEPT !.epoch = @ + 1,
                      !.previous_participation = live.current_participation,
                      !.current_participation = Zeros(Len(@))])

-----------------------------------------------------------------------------
(* The library.                                                            *)

Checkpoint ==
  LET base == Last(checkpoints)
  IN  /\ Len(checkpoints) < MaxCheckpoints
      /\ ~Panics(base, live)
      /\ \E mode \in Modes(base.balances, live.balances) :
           archive' = Append(archive, Create(base, live, mode))
      /\ checkpoints' = Append(checkpoints, live)
      /\ UNCHANGED <<debug, live, changes, position, replica, panicked>>

CheckpointPanics ==
  /\ Len(checkpoints) < MaxCheckpoints
  /\ Panics(Last(checkpoints), live)
  /\ panicked' = TRUE
  /\ UNCHANGED <<debug, live, changes, checkpoints, archive, position, replica>>

Restore ==
  /\ position < Len(checkpoints)
  /\ position' = position + 1
  /\ replica' = Apply(replica, archive[position])
  /\ UNCHANGED <<debug, live, changes, checkpoints, archive, panicked>>

\* A snapshot of active validators with one score, that have not attested
\* yet.
Init ==
  /\ debug \in Builds
  /\ \E n \in SnapshotSizes, c \in Credentials, e \in EffectiveBalances :
       \E balances \in [1..n -> Balances], score \in Scores :
         live = [epoch |-> 0,
                 validators |->
                   [i \in 1..n |->
                      [NewValidator(c, e) EXCEPT
                         !.activation_eligibility_epoch = 0,
                         !.activation_epoch = 0]],
                 balances |-> balances,
                 previous_participation |-> Zeros(n),
                 current_participation |-> Zeros(n),
                 inactivity_scores |-> [i \in 1..n |-> score]]
  /\ changes = 0
  /\ checkpoints = <<live>>
  /\ archive = <<>>
  /\ position = 1
  /\ replica = live
  /\ panicked = FALSE

Next ==
  \/ \E c \in Credentials, e \in EffectiveBalances :
       \/ \E b \in Balances : Deposit(c, e, b)
       \/ \E i \in Indices : UpdateValidator(i, c, e)
  \/ \E i \in Indices :
       \/ \E delay \in ActivationDelays : Activate(i, delay)
       \/ \E delay \in ExitDelays : Exit(i, delay) \/ Slash(i, delay)
  \/ \E attesters \in SUBSET Indices, flags \in Flags : Attest(attesters, flags)
  \/ \E balances \in [Indices -> Balances] : ProcessBalances(balances)
  \/ \E scores \in [Indices -> Scores] : ProcessScores(scores)
  \/ EndEpoch
  \/ Checkpoint
  \/ CheckpointPanics
  \/ Restore

Spec == Init /\ [][Next]_vars

-----------------------------------------------------------------------------
(* Properties.                                                             *)

Target == checkpoints[position]

\* apply_validators_iter restores every record, the withdrawable epoch of a
\* validator that exits, is slashed, or both between two checkpoints, in any
\* order, included, although it is stored only for slashed validators.
ValidatorsRestored == replica.validators = Target.validators

\* apply_balances_iter restores every balance, across the sign of i64 and
\* the range of i32, whichever mode create chose and however tags, varints
\* and explicit values are interleaved.
BalancesRestored == replica.balances = Target.balances

\* apply_participation_iter restores the flags of both epochs from gaps, while
\* epochs end and validators are added.
FlagsRestored ==
  /\ replica.previous_participation = Target.previous_participation
  /\ replica.current_participation = Target.current_participation

\* apply_inactivity restores the scores of old and new validators, from single
\* values or from the short form that create chooses when all become zero.
ScoresRestored == replica.inactivity_scores = Target.inactivity_scores

\* The delta the reader is about to apply fits its lists: the tags are as many
\* as its balances (the debug assertion of apply_balances_iter), no patch is
\* skipped, no score is out of bounds, and the flags are not filled up.
DeltaFitsReader ==
  position < Len(checkpoints) =>
    LET delta == archive[position]
        scores == delta.inactivity_scores
        fits(list, flags) ==
          \A k \in 1..Len(flags.new_values) :
            Places(ReadVarints(flags.sparse_indices))[k] \in DOMAIN list
    IN  /\ delta.balances.tags.len = Len(replica.balances)
        /\ DOMAIN delta.validators.patches \subseteq DOMAIN replica.validators
        /\ scores.kind = "Sparse" =>
             \A k \in 1..Len(scores.indices) :
               scores.indices[k] \in DOMAIN replica.inactivity_scores
        /\ fits(replica.previous_participation, delta.previous_participation)
        /\ fits(replica.current_participation, delta.current_participation)

\* participation.rs: the slice functions, which know a short form for zeros,
\* reconstruct the target between any two neighbouring checkpoints too.
SliceFormAgrees ==
  \A k \in 1..Len(archive) :
    LET base == checkpoints[k].current_participation
        target == checkpoints[k + 1].current_participation
    IN  ApplyParticipationSlice(base, DiffParticipationSlice(base, target))
          = target

\* The buffer a client keeps the registry in; the index of a validator stands
\* for its public key.
Bytes(validators) ==
  FlattenSeq([i \in DOMAIN validators |->
                [p \in 1..RecordSize |->
                   IF p = 1 THEN i ELSE validators[i][Layout[p]]]])

\* validators.rs: given buffers of complete records, as they ask for, the byte
\* functions make and apply the patches of the iterator functions and so
\* restore the buffer of the target, public keys included.
ByteFormAgrees ==
  [][archive' # archive =>
       LET base == Bytes(Last(checkpoints).validators)
           target == Bytes(live.validators)
           delta == DiffValidatorsBytes(base, target)
       IN  /\ delta.patches = Last(archive').validators.patches
           /\ ApplyValidatorsBytes(base, delta) = target]_vars

\* Applying the last delta twice changes no flag, no score and no validator,
\* unless it adds validators; balances are another matter.
RetryKeepsAllButBalances ==
  position > 1 /\ Len(checkpoints[position - 1].balances) = Len(replica.balances)
    => LET again == Apply(replica, archive[position - 1])
       IN  [again EXCEPT !.balances = replica.balances] = replica

\* create panics only if a balance lies beyond the range of i64, which no
\* supply of the protocol reaches.
PanicsOnlyBeyondSigned ==
  [][panicked' /\ ~panicked =>
       \E i \in Indices : \/ live.balances[i] >= Modulus \div 2
                          \/ /\ i <= Len(Last(checkpoints).balances)
                             /\ Last(checkpoints).balances[i] >= Modulus \div 2]_vars

\* The archive of DeltaArchive, with the whole state as its view.
Promise == INSTANCE DeltaArchive WITH current <- live

ImplementsArchive == Promise!Spec

-----------------------------------------------------------------------------
(* What the repository's docs say, and the code does not keep.             *)

\* validators.rs:222-223: diff_validators panics if a buffer ends with a partial
\* record.  So a buffer it makes a delta for has none, and is restored by the
\* delta as in the example (validators.rs:230-233), to its last byte.
AcceptedBytesRestored ==
  \A k \in 1..Len(archive) :
    LET base == Bytes(checkpoints[k].validators)
        target == Bytes(checkpoints[k + 1].validators)
    IN  \A n \in 0..(RecordSize - 1) :
          LET buffer == target \o SubSeq(target, 1, n)
          IN  ApplyValidatorsBytes(base, DiffValidatorsBytes(base, buffer)) = buffer
=============================================================================
