---------------------------- MODULE ListArchive -----------------------------
(***************************************************************************)
(* The scheduled lists of a beacon state, their deltas, and a reader that  *)
(* rebuilds them from a snapshot.                                          *)
(*                                                                         *)
(* ProcessSlot and ProcessBlock are the consensus client's (process_slots, *)
(* process_eth1_data, process_attestation and the epoch's resets), external*)
(* to the repository.  The lists of all forks are kept side by side; a     *)
(* run gives the lists it is not about nothing to hold.                    *)
(***************************************************************************)
EXTENDS ListDeltas

CONSTANTS
  SlotsPerEpoch,
  EpochsPerVotingPeriod,   \* after how many epochs the Eth1 votes are reset
  EpochsPerSyncPeriod,     \* after how many epochs the committees rotate
  Activations,             \* fork slots of the historical log; None: genesis
  Votes, Attestations, Committees,
  MaxSlot,                 \* bound on the slot
  MaxCheckpoints           \* bound on the number of checkpoints

ASSUME ScheduleAssumption ==
  /\ SlotsPerEpoch \in Nat \ {0}
  /\ EpochsPerVotingPeriod \in Nat \ {0}
  /\ EpochsPerSyncPeriod \in Nat \ {0}
  /\ SlotsPerHistoricalPeriod % SlotsPerEpoch = 0
  /\ \A a \in Activations \ {None} : a \in Nat /\ a % SlotsPerEpoch = 0
  /\ MaxSlot \in Nat
  /\ MaxCheckpoints \in Nat \ {0}

VARIABLES
  activation,   \* where the historical log of the state begins, a constant
  live,         \* the client's state
  checkpoints,  \* the states checkpointed so far; the first is the snapshot
  archive,      \* archive[k]: the delta from checkpoint k to checkpoint k+1
  position,     \* the checkpoint the reader has reached
  replica,      \* the reader's state
  panicked      \* creating a delta has panicked

vars == <<activation, live, checkpoints, archive, position, replica, panicked>>

States ==
  [slot: Nat,
   proposed: BOOLEAN,      \* the slot already has its block
   votes: Seq(Votes),
   log: Seq(Nat),          \* the root of period n is n
   previous: Seq(Attestations),
   current: Seq(Attestations),
   committees: Seq(Committees)]  \* the current and the next committee

TypeOK ==
  /\ activation \in Activations
  /\ live \in States
  /\ checkpoints \in Seq(States) /\ Len(archive) = Len(checkpoints) - 1
  /\ position \in 1..Len(checkpoints)
  /\ replica \in States
  /\ panicked \in BOOLEAN

Epoch(slot) == slot \div SlotsPerEpoch
VotingPeriod(slot) == Epoch(slot) \div EpochsPerVotingPeriod

-----------------------------------------------------------------------------
(* create and apply, as far as they concern the lists.  The slot travels   *)
(* in the scalar header, which is replaced whole.                          *)

\* A faulty variant for the mutation runs: the two attestation lists mixed up.
CreateFromPrevious(base, target) ==
  [scalar_header |-> [slot |-> target.slot, proposed |-> target.proposed],
   votes |-> DiffEth1Votes(base.votes, target.votes),
   log |-> DiffHistoricalLog(base.slot, target.slot, target.log, activation),
   previous |-> DiffAttestations(base.previous, target.previous),
   current |-> DiffAttestations(base.previous, target.current),
   committees |-> [i \in 1..2 |->
                     DiffSyncCommittee(base.committees[i],
                                       target.committees[i])]]

Create(base, target) ==
  [scalar_header |-> [slot |-> target.slot, proposed |-> target.proposed],
   votes |-> DiffEth1Votes(base.votes, target.votes),
   log |-> DiffHistoricalLog(base.slot, target.slot, target.log, activation),
   previous |-> DiffAttestations(base.previous, target.previous),
   current |-> DiffAttestations(base.current, target.current),
   committees |-> [i \in 1..2 |->
                     DiffSyncCommittee(base.committees[i],
                                       target.committees[i])]]

Apply(state, delta) ==
  [slot |-> delta.scalar_header.slot,
   proposed |-> delta.scalar_header.proposed,
   votes |-> ApplyList(state.votes, delta.votes),
   log |-> ApplyList(state.log, delta.log),
   previous |-> ApplyList(state.previous, delta.previous),
   current |-> ApplyList(state.current, delta.current),
   committees |-> [i \in 1..2 |->
                     ApplyList(state.committees[i], delta.committees[i])]]

-----------------------------------------------------------------------------
(* The consensus client.                                                   *)

\* The slot advances.  The end of an epoch moves the current attestations to
\* the previous ones; the end of a voting period empties the votes, the end
\* of a historical period appends its root, the end of a sync period makes
\* the next committee the current one.
ProcessSlot(committee) ==
  LET slot == live.slot + 1
      endOfEpoch == slot % SlotsPerEpoch = 0
      endOf(epochs) == endOfEpoch /\ Epoch(slot) % epochs = 0
  IN  /\ live.slot < MaxSlot
      /\ live' =
           [slot |-> slot,
            proposed |-> FALSE,
            votes |-> IF endOf(EpochsPerVotingPeriod) THEN <<>> ELSE live.votes,
            log |-> IF slot % SlotsPerHistoricalPeriod = 0
                    THEN Append(live.log, slot \div SlotsPerHistoricalPeriod)
                    ELSE live.log,
            previous |-> IF endOfEpoch THEN live.current ELSE live.previous,
            current |-> IF endOfEpoch THEN <<>> ELSE live.current,
            committees |-> IF endOf(EpochsPerSyncPeriod)
                           THEN <<live.committees[2], committee>>
                           ELSE live.committees]
      /\ UNCHANGED <<activation, checkpoints, archive, position, replica, panicked>>

\* The block of a slot: one vote, and new attestations of the current and
\* of the previous epoch.
ProcessBlock(vote, forCurrent, forPrevious) ==
  /\ ~live.proposed
  /\ live' = [live EXCEPT !.proposed = TRUE,
                          !.votes = Append(@, vote),
                          !.current = @ \o forCurrent,
                          !.previous = @ \o forPrevious]
  /\ UNCHANGED <<activation, checkpoints, archive, position, replica, panicked>>

-----------------------------------------------------------------------------
(* The library.                                                            *)

\* A faulty variant: a delta between equal states is not archived.
CheckpointIfChanged ==
  LET delta == Create(Last(checkpoints), live)
  IN  /\ Len(checkpoints) < MaxCheckpoints
      /\ delta.log # Panic
      /\ checkpoints' = Append(checkpoints, live)
      /\ archive' = IF live = Last(checkpoints) THEN archive
                    ELSE Append(archive, delta)
      /\ UNCHANGED <<activation, live, position, replica, panicked>>

Checkpoint ==
  LET delta == Create(Last(checkpoints), live)
  IN  /\ Len(checkpoints) < MaxCheckpoints
      /\ delta.log # Panic
      /\ checkpoints' = Append(checkpoints, live)
      /\ archive' = Append(archive, delta)
      /\ UNCHANGED <<activation, live, position, replica, panicked>>

\* diff_historical_log panics: no delta comes out of create.
CheckpointPanics ==
  /\ Len(checkpoints) < MaxCheckpoints
  /\ Create(Last(checkpoints), live).log = Panic
  /\ panicked' = TRUE
  /\ UNCHANGED <<activation, live, checkpoints, archive, position, replica>>

Restore ==
  /\ position < Len(checkpoints)
  /\ position' = position + 1
  /\ replica' = Apply(replica, archive[position])
  /\ UNCHANGED <<activation, live, checkpoints, archive, panicked>>

\* The state in which the fork begins that has the lists: no votes, no
\* attestations and no historical items yet.
Init ==
  /\ activation \in Activations
  /\ \E c \in Committees :
       live = [slot |-> IF activation = None THEN 0 ELSE activation,
               proposed |-> activation = None,
               votes |-> <<>>, log |-> <<>>,
               previous |-> <<>>, current |-> <<>>,
               committees |-> <<c, c>>]
  /\ checkpoints = <<live>>
  /\ archive = <<>>
  /\ position = 1
  /\ replica = live
  /\ panicked = FALSE

Next ==
  \/ \E c \in Committees : ProcessSlot(c)
  \/ \E vote \in Votes :
       \E forCurrent, forPrevious \in {<<>>} \cup {<<a>> : a \in Attestations} :
         ProcessBlock(vote, forCurrent, forPrevious)
  \/ Checkpoint
  \/ CheckpointPanics
  \/ Restore

Spec == Init /\ [][Next]_vars

-----------------------------------------------------------------------------
(* Properties.                                                             *)

Target == checkpoints[position]

\* Attestations and committees are restored, across any number of epoch ends
\* and rotations (diff_attestations and diff_sync_committee compare contents
\* and fall back to replacement).
EpochListsRestored ==
  /\ replica.previous = Target.previous
  /\ replica.current = Target.current
  /\ replica.committees = Target.committees

\* Between two checkpoints the votes were reset and grew again to at least
\* their former length, which diff_eth1_votes takes for plain growth.
Regrown(k) ==
  /\ VotingPeriod(checkpoints[k].slot) # VotingPeriod(checkpoints[k + 1].slot)
  /\ Len(checkpoints[k + 1].votes) >= Len(checkpoints[k].votes)
  /\ checkpoints[k].votes # <<>>

\* Only such a delta makes the reader's votes wrong, and they are wrong no
\* longer than until the next delta that replaces them.
VotesRestoredUnlessRegrown ==
  replica.votes # Target.votes =>
    \E k \in 1..(position - 1) :
      /\ Regrown(k)
      /\ \A l \in k..(position - 1) : archive[l].votes.kind = "Append"

\* Wrong or not, there are as many votes as there should be: the length of
\* the list never gives a wrong reconstruction away.
VotesCountRestored == Len(replica.votes) = Len(Target.votes)

\* types.rs:340-342: when the voting period resets, the delta switches to
\* ResetAndAppend, so the reader's votes are the checkpointed ones.
VotesRestored == replica.votes = Target.votes

\* The slots at which calculate_log_count gives the length of the log.  From
\* genesis it is one too high in the last slot of a period.  From a fork it is
\* one too low from the end of a period until whole periods have passed since
\* the fork; that is at no slot if the fork slot is aligned.
AwayFromBoundary(state) ==
  IF activation = None
  THEN (state.slot + 1) % SlotsPerHistoricalPeriod # 0
  ELSE state.slot % SlotsPerHistoricalPeriod
         >= activation % SlotsPerHistoricalPeriod

\* The historical log of the reader is exact if no checkpoint on its way was
\* taken where count and log disagree.
LogRestoredAwayFromBoundary ==
  (\A k \in 1..position : AwayFromBoundary(checkpoints[k]))
    => replica.log = Target.log

\* diff_historical_log panics only for a log from genesis and a target in the
\* last slot of a period.
PanicsOnlyAtBoundary ==
  [][panicked' /\ ~panicked =>
       activation = None /\ ~AwayFromBoundary(live)]_vars

\* historical_log.rs:25-26: the count follows the historical-period
\* calculation of the consensus state field, so the log is restored.
LogRestored == replica.log = Target.log

\* The lists of a state: each has its name, the committees their index too.
Lists ==
  {<<"votes", 0>>, <<"log", 0>>, <<"previous", 0>>, <<"current", 0>>,
   <<"committees", 1>>, <<"committees", 2>>}

Part(record, list) ==
  IF list[1] = "committees" THEN record.committees[list[2]]
  ELSE record[list[1]]

\* A list of the snapshot after the deltas of a reader, in their order.
Rebuilt(items, received) == FoldLeft(ApplyList, items, received)

\* A delta that is lost, or applied twice, spoils a list that it appends to,
\* when lost also one that it replaces.  No later append mends the list and
\* the next replacement does: a delta says nothing of what it was made from.
SpoiltUntilReplaced ==
  position = Len(checkpoints) =>
    \A list \in Lists :
      LET deltas == [k \in DOMAIN archive |-> Part(archive[k], list)]
          isRebuilt(received) ==
            Rebuilt(Part(checkpoints[1], list), received) = Part(replica, list)
      IN  \A m \in DOMAIN deltas :
            LET replaces(k) == deltas[k].kind = "Replace"
                mended == \E l \in (m + 1)..Len(deltas) : replaces(l)
                inert == ~replaces(m) /\ deltas[m].items = <<>>
            IN  /\ isRebuilt(RemoveAt(deltas, m)) <=> mended \/ inert
                /\ isRebuilt(InsertAt(deltas, m, deltas[m]))
                     <=> mended \/ inert \/ replaces(m)

\* The reader's lists are those of the snapshot after the deltas up to the
\* reader's checkpoint.
ReaderReplays ==
  \A list \in Lists :
    Part(replica, list) =
      Rebuilt(Part(checkpoints[1], list),
              [k \in 1..(position - 1) |-> Part(archive[k], list)])

\* The log of a state of the client at a slot: the roots of the periods that
\* have ended since the log began.
LogAt(slot) ==
  LET started == (IF activation = None THEN 0 ELSE activation)
                   \div SlotsPerHistoricalPeriod
  IN  [i \in 1..(slot \div SlotsPerHistoricalPeriod - started) |-> started + i]

\* A state of the client and an earlier one: votes are only added in a voting
\* period.
Follows(base, target) ==
  /\ base.slot <= target.slot
  /\ VotingPeriod(base.slot) = VotingPeriod(target.slot) =>
       IsPrefix(base.votes, target.votes)

\* A state of the client: its log is the one of its slot.
Scheduled(state) ==
  /\ state.log = LogAt(state.slot)
  /\ Len(state.committees) = 2
  /\ activation # None => activation <= state.slot

\* The checkpoints and the live state are states of the client, in order.
ScheduleKept ==
  /\ Scheduled(live)
  /\ Follows(Last(checkpoints), live)
  /\ \A k \in 1..Len(checkpoints) : Scheduled(checkpoints[k])
  /\ \A k \in 1..(Len(checkpoints) - 1) :
       Follows(checkpoints[k], checkpoints[k + 1])

\* The archive holds the delta between every two neighbours, none of which
\* made create panic.
ArchiveComplete ==
  /\ archive = [k \in 1..(Len(checkpoints) - 1) |->
                  Create(checkpoints[k], checkpoints[k + 1])]
  /\ \A k \in 1..(Len(checkpoints) - 1) : archive[k].log # Panic

SlotRestored ==
  replica.slot = Target.slot /\ replica.proposed = Target.proposed

\* The inductive invariant of the proofs: the client's schedule says what a
\* base and a target can differ in, and the reader has applied exactly the
\* deltas between its checkpoints.
IInv ==
  /\ TypeOK
  /\ ScheduleKept
  /\ ArchiveComplete
  /\ SlotRestored
  /\ ReaderReplays
  /\ EpochListsRestored
  /\ VotesCountRestored
  /\ VotesRestoredUnlessRegrown
  /\ LogRestoredAwayFromBoundary

\* The archive of DeltaArchive, seen through the lists whose deltas compare
\* contents.
View(state) == <<state.slot, state.previous, state.current, state.committees>>

Promise ==
  INSTANCE DeltaArchive WITH
    current <- View(live),
    checkpoints <- [k \in 1..Len(checkpoints) |-> View(checkpoints[k])],
    replica <- View(replica)

ImplementsArchive == Promise!Spec
=============================================================================
