\* Attestations and two committees over three epochs of two slots, a sync
\* period of one epoch.
CONSTANTS
  SlotsPerEpoch = 2
  EpochsPerVotingPeriod = 2
  EpochsPerSyncPeriod = 1
  SlotsPerHistoricalPeriod = 8
  None = None
  Activations = {None}
  Votes = {v}
  Attestations = {a, b}
  Committees = {c, d}
  MaxSlot = 4
  MaxCheckpoints = 3
SPECIFICATION Spec
INVARIANTS TypeOK EpochListsRestored SpoiltUntilReplaced
PROPERTIES ImplementsArchive
CHECK_DEADLOCK FALSE
