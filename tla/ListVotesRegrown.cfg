\* What types.rs says of a reset of the votes.
CONSTANTS
  SlotsPerEpoch = 1
  EpochsPerVotingPeriod = 3
  EpochsPerSyncPeriod = 8
  SlotsPerHistoricalPeriod = 8
  None = None
  Activations = {None}
  Votes = {v1, v2}
  Attestations = {}
  Committees = {c}
  MaxSlot = 6
  MaxCheckpoints = 3
SPECIFICATION Spec
INVARIANTS VotesRestored
CHECK_DEADLOCK FALSE
