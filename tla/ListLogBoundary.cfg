\* What historical_log.rs says of its counts, for a log from genesis.
CONSTANTS
  SlotsPerEpoch = 2
  EpochsPerVotingPeriod = 1
  EpochsPerSyncPeriod = 4
  SlotsPerHistoricalPeriod = 4
  None = None
  Activations = {None}
  Votes = {v}
  Attestations = {}
  Committees = {c}
  MaxSlot = 9
  MaxCheckpoints = 3
SPECIFICATION Spec
INVARIANTS LogRestored
CHECK_DEADLOCK FALSE
