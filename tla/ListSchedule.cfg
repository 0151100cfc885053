\* Two kinds of votes, voting and historical periods of three slots, a log
\* that starts at genesis, at an aligned fork slot or within a period: the
\* votes are reset twice and can grow back to their former length, and two
\* periods end.
CONSTANTS
  SlotsPerEpoch = 1
  EpochsPerVotingPeriod = 3
  EpochsPerSyncPeriod = 16
  SlotsPerHistoricalPeriod = 3
  None = None
  Activations = {None, 3, 4}
  Votes = {v1, v2}
  Attestations = {}
  Committees = {c}
  MaxSlot = 7
  MaxCheckpoints = 4
SPECIFICATION Spec
INVARIANTS VotesRestoredUnlessRegrown VotesCountRestored
           LogRestoredAwayFromBoundary IInv
PROPERTIES PanicsOnlyAtBoundary
CHECK_DEADLOCK FALSE
