\* Release build, asked for what the doc of BeaconStateDelta says of apply.
CONSTANTS
  Builds = {FALSE}
  Forks = {0, 1, 3, 5}
  Slips = {"historical_roots", "inactivity_scores", "pending_deposits"}
  MaxMistakes = 1
  MaxCheckpoints = 2
  Garbled = garbled
SPECIFICATION Spec
INVARIANTS OkMeansComplete
CHECK_DEADLOCK FALSE
