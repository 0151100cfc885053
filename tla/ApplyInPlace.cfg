\* Debug and release builds; Phase 0, Altair and Electra; one field too many
\* or too few in a delta, two deltas, one panic of an accessor.
CONSTANTS
  Builds = {TRUE, FALSE}
  Forks = {0, 1, 5}
  Slips = {"historical_roots", "inactivity_scores", "pending_deposits"}
  MaxMistakes = 1
  MaxCheckpoints = 3
  Garbled = garbled
  MaxDeposits = 1
  MaxInterrupts = 1
SPECIFICATION Spec
INVARIANTS WrongOnlyIfMissingOrRepeated ForkBoundaryHolds IInv
PROPERTIES ImplementsStateDelta PanicsExplained RetriesEndUnlessBlocked
CHECK_DEADLOCK FALSE
