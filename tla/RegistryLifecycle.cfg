\* Two validators that are deposited, activated, updated, exited and slashed
\* over four epochs; withdrawable epochs before and after those of a slashing.
CONSTANTS
  VarintBase = 128
  Modulus = 16
  SmallBound = 4
  TagsPerByte = 4
  FarFuture = 99
  WithdrawabilityDelay = 2
  Credentials = {c, d}
  EffectiveBalances = {1, 2}
  Balances = {1}
  Flags = {}
  Scores = {0}
  ActivationDelays = {1}
  ExitDelays = {1, 4}
  SlashedDelay = 5
  Builds = {TRUE}
  SnapshotSizes = {1}
  MaxValidators = 2
  MaxChanges = 4
  MaxCheckpoints = 3
SPECIFICATION Spec
INVARIANTS ValidatorsRestored
PROPERTIES ByteFormAgrees
CHECK_DEADLOCK FALSE
