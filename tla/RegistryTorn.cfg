\* One validator; the delta of a buffer that ends within a record.
CONSTANTS
  VarintBase = 128
  Modulus = 16
  SmallBound = 4
  TagsPerByte = 4
  FarFuture = 99
  WithdrawabilityDelay = 2
  Credentials = {c}
  EffectiveBalances = {1}
  Balances = {1}
  Flags = {}
  Scores = {0}
  ActivationDelays = {1}
  ExitDelays = {1, 4}
  SlashedDelay = 5
  Builds = {TRUE}
  SnapshotSizes = {1}
  MaxValidators = 1
  MaxChanges = 1
  MaxCheckpoints = 2
SPECIFICATION Spec
INVARIANTS AcceptedBytesRestored
CHECK_DEADLOCK FALSE
