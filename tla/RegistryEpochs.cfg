\* Balances around the sign bit and the range of small differences, flags
\* and scores of up to three validators, tags packed in pairs, varints of
\* one bit each.
CONSTANTS
  VarintBase = 2
  Modulus = 16
  SmallBound = 4
  TagsPerByte = 2
  FarFuture = 99
  WithdrawabilityDelay = 2
  Credentials = {c}
  EffectiveBalances = {1}
  Balances = {0, 1, 7, 8}
  Flags = {1}
  Scores = {0, 1}
  ActivationDelays = {}
  ExitDelays = {}
  SlashedDelay = 5
  Builds = {TRUE, FALSE}
  SnapshotSizes = {2}
  MaxValidators = 3
  MaxChanges = 2
  MaxCheckpoints = 3
SPECIFICATION Spec
INVARIANTS TypeOK BalancesRestored FlagsRestored ScoresRestored
           DeltaFitsReader SliceFormAgrees RetryKeepsAllButBalances
PROPERTIES PanicsOnlyBeyondSigned ImplementsArchive
CHECK_DEADLOCK FALSE
