\* Rings of two entries under two epochs of two slots and the start of a
\* third: a delta covers none, some, all or more than all of each ring, and
\* every epoch ring wraps.
CONSTANTS
  SlotsPerEpoch = 2
  RootsLen = 2
  MixesLen = 2
  SlashingsLen = 2
  U16 = 4
  Roots = {r1, r2}
  Mixes = {m1, m2}
  ZeroRoot = zero
  MaxSlashed = 1
  MaxSlot = 4
  MaxCheckpoints = 3
SPECIFICATION Spec
INVARIANTS TypeOK RootsRestored MixesRestored SlashingsConfined IInv
           RetryIsHarmless LostDeltasConfined
PROPERTIES RestoreStaysInWindow ImplementsArchive
CHECK_DEADLOCK FALSE
