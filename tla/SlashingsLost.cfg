\* What lib.rs says of every delta, asked of the slashing ring.
CONSTANTS
  SlotsPerEpoch = 2
  RootsLen = 1
  MixesLen = 1
  SlashingsLen = 3
  U16 = 4
  Roots = {r1}
  Mixes = {m1}
  ZeroRoot = zero
  MaxSlashed = 2
  MaxSlot = 7
  MaxCheckpoints = 3
SPECIFICATION Spec
INVARIANTS SlashingsRestored
CHECK_DEADLOCK FALSE
