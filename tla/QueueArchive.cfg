\* Queues of up to three of two items, duplicates included, and a 32-bit length
\* that queues of two and three items do not fit: no item of two and one of
\* three is counted.  One delta fills a queue, one empties it, one adds to what
\* was left behind and one may replace it.
CONSTANTS
  Items = {a, b}
  ItemSize = 2
  U32 = 4
  MaxLen = 3
  MaxCheckpoints = 5
SPECIFICATION Spec
INVARIANTS QueueRestoredUnlessNarrowed NeverOverdrained PureFifoIsCompact
CHECK_DEADLOCK FALSE
