CONSTANTS
  Writer = {w1, w2}
  Loader = w1
  FlushThread = {t1, t2}
  NoOwner = none
  NumPartitions = 2
  NumSlots = 2
  BufferSize = 0
  LogRecords = TRUE
  Modes = {"static", "subrange"}
  MergeParts = {1}
  OrderedFlush = FALSE
  L0Stop = FALSE
  MaxLoad = 1
  MaxPut = 4
  MaxReorg = 0
  MaxMid = 16
SPECIFICATION Spec
INVARIANTS WriteTypeOK SlotsConserved TaskOwnsSlot BuiltComplete WriteAssertions ImmutableHasOwner
PROPERTIES PutReturns LoadEnds
