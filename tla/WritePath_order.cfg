CONSTANTS
  Writer = {w1, w2}
  Loader = w1
  FlushThread = {t1}
  NoOwner = none
  NumPartitions = 2
  NumSlots = 2
  BufferSize = 0
  LogRecords = FALSE
  Modes = {"subrange"}
  MergeParts = {}
  OrderedFlush = TRUE
  L0Stop = FALSE
  MaxLoad = 0
  MaxPut = 4
  MaxReorg = 2
  MaxMid = 16
SPECIFICATION OrderedSpec
PROPERTIES FlushedInOrder
CHECK_DEADLOCK FALSE
