CONSTANTS
  Writer = {w1, w2}
  Loader = w1
  FlushThread = {t1}
  NoOwner = none
  NumPartitions = 2
  NumSlots = 2
  BufferSize = 0
  LogRecords = TRUE
  Modes = {"static"}
  MergeParts = {1}
  OrderedFlush = FALSE
  L0Stop = TRUE
  MaxLoad = 0
  MaxPut = 4
  MaxReorg = 0
  MaxMid = 16
SPECIFICATION StallSpec
PROPERTIES StallEnds
CHECK_DEADLOCK FALSE
