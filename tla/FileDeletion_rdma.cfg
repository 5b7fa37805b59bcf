\* log records and one configuration: the deletion task is scheduled once per batch
SPECIFICATION DeletionSpec
CONSTANTS
  Key = {1}
  Reader = {r1}
  Writer = {w1}
  Partition = {p1}
  Flusher = {f1}
  Coordinator = co
  NoOwner = none
  NumLevels = 2
  OrderedFlush = FALSE
  MaxInputs = 4
  MaxSeq = 2
  MaxMid = 2
  MaxVid = 4
  MaxFile = 3
  Modes = {"rdma_log"}
PROPERTIES ObsoleteFilesDeleted
\* every run ends when the id generators reach their bounds
CHECK_DEADLOCK FALSE
