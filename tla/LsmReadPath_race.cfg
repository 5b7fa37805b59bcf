\* a Get against concurrent Puts into two partitions, flushes, compactions and the collection of files
SPECIFICATION Spec
CONSTANTS
  Key = {1}
  Reader = {r1}
  Writer = {w1, w2}
  Partition = {p1, p2}
  Flusher = {f1}
  Coordinator = co
  NoOwner = none
  NumLevels = 2
  OrderedFlush = FALSE
  MaxInputs = 4
  MaxSeq = 2
  MaxMid = 2
  MaxVid = 6
  MaxFile = 4
SYMMETRY Symmetry
INVARIANTS TypeOK NoIOError FilesInUseOnDisk FreshGet VersionRefsExact CompactedVersionAlive MemTableAlive IInv
\* every run ends when the id generators reach their bounds
CHECK_DEADLOCK FALSE
