\* three levels, flushes not ordered
SPECIFICATION Spec
CONSTANTS
  Key = {1}
  Reader = {r1}
  Writer = {w1}
  Partition = {p1}
  Flusher = {f1}
  Coordinator = co
  NoOwner = none
  NumLevels = 3
  OrderedFlush = FALSE
  MaxInputs = 4
  MaxSeq = 2
  MaxMid = 2
  MaxVid = 6
  MaxFile = 2
INVARIANT LevelsNewestFirst
\* every run ends when the id generators reach their bounds
CHECK_DEADLOCK FALSE
