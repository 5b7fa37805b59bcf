\* two keys, compactions of several tables (sets too large and merges within level 0 included) under a Get
SPECIFICATION CrowdedSpec
CONSTANTS
  Key = {1, 2}
  Reader = {r1}
  Writer = {w1}
  Partition = {p1}
  Flusher = {f1}
  Coordinator = co
  NoOwner = none
  NumLevels = 2
  OrderedFlush = FALSE
  MaxInputs = 2
  MaxSeq = 6
  MaxMid = 5
  MaxVid = 6
  MaxFile = 7
INVARIANTS IndexLeadsToData VersionWellFormed NoResurrection FreshGet
\* every run ends when the id generators reach their bounds
CHECK_DEADLOCK FALSE
