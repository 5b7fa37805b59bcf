\* the keys are spread over two ranges of the range index
INIT IterInit
NEXT IterNext
CONSTANTS
  NumKeys = 3
  NumRanges = 2
  Placements = {{}, {1}, {4}, {4, 1}, {5, 4, 2}, {5}, {3, 2, 1}}
INVARIANT IteratorContract
