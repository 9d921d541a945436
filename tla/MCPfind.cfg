CONSTANTS
  Num = 2
  NULL = NULL
  Root = root
  a = a
  b = b
  c = c
  f = f
  g = g
  Entry <- Names
  Trees <- TestTrees
  Capacity = 16
  FdLimit = 5
  Slots = 3

SPECIFICATION FairSpec
CHECK_DEADLOCK FALSE

INVARIANTS
  TypeOK
  Framed
  ReadersFindData
  OneTaskPerDirectory
  SummaryCounts
  LostSignalIsFatal

PROPERTY
  FinishesUndisturbed
