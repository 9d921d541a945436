CONSTANTS
  Num = 2
  NULL = NULL
  Root = root
  a = a
  b = b
  c = c
  f = f
  g = g
  Entry <- Names
  Trees <- PlainTrees
  Capacity = 16
  FdLimit = 9
  Slots = 3

SPECIFICATION FairSpec
CHECK_DEADLOCK FALSE

PROPERTY Finishes
