CONSTANTS
  Worker = {w1, w2}
  Main = main
  Node = {n1, n2, n3, n4, n5}
  NULL = NULL
  Root = root
  a = a
  b = b
  c = c
  d = d
  f = f
  g = g
  Listing <- TreeListing
  Says <- TreeSays
  Hits <- TreeHits
  NoLine = {f}
  NoOpen = {g}
  FdLimit = 20
  SpinBound = 1

SPECIFICATION Spec
SYMMETRY Symmetry

INVARIANTS
  TypeOK
  SearchAccounted
  CountCoversRound
  NeverOvercounts
  FaultsExplained

PROPERTY
  UsesTwoLockQueue
