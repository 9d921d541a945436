CONSTANTS
  Worker = {w1, w2}
  Main = main
  Node = {n1, n2, n3, n4}
  NULL = NULL
  Root = root
  a = a
  b = b
  c = c
  d = d
  f = f
  g = g
  Listing <- OddListing
  Says <- OddSays
  Hits <- OddHits
  NoLine = {g}
  NoOpen = {f}
  FdLimit = 10
  SpinBound = 1

SPECIFICATION FairSpec

PROPERTY
  Terminates
