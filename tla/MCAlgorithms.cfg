SPECIFICATION Spec
CONSTANTS
  Size = {1, 2, 3, 4, 5}
  Value = {1, 2, 3}
  Other <- Arrays
  Width = 3
  Task <- Tasks
INVARIANTS
  PrintsSorted
  PrintsPermutation
  ValueOptimal
  TextCostsValue
  CostsFit
  FoundOnce
  ShortestPath
  NoPathExact
PROPERTY
  AllEnd
