SPECIFICATION MCSpec
CONSTANTS
  a = a
  b = b
  Test = {a, b}
  Answer <- MCAnswer
  Slots = 3
  Lines <- MCLines
  NoOpen = {a}
  Capacity = 1
INVARIANTS
  NoChildLeft
  VerdictsExact
  CrashSeen
PROPERTY
  Ends
CHECK_DEADLOCK FALSE
