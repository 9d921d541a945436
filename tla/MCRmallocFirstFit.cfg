SPECIFICATION Spec
CONSTANTS
  HDR = 3
  PAGE = 10
  Pages = 3
  Slots = 2
  Size = {2, 4}
  Policy = {"FirstFit"}
INVARIANT
  HolesAreLargeEnough
