SPECIFICATION Spec
CONSTANTS
  HDR = 3
  PAGE = 10
  Pages = 3
  Slots = 2
  Size = {2, 5, 7}
  Policy = {"BestFit", "WorstFit", "FirstFit"}
INVARIANTS
  Tiling
  UsedSizeExact
  
PROPERTY
  ImplementsAllocator
