SPECIFICATION Spec
CONSTANTS
  god = god
  says = says
  Keyword = {god, says}
  MaxPieces = 2
INVARIANT
  FindsTheLines
