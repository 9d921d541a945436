SPECIFICATION Spec
CONSTANTS
  god = god
  says = says
  Keyword = {god, says}
  MaxPieces = 3
INVARIANTS
  PlainReport
  NoLineMissed
  FileCheckExact
