CONSTANTS
  Thread = {t1, t2, t3}
  Node = {n1, n2, n3, n4}
  Data = {d1, d2}
  NULL = NULL
  CountBound = 2

SPECIFICATION Spec
SYMMETRY Symmetry
CONSTRAINT CountConstraint

INVARIANTS
  TypeOK
  NoDanglingAccess
  NodeOwnership
  ListShape
  IInv

PROPERTY
  FifoSpec
