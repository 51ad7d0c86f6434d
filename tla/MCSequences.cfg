SPECIFICATION AnySpec
CONSTANTS
  v1 = v1
  v2 = v2
  l1 = l1
  l2 = l2
  n1 = n1
  n2 = n2
  n3 = n3
  n4 = n4
  Vectors = {v1, v2}
  Attr <- Attrs
  Elems = {2, 3}
  NoElem = NoElem
  NoVector = NoVector
  ElemSize = 2
  Base = 2
  Weight <- Weights
  Key <- Backwards
  AllocFails = TRUE
  Reserves = {0, 8}
  MaxSize = 4
  IntMax = 8
  SizeMax = 63
  Lists = {l1, l2}
  Nodes = {n1, n2, n3, n4}
  ListElems = {1, 2, 3}
  ListKey <- Odd
  Null = Null
SYMMETRY Symmetry
CHECK_DEADLOCK FALSE
INVARIANTS
  CapacityHolds
  RingIntact
  ChainIntact
PROPERTIES
  VectorImplements
  ListImplements
  ForwardListImplements
