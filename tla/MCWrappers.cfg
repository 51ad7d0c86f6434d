SPECIFICATION FairSpec
CONSTANTS
  c1 = c1
  c2 = c2
  k1 = k1
  k2 = k2
  Containers = {c1, c2}
  Objects = {c1, c2}
  near = near
  far = far
  Addresses = {near, far}
  Key <- KeyOf
  Keys = {k1, k2}
  NoAttr = NoAttr
  MaxValues = 3
  MaxSize = 6
  Kinds <- AllKinds
INVARIANTS
  SizeIsEntries
  NoDanglingWhereSwapsAll
  OwnsItsEntries
  OwnedByType
  HeapOrdered
  StrictlySorted
  RangeBrackets
PROPERTIES
  AdaptorImplements
  CallsReturn
\* Nothing happens after an undefined answer, nor once all containers are freed.
CHECK_DEADLOCK FALSE
