SPECIFICATION Spec
CONSTANTS
  d1 = d1
  d2 = d2
  NoElem = NoElem
  NoBlock = NoBlock
  Deques = {d1, d2}
  Elems = {0, 1, 2}
  Programs <- Sound
INVARIANTS
  AtFindsContent
  NoLeak
PROPERTY ImplementsSequence
\* A fault ends the process; after one the other deque may have nothing to do.
CHECK_DEADLOCK FALSE
