SPECIFICATION Spec
CONSTANTS
  d1 = d1
  d2 = d2
  NoElem = NoElem
  NoBlock = NoBlock
  Deques = {d1}
  Elems = {0, 1, 2}
  Programs <- Default
INVARIANT RangesInBuffer
