SPECIFICATION HeapSpec
CONSTANTS
  pq = pq
  here = here
  Objects = {pq}
  Addresses = {here}
  Null = Null
  Types = {"vector", "deque"}
  Elems = {1, 2, 3}
  Key <- Plain
  AllocFails = FALSE
  MaxSize <- Room
INVARIANT CallsAreDefined
\* Nothing happens after an undefined answer.
CHECK_DEADLOCK FALSE
