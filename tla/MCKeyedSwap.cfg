SPECIFICATION Spec
CONSTANTS
  c1 = c1
  c2 = c2
  k1 = k1
  k2 = k2
  Containers = {c1, c2}
  Keys = {k1, k2}
  NoAttr = NoAttr
  MaxValues = 2
  MaxSize = 6
  Kinds <- Buffered
INVARIANT NoDanglingAttr
\* Once every container has been freed there is nothing left to call.
CHECK_DEADLOCK FALSE
