SPECIFICATION FairSpec
CONSTANTS
  Keys = {k1, k2, k3, k4, k5, k6}
  k1 = k1
  k2 = k2
  k3 = k3
  k4 = k4
  k5 = k5
  k6 = k6
  InitCap = 4
  Empty = Empty
  Tombstone = Tombstone
  NoKey = NoKey
  Hash <- HashMixed
  CallocFails = TRUE
INVARIANTS
  NoDuplicates
  ChainsUnbroken
  RehashPartial
  ProbeKnows
PROPERTIES
  ImplementsSet
  LookupsReturn
  UpdatesReturnWithRoom
\* The process that writes through NULL stops.
CHECK_DEADLOCK FALSE
