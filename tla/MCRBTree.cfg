SPECIFICATION FairSpec
CONSTANTS
  Nil = Nil
  Any = {1, 2, 3, 4, 5, 6, 7}
  Deep = {11, 12, 13, 14, 15, 16, 17, 18, 19, 20}
  Keys = {1, 2, 3, 4, 5, 6, 7, 11, 12, 13, 14, 15, 16, 17, 18, 19, 20}
  MallocFails = TRUE
  Calls <- AnyOrAscending
INVARIANTS
  LinksAgree
  Ordered
  Balanced
  SiblingExists
PROPERTIES
  ImplementsSet
  CallsReturn
