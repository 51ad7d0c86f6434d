SPECIFICATION Spec
CONSTANTS
  NoName = NoName
  Programs <- Used
  Letter <- FirstLetter
  MaxArgs = 4
INVARIANTS
  FreesWhatItOwns
  ValueFollowsName
  NothingMissed
  RequiredHaveValues
\* A program that has ended, or freed its parser, does nothing more.
CHECK_DEADLOCK FALSE
