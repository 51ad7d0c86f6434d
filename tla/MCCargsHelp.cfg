SPECIFICATION Spec
CONSTANTS
  NoName = NoName
  Programs <- Example
  Letter <- FirstLetter
  MaxArgs = 3
INVARIANT HelpOnlyIfUnclaimed
CHECK_DEADLOCK FALSE
