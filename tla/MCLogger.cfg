SPECIFICATION FairSpec
CONSTANTS
  t1 = t1
  t2 = t2
  Threads = {t1, t2}
  safe = safe
  plain = plain
  console = console
  log = log
  scratch = scratch
  Loggers = {safe, plain, console}
  Options <- Arguments
  Stdout = Stdout
  Null = Null
  Free = Free
  CallLevels = {1, 3}
  MayFail = {log}
  MaxCalls <- CallsOf
  MaxOpens = 3
INVARIANTS
  LinesWhole
  ReturnedIsOnDisk
  OpenFilesOwned
PROPERTY LockIsReleased
CHECK_DEADLOCK FALSE
