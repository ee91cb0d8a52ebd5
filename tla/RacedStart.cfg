SPECIFICATION Spec
CONSTANTS
  a = a
  b = b
  t1 = t1
  t2 = t2
  NoTask = NoTask
  Task = {t1, t2}
  Run = {1, 2}
  Item = {a}
  Posting = {a}
  KeyOf <- OwnPosting
  LinkedIn = {}
  DailyCap = 1
  Concurrency = 1
  SchedulerOn = TRUE
  RunnerOn = FALSE
  DbMayLock = FALSE
  MaxCrashes = 0
INVARIANTS
  OneCoroutine
CHECK_DEADLOCK FALSE
