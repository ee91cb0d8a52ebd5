SPECIFICATION Spec
CONSTANTS
  a = a
  b = b
  t1 = t1
  t2 = t2
  NoTask = NoTask
  Task = {t1}
  Run = {1}
  Item = {a, b}
  Posting = {a, b}
  KeyOf <- OwnPosting
  LinkedIn = {}
  DailyCap = 1
  Concurrency = 1
  SchedulerOn = FALSE
  RunnerOn = FALSE
  DbMayLock = FALSE
  MaxCrashes = 0
SYMMETRY RowSymmetry
INVARIANTS
  LateConfirmIsSent
CHECK_DEADLOCK FALSE
