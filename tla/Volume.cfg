SPECIFICATION Spec
CONSTANTS
  a = a
  b = b
  t1 = t1
  t2 = t2
  NoTask = NoTask
  Task = {t1}
  Run = {1}
  Item = {a, b}
  Posting = {a, b}
  KeyOf <- OwnPosting
  LinkedIn = {a, b}
  DailyCap = 1
  Concurrency = 1
  SchedulerOn = TRUE
  RunnerOn = FALSE
  DbMayLock = TRUE
  MaxCrashes = 0
SYMMETRY RowSymmetry
INVARIANTS
  AutomaticSendsWithinCap
  VerifiedIsRecorded
CHECK_DEADLOCK FALSE
