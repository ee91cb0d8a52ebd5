SPECIFICATION FairSpec
CONSTANTS
  a = a
  b = b
  t1 = t1
  t2 = t2
  NoTask = NoTask
  Task = {t1}
  Run = {1}
  Item = {a}
  Posting = {a}
  KeyOf <- OwnPosting
  LinkedIn = {}
  DailyCap = 1
  Concurrency = 1
  SchedulerOn = TRUE
  RunnerOn = TRUE
  DbMayLock = FALSE
  MaxCrashes = 2
PROPERTIES
  CancelStopsWorker
  LostRunIsReleased
CHECK_DEADLOCK FALSE
