SPECIFICATION Spec
CONSTANTS
  a = a
  b = b
  t1 = t1
  t2 = t2
  NoTask = NoTask
  Task = {t1, t2}
  Run = {1, 2}
  Item = {a}
  Posting = {a}
  KeyOf <- OwnPosting
  LinkedIn = {}
  DailyCap = 1
  Concurrency = 2
  SchedulerOn = FALSE
  RunnerOn = FALSE
  DbMayLock = FALSE
  MaxCrashes = 1
SYMMETRY TaskSymmetry
INVARIANTS
  TypeOK
  EvidenceForSent
  SenderOwnsRow
  PreparingIffHeld
  OneCoroutine
  CancelReachesWorker
  DryNeverSends
PROPERTIES
  ConfirmPerSubmit
  SentIsFinal
  KeepsPromise
CHECK_DEADLOCK FALSE
