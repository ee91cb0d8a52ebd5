SPECIFICATION PostingsSpec
CONSTANTS
  Ad <- AllAds
  Boards <- Listings
  QueueDays = 1
  RecheckDays = 1
  BlockDays = 1
  Cap = 1
  MaxRows = 2
  MaxScans = 2
  MaxSweeps = 1
  MaxDay = 2
  MaxActs = 3
INVARIANTS
  PostingsTypeOK
  ScanRespectsHistory
  RepostReturns
  ClosedWasGone
  OneCard
PROPERTIES
  DroppedIsExplained
CHECK_DEADLOCK FALSE
