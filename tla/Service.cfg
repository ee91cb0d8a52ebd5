SPECIFICATION ServiceSpec
CONSTANTS
  laptop = laptop
  phone = phone
  c1 = c1
  c2 = c2
  Device = {laptop, phone}
  Local = {laptop}
  Mistyping = {phone}
  SessionTtl = 2
  Lockout = 2
  MaxFailures = 2
  MaxTokens = 2
  MaxChanges = 2
  MaxTime = 3
  PageSize = 2
  MaxEvents = 4
  MaxDrops = 2
  Hours = 6
  Long = 8
  Settings <- SomeSettings
  MaxUpsets = 2
  Boards <- SomeBoards
  Malformed = {"colonless"}
  Blocked = {"walled"}
  Listing <- Listings
  MaxSkipped = 1
  Cards = {c1, c2}
  Queries = 2
  Pages = 2
  Mode = "israel_remote"
  Strictness = "balanced"
  Cap = 1
INVARIANTS
  ServiceTypeOK
  SignedOutStaysOut
  GuessesAreBounded
  StreamIsExact
  NextScanIsFirstDue
  
  VerdictIsMonotone
PROPERTIES
  ScansAreStarted
CHECK_DEADLOCK FALSE
