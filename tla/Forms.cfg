SPECIFICATION FormsFairSpec
CONSTANTS
  g = g
  h = h
  b = b
  li = li
  wall = wall
  s = s
  Row = {g, h, b, wall, s, li}
  SiteOf <- Sites
  StepsOf <- Steps
  Captcha = {wall}
  Borderline = {b}
  Frank = {g}
  MaxTurns = 2
  MaxJobs = 2
  MaxEdits = 1
  MaxTroubles = 1
INVARIANTS
  FormsTypeOK
  ReadyIsComplete
  TakeoverIsVisible
PROPERTIES
  PrepareNeverSubmits
  OutcomeIsHonest
  SentAsReviewed
  JobEnds
CHECK_DEADLOCK FALSE
