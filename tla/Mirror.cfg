SPECIFICATION CloudSpec
CONSTANTS
  t1 = t1
  t2 = t2
  Loop = Loop
  Bg = {t1, t2}
  MaxEdits = 2
  MaxSyncs = 1
SYMMETRY BgSymmetry
INVARIANTS
  CloudTypeOK
  SyncMirrors
  WipeRecovers
  RestoreTakesCloud
PROPERTIES
  ExistingNotClobbered
CHECK_DEADLOCK FALSE
