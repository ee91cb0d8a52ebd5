SPECIFICATION CloudSpec
CONSTANTS
  t1 = t1
  t2 = t2
  Loop = Loop
  Bg = {t1, t2}
  MaxEdits = 2
  MaxSyncs = 1
SYMMETRY BgSymmetry
INVARIANT CvIsMirrored
CHECK_DEADLOCK FALSE
