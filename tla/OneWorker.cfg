SPECIFICATION Spec
CONSTANTS
  Txns = {t1, t2, t3}
  Appts = {a1}
  Calls = {c1}
  Techs = {k1}
  Texts = {d1}
  None = None
  Ranges <- MCMergingRanges
  Dispatchers = {w1}
  MaxAttempts = 2
  MaxCrashes = 1
SYMMETRY Symmetry
INVARIANTS ProjectionTypeOK MirroredWhenDrained OrphansComeFromBlindDeletes
CHECK_DEADLOCK FALSE
