SPECIFICATION Spec
CONSTANTS
  Txns = {t1, t2, t3}
  Appts = {a1}
  Calls = {c1}
  Techs = {k1}
  Texts = {d1}
  None = None
  Ranges <- MCRanges
  Dispatchers = {w1, w2}
  MaxAttempts = 1
  MaxCrashes = 0
SYMMETRY Symmetry
INVARIANTS ProcessedMeansDelivered
PROPERTIES SettledForGood
CHECK_DEADLOCK FALSE
