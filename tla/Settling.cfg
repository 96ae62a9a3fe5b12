SPECIFICATION FairSpec
CONSTANTS
  Txns = {t1, t2, t3}
  Appts = {a1, a2}
  Calls = {c1}
  Techs = {k1}
  Texts = {}
  None = None
  Ranges <- MCOneRange
  Dispatchers = {w1}
  MaxAttempts = 1
  MaxCrashes = 0
PROPERTIES EveryEntrySettles
CHECK_DEADLOCK FALSE
