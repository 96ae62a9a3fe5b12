SPECIFICATION SyncSpec
CONSTANTS
  Txns = {t1, t2}
  Appts = {a1}
  Calls = {c1}
  Techs = {k1}
  Texts = {}
  None = None
  Ranges <- MCTwoRanges
  Dispatchers = {w1}
  MaxAttempts = 1
  MaxCrashes = 0
  Pollers = {p1}
  OpenRanges <- MCTwoRanges
  EditRanges <- MCEdits
  MaxEdits = 0
  MaxClock = 20
SYMMETRY Symmetry
PROPERTIES EchoesAreNoOps
CHECK_DEADLOCK FALSE
