SPECIFICATION SyncSpec
CONSTANTS
  Txns = {t1}
  Appts = {a1}
  Calls = {c1}
  Techs = {k1}
  Texts = {}
  None = None
  Ranges <- MCOneRange
  Dispatchers = {w1}
  MaxAttempts = 1
  MaxCrashes = 1
  Pollers = {p1, p2}
  OpenRanges <- MCOpen
  EditRanges <- MCEdits
  MaxEdits = 2
  MaxClock = 20
SYMMETRY Symmetry
INVARIANTS TokenNeverAhead
CHECK_DEADLOCK FALSE
