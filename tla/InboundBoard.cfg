SPECIFICATION SyncSpec
CONSTANTS
  Txns = {t1, t2}
  Appts = {a1, a2}
  Calls = {c1}
  Techs = {k1}
  Texts = {}
  None = None
  Ranges <- MCTwoRanges
  Dispatchers = {w1}
  MaxAttempts = 1
  MaxCrashes = 0
  Pollers = {p1}
  OpenRanges <- MCMoves
  EditRanges <- MCMoves
  MaxEdits = 1
  MaxClock = 20
SYMMETRY Symmetry
INVARIANTS SyncTypeOK AgreedUnlessRaced
PROPERTIES ImplementsBatchBoard
CHECK_DEADLOCK FALSE
