SPECIFICATION CoreSpec
CONSTANTS
  Txns = {t1, t2, t3}
  Appts = {a1}
  Calls = {c1}
  Techs = {k1}
  Texts = {d1}
  None = None
  Ranges <- MCRanges
SYMMETRY Symmetry
PROPERTIES CancelledIsTerminal
CHECK_DEADLOCK FALSE
