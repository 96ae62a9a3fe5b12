SPECIFICATION CoreSpec
CONSTANTS
  Txns = {t1, t2, t3, t4}
  Appts = {a1, a2}
  Calls = {c1}
  Techs = {k1}
  Texts = {d1}
  None = None
  Ranges <- MCRanges
SYMMETRY Symmetry
INVARIANTS TypeOK NoDoubleBooking ScheduledIffBooked CancelledIsProjected
PROPERTIES ImplementsBoard EveryChangeIsEnqueued EveryChangeIsAudited
CHECK_DEADLOCK FALSE
