SPECIFICATION AccSpec
CONSTANTS
  AccReqs = {q1, q2, q3, q4}
  People = {p1}
  Emails = {e1}
  AdminEmails = {e1}
  Admins = {m1}
  None = None
SYMMETRY AccSymmetry
INVARIANTS AccTypeOK ApprovedByAnAdmin PendingIsAnnounced
PROPERTIES OnlyStaleSavesRevert
CHECK_DEADLOCK FALSE
