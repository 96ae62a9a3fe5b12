SPECIFICATION ConnFairSpec
CONSTANTS
  Consents = {q1, q2}
  Cals = {c1, c2}
  Appts = {a1}
  MaxAttempts = 2
  None = None
INVARIANTS ConnTypeOK RebuiltAfterReplacement OrphansComeFromRaces
PROPERTIES RevokedIsNoticed
CHECK_DEADLOCK FALSE
