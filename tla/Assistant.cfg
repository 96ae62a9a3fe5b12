SPECIFICATION AssistantSpec
CONSTANTS
  None = None
  Reqs = {q1, q2, q3, q4}
  Convs = {c1, c2}
  Photos = {p1}
  MaxTurns = 2
  MaxPhotos = 1
  KbReqs = {q1, q2, q3, q4}
  Contents = {c1, c2}
  Models = {ma, mb}
  Batches = 2
SYMMETRY AssistantSymmetry
INVARIANTS
  AssistantTypeOK TurnsAreWhole PhotosOutliveTheirUse CappedUnlessOverlapped
  IndexMatchesStore 
PROPERTIES EscalationIsAtomic
CHECK_DEADLOCK FALSE
