SPECIFICATION Spec
CONSTANTS
  p1 = p1
  p2 = p2
  t1 = t1
  t2 = t2
  Process = {p1, p2}
  Topic = {t1, t2}
  Attempts = {1, 2}
  MaxIntents = 2
  MaxOthers = 1
  MaxMoves = 1
  AnyHead = AnyHead
  NoTask = NoTask
  NoProcess = NoProcess
SYMMETRY MCSymmetry
INVARIANTS
  TypeOK
  ParentsPrecede
  HeadsKeepUp
  Chained
CHECK_DEADLOCK FALSE
