SPECIFICATION Spec
CONSTANTS
  a1 = a1
  a2 = a2
  t1 = t1
  t2 = t2
  Actor = {a1}
  Extends = {}
  Ticket <- OneTicket
  Outcome = {"keep", "done"}
  Clash <- AllClash
  MaxSessions = 2
  MaxCrashes = 1
  MaxCleanups = 1
  None = None
INVARIANTS
  Accounted
  FinishedStaysFinished
CHECK_DEADLOCK FALSE
