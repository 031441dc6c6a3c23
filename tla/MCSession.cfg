SPECIFICATION Spec
CONSTANTS
  a1 = a1
  a2 = a2
  t1 = t1
  t2 = t2
  Actor = {a1, a2}
  Extends <- NamedAfter
  Ticket <- TwoTickets
  Outcome = {"keep", "done"}
  Clash <- AllClash
  MaxSessions = 2
  MaxCrashes = 0
  MaxCleanups = 0
  None = None
SYMMETRY Symmetric
INVARIANTS
  TypeOK
  OneHolderPerTicket
  ScopesApart
CHECK_DEADLOCK FALSE
