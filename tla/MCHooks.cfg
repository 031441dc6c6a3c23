SPECIFICATION Spec
CONSTANTS
  p1 = p1
  p2 = p2
  MaxAgents = 2
  MaxSessions = 2
  Call = {p1, p2}
  MaxCalls = 2
  MaxOthers = 1
  Path = {"a", "b"}
  Text = {"old", "new"}
  Original = "old"
  Denies <- MCDenies
  Scope <- MCScope
  Loadable = {1}
  None = None
SYMMETRY MCSymmetry
INVARIANTS
  TypeOK
  GuardedWrites
  BudgetCounted
  IndexAgrees
CHECK_DEADLOCK FALSE
