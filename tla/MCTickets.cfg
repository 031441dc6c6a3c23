SPECIFICATION Spec
CONSTANTS
  a1 = a1
  a2 = a2
  Actor = {a1, a2}
  MaxTickets = 4
  Type = {"feature", "docs"}
  Lane = {"feature"}
  LaneOf <- MCLaneOf
  LaneLimit <- MCLaneLimit
  Limit = 2
  Gap = {"tags"}
  Seeds <- MCSeeds
  Planned <- MCPlanned
  MaxCommands = 4
  None = None
SYMMETRY MCSymmetry
INVARIANTS
  TypeOK
  GivenOnce
  WithinLimits
  BlockersFirst
  
  ChildrenLinked
  FollowUpsOnce
CHECK_DEADLOCK FALSE
