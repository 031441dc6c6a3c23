SPECIFICATION Spec
CONSTANTS
  g1 = g1
  g2 = g2
  a1 = a1
  a2 = a2
  c1 = c1
  c2 = c2
  t1 = t1
  Agent = {g1, g2}
  Actor = {a1, a2}
  Owners <- MCOwners
  Clone = {c1, c2}
  CloneOf <- MCCloneOf
  Plain <- MCPlain
  Ticket = {t1}
  Duration = {1, 2}
  Skew <- MCNoSkew
  MaxTime = 1
  MaxCommits = 2
  NoTask = NoTask
  NoLease = NoLease
  NoLock = NoLock
  NoOwner = NoOwner
INVARIANTS
  TypeOK
  TakenOnlyWhenLapsed
  ExclusiveAcrossClones
  FencingOrdersOwners
PROPERTIES
  ImplementsRegister
