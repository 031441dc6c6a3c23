SPECIFICATION Spec
CONSTANTS
  w1 = w1
  w2 = w2
  c1 = c1
  i1 = i1
  i2 = i2
  Worker <- MCTwoWorkers
  Client <- MCOneClient
  Intent <- MCOneIntent
  Policy <- MCPolicy
  Overriding <- MCOverriding
  Status <- MCOneStatus
  Limit = 2
  MaxOps = 1
  WorkerKey = WorkerKey
  NoTask = NoTask
  NoProcess = NoProcess
INVARIANTS
  TypeOK
  OneCheckDecision
  DuplicatesOverlap
  FreshWork
SYMMETRY MCSymmetry
CHECK_DEADLOCK FALSE
