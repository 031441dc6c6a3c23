SPECIFICATION FairSpec
CONSTANTS
  w1 = w1
  w2 = w2
  c1 = c1
  i1 = i1
  i2 = i2
  Worker <- MCOneWorker
  Client <- MCOneClient
  Intent <- MCTwoIntents
  Policy <- MCPolicy
  Overriding <- MCDenyOnly
  Status <- MCOneStatus
  Limit = 2
  MaxOps = 1
  WorkerKey = WorkerKey
  NoTask = NoTask
  NoProcess = NoProcess
INVARIANTS
  NothingSkipped
PROPERTIES
  EventuallyHandled
CHECK_DEADLOCK FALSE
