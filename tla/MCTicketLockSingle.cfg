SPECIFICATION Spec
CONSTANTS
  p1 = p1
  p2 = p2
  p3 = p3
  a1 = a1
  a2 = a2
  t1 = t1
  t2 = t2
  Process <- MCProcess
  Actor <- MCActor
  ActorOf <- MCActorOf
  Ticket <- MCTicket
  Duration <- MCDuration
  Leasing = {p3}
  LeaseEnd = {2}
  LeaseToken = {1}
  MaxTime = 1
  MaxFencing = 2
  NoLock = NoLock
  NoOwner = NoOwner
  NoRelease = NoRelease
INVARIANTS
  SingleActiveTicket
