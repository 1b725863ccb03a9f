\* Two routes of one sender, two messages each, one session, capacity and rate reached.
SPECIFICATION Spec
CONSTANTS
  r1 = r1
  m1 = m1
  m2 = m2
  m3 = m3
  None = None
  Route = {r1, r2}
  MessageId = {m1, m2}
  Commands <- NoCommands
  SenderOf <- OneSender
  Session = {s1}
  Daemon = {d1}
  RateLimit = 2
  MaxPendingGlobal = 2
  MaxPendingPerRoute = 1
  MaxAttempts = 1
  CleanupBatchSize = 1
  MaxReservations = 3
SYMMETRY RoutesAndMessages
INVARIANTS
  WithinCapacity
  WithinRate
