\* One route, two messages, two process generations.
SPECIFICATION Spec
CONSTANTS
  r1 = r1
  m1 = m1
  m2 = m2
  m3 = m3
  None = None
  Route = {r1}
  MessageId = {m1, m2}
  Commands <- NoCommands
  SenderOf <- OneSender
  Session = {s1}
  Daemon = {d1, d2}
  RateLimit = 2
  MaxPendingGlobal = 2
  MaxPendingPerRoute = 2
  MaxAttempts = 2
  CleanupBatchSize = 2
  MaxReservations = 3
SYMMETRY DaemonsAndMessages
INVARIANTS
  TicketsUnique
  FifoPerRoute
PROPERTIES
  ImplementsOwnership
  AcceptedOnce
