\* One route, two messages, one of them an approval command; a process that may die
\* once.
SPECIFICATION FairSpec
CONSTANTS
  r1 = r1
  m1 = m1
  m2 = m2
  m3 = m3
  None = None
  Route = {r1}
  MessageId = {m1, m2}
  Commands <- LastCommand
  SenderOf <- OneSender
  Session = {s1}
  Daemon = {d1, d2}
  RateLimit = 2
  MaxPendingGlobal = 2
  MaxPendingPerRoute = 2
  MaxAttempts = 1
  CleanupBatchSize = 1
  MaxReservations = 2
PROPERTIES
  AcceptedEnds
  ImplementsTicketQueue
