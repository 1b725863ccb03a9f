\* One route, an ordinary message and an approval command, two processes the database
\* may pass between.
SPECIFICATION FairContextSpec
CONSTANTS
  None = None
  Route = {r1}
  MessageId = {m1, m2}
  Commands <- OneCommand
  SenderOf <- OneSender
  Session = {s1}
  Daemon = {d1, d2}
  RateLimit = 2
  MaxPendingGlobal = 2
  MaxPendingPerRoute = 2
  MaxAttempts = 1
  CleanupBatchSize = 2
  MaxReservations = 2
INVARIANTS
  ReplyFindsContext
PROPERTIES
  ContextsForgotten
