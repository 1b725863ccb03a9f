\* One message, a route that is rebound while its turn runs.
SPECIFICATION TurnSpec
CONSTANTS
  None = None
  Route = {r1}
  MessageId = {m1}
  Commands <- NoCommands
  SenderOf <- OneSender
  Session = {s1, s2}
  Daemon = {d1}
  RateLimit = 2
  MaxPendingGlobal = 2
  MaxPendingPerRoute = 2
  MaxAttempts = 2
  CleanupBatchSize = 2
  MaxReservations = 2
SYMMETRY SessionsAndMessages
INVARIANT TurnsSerialized
