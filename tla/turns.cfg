\* One route, two messages, two sessions it may be rebound between.
SPECIFICATION TurnSpec
CONSTANTS
  None = None
  Route = {r1}
  MessageId = {m1, m2}
  Commands <- NoCommands
  SenderOf <- OneSender
  Session = {s1, s2}
  Daemon = {d1}
  RateLimit = 2
  MaxPendingGlobal = 2
  MaxPendingPerRoute = 2
  MaxAttempts = 2
  CleanupBatchSize = 2
  MaxReservations = 2
SYMMETRY SessionsAndMessages
INVARIANTS
  SoleHolder
  CompletedIsAnswered
  AnsweredOnce
PROPERTIES
  LeaseEndsByHolder
