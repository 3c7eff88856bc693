SPECIFICATION FairSpec
CONSTANTS
  Requests = {r1, r2}
  MaxConnections = 2
  KafkaConfigured = TRUE
INVARIANTS TypeOK OutcomeTrue
PROPERTIES NoAnswerDropped ImplementsRequest EveryCallReturns Reconnects
CHECK_DEADLOCK FALSE
