SPECIFICATION Spec
CONSTANTS
  Requests = {r1}
  MaxConnections = 2
  KafkaConfigured = TRUE
INVARIANT ClosedMeansClosed
CHECK_DEADLOCK FALSE
