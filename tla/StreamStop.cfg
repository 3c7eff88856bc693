SPECIFICATION Spec
CONSTANTS
  Writers = {w1}
  Stores <- MCStores
  MaxRecords = 1
  Symbol <- MCSymbol
  SampleOf <- MCUnsampled
  BatchSize = 2
  MaxRetries = 1
  FlushInterval = 1
  JoinTimeout = 2
INVARIANT GracefulStop
CHECK_DEADLOCK FALSE
