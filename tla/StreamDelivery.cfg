SPECIFICATION FairSpec
CONSTANTS
  Writers = {w1, w2}
  Stores <- MCStores
  MaxRecords = 4
  Symbol <- MCSymbol
  SampleOf <- MCSampled
  BatchSize = 2
  MaxRetries = 1
  FlushInterval = 1
  JoinTimeout = 2
INVARIANTS TypeOK Conserved SampledOnce WrittenIsHanded DrainedAtEnd
PROPERTY EveryRecordSettles
CHECK_DEADLOCK FALSE
