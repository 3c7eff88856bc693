SPECIFICATION FairSpec
CONSTANTS
  Signals = {1, 2, 3}
  NoOrder = NoOrder
  Ts <- MCTs
  Priority <- MCPriority
  Invalid = {}
  Symbol <- MCSymbol
  Action <- MCPlaceAndCancelAll
  OrderId <- MCNamesFirst
  OrigClientId <- MCForeignClientId
  PlaceResults = {"NEW", "FILLED"}
  Settlements = {"FILLED"}
  MaxOrders = 2
  BatchSize = 2
  KafkaConfigured = FALSE
  DryRunModes = {FALSE}
  StartCursor = 0
  ReconcileBatch = 2
  MaxCrashes = 1
INVARIANTS AtMostOnce RecordedBehindCursor OpenOrdersWatched CrashStrandsOne
PROPERTIES ImplementsLifecycle BatchDecided KnownOrdersConverge
