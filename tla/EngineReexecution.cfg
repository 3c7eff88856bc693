SPECIFICATION HistorySpec
CONSTANTS
  Signals = {1}
  NoOrder = NoOrder
  Ts <- MCTs
  Priority <- MCPriority
  Invalid = {}
  Symbol <- MCSymbol
  Action <- MCPlaceAndCancel
  OrderId <- MCNoOrderId
  OrigClientId <- MCNoOrderId
  PlaceResults = {"NEW", "FILLED"}
  Settlements = {"FILLED", "CANCELED"}
  MaxOrders = 2
  BatchSize = 2
  KafkaConfigured = TRUE
  DryRunModes = {FALSE}
  StartCursor = 0
  ReconcileBatch = 2
  MaxCrashes = 0
PROPERTY SettledNotExecuted
