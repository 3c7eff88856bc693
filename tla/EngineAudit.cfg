SPECIFICATION Spec
CONSTANTS
  Signals = {1, 2, 3}
  NoOrder = NoOrder
  Ts <- MCTs
  Priority <- MCPriority
  Invalid = {3}
  Symbol <- MCSymbol
  Action <- MCPlaceAndCancel
  OrderId <- MCNoOrderId
  OrigClientId <- MCCancelsByClientId
  PlaceResults = {"NEW", "FILLED"}
  Settlements = {"FILLED"}
  MaxOrders = 2
  BatchSize = 2
  KafkaConfigured = TRUE
  DryRunModes = {TRUE, FALSE}
  StartCursor = 0
  ReconcileBatch = 2
  MaxCrashes = 1
INVARIANTS TypeOK WriteAhead TerminalAgrees PollSkipsOnlyTies
PROPERTY FinalLeftOnlyToFailed
