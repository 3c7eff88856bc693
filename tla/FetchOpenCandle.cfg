SPECIFICATION FairSpec
CONSTANTS
  Keys = {k1, k2}
  NoKey = NoKey
  MaxSignals = 2
  s1 = s1
  s2 = s2
  p1 = p1
  p2 = p2
  Positions = {p1, p2}
  Syncers = {s1, s2}
  Asked <- MCAsked
  MaxQueries = 3
  MaxTrades = 2
  LastCandle = 4
  PageSize = 2
  Starts = {0, 1}
  Ends = {0, 3}
  MaxFetches = 2
  Symbols = {"BTCUSDT", "BTCUSD_PERP"}
  Book <- MCBook
  StreamOf <- MCStreamOf
  Prices = {1, 2}
  FeeRate = 1
  FeeScale = 10
  MaxMessages = 2
  MaxIntervals = 1
  MaxInterrupts = 1
  SignalSymbols = {"BTCUSDT", "ETHUSDT"}
  Limits = {0, 2}
  Window = 2
  MaxTime = 4
  MaxAdmitted = 3
  NoSymbol = NoSymbol
INVARIANT ClosedIsFinal
\* Commands end.
CHECK_DEADLOCK FALSE
