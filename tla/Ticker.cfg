SPECIFICATION SetupSpec
CONSTANTS
  Threads = {a, b}
  RestClient = TRUE
  Unsubscribes = FALSE
  maxTickAge = 1
  timeout = 1
  Lag = 1
  MaxChanges = 1
  MaxWire = 1
  MaxClock = 3
  StreamThreads = {a}
  StreamChanges = 1
  StreamWire = 2
  StreamClock = 5
INVARIANT StreamServedFresh
PROPERTY RestServedKnown StreamNeverRegresses RestReadReturns
CHECK_DEADLOCK FALSE
