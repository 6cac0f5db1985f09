SPECIFICATION LoopsSpec
CONSTANTS
  Interval = 2
  limit = 2
  Slots = 7
  Spacing = 2
  Begin = 2
  MaxTime = 11
  MAX_PAGES = 3
  Items = {1, 2, 3, 4, 5}
  Symbols = {"a", "b"}
  MaxSize = 1
  maxRetries = 3
  Days = {1, 2}
  Tails = {"Z_STREAM_END", "Z_DATA_ERROR"}
INVARIANT Complete AllRates NeverPartial AllClosed
PROPERTY LoopsEnd
CHECK_DEADLOCK FALSE
