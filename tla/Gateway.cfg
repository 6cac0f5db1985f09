SPECIFICATION PartsSpec
CONSTANTS
  Ours = {a}
  Foreign = {f}
  MaxQty = 2
  Rejections = {"10006", "110094"}
  Ambiguities = {"10000", "10016", "5xx"}
  LateRequests = FALSE
  MaxCalls = 4
  MaxCrashes = 1
  Linked = {"linked"}
  Unlinked = {"unlinked"}
  EventQty = 2
  MaxBatch = 2
  MaxWire = 2
  MaxOdd = 1
  MaxLosses = 1
INVARIANT RejectIsDefinitive KnownPrice GoneMeansCredited GoneIsFinal
INVARIANT SweptClean
INVARIANT EndedIsEnded NoFillDropped
CHECK_DEADLOCK FALSE
