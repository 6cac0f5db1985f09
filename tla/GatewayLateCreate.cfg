SPECIFICATION Spec
CONSTANTS
  Ours = {a}
  Foreign = {}
  MaxQty = 1
  Rejections = {"10006"}
  Ambiguities = {"10000"}
  LateRequests = TRUE
  MaxCalls = 3
  MaxCrashes = 0
INVARIANT GoneIsFinal
CHECK_DEADLOCK FALSE
