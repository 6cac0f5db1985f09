SPECIFICATION Spec
CONSTANTS
  Ours = {a}
  Foreign = {}
  MaxQty = 1
  Rejections = {"10006"}
  Ambiguities = {"10000", "10016", "5xx", "170007"}
  LateRequests = FALSE
  MaxCalls = 3
  MaxCrashes = 0
INVARIANT RejectIsDefinitive
CHECK_DEADLOCK FALSE
