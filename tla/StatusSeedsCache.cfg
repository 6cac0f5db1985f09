SPECIFICATION StateSpec
CONSTANTS
  Threads = {a, b}
  localLimit = 2
  windowSizeMs = 3
  LocalBuffer = 1
  ServerBuffer = 1
  Headers <- MCHeaders
  MaxClock = 12
  TIME_SYNC_INTERVAL = 3
  receiveWindow = 2
  Lag = 1
  Skews <- MCSkews
  SyncStart = 4
  SyncEnd = 7
  MaxJumps = 2
  MaxSessions = 2
  MaxRequests = 2
  Pages <- MCPages
  Usages = {"spot"}
  MaxChanges = 1
  MaxCalls = 2
SYMMETRY ThreadSymmetry
INVARIANT CacheWhole
CHECK_DEADLOCK FALSE
