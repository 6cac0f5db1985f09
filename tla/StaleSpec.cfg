SPECIFICATION StateSpec
CONSTANTS
  Threads = {a, b}
  localLimit = 2
  windowSizeMs = 3
  LocalBuffer = 1
  ServerBuffer = 1
  Headers <- MCHeaders
  MaxClock = 12
  TIME_SYNC_INTERVAL = 3
  receiveWindow = 2
  Lag = 1
  Skews <- MCSkews
  SyncStart = 4
  SyncEnd = 8
  MaxJumps = 1
  MaxSessions = 2
  MaxRequests = 3
  Pages <- MCPages
  Usages = {"gateway"}
  MaxChanges = 2
  MaxCalls = 4
SYMMETRY ThreadSymmetry
INVARIANT SpecFresh
CHECK_DEADLOCK FALSE
