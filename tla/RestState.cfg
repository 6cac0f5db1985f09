SPECIFICATION StateSpec
CONSTANTS
  Threads = {a, b}
  localLimit = 2
  windowSizeMs = 3
  LocalBuffer = 1
  ServerBuffer = 1
  Headers <- MCHeaders
  MaxClock = 12
  TIME_SYNC_INTERVAL = 3
  receiveWindow = 2
  Lag = 1
  Skews <- MCSkews
  SyncStart = 4
  SyncEnd = 7
  MaxJumps = 2
  MaxSessions = 2
  MaxRequests = 2
  Pages <- MCPages
  Usages = {"gateway", "spot"}
  MaxChanges = 2
  MaxCalls = 4
SYMMETRY ThreadSymmetry
INVARIANT LocalRateNearly MeasuredIsAccepted SyncDue NoSyncStorm AskedIsListed OwnSteps ListedIsFound
PROPERTY ServerPause
CHECK_DEADLOCK FALSE
