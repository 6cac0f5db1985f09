SPECIFICATION Spec
CONSTANTS
  Threads = {a, b}
  localLimit = 2
  windowSizeMs = 3
  LocalBuffer = 1
  ServerBuffer = 1
  Headers <- NoHeaders
  MaxClock = 12
SYMMETRY ThreadSymmetry
INVARIANT LocalRate
CHECK_DEADLOCK FALSE
