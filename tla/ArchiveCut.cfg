SPECIFICATION Spec
CONSTANTS
  maxRetries = 3
  Days = {1, 2}
  Tails = {"Z_STREAM_END", "Z_DATA_ERROR", "Z_BUF_ERROR"}
PROPERTY FetchReturns
CHECK_DEADLOCK FALSE
