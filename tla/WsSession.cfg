SPECIFICATION SetupSpec
CONSTANTS
  Topics = {one, two}
  AuthRequired = TRUE
  Unsubscribable = {one}
  Closable = TRUE
  RECONNECT_DELAY_MAX = 2
  PONG_TIMEOUT_TICKS = 1
  MaxGen = 2
  MaxCalls = 2
  MaxLag = 1
  BooksCalls = 3
  BooksDelay = 1
INVARIANTS
  TypeOK
  BooksDisjoint
  NoOverlap
  ConfirmedIsFlowing
  SubscribesOnlyAuthenticated
  ExactlyOneDriver
PROPERTIES
  SessionRefinesBook
  BackoffEarned
  ClosedIsFinal
  LifecycleSettles
  SilentPeerNoticed
CHECK_DEADLOCK FALSE
