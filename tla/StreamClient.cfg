SPECIFICATION Spec
CONSTANTS
  Users = {u1, u2}
  Topics = {"order", "execution"}
  topics <- MCTopics
  MaxLosses = 1
  MaxRejects = 1
  MaxThrows = 1
INVARIANT OneSession ToldLive
PROPERTY CallsReturn PolledIsLive DestructorReturns
CHECK_DEADLOCK FALSE
