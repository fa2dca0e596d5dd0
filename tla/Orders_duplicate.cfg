\* Two notifications of one order at the same time.
SPECIFICATION Spec
CONSTANTS
  None = None
  Orders = {o1}
  Customers = {u1}
  TwoFunds = {}
  Workers = {w1, w2}
  MaxRetries = 1
  MaxNotices = 3
  MaxTasks = 0
  MaxFaults = 0
INVARIANTS DuplicateSkipped
CHECK_DEADLOCK FALSE
