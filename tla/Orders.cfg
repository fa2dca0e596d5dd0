\* One order, two processes: notifications, polls, tasks, faults and expiries.
SPECIFICATION FairSpec
CONSTANTS
  None = None
  Orders = {o1}
  Customers = {u1, u2, u3}
  TwoFunds = {u3}
  Workers = {w1, w2}
  MaxRetries = 1
  MaxNotices = 3
  MaxTasks = 1
  MaxFaults = 1
INVARIANTS TypeOK CreditedOnce AckedIsCredited
 
CHECK_DEADLOCK FALSE
