\* A transfer and a recharge of the payer.
SPECIFICATION Spec
CONSTANTS
  u1 = u1
  u2 = u2
  h1 = h1
  h2 = h2
  o1 = o1
  o2 = o2
  None = None
  Funds = {u1, u2}
  Jobs = {j1, j2}
  OldHolds = {h1, h2}
  Orders = {o1, o2}
  Requests <- TransferAndRecharge
  InitialCash <- MCInitialCash
  InitialHold <- MCInitialHold
  Threshold = 2
  ExpiredDays = 1
  MaxTime = 1
PROPERTIES BalanceIsCurrent
