SPECIFICATION FairSpec
CONSTANTS
  c1 = c1
  c2 = c2
  c3 = c3
  p1 = p1
  p2 = p2
  o1 = o1
  o2 = o2
  n1 = n1
  w1 = w1
  w2 = w2
  id1 = id1
  None = None
  Phones = {p1, p2}
  Openids = {o1, o2}
  Names = {n1}
  Passwords = {w1, w2}
  RequestIds = {id1}
  Calls = {c1, c2, c3}
  Scenarios <- Ordered
  Registered = {p1}
  MaxFaults = 1
  DefaultThreshold = 200
  NewThreshold = 100
INVARIANTS CheckoutTypeOK RegistrationWhole ColumnsUnique TransferAuthorised RetriesCounted OneFund CreditedAsAsked CreditedToHolder
PROPERTIES ThresholdHonoured CallsEnd
CHECK_DEADLOCK FALSE
