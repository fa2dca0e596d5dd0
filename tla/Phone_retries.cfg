SPECIFICATION Spec
CONSTANTS
  p1 = p1
  p2 = p2
  p1Local = p1Local
  bad = bad
  r1 = r1
  r2 = r2
  None = None
  Ip = Ip
  Phones = {p1}
  Spellings = {p1}
  PhoneOf <- OnePhone
  Requests = {r1}
  IpRate = 10
  PhoneRate = 5
  MaxRetry = 5
  Expiration = 5
  MaxCodes = 1
  MaxTime = 2
INVARIANT RetriesBounded
CHECK_DEADLOCK FALSE
