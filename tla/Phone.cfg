SPECIFICATION Spec
CONSTANTS
  p1 = p1
  p2 = p2
  p1Local = p1Local
  bad = bad
  r1 = r1
  r2 = r2
  None = None
  Ip = Ip
  Phones = {p1, p2}
  Spellings = {p1, p2, p1Local, bad}
  PhoneOf <- MCPhoneOf
  Requests = {r1, r2}
  IpRate = 2
  PhoneRate = 1
  MaxRetry = 1
  Expiration = 0
  MaxCodes = 2
  MaxTime = 1
SYMMETRY Symmetry
INVARIANTS TypeOK EntrantGaveCode TriesBounded
CHECK_DEADLOCK FALSE
