\* One call: the answer of WeChat is lost.
SPECIFICATION Spec
CONSTANTS
  None = None
  r1 = r1
  r2 = r2
  r3 = r3
  RequestIds = {r1, r2, r3}
  Calls = {c1}
  AmountOf <- MCAmountOf
  InitialCash = 3
  Timeout = 3
  KeyTTL = 1
  MaxTime = 2
  MaxFaults = 2
INVARIANTS PaidIsDebited
