\* Three concurrent calls, retries among them, with up to two faults.
SPECIFICATION FairSpec
CONSTANTS
  None = None
  r1 = r1
  r2 = r2
  r3 = r3
  RequestIds = {r1, r2, r3}
  Calls = {c1, c2, c3}
  AmountOf <- MCAmountOf
  InitialCash = 3
  Timeout = 3
  KeyTTL = 1
  MaxTime = 2
  MaxFaults = 2
INVARIANTS TypeOK PayoutsCovered DebitedIsPaid Settled
PROPERTIES CallsEnd
