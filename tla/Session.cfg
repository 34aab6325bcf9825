SPECIFICATION Spec
CONSTANTS
  t1 = t1
  t2 = t2
  Tabs = {t1, t2}
  MaxExpiries = 1
  MaxLogins = 1
  MaxFaults = 1
INVARIANTS OneTokenPerChain RefusedForCause
PROPERTIES ExpiredIsRenewedOrDropped DeactivationBites
CHECK_DEADLOCK FALSE
