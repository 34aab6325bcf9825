SPECIFICATION Spec
CONSTANTS
  t1 = t1
  t2 = t2
  Tabs = {t1, t2}
  MaxExpiries = 1
  MaxLogins = 0
  MaxFaults = 1
PROPERTY RotationRefusesTheConsumed
CHECK_DEADLOCK FALSE
