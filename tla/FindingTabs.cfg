SPECIFICATION Spec
CONSTANTS
  t1 = t1
  t2 = t2
  Tabs = {t1, t2}
  MaxExpiries = 1
  MaxLogins = 0
  MaxFaults = 1
PROPERTY TabsAreTold
CHECK_DEADLOCK FALSE
