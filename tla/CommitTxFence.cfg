SPECIFICATION Spec
CONSTANTS
  o1 = o1
  o2 = o2
  o3 = o3
  e1 = e1
  e2 = e2
  s1 = s1
  s2 = s2
  None = None
  t1 = t1
  Tx = {t1}
  Op = {o1, o2, o3}
  Entity = {e1, e2}
  Scope = {s1, s2}
  EntityOf <- MCEntityOf
  Deliveries <- MCDeliveries
  MaxAborts = 0
  MaxFence = 2
CHECK_DEADLOCK FALSE
PROPERTY OldPrimaryFenced
