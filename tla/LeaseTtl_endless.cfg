SPECIFICATION Spec
CONSTANTS
  SysDefault = 2
  SysMax = 4
  Ttl = {0, 2}
  Increment = {0}
  Grace = 1
  MaxDelay = 0
  MaxTime = 5
  MaxFaults = 0
  Request = {r1}
  Absent = Absent
  Never = Never
  Idle = Idle
CHECK_DEADLOCK FALSE
INVARIANTS
  EveryLeaseExpires
