SPECIFICATION Spec
CONSTANTS
  SysDefault = 2
  SysMax = 4
  Ttl = {1, 2}
  Increment = {0}
  Grace = 1
  MaxDelay = 0
  MaxTime = 3
  MaxFaults = 0
  Request = {r1}
  Absent = Absent
  Never = Never
  Idle = Idle
CHECK_DEADLOCK FALSE
INVARIANTS
  ExpiryMatchesLease
