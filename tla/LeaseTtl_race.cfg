SPECIFICATION Spec
CONSTANTS
  SysDefault = 3
  SysMax = 6
  Ttl = {0, 2}
  Increment = {0, 1}
  Grace = 1
  MaxDelay = 1
  MaxTime = 5
  MaxFaults = 0
  Request = {r1, r2}
  Absent = Absent
  Never = Never
  Idle = Idle
CHECK_DEADLOCK FALSE
INVARIANTS
  RenewedLoginOutlivesLease
