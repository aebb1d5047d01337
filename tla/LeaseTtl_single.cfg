SPECIFICATION Spec
CONSTANTS
  SysDefault = 3
  SysMax = 5
  Ttl = {0, 2, 6}
  Increment = {0, 6}
  Grace = 2
  MaxDelay = 2
  MaxTime = 6
  MaxFaults = 1
  Request = {r1}
  Absent = Absent
  Never = Never
  Idle = Idle
CHECK_DEADLOCK FALSE
INVARIANTS
  TypeOK
  LifetimesBounded
  RenewedLoginOutlivesLease
  CreatedLoginTracksLease
