SPECIFICATION Spec
CONSTANTS
  Slot = {s1, s2, s3}
  Request = {r1, r2}
  Operations = {"creds"}
  MaxOpen = 1
  MaxIdle = 5
  Lifetime = TRUE
  Free = Free
  Idle = Idle
INVARIANTS
  WithinMaxOpen
