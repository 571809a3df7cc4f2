CONSTANTS
  Caller = {c1, c2}
  Sid = {s1}
  Config = {x}
  MaxAttempt = 5
  MaxCreate = 1
SPECIFICATION RegistrySpec
INVARIANT ConnectedServerReachable
CHECK_DEADLOCK FALSE
