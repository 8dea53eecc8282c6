SPECIFICATION AccessSpec
CONSTANTS
  Key = {k1, k2, k3}
  Attempt = {a1, a2}
  Window = 2
  Threshold = 2
  InitialBackoff = 1
  MaxBackoff = 2
  Ttl = 3
  MaxEntries = 2
  MaxDelay = 1
  MaxTime = 4
  Names = {"u"}
  CustomRoles = {"r"}
  Threads = {"t"}
  Clients = {"c"}
  Grants <- MCGrants
  Lifetime = 1
  MaxDay <- MCMaxDay
  MaxChanges = 2
SYMMETRY Symmetry
CHECK_DEADLOCK FALSE
INVARIANTS
  WithinRights
  SessionsEnd
PROPERTIES
  FailuresAreRemembered
