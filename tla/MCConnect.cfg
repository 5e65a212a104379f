SPECIFICATION ConnectSpec
CONSTANTS
  a = a
  k = k
  h1 = h1
  boot = boot
  none = none
  u1 = u1
  u2 = u2
  s1 = s1
  s2 = s2
  g1 = g1
  g2 = g2
  n1 = n1
  n2 = n2
  c1 = c1
  c2 = c2
  d1 = d1
  Credentials = {a}
  Keys = {k}
  None = none
  Settings <- MCSettings
  Hooks = {h1}
  Boot = boot
  MaxSaves = 1
  Faults = {"kv", "lost", "stop"}
  Users = {u1, u2}
  States = {s1, s2}
  Grants = {g1, g2}
  PriorGrants = {}
  MaxRefresh = 1
  Connects = {n1, n2}
  Callbacks = {c1, c2}
  Disconnects = {d1}
INVARIANTS
  ConnectTypeOK
  OwnAccount
  StateOneShot
  PageBacked
CHECK_DEADLOCK FALSE
