SPECIFICATION FairSpec
CONSTANTS
  a = a
  b = b
  k = k
  l = l
  h1 = h1
  boot = boot
  none = none
  u1 = u1
  u2 = u2
  s1 = s1
  g0 = g0
  g1 = g1
  n1 = n1
  c1 = c1
  d1 = d1
  r1 = r1
  r2 = r2
  town = town
  dm = dm
  Credentials = {a}
  Keys = {k}
  None = none
  Settings <- Steady
  Hooks = {h1}
  Boot = boot
  MaxSaves = 1
  Faults = {}
  Users = {u1}
  States = {s1}
  Grants = {g0, g1}
  PriorGrants = {g0}
  MaxRefresh = 1
  Connects = {n1}
  Callbacks = {c1}
  Disconnects = {d1}
  Starts = {r1}
  Channels = {dm}
  PublicChannels = {}
  Origins = {"http"}
  MaxSpaces = 1
PROPERTIES
  DropsRefusedToken
CHECK_DEADLOCK FALSE
