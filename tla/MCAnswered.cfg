SPECIFICATION FairSpec
CONSTANTS
  a = a
  b = b
  k = k
  l = l
  h1 = h1
  boot = boot
  none = none
  u1 = u1
  u2 = u2
  s1 = s1
  g0 = g0
  g1 = g1
  n1 = n1
  c1 = c1
  d1 = d1
  r1 = r1
  r2 = r2
  town = town
  dm = dm
  Credentials = {a}
  Keys = {k, l}
  None = none
  Settings <- Switching
  Hooks = {h1}
  Boot = boot
  MaxSaves = 2
  Faults = {"load", "kv", "google", "lost", "api", "stop"}
  Users = {u1}
  States = {}
  Grants = {g0}
  PriorGrants = {g0}
  MaxRefresh = 2
  Connects = {}
  Callbacks = {}
  Disconnects = {}
  Starts = {r1, r2}
  Channels = {town}
  PublicChannels = {town}
  Origins = {"http"}
  MaxSpaces = 2
INVARIANTS
  RestrictionRespected
  NoNeedlessPurge
PROPERTIES
  StartAnswered
  ImplementsService
  ImplementsFairService
CHECK_DEADLOCK FALSE
