SPECIFICATION FairOverlapSpec
CONSTANTS
  a = a
  k = k
  l = l
  h1 = h1
  h2 = h2
  boot = boot
  none = none
  Credentials = {a}
  Keys = {k, l}
  None = none
  Settings <- MCSettings
  Hooks = {h1, h2}
  Boot = boot
  MaxSaves = 4
  Faults = {"load", "bot", "stop"}
INVARIANTS
  LoneCallRepairs
  NoSaveMissed
PROPERTIES
  SettingsTakeEffect
CHECK_DEADLOCK FALSE
