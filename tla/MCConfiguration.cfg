SPECIFICATION ConfSpec
CONSTANTS
  a = a
  b = b
  k = k
  l = l
  h1 = h1
  boot = boot
  none = none
  Credentials = {a, b}
  Keys = {k, l}
  None = none
  Settings <- MCSettings
  Hooks = {h1}
  Boot = boot
  MaxSaves = 4
  Faults = {"load", "bot", "stop"}
INVARIANTS
  ConfTypeOK
  StoreMatchesConfiguration
PROPERTY
  SettingsNeverGoBack
CHECK_DEADLOCK FALSE
