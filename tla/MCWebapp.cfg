SPECIFICATION WebFairSpec
CONSTANTS
  p1 = p1
  u1 = u1
  u2 = u2
  r1 = r1
  r2 = r2
  town = town
  none = none
  Users = {u1, u2}
  Channels = {town}
  Starts = {r1}
  None = none
  Tabs = {p1}
  Admins = {u2}
  Faults = {"api", "network", "drop", "stop", "close", "reload"}
  MaxConns = 2
  MaxMeetings = 1
INVARIANTS
  WebTypeOK
  ButtonEarned
  OpensInOwnSession
  OncePerClick
  EveryClickTold
  NoEventLost
PROPERTIES
  OwnWindowOpens
  JoinShown
