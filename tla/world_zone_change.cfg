SPECIFICATION LiveSpec
CONSTANTS
  Conns = {c1}
  Ids = {p1}
  Servers = {m1, m2}
  None = None
  HelloZones = {m1, None}
  ConfirmCodes = {0}
  LoginChannels = {"zone"}
  MaxHello = 1
  MaxEpoch = 2
  MaxChange = 1
  QueueDepth = 2
INVARIANT RegisteredRouteIsBegun
PROPERTY LinkReattaches
CHECK_DEADLOCK FALSE
