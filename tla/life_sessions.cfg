\* Two players, each on a connection of its own or fighting over one id, from a
\* routed start, while the link fails once and the map server may restart.
SPECIFICATION LiveSteadySpec
CONSTANTS
  Conns = {c1, c2}
  Ids = {p1, p2}
  Servers = {m1}
  None = None
  HelloZones = {m1}
  ConfirmCodes = {1}
  LoginChannels = {"zone"}
  MaxHello = 1
  MaxEpoch = 2
  MaxChange = 0
  QueueDepth = 2
  CharacterLoads = {TRUE}
INVARIANTS NoGhostSession UncontestedSessionIsAttached
PROPERTIES AbandonedSessionsEnd EvictedConnectionStops
CHECK_DEADLOCK FALSE
