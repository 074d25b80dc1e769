SPECIFICATION Spec
CONSTANTS
  Conns = {c1, c2}
  Ids = {p1}
  Servers = {m1}
  None = None
  HelloZones = {m1}
  ConfirmCodes = {1}
  LoginChannels = {"zone", "chat"}
  MaxHello = 2
  MaxEpoch = 1
  MaxChange = 0
  QueueDepth = 2
SYMMETRY Symmetry
INVARIANTS TypeOK NoDeadOwner PendingEndIsForDeparting ShutdownOnlyOnTakeover
PROPERTIES EntryOutlivesStaleTeardown ImplementsOwnership
CHECK_DEADLOCK FALSE
