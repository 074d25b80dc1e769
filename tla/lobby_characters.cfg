\* Two connections, two accounts, two names; the process may end once.
SPECIFICATION Spec
CONSTANTS
  Conns = {c1, c2}
  Users = {u1, u2}
  Names = {n1, n2}
  Worlds = {w1}
  None = None
  MaxRows = 2
  MaxOpens = 3
  MaxCrashes = 1
SYMMETRY Symmetry
INVARIANTS
  TypeOK
  ScratchIsOwn
  ListedIsComplete
  MadeOnce
  CrashLeavesOneHalfMade
CHECK_DEADLOCK FALSE
