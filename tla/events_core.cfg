SPECIFICATION Spec
CONSTANTS
    Players = {p1}
    Npcs = {}
    Directors = {d1}
    CommandActors = {c1}
    Signals = {"s"}
    Waits = {"time", "event", "s"}
    ScriptCommands = {"finish", "s"}
    MaxCoroutines = 2
    None = None
    p1 = p1
    d1 = d1
    c1 = c1
INVARIANT TypeOK
INVARIANT SingleCustody
INVARIANT ScopeEndsWithDispatch
INVARIANT PurgedNeverResumes
