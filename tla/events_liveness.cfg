SPECIFICATION FairSpec
CONSTANTS
    Players = {p1}
    Npcs = {n1}
    Directors = {}
    CommandActors = {}
    Signals = {"s"}
    Waits = {"time", "event", "s"}
    ScriptCommands = {"finish"}
    MaxCoroutines = 2
    None = None
    p1 = p1
    n1 = n1
PROPERTY DueIsTaken
