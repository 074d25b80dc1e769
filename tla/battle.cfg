SPECIFICATION Spec
CONSTANTS
    Players = {p}
    Allies = {y}
    Mobs = {m, n}
    Aggressive = {}
    Casters = {y}
    Renters = {p}
    Ailing = {n}
    Mending = {m}
    Respawns = {m}
    Raise = TRUE
    Ticker = ticker
    Packet = packet
    MaxOrders = 2
INVARIANTS KillPaidOnce BattleCompletesOnce DeadAreForgotten DeathsAreMarked SheathedIsIdle
