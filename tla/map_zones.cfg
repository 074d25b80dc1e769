SPECIFICATION Spec
CONSTANTS
    Zones = {"gate", "field", "inn", "deck"}
    Loaded <- MCLoaded
    Region <- MCRegion
    Boundary <- MCBoundary
    Installed <- MCInstalled
    Destinations <- MCDestinations
    Home <- MCHome
    Packet = packet
    Ticker = ticker
    Arenas = {"gate"}
    MaxCommands = 3
    MaxUplink = 1
INVARIANTS InOnePlace NeverStranded HeldOffWhileReloading
CONSTRAINT Undisturbed
CHECK_DEADLOCK FALSE
