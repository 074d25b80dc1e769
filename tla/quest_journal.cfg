SPECIFICATION Spec
CONSTANTS
    Quests = {q1}
    Leves = {l1}
    Slots = {0, 1}
    Sequences = {0, 1}
    Enpcs = {e1}
    Tasks = {packet, ticker}
    MaxPending = 3
    MaxCredit = 1
INVARIANTS MemoryMirrored MarkersMatch PaidOncePerCompletion

SYMMETRY Symmetry
CONSTRAINT Undisturbed
