SPECIFICATION Spec
CONSTANTS
    Charas = {c1, c2}
    Retainers = {r1}
    Goods = {wood}
    KeyItems = {key}
    Gil = gil
    Tasks = {ticker}
    Amounts = {2}
    GilDeltas = {2}
    Prices = {1}
    MaxStack = 3
    I32Max = 3
    MaxItems = 4
INVARIANTS OneHome NoDebt UncontestedRemovalIsExact
PROPERTY SaleConserves
SYMMETRY Symmetry
