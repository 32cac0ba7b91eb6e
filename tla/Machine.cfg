SPECIFICATION Spec
CONSTANTS
    Carts <- MCCarts
    NoCart = "none"
    Header <- MCHeader
    Layout <- MCLayout
    ConsoleParts = 2
    MaxAge = 3
    Capacities = {0, 2}
    Intervals = {0, 2}
    Empty <- MCEmpty
INVARIANTS
    Coherent
    OnGrid
PROPERTIES
    ImplementsHistory
