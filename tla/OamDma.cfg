SPECIFICATION FairSpec
CONSTANTS
    OamSize = 3
    Pages = {e, v}
    VideoPages = {v}
    ResetPage = e
    Data = {open, other}
    Open = open
    e = e
    v = v
    open = open
    other = other
INVARIANTS
    CopyMatchesSource
    InPhase
PROPERTIES
    ImplementsMCycleDma
    BusIsReturned
