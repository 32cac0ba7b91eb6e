SPECIFICATION Spec
CONSTANTS
    LineDots = 20
    ScanDots = 12
    VisibleLines = 2
    Lines = 4
    BaseDraw = 3
    FineScroll = 1
    Stall = 1
    MaxObjects = 0
    HeadStart = 4
    LycValues <- MCLycValues
    FirstDeep = 4
    LastRow = 6
    Width = 4
    TileSize = 2
    MapSize = 3
    LineObjects = 2
    Opaque <- MCOpaque
INVARIANTS
    ModeFollowsBeam
    StatIsCurrent
    OamBugInScan
    WindowLineBehind
    LineIsRight
PROPERTIES
    StatOnRise
    ImplementsScreen
