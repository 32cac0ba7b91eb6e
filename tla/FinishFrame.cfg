SPECIFICATION LoopSpec
CONSTANTS
    LineDots = 16
    ScanDots = 8
    MinDraw = 5
    MaxDraw = 7
    HeadStart = 4
    VisibleLines = 2
    Lines = 3
    MaxStep = 2
    Targets = {1, 9}
INVARIANTS
    FinishesFrame
