SPECIFICATION Spec
CONSTANTS
    Bits = 2
    SerialBytes = {0, 1, 2, 3}
    BitPeriod = 2
    TickLengths = {1, 2}
    Rows = {directions, others}
    Lines = {line0}
    Period = 2
    MaxFrames = 3
    AudioFrames = 2
    Cap = 2
    LongestStep = 1
INVARIANTS
    NoBacklog
PROPERTIES
    PressInterrupts
    ImplementsLink
