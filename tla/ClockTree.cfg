SPECIFICATION Spec
CONSTANTS
    CounterMod = 128
    CounterReset = 44
    TimaMod = 3
    SelectHalf <- MCSelectHalf
    SequencerHalf = 64
    CallHalf = 8
INVARIANTS
    ReloadWindow
    ReloadIsTma
    SequencerLocked
PROPERTIES
    ImplementsMCycleTimer
