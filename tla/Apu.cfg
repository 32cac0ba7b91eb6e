SPECIFICATION FairSpec
CONSTANTS
    SequencerHalf = 1
    MaxFreq = 3
    MaxVolume = 2
    IdlePeriod = 2
    ShiftScale <- MCShiftScale
    WaveBytes = 2
    RowBytes = 1
    LongBits = 4
    ShortBits = 2
    Followed = {1, 2, 3, 4}
    WithEnvelope = {2}
    MaxLength <- MCMaxLength
    FreqLow = 2
    EnvelopeWrites <- MCEnvelopeWrites
    Bytes = {0}
INVARIANTS
    TypeOK
    Sounding
    WaveWindow
    NoiseKeepsGoing
PROPERTIES
    OverflowNeverSounds
    NoteEnds
