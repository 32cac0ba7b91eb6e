SPECIFICATION Spec
CONSTANTS
    Minute = 2
    Hour = 2
    Day = 1
    Seconds = 3
    Minutes = 2
    Hours = 1
    DayLow = 1
    Headers <- MCHeaders
    RomBanks <- MCRomBanks
    RamCells <- MCRamCells
    Mbc2Cells = 2
    Dumps = {1, 4}
    MulticartBanks = 4
    Codes <- MCCodes
    Uppers <- MCUppers
    Window = 2
    Bytes = 2
    Nibbles = 1
    SecondLength = 2
    TickLengths = {1}
INVARIANTS
    TwoBanks
    StateComplete
PROPERTIES
    OneMoment
    ImplementsClock
