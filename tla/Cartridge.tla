----------------------------- MODULE Cartridge -----------------------------
(***************************************************************************)
(* A cartridge (core/cart): its header, the bank registers of the five     *)
(* mappers, its RAM, and the clock of an MBC3.                             *)
(*                                                                         *)
(* The mappers' registers that do the same work share a field: bank is     *)
(* bank_lo_, bank_ or rom_bank_, and upper is bank_hi_, select_ or         *)
(* ram_bank_.  A ROM is its banks; what is in them is left out.            *)
(***************************************************************************)
EXTENDS Rtc

CONSTANTS
    Headers,        \* <<cart_type, rom_size_code, ram_size_code>>, bad ones among them
    RomBanks,       \* of each ROM size code: 2^(code + 1), for 0..8
    RamCells,       \* of each RAM size code: kRamSizes
    Mbc2Cells,      \* 512
    Dumps,          \* banks in the file, which may be fewer or more than the header says
    MulticartBanks, \* 64
    Codes,          \* what a mapper's bank register can be written: its low part
    Uppers,         \* what its second register can be written
    Window,         \* cells that the program sees at once: 8192
    Bytes, Nibbles, \* 256, 16
    SecondLength,
    TickLengths

ASSUME CartridgeAssumption ==
    /\ \A c \in DOMAIN RomBanks : RomBanks[c] \in Nat \ {0, 1}
    /\ \A c \in DOMAIN RamCells : RamCells[c] \in Nat
    /\ Mbc2Cells \in Nat \ {0}
    /\ Dumps \subseteq Nat
    /\ \A m \in DOMAIN Codes : Codes[m] \in Nat \ {0, 1} /\ Codes[m] % 2 = 0
    /\ {"Mbc1", "Mbc2", "Mbc3", "Mbc5"} \subseteq DOMAIN Codes
    /\ {"Mbc1", "Mbc3", "Mbc5"} \subseteq DOMAIN Uppers
    /\ \A m \in DOMAIN Uppers : Uppers[m] \subseteq Nat /\ 0 \in Uppers[m]
    /\ {Window, Bytes, Nibbles, SecondLength} \subseteq Nat \ {0}
    /\ Bytes % Nibbles = 0
    \* No tick is longer than a second, so the loop of Mbc3::tick runs at most once.
    /\ TickLengths \subseteq 1..SecondLength

VARIABLE cart

----------------------------------------------------------------------------
(* The header and the cartridge made from it.                              *)

MapperOf(type) ==
    CASE type \in {0, 8, 9} -> "None"
      [] type \in 1..3 -> "Mbc1"
      [] type \in 5..6 -> "Mbc2"
      [] type \in 15..19 -> "Mbc3"
      [] type \in 25..30 -> "Mbc5"
      [] OTHER -> "Unsupported"

HasRtc(type) == type \in {15, 16}

\* "MBC2 keeps its 512 nibbles on the mapper die, so the RAM size code says nothing."
Accepted(h) ==
    /\ MapperOf(h[1]) # "Unsupported"
    /\ h[2] \in DOMAIN RomBanks
    /\ MapperOf(h[1]) = "Mbc2" \/ h[3] \in DOMAIN RamCells

RamOf(h) == IF MapperOf(h[1]) = "Mbc2" THEN Mbc2Cells ELSE RamCells[h[3]]

\* make_cartridge: a file shorter than its header says is filled up.
BanksOf(h, dump) == IF dump < RomBanks[h[2]] THEN RomBanks[h[2]] ELSE dump

\* looks_like_multicart, given how many of the logos are there.
LooksLikeMulticart(banks, logos) == banks = MulticartBanks /\ logos >= 3

NewCartridge(h, banks, multicart) ==
    [mapper |-> MapperOf(h[1]), has_rtc |-> HasRtc(h[1]),
     banks |-> banks, multicart |-> multicart, cells |-> RamOf(h),
     bank |-> 1, upper |-> 0, mode |-> FALSE, enabled |-> FALSE, latch |-> 255,
     ram |-> [i \in 0..(RamOf(h) - 1) |-> 0],
     sub |-> 0, rtc |-> RtcZero, latched |-> RtcZero]

Init ==
    \E h \in Headers, dump \in Dumps, logos \in 0..4 :
        /\ Accepted(h)
        /\ cart = NewCartridge(h, BanksOf(h, dump),
                    MapperOf(h[1]) = "Mbc1" /\ LooksLikeMulticart(BanksOf(h, dump), logos))

----------------------------------------------------------------------------
(* What the program sees.                                                  *)

\* A multicart wires one line less: the low part is half as wide.
Low(c) == IF c.multicart THEN Codes["Mbc1"] \div 2 ELSE Codes["Mbc1"]

LowBank(c) == IF c.mapper = "Mbc1" /\ c.mode THEN c.upper * Low(c) ELSE 0

HighBank(c) ==
    CASE c.mapper = "None" -> 1
      [] c.mapper = "Mbc1" -> c.upper * Low(c) + (c.bank % Low(c))
      [] OTHER -> c.bank

\* rom_byte: the banks that 0x0000 and 0x4000 show.
LowWindow(c) == LowBank(c) % c.banks
HighWindow(c) == HighBank(c) % c.banks

RamBank(c) ==
    CASE c.mapper = "Mbc1" -> IF c.mode THEN c.upper ELSE 0
      [] c.mapper \in {"Mbc3", "Mbc5"} -> c.upper
      [] OTHER -> 0

\* ram_offset.  "Short RAM mirrors instead of reading open bus."
Cell(c, a) == (RamBank(c) * Window + a) % c.cells

\* Whether an access in the window reaches RAM, or a register of the clock.
ReachesRam(c) ==
    /\ c.enabled \/ c.mapper = "None"
    /\ c.cells > 0
    /\ c.mapper = "Mbc3" => c.upper <= 3

ReachesClock(c) == c.mapper = "Mbc3" /\ c.enabled /\ c.upper \in ClockRegs

\* A bug the checks must notice: the program reads the clock as it runs.
ReadClockLive(c) == rtc_read(c.rtc, c.upper)

\* "The guest sees the latched copy; the counter underneath keeps running."
ReadClock(c) == rtc_read(c.latched, c.upper)

\* read_ram.  Of an MBC2 only the low nibble is there, and the rest reads as ones.
ReadRam(c, a) ==
    CASE ReachesClock(c) -> ReadClock(c)
      [] ReachesRam(c) -> LET b == c.ram[Cell(c, a)]
                          IN  IF c.mapper = "Mbc2" THEN Bytes - Nibbles + (b % Nibbles) ELSE b
      [] OTHER -> Bytes - 1

----------------------------------------------------------------------------
(* write_rom, by the register it reaches.                                  *)

WriteEnable ==
    /\ cart.mapper # "None"
    /\ \E key \in BOOLEAN : cart' = [cart EXCEPT !.enabled = key]

\* A bug the checks must notice: a written zero stays.
BankWrittenAsIs(c, v) == v

\* "A written zero comes out as one", but for MBC5, whose high bit is apart.
BankWritten(c, v) ==
    CASE c.mapper = "Mbc5" -> (c.bank \div Codes["Mbc5"]) * Codes["Mbc5"] + v
      [] c.mapper # "Mbc5" /\ v = 0 -> 1
      [] OTHER -> v

WriteBank ==
    /\ cart.mapper # "None"
    /\ \E v \in 0..(Codes[cart.mapper] - 1) : cart' = [cart EXCEPT !.bank = BankWritten(cart, v)]

WriteBankHigh ==
    /\ cart.mapper = "Mbc5"
    /\ \E b \in {0, 1} :
            cart' = [cart EXCEPT !.bank = b * Codes["Mbc5"] + (@ % Codes["Mbc5"])]

WriteUpper ==
    /\ cart.mapper \in {"Mbc1", "Mbc3", "Mbc5"}
    /\ \E v \in Uppers[cart.mapper] : cart' = [cart EXCEPT !.upper = v]

WriteMode ==
    /\ cart.mapper = "Mbc1"
    /\ \E mode \in BOOLEAN : cart' = [cart EXCEPT !.mode = mode]

\* The clock is copied when a 1 follows a 0.
WriteLatch ==
    /\ cart.mapper = "Mbc3"
    /\ \E v \in {0, 1, 255} :
            cart' = [cart EXCEPT !.latch = v,
                                 !.latched = IF cart.latch = 0 /\ v = 1 THEN cart.rtc ELSE @]

----------------------------------------------------------------------------
(* write_ram, and the clock.                                               *)

StoreRam ==
    /\ ReachesRam(cart)
    /\ \E a \in 0..(Window - 1), b \in 0..(Bytes - 1) :
            cart' = [cart EXCEPT !.ram[Cell(cart, a)] =
                        IF cart.mapper = "Mbc2" THEN b % Nibbles ELSE b]

\* A bug the checks must notice: setting the seconds leaves the second under way.
StoreClockKeepsSub ==
    /\ ReachesClock(cart)
    /\ \E r \in Written(cart.rtc, cart.upper) : cart' = [cart EXCEPT !.rtc = r]

\* "Storing seconds also clears the sub-second divider."
StoreClock ==
    /\ ReachesClock(cart)
    /\ \E r \in Written(cart.rtc, cart.upper) :
            cart' = [cart EXCEPT !.rtc = r, !.sub = IF cart.upper = 8 THEN 0 ELSE @]

\* What restore_ram does with n saved bytes, all alike.
RestoreRam ==
    \E n \in 0..cart.cells, b \in 0..(Bytes - 1) :
        cart' = [cart EXCEPT !.ram = [i \in DOMAIN @ |-> IF i < n THEN b ELSE @[i]]]

ClockRuns(c) == c.has_rtc /\ ~c.rtc.halt

\* Mbc3::tick.
Tick(n) ==
    /\ ClockRuns(cart)
    /\ LET full == cart.sub + n >= SecondLength
       IN  cart' = [cart EXCEPT !.sub = IF full THEN @ + n - SecondLength ELSE @ + n,
                                !.rtc = IF full THEN AdvanceSecond(@) ELSE @]

Ticks == \E n \in TickLengths : Tick(n)

Next ==
    \/ WriteEnable \/ WriteBank \/ WriteBankHigh \/ WriteUpper \/ WriteMode \/ WriteLatch
    \/ StoreRam \/ StoreClock \/ RestoreRam \/ Ticks

Spec == Init /\ [][Next]_cart

----------------------------------------------------------------------------
(* A save state.                                                           *)

\* A bug the checks must notice: the latch is forgotten.
VisitedNoLatch(mapper) ==
    {"ram"} \cup CASE mapper = "None" -> {}
                   [] mapper = "Mbc1" -> {"bank", "upper", "mode", "enabled"}
                   [] mapper = "Mbc2" -> {"bank", "enabled"}
                   [] mapper = "Mbc3" -> {"bank", "upper", "enabled", "sub", "rtc", "latched"}
                   [] mapper = "Mbc5" -> {"bank", "upper", "enabled"}

\* What each mapper's visit archives.
Visited(mapper) ==
    {"ram"} \cup CASE mapper = "None" -> {}
                   [] mapper = "Mbc1" -> {"bank", "upper", "mode", "enabled"}
                   [] mapper = "Mbc2" -> {"bank", "enabled"}
                   [] mapper = "Mbc3" -> {"bank", "upper", "latch", "enabled", "sub", "rtc",
                                          "latched"}
                   [] mapper = "Mbc5" -> {"bank", "upper", "enabled"}

SaveState(c) == [f \in Visited(c.mapper) |-> c[f]]

LoadState(c, s) == [f \in DOMAIN c |-> IF f \in DOMAIN s THEN s[f] ELSE c[f]]

\* The cartridge as make_cartridge made it.
Fresh(c) ==
    [c EXCEPT !.bank = 1, !.upper = 0, !.mode = FALSE, !.enabled = FALSE, !.latch = 255,
              !.ram = [i \in DOMAIN @ |-> 0], !.sub = 0, !.rtc = RtcZero, !.latched = RtcZero]

----------------------------------------------------------------------------

TypeOK ==
    /\ cart.mapper \in {"None", "Mbc1", "Mbc2", "Mbc3", "Mbc5"}
    /\ cart.multicart \in BOOLEAN /\ (cart.multicart => cart.mapper = "Mbc1")
    /\ cart.has_rtc \in BOOLEAN /\ (cart.has_rtc => cart.mapper = "Mbc3")
    /\ cart.banks \in Nat \ {0, 1}
    /\ cart.cells \in Nat
    /\ cart.bank \in Nat
    /\ cart.upper \in Nat
    /\ {cart.mode, cart.enabled} \subseteq BOOLEAN
    /\ cart.latch \in {0, 1, 255}
    /\ cart.ram \in [0..(cart.cells - 1) -> 0..(Bytes - 1)]
    /\ cart.sub \in 0..(SecondLength - 1)
    /\ cart.rtc \in RtcRegs
    /\ cart.latched \in RtcRegs

\* No bank shows twice, at 0x0000 and at 0x4000, however the registers of the
\* mapper were written and in whatever mode it is: unless the program asked for
\* bank 0 and can (MBC5), asked for a bank the ROM does not have, or asked a
\* multicart for the one number that is not zero but for the bit of the line that
\* is missing.  A zero written does not do it, to a multicart either.
TwoBanks ==
    LowWindow(cart) = HighWindow(cart) =>
        \/ cart.mapper = "Mbc5" /\ cart.bank = 0
        \/ HighBank(cart) >= cart.banks
        \/ cart.multicart /\ cart.bank = Low(cart)

\* A state holds all of the cartridge: loaded into a new one made from the same
\* ROM it gives the same cartridge, down to the second under way, the latched
\* clock and the latch itself.
StateComplete == LoadState(Fresh(cart), SaveState(cart)) = cart

\* What a program that has selected register sel reads of the clock.
ClockSeen(c) == [sel \in ClockRegs |-> ReadRam([c EXCEPT !.upper = sel, !.enabled = TRUE], 0)]

\* The five registers are read one by one while the clock runs on, and yet are of
\* one moment: what they show changes only when a 1 follows a 0 in the latch, and
\* then to what the clock shows.
OneMoment ==
    [][cart.mapper = "Mbc3" /\ ClockSeen(cart') # ClockSeen(cart) =>
            /\ cart.latch = 0 /\ cart'.latch = 1
            /\ ClockSeen(cart') = [sel \in ClockRegs |-> rtc_read(cart.rtc, sel)]]_cart

\* The clock.  A register that was set past its last legal value stands for that
\* value, for both turn over with the next count.
Least(a, b) == IF a < b THEN a ELSE b

TotalOf(r) ==
    Least(r.seconds, Minute - 1)
        + Minute * (Least(r.minutes, Hour - 1)
            + Hour * (Least(r.hours, Day - 1) + Day * r.day))

Promise ==
    INSTANCE Clock WITH
        Total <- Minute * Hour * Day * 2 * DayLow,
        total <- TotalOf(cart.rtc),
        overflow <- cart.rtc.carry,
        stopped <- ~ClockRuns(cart),
        sub <- cart.sub

\* The registers count seconds as Clock does, in whatever order the program stops,
\* sets, latches and reads them, and however it banks the RAM they share a window
\* with.
ImplementsClock == Promise!Spec
============================================================================
