-------------------------- MODULE CartridgeProofs --------------------------
(***************************************************************************)
(* The cartridge for every header, every size of ROM and RAM and every     *)
(* clock: no bank shows twice, a state holds all of it, the clock that is  *)
(* read is of one moment, and its registers count seconds as Clock does.   *)
(***************************************************************************)
EXTENDS Cartridge, TLAPS

(* The fields of a cartridge, those that the program or time changes beside RAM, *)
(* and what these are in a new one.                                              *)
Fields == {"mapper", "has_rtc", "banks", "multicart", "cells", "bank", "upper", "mode",
           "enabled", "latch", "ram", "sub", "rtc", "latched"}

(* A cartridge is a record of these fields... *)
Shape(c) == c = [f \in Fields |-> c[f]]

Registers == {"bank", "upper", "mode", "enabled", "latch", "sub", "rtc", "latched"}

Power == [bank |-> 1, upper |-> 0, mode |-> FALSE, enabled |-> FALSE, latch |-> 255,
          sub |-> 0, rtc |-> RtcZero, latched |-> RtcZero]

(* ...and what its mapper does not archive, its mapper does not have. *)
Untouched(c) == \A f \in Registers : f \notin Visited(c.mapper) => c[f] = Power[f]

(* So a state of it holds all of it. *)
LEMMA Complete ==
    ASSUME NEW c, Shape(c), Untouched(c), DOMAIN c.ram = 0..(c.cells - 1),
           c.mapper \in {"None", "Mbc1", "Mbc2", "Mbc3", "Mbc5"}
    PROVE  LoadState(Fresh(c), SaveState(c)) = c
  <1> DEFINE s == SaveState(c)
             g == Fresh(c)
  <1>1. DOMAIN c = Fields
    BY DEF Shape
  <1>2. DOMAIN g = Fields
    BY <1>1 DEF Fresh
  <1>3. ASSUME NEW f \in Fields PROVE (IF f \in DOMAIN s THEN s[f] ELSE g[f]) = c[f]
    <2>1. CASE f \in Visited(c.mapper)
      BY <2>1 DEF SaveState
    <2>2. CASE f \notin Visited(c.mapper)
      <3>1. f # "ram"
        BY <2>2 DEF Visited
      <3>2. CASE f \in Registers
        <4>1. c[f] = Power[f]
          BY <2>2, <3>2 DEF Untouched
        <4>2. g[f] = Power[f]
          <5>1. /\ g["bank"] = Power["bank"] /\ g["upper"] = Power["upper"]
                /\ g["latch"] = Power["latch"] /\ g["sub"] = Power["sub"]
                /\ g["rtc"] = Power["rtc"] /\ g["latched"] = Power["latched"]
            BY <1>1 DEF Fresh, Fields, Power
          <5>2. g["mode"] = FALSE /\ Power["mode"] = FALSE
            BY <1>1 DEF Fresh, Fields, Power
          <5>3. g["enabled"] = FALSE /\ Power["enabled"] = FALSE
            BY <1>1 DEF Fresh, Fields, Power
          <5>4. g["mode"] = Power["mode"] /\ g["enabled"] = Power["enabled"]
            BY <5>2, <5>3, Zenon
          <5> HIDE DEF g
          <5>5. \/ f = "bank" \/ f = "upper" \/ f = "mode" \/ f = "enabled"
                \/ f = "latch" \/ f = "sub" \/ f = "rtc" \/ f = "latched"
            BY <3>2 DEF Registers
          <5> QED BY <5>1, <5>4, <5>5, Zenon
        <4> QED BY <2>2, <4>1, <4>2 DEF SaveState
      <3>3. CASE f \notin Registers
        <4>1. g[f] = c[f]
          BY <1>1, <3>1, <3>3 DEF Fresh, Registers, Fields
        <4> QED BY <2>2, <4>1 DEF SaveState
      <3> QED BY <3>2, <3>3
    <2> QED BY <2>1, <2>2
  <1> HIDE DEF s, g
  <1>4. LoadState(g, s) = [f \in Fields |-> IF f \in DOMAIN s THEN s[f] ELSE g[f]]
    BY <1>2 DEF LoadState
  <1>5. @ = [f \in Fields |-> c[f]]
    BY <1>3
  <1>6. @ = c
    BY DEF Shape
  <1> QED BY <1>4, <1>5, <1>6 DEF s, g

(* TypeOK, of the constants, the registers, the RAM and the clock. *)
MadeOK(c) ==
    /\ c.mapper \in {"None", "Mbc1", "Mbc2", "Mbc3", "Mbc5"}
    /\ c.multicart \in BOOLEAN /\ (c.multicart => c.mapper = "Mbc1")
    /\ c.has_rtc \in BOOLEAN /\ (c.has_rtc => c.mapper = "Mbc3")
    /\ c.banks \in Nat \ {0, 1}
    /\ c.cells \in Nat

BanksOK(c) ==
    /\ c.bank \in Nat /\ c.upper \in Nat
    /\ c.mode \in BOOLEAN /\ c.enabled \in BOOLEAN
    /\ c.mapper # "Mbc5" => c.bank # 0
    /\ c.mapper = "Mbc1" => c.bank < Codes["Mbc1"]

RamOK(c) == c.ram \in [0..(c.cells - 1) -> 0..(Bytes - 1)]

ClockOK(c) ==
    /\ c.latch \in {0, 1, 255}
    /\ c.sub \in 0..(SecondLength - 1)
    /\ c.rtc \in RtcRegs
    /\ c.latched \in RtcRegs

Whole(c) == Shape(c) /\ MadeOK(c) /\ BanksOK(c) /\ RamOK(c) /\ ClockOK(c) /\ Untouched(c)

CartridgeInv == Whole(cart)

(* What a field may hold. *)
Fits(c, f, v) ==
    /\ f = "bank" => /\ v \in Nat
                     /\ c.mapper # "Mbc5" => v # 0
                     /\ c.mapper = "Mbc1" => v < Codes["Mbc1"]
    /\ f = "upper" => v \in Nat
    /\ f \in {"mode", "enabled"} => v \in BOOLEAN
    /\ f = "latch" => v \in {0, 1, 255}
    /\ f = "sub" => v \in 0..(SecondLength - 1)
    /\ f \in {"rtc", "latched"} => v \in RtcRegs
    /\ f = "ram" => v \in [0..(c.cells - 1) -> 0..(Bytes - 1)]

(* Storing what a field may hold, of those the mapper has, keeps a cartridge whole. *)
LEMMA Store ==
    ASSUME NEW c, Whole(c), NEW f \in Registers \cup {"ram"}, f \in Visited(c.mapper),
           NEW v, Fits(c, f, v)
    PROVE  Whole([c EXCEPT ![f] = v])
  <1> DEFINE d == [c EXCEPT ![f] = v]
  <1>1. /\ Shape(d) /\ Untouched(d) /\ d[f] = v
        /\ \A g \in Fields : g # f => d[g] = c[g]
    <2>1. DOMAIN c = Fields
      BY DEF Shape, Whole
    <2>2. f \in Fields /\ f # "mapper"
      BY DEF Registers, Fields
    <2>3. DOMAIN d = Fields /\ d = [g \in Fields |-> IF g = f THEN v ELSE c[g]]
      BY <2>1
    <2> HIDE DEF d
    <2>4. d[f] = v /\ \A g \in Fields : g # f => d[g] = c[g]
      BY <2>2, <2>3
    <2>5. Shape(d)
      BY <2>3 DEF Shape
    <2>6. d.mapper = c.mapper
      BY <2>2, <2>4 DEF Fields
    <2>7. Untouched(d)
      <3> SUFFICES ASSUME NEW g \in Registers, g \notin Visited(d.mapper)
                   PROVE  d[g] = Power[g]
        BY DEF Untouched
      <3>1. g \in Fields
        BY DEF Registers, Fields
      <3>2. g \notin Visited(c.mapper) /\ g # f
        BY <2>6
      <3>3. c[g] = Power[g]
        BY <3>2 DEF Untouched, Whole
      <3> QED BY <2>4, <3>1, <3>2, <3>3
    <2> QED BY <2>4, <2>5, <2>7
  <1> HIDE DEF d
  <1>2. /\ f # "mapper" /\ f # "has_rtc" /\ f # "banks" /\ f # "multicart" /\ f # "cells"
    BY DEF Registers
  <1>3. /\ d.mapper = c.mapper /\ d.has_rtc = c.has_rtc /\ d.banks = c.banks
        /\ d.multicart = c.multicart /\ d.cells = c.cells
    BY <1>1, <1>2 DEF Fields
  <1>4. MadeOK(d)
    BY <1>3 DEF Whole, MadeOK
  <1>5. BanksOK(d)
    <2>1. d.bank = IF f = "bank" THEN v ELSE c.bank
      BY <1>1 DEF Fields
    <2>2. d.upper = IF f = "upper" THEN v ELSE c.upper
      BY <1>1 DEF Fields
    <2>3. d.mode \in BOOLEAN
      BY <1>1 DEF Fields, Fits, Whole, BanksOK
    <2>4. d.enabled \in BOOLEAN
      BY <1>1 DEF Fields, Fits, Whole, BanksOK
    <2> QED BY <1>3, <2>1, <2>2, <2>3, <2>4 DEF Fits, Whole, BanksOK
  <1>6. RamOK(d)
    BY <1>1, <1>3 DEF Fields, Fits, Whole, RamOK
  <1>7. ClockOK(d)
    <2>1. d.latch \in {0, 1, 255}
      BY <1>1 DEF Fields, Fits, Whole, ClockOK
    <2>2. d.sub \in 0..(SecondLength - 1)
      BY <1>1 DEF Fields, Fits, Whole, ClockOK
    <2>3. d.rtc \in RtcRegs /\ d.latched \in RtcRegs
      BY <1>1 DEF Fields, Fits, Whole, ClockOK
    <2> QED BY <2>1, <2>2, <2>3 DEF ClockOK
  <1> QED BY <1>1, <1>4, <1>5, <1>6, <1>7 DEF Whole, d

(* The fields of a mapper. *)
LEMMA Has ==
    ASSUME NEW c, MadeOK(c)
    PROVE  /\ "ram" \in Visited(c.mapper)
           /\ c.mapper # "None" => {"bank", "enabled"} \subseteq Visited(c.mapper)
           /\ c.mapper \in {"Mbc1", "Mbc3", "Mbc5"} => "upper" \in Visited(c.mapper)
           /\ c.mapper = "Mbc1" => "mode" \in Visited(c.mapper)
           /\ c.mapper = "Mbc3" => {"latch", "sub", "rtc", "latched"} \subseteq Visited(c.mapper)
  BY DEF Visited, MadeOK

(* An address in the window is a cell of the RAM, and what is stored is a byte. *)
LEMMA CellOK ==
    ASSUME NEW c, Whole(c), c.cells > 0, NEW a \in Nat
    PROVE  Cell(c, a) \in 0..(c.cells - 1)
  <1>1. RamBank(c) \in Nat
    BY DEF RamBank, Whole, BanksOK
  <1>2. RamBank(c) * Window + a \in Nat
    BY <1>1, CartridgeAssumption
  <1>3. c.cells \in Nat \ {0}
    BY DEF Whole, MadeOK
  <1> QED BY <1>2, <1>3 DEF Cell

LEMMA NibbleOK ==
    ASSUME NEW b \in 0..(Bytes - 1)
    PROVE  b % Nibbles \in 0..(Bytes - 1)
  <1>1. Nibbles \in Nat \ {0} /\ Bytes \in Nat \ {0}
    BY CartridgeAssumption
  <1>2. ASSUME NEW n \in Nat \ {0}, NEW x \in Nat PROVE x % n \in Nat /\ x % n <= x
    <2>1. x \div n \in Nat /\ x % n \in Nat /\ x = n * (x \div n) + (x % n)
      OBVIOUS
    <2>2. n * (x \div n) \in Nat
      BY <2>1
    <2> QED BY <2>1, <2>2
  <1> QED BY <1>1, <1>2

(* The registers of the clock stay registers. *)
LEMMA AdvanceOK ==
    ASSUME NEW r \in RtcRegs
    PROVE  AdvanceSecond(r) \in RtcRegs
  BY RtcAssumption DEF AdvanceSecond, RtcRegs

LEMMA WrittenOK ==
    ASSUME NEW r \in RtcRegs, NEW sel \in ClockRegs, NEW w \in Written(r, sel)
    PROVE  w \in RtcRegs
  <1>1. DayLow \in Nat \ {0} /\ r.day \in 0..(2 * DayLow - 1)
    BY RtcAssumption DEF RtcRegs
  <1>2. ASSUME NEW n \in Nat \ {0}, NEW x \in 0..(2 * n - 1)
        PROVE  x \div n \in {0, 1} /\ x % n \in 0..(n - 1)
    <2>1. x \div n \in Nat /\ x % n \in 0..(n - 1) /\ x = n * (x \div n) + (x % n)
      OBVIOUS
    <2>2. ASSUME NEW q \in Nat, q >= 2 PROVE n * q >= 2 * n
      <3>1. PICK k \in Nat : q = 2 + k
        BY <2>2, q - 2 \in Nat
      <3>2. n * (2 + k) = 2 * n + n * k /\ n * k \in Nat
        OBVIOUS
      <3> QED BY <1>2, <2>2, <3>1, <3>2
    <2>3. x \div n < 2
      BY <2>1, <2>2
    <2> QED BY <2>1, <2>3
  <1>3. r.day \div DayLow \in {0, 1} /\ r.day % DayLow \in 0..(DayLow - 1)
    BY <1>1, <1>2
  <1>4. CASE sel \in {8, 9, 10}
    <2>1. CASE sel = 8
      BY <2>1, RtcAssumption DEF Written, RtcRegs
    <2>2. CASE sel = 9
      BY <2>2, RtcAssumption DEF Written, RtcRegs
    <2>3. CASE sel = 10
      BY <2>3, RtcAssumption DEF Written, RtcRegs
    <2> QED BY <1>4, <2>1, <2>2, <2>3
  <1>5. CASE sel = 11
    <2>1. PICK v \in 0..(DayLow - 1) : w = [r EXCEPT !.day = (r.day \div DayLow) * DayLow + v]
      BY <1>5 DEF Written
    <2>2. (r.day \div DayLow) * DayLow + v \in 0..(2 * DayLow - 1)
      BY <1>1, <1>3, SMTT(40)
    <2> QED BY <2>1, <2>2 DEF RtcRegs
  <1>6. CASE sel = 12
    <2>1. PICK b \in [day: {0, 1}, halt: BOOLEAN, carry: BOOLEAN] : w = HighWritten(r, b)
      BY <1>6 DEF Written
    <2>2. (r.day % DayLow) + DayLow * b.day \in 0..(2 * DayLow - 1)
      BY <1>1, <1>3
    <2> QED BY <2>1, <2>2 DEF RtcRegs, HighWritten
  <1> QED BY <1>4, <1>5, <1>6 DEF ClockRegs

(* Each action keeps the cartridge whole. *)
LEMMA EnableKeeps ==
    ASSUME Whole(cart), WriteEnable
    PROVE  Whole(cart')
  <1>1. PICK key \in BOOLEAN : cart' = [cart EXCEPT !.enabled = key]
    BY DEF WriteEnable
  <1>2. "enabled" \in Registers \cup {"ram"} /\ "enabled" \in Visited(cart.mapper)
    BY Has DEF WriteEnable, Whole, Registers
  <1>3. Fits(cart, "enabled", key)
    BY DEF Fits
  <1>4. Whole([cart EXCEPT !["enabled"] = key])
    BY <1>2, <1>3, Store
  <1> QED BY <1>1, <1>4

LEMMA BankKeeps ==
    ASSUME Whole(cart), WriteBank
    PROVE  Whole(cart')
  <1>1. PICK v \in 0..(Codes[cart.mapper] - 1) : cart' = [cart EXCEPT !.bank = BankWritten(cart, v)]
    BY DEF WriteBank
  <1>2. "bank" \in Registers \cup {"ram"} /\ "bank" \in Visited(cart.mapper)
    BY Has DEF WriteBank, Whole, Registers
  <1>3. Fits(cart, "bank", BankWritten(cart, v))
    <2>1. cart.mapper \in {"Mbc1", "Mbc2", "Mbc3", "Mbc5"} /\ cart.bank \in Nat
      BY DEF WriteBank, Whole, MadeOK, BanksOK
    <2>2. Codes[cart.mapper] \in Nat \ {0, 1}
      BY <2>1, CartridgeAssumption
    <2>3. v \in 0..(Codes[cart.mapper] - 1)
      OBVIOUS
    <2>4. CASE cart.mapper = "Mbc5"
      <3>1. ASSUME NEW n \in Nat \ {0}, NEW x \in Nat PROVE (x \div n) * n \in Nat
        OBVIOUS
      <3>2. (cart.bank \div Codes["Mbc5"]) * Codes["Mbc5"] \in Nat
        BY <2>1, <2>2, <2>4, <3>1
      <3>3. BankWritten(cart, v) = (cart.bank \div Codes["Mbc5"]) * Codes["Mbc5"] + v
        BY <2>4, Zenon DEF BankWritten
      <3>4. BankWritten(cart, v) \in Nat
        BY <2>2, <2>3, <3>2, <3>3
      <3> QED BY <2>4, <3>4 DEF Fits
    <2>5. CASE cart.mapper # "Mbc5"
      <3>1. BankWritten(cart, v) = IF v = 0 THEN 1 ELSE v
        BY <2>5 DEF BankWritten
      <3> QED BY <2>2, <2>3, <2>5, <3>1 DEF Fits
    <2> QED BY <2>4, <2>5
  <1>4. Whole([cart EXCEPT !["bank"] = BankWritten(cart, v)])
    BY <1>2, <1>3, Store
  <1> QED BY <1>1, <1>4

LEMMA BankHighKeeps ==
    ASSUME Whole(cart), WriteBankHigh
    PROVE  Whole(cart')
  <1>1. PICK b \in {0, 1} : cart' = [cart EXCEPT !.bank = b * Codes["Mbc5"] + (cart.bank % Codes["Mbc5"])]
    BY DEF WriteBankHigh
  <1>2. "bank" \in Registers \cup {"ram"} /\ "bank" \in Visited(cart.mapper)
    BY Has DEF WriteBankHigh, Whole, Registers
  <1>3. Fits(cart, "bank", b * Codes["Mbc5"] + (cart.bank % Codes["Mbc5"]))
    <2>1. cart.mapper = "Mbc5" /\ cart.bank \in Nat
      BY DEF WriteBankHigh, Whole, BanksOK
    <2>2. Codes["Mbc5"] \in Nat \ {0}
      BY CartridgeAssumption
    <2>3. b * Codes["Mbc5"] + (cart.bank % Codes["Mbc5"]) \in Nat
      BY <2>1, <2>2
    <2> QED BY <2>1, <2>3 DEF Fits
  <1>4. Whole([cart EXCEPT !["bank"] = b * Codes["Mbc5"] + (cart.bank % Codes["Mbc5"])])
    BY <1>2, <1>3, Store
  <1> QED BY <1>1, <1>4

LEMMA UpperKeeps ==
    ASSUME Whole(cart), WriteUpper
    PROVE  Whole(cart')
  <1>1. PICK v \in Uppers[cart.mapper] : cart' = [cart EXCEPT !.upper = v]
    BY DEF WriteUpper
  <1>2. "upper" \in Registers \cup {"ram"} /\ "upper" \in Visited(cart.mapper)
    BY Has DEF WriteUpper, Whole, Registers
  <1>3. Fits(cart, "upper", v)
    BY CartridgeAssumption DEF Fits, WriteUpper
  <1>4. Whole([cart EXCEPT !["upper"] = v])
    BY <1>2, <1>3, Store
  <1> QED BY <1>1, <1>4

LEMMA ModeKeeps ==
    ASSUME Whole(cart), WriteMode
    PROVE  Whole(cart')
  <1>1. PICK mode \in BOOLEAN : cart' = [cart EXCEPT !.mode = mode]
    BY DEF WriteMode
  <1>2. "mode" \in Registers \cup {"ram"} /\ "mode" \in Visited(cart.mapper)
    BY Has DEF WriteMode, Whole, Registers
  <1>3. Fits(cart, "mode", mode)
    BY DEF Fits
  <1>4. Whole([cart EXCEPT !["mode"] = mode])
    BY <1>2, <1>3, Store
  <1> QED BY <1>1, <1>4

LEMMA LatchKeeps ==
    ASSUME Whole(cart), WriteLatch
    PROVE  Whole(cart')
  <1>1. PICK v \in {0, 1, 255} :
            cart' = [cart EXCEPT !.latch = v,
                        !.latched = IF cart.latch = 0 /\ v = 1 THEN cart.rtc ELSE cart.latched]
    BY DEF WriteLatch
  <1> DEFINE d == [cart EXCEPT !["latch"] = v]
             w == IF cart.latch = 0 /\ v = 1 THEN cart.rtc ELSE cart.latched
  <1>2. /\ "latch" \in Registers \cup {"ram"} /\ "latched" \in Registers \cup {"ram"}
        /\ "latch" \in Visited(cart.mapper) /\ "latched" \in Visited(cart.mapper)
    BY Has DEF WriteLatch, Whole, Registers
  <1>3. Whole(d)
    BY <1>2, Store DEF Fits
  <1>4. DOMAIN cart = Fields
    BY DEF Whole, Shape
  <1>5. d.mapper = cart.mapper
    BY <1>4 DEF Fields
  <1>6. Fits(d, "latched", w)
    BY DEF Fits, Whole, ClockOK
  <1>7. cart' = [d EXCEPT !["latched"] = w]
    BY <1>1
  <1> HIDE DEF d, w
  <1> QED BY <1>2, <1>3, <1>5, <1>6, <1>7, Store

LEMMA RamKeeps ==
    ASSUME Whole(cart), StoreRam
    PROVE  Whole(cart')
  <1>1. PICK a \in 0..(Window - 1), b \in 0..(Bytes - 1) :
            cart' = [cart EXCEPT !.ram[Cell(cart, a)] =
                        IF cart.mapper = "Mbc2" THEN b % Nibbles ELSE b]
    BY DEF StoreRam
  <1> DEFINE e == IF cart.mapper = "Mbc2" THEN b % Nibbles ELSE b
             m == [cart.ram EXCEPT ![Cell(cart, a)] = e]
  <1>2. "ram" \in Registers \cup {"ram"} /\ "ram" \in Visited(cart.mapper)
    BY Has DEF Whole
  <1>3. Fits(cart, "ram", m)
    <2>1. e \in 0..(Bytes - 1)
      BY NibbleOK
    <2>2. Cell(cart, a) \in 0..(cart.cells - 1)
      BY CellOK, CartridgeAssumption DEF StoreRam, ReachesRam
    <2>3. cart.ram \in [0..(cart.cells - 1) -> 0..(Bytes - 1)]
      BY DEF Whole, RamOK
    <2> HIDE DEF e
    <2>4. m \in [0..(cart.cells - 1) -> 0..(Bytes - 1)]
      BY <2>1, <2>2, <2>3
    <2> QED BY <2>4 DEF Fits
  <1>4. cart' = [cart EXCEPT !["ram"] = m]
    BY <1>1
  <1> HIDE DEF m
  <1> QED BY <1>2, <1>3, <1>4, Store

LEMMA RestoreKeeps ==
    ASSUME Whole(cart), RestoreRam
    PROVE  Whole(cart')
  <1>1. PICK n \in 0..cart.cells, b \in 0..(Bytes - 1) :
            cart' = [cart EXCEPT !.ram = [i \in DOMAIN cart.ram |->
                                            IF i < n THEN b ELSE cart.ram[i]]]
    BY DEF RestoreRam
  <1> DEFINE m == [i \in DOMAIN cart.ram |-> IF i < n THEN b ELSE cart.ram[i]]
  <1>2. "ram" \in Registers \cup {"ram"} /\ "ram" \in Visited(cart.mapper)
    BY Has DEF Whole
  <1>3. Fits(cart, "ram", m)
    <2>1. m \in [0..(cart.cells - 1) -> 0..(Bytes - 1)]
      BY DEF Whole, RamOK
    <2> HIDE DEF m
    <2> QED BY <2>1 DEF Fits
  <1>4. cart' = [cart EXCEPT !["ram"] = m]
    BY <1>1
  <1> HIDE DEF m
  <1> QED BY <1>2, <1>3, <1>4, Store

LEMMA StoreClockKeeps ==
    ASSUME Whole(cart), StoreClock
    PROVE  Whole(cart')
  <1>1. PICK r \in Written(cart.rtc, cart.upper) :
            cart' = [cart EXCEPT !.rtc = r, !.sub = IF cart.upper = 8 THEN 0 ELSE cart.sub]
    BY DEF StoreClock
  <1> DEFINE d == [cart EXCEPT !["rtc"] = r]
             w == IF cart.upper = 8 THEN 0 ELSE cart.sub
  <1>2. /\ "rtc" \in Registers \cup {"ram"} /\ "sub" \in Registers \cup {"ram"}
        /\ "rtc" \in Visited(cart.mapper) /\ "sub" \in Visited(cart.mapper)
    BY Has DEF StoreClock, ReachesClock, Whole, Registers
  <1>3. r \in RtcRegs
    BY WrittenOK DEF StoreClock, ReachesClock, Whole, ClockOK
  <1>4. Whole(d)
    BY <1>2, <1>3, Store DEF Fits
  <1>5. DOMAIN cart = Fields
    BY DEF Whole, Shape
  <1>6. d.mapper = cart.mapper
    BY <1>5 DEF Fields
  <1>7. Fits(d, "sub", w)
    BY CartridgeAssumption DEF Fits, Whole, ClockOK
  <1>8. cart' = [d EXCEPT !["sub"] = w]
    BY <1>1
  <1> HIDE DEF d, w
  <1> QED BY <1>2, <1>4, <1>6, <1>7, <1>8, Store

LEMMA TickKeeps ==
    ASSUME Whole(cart), NEW n \in TickLengths, Tick(n)
    PROVE  Whole(cart')
  <1> DEFINE full == cart.sub + n >= SecondLength
             s == IF full THEN cart.sub + n - SecondLength ELSE cart.sub + n
             r == IF full THEN AdvanceSecond(cart.rtc) ELSE cart.rtc
             d == [cart EXCEPT !["sub"] = s]
  <1>1. /\ "rtc" \in Registers \cup {"ram"} /\ "sub" \in Registers \cup {"ram"}
        /\ "rtc" \in Visited(cart.mapper) /\ "sub" \in Visited(cart.mapper)
    <2>1. cart.mapper = "Mbc3"
      BY DEF Tick, ClockRuns, Whole, MadeOK
    <2> QED BY <2>1, Has DEF Whole, Registers
  <1>2. s \in 0..(SecondLength - 1)
    BY CartridgeAssumption DEF Whole, ClockOK
  <1>3. r \in RtcRegs
    BY AdvanceOK DEF Whole, ClockOK
  <1>4. cart' = [d EXCEPT !["rtc"] = r]
    BY DEF Tick
  <1>5. DOMAIN cart = Fields
    BY DEF Whole, Shape
  <1>6. d.mapper = cart.mapper
    BY <1>5 DEF Fields
  <1> HIDE DEF s, r
  <1>7. Whole(d)
    BY <1>1, <1>2, Store DEF Fits
  <1>8. Fits(d, "rtc", r)
    BY <1>3 DEF Fits
  <1> HIDE DEF d
  <1> QED BY <1>1, <1>4, <1>6, <1>7, <1>8, Store

LEMMA Made ==
    ASSUME Init
    PROVE  Whole(cart)
  <1>1. PICK h \in Headers, dump \in Dumps, logos \in 0..4 :
            /\ Accepted(h)
            /\ cart = NewCartridge(h, BanksOf(h, dump),
                    MapperOf(h[1]) = "Mbc1" /\ LooksLikeMulticart(BanksOf(h, dump), logos))
    BY DEF Init
  <1> DEFINE multi == MapperOf(h[1]) = "Mbc1" /\ LooksLikeMulticart(BanksOf(h, dump), logos)
  <1>2. MapperOf(h[1]) \in {"None", "Mbc1", "Mbc2", "Mbc3", "Mbc5"}
    BY <1>1 DEF Accepted, MapperOf
  <1>3. HasRtc(h[1]) => MapperOf(h[1]) = "Mbc3"
    BY DEF HasRtc, MapperOf
  <1>4. BanksOf(h, dump) \in Nat \ {0, 1}
    BY <1>1, CartridgeAssumption DEF Accepted, BanksOf
  <1>5. RamOf(h) \in Nat
    BY <1>1, CartridgeAssumption DEF Accepted, RamOf
  <1>6. multi \in BOOLEAN /\ (multi => MapperOf(h[1]) = "Mbc1") /\ HasRtc(h[1]) \in BOOLEAN
    BY DEF HasRtc
  <1>7. cart = NewCartridge(h, BanksOf(h, dump), multi)
    BY <1>1
  <1> HIDE DEF multi
  <1>8. Shape(cart)
    BY <1>7 DEF Shape, Fields, NewCartridge
  <1>9. MadeOK(cart)
    BY <1>2, <1>3, <1>4, <1>5, <1>6, <1>7 DEF MadeOK, NewCartridge
  <1>10. BanksOK(cart)
    BY <1>7, CartridgeAssumption, SMTT(40) DEF BanksOK, NewCartridge
  <1>11. RamOK(cart)
    <2>1. 0 \in 0..(Bytes - 1)
      BY CartridgeAssumption
    <2>2. cart.cells = RamOf(h) /\ cart.ram = [i \in 0..(RamOf(h) - 1) |-> 0]
      BY <1>7 DEF NewCartridge
    <2> QED BY <2>1, <2>2 DEF RamOK
  <1>12. ClockOK(cart)
    <2>1. RtcZero \in RtcRegs
      BY RtcAssumption DEF RtcZero, RtcRegs
    <2> QED BY <1>7, <2>1, CartridgeAssumption, SMTT(40) DEF ClockOK, NewCartridge
  <1>13. Untouched(cart)
    <2>1. /\ cart["bank"] = Power["bank"] /\ cart["upper"] = Power["upper"]
          /\ cart["latch"] = Power["latch"] /\ cart["sub"] = Power["sub"]
          /\ cart["rtc"] = Power["rtc"] /\ cart["latched"] = Power["latched"]
      BY <1>7 DEF Power, NewCartridge
    <2>2. /\ cart["mode"] = FALSE /\ cart["enabled"] = FALSE
          /\ Power["mode"] = FALSE /\ Power["enabled"] = FALSE
      BY <1>7 DEF Power, NewCartridge
    <2>3. cart["mode"] = Power["mode"] /\ cart["enabled"] = Power["enabled"]
      BY <2>2, Zenon
    <2>4. ASSUME NEW f \in Registers PROVE cart[f] = Power[f]
      BY <2>1, <2>3, Zenon DEF Registers
    <2> QED BY <2>4, Zenon DEF Untouched
  <1> QED BY <1>8, <1>9, <1>10, <1>11, <1>12, <1>13 DEF Whole

(* The invariant: a cartridge has all its fields, the registers that it does not *)
(* archive are as they were made, and no mapper but MBC5 holds bank 0.           *)
THEOREM CartridgeInvariant == Spec => []CartridgeInv
  <1>1. ASSUME Whole(cart), [Next]_cart PROVE Whole(cart')
    <2>1. CASE UNCHANGED cart
      BY <1>1, <2>1
    <2>2. CASE Ticks
      BY <1>1, <2>2, TickKeeps DEF Ticks
    <2>3. CASE WriteEnable \/ WriteBank \/ WriteBankHigh \/ WriteUpper \/ WriteMode
      BY <1>1, <2>3, EnableKeeps, BankKeeps, BankHighKeeps, UpperKeeps, ModeKeeps
    <2>4. CASE WriteLatch \/ StoreRam \/ StoreClock \/ RestoreRam
      BY <1>1, <2>4, LatchKeeps, RamKeeps, StoreClockKeeps, RestoreKeeps
    <2> QED BY <1>1, <2>1, <2>2, <2>3, <2>4 DEF Next
  <1>2. CartridgeInv /\ [Next]_cart => CartridgeInv'
    BY <1>1 DEF CartridgeInv
  <1>3. Init => CartridgeInv
    BY Made DEF CartridgeInv
  <1> QED BY <1>2, <1>3, PTL DEF Spec

(* Whatever is written, the fields keep their types and RAM holds bytes. *)
THEOREM TypeCorrect == Spec => []TypeOK
  <1>1. CartridgeInv => TypeOK
    BY DEF CartridgeInv, Whole, MadeOK, BanksOK, RamOK, ClockOK, TypeOK
  <1> QED BY <1>1, CartridgeInvariant, PTL

(* A state holds all of the cartridge. *)
THEOREM StateCompleteHolds == Spec => []StateComplete
  <1>1. ASSUME Whole(cart) PROVE StateComplete
    <2>1. DOMAIN cart.ram = 0..(cart.cells - 1)
      BY <1>1 DEF Whole, RamOK
    <2>2. cart.mapper \in {"None", "Mbc1", "Mbc2", "Mbc3", "Mbc5"}
      BY <1>1 DEF Whole, MadeOK
    <2> QED BY <1>1, <2>1, <2>2, Complete DEF Whole, StateComplete
  <1>2. CartridgeInv => StateComplete
    BY <1>1 DEF CartridgeInv
  <1> QED BY <1>2, CartridgeInvariant, PTL

LEMMA Remainder ==
    ASSUME NEW n \in Nat \ {0}, NEW x \in 0..(n - 1)
    PROVE  x % n = x
  OBVIOUS

LEMMA RemainderPast ==
    ASSUME NEW n \in Nat \ {0}, NEW x \in Nat, n < x, x < 2 * n
    PROVE  x % n = x - n
  OBVIOUS

(* The banks in the two windows, when the upper one is a bank of the ROM: the    *)
(* lower is that of the same upper bits, or bank 0, and the low bits of the      *)
(* upper one are not zero.                                                       *)
LEMMA TwoBanksOf ==
    ASSUME NEW c, MadeOK(c), BanksOK(c),
           ~(c.mapper = "Mbc5" /\ c.bank = 0), HighBank(c) < c.banks,
           ~(c.multicart /\ c.bank = Low(c))
    PROVE  LowWindow(c) # HighWindow(c)
  <1>1. Low(c) \in Nat \ {0}
    <2>1. Codes["Mbc1"] \in Nat \ {0, 1} /\ Codes["Mbc1"] % 2 = 0
      BY CartridgeAssumption
    <2>2. Codes["Mbc1"] \div 2 \in Nat \ {0}
      BY <2>1
    <2> QED BY <2>1, <2>2 DEF Low
  <1>2. c.bank \in Nat \ {0} /\ c.upper \in Nat /\ c.banks \in Nat \ {0, 1}
    BY DEF MadeOK, BanksOK
  <1>3. CASE c.mapper # "Mbc1"
    <2>1. LowBank(c) = 0
      BY <1>3 DEF LowBank
    <2>2. HighBank(c) \in Nat \ {0}
      BY <1>2, <1>3 DEF HighBank
    <2>3. LowWindow(c) = 0 /\ HighWindow(c) = HighBank(c)
      BY <1>2, <2>1, <2>2, Remainder DEF LowWindow, HighWindow
    <2> QED BY <2>2, <2>3
  <1>4. CASE c.mapper = "Mbc1"
    <2> DEFINE top == c.upper * Low(c)
               low == c.bank % Low(c)
    <2>1. top \in Nat /\ low \in Nat
      BY <1>1, <1>2
    <2>2. low # 0
      <3>1. CASE c.multicart
        <4>1. Codes["Mbc1"] \in Nat /\ Codes["Mbc1"] % 2 = 0
          BY CartridgeAssumption
        <4>2. Low(c) = Codes["Mbc1"] \div 2
          BY <3>1 DEF Low
        <4>3. c.bank < 2 * Low(c)
          <5>1. c.bank < Codes["Mbc1"]
            BY <1>2, <1>4, <4>1 DEF BanksOK
          <5>2. Codes["Mbc1"] = 2 * Low(c)
            BY <4>1, <4>2
          <5> QED BY <5>1, <5>2
        <4>4. c.bank # Low(c)
          BY <3>1
        <4>5. CASE c.bank < Low(c)
          <5>1. c.bank \in 0..(Low(c) - 1)
            BY <1>1, <1>2, <4>5
          <5> QED BY <1>1, <1>2, <5>1, Remainder
        <4>6. CASE c.bank > Low(c)
          <5> DEFINE l == Low(c)
                     b == c.bank
          <5>1. b \in Nat /\ l \in Nat \ {0} /\ b > l /\ b < 2 * l
            BY <1>1, <1>2, <4>3, <4>6
          <5> HIDE DEF l, b
          <5>2. b % l = b - l
            BY <5>1, RemainderPast
          <5> QED BY <5>1, <5>2 DEF l, b
        <4> QED BY <1>1, <1>2, <4>4, <4>5, <4>6
      <3>2. CASE ~c.multicart
        <4>1. Low(c) = Codes["Mbc1"] /\ c.bank \in 0..(Low(c) - 1)
          BY <1>1, <1>2, <1>4, <3>2 DEF Low, BanksOK
        <4> QED BY <1>1, <1>2, <4>1, Remainder
      <3> QED BY <3>1, <3>2
    <2>3. HighBank(c) = top + low
      BY <1>4 DEF HighBank
    <2>4. LowBank(c) = IF c.mode THEN top ELSE 0
      BY <1>4 DEF LowBank
    <2> HIDE DEF top, low
    <2>5. HighWindow(c) = top + low
      BY <1>2, <2>1, <2>3, Remainder DEF HighWindow
    <2>6. LowWindow(c) = LowBank(c)
      <3>1. LowBank(c) \in 0..(c.banks - 1)
        BY <1>2, <2>1, <2>3, <2>4
      <3> QED BY <1>2, <3>1, Remainder DEF LowWindow
    <2> QED BY <2>1, <2>2, <2>4, <2>5, <2>6
  <1> QED BY <1>3, <1>4

(* No bank shows twice but where TwoBanks says so. *)
THEOREM TwoBanksHolds == Spec => []TwoBanks
  <1>1. ASSUME Whole(cart) PROVE TwoBanks
    <2> SUFFICES ASSUME ~(cart.mapper = "Mbc5" /\ cart.bank = 0), ~(HighBank(cart) >= cart.banks),
                        ~(cart.multicart /\ cart.bank = Low(cart))
                 PROVE  LowWindow(cart) # HighWindow(cart)
      BY DEF TwoBanks
    <2>1. MadeOK(cart) /\ BanksOK(cart)
      BY <1>1 DEF Whole
    <2>2. HighBank(cart) < cart.banks
      <3>1. HighBank(cart) \in Int
        <4>1. CASE cart.mapper # "Mbc1"
          BY <2>1, <4>1 DEF HighBank, BanksOK
        <4>2. CASE cart.mapper = "Mbc1"
          <5>1. Low(cart) \in Nat \ {0}
            <6>1. Codes["Mbc1"] \in Nat \ {0, 1}
              BY CartridgeAssumption
            <6>2. Codes["Mbc1"] \div 2 \in Nat \ {0}
              BY <6>1
            <6> QED BY <6>1, <6>2 DEF Low
          <5>2. cart.upper * Low(cart) + (cart.bank % Low(cart)) \in Int
            BY <2>1, <5>1 DEF BanksOK
          <5> QED BY <4>2, <5>2 DEF HighBank
        <4> QED BY <4>1, <4>2
      <3> QED BY <2>1, <3>1 DEF MadeOK
    <2> QED BY <2>1, <2>2, TwoBanksOf
  <1>2. CartridgeInv => TwoBanks
    BY <1>1 DEF CartridgeInv
  <1> QED BY <1>2, CartridgeInvariant, PTL

(* What the program sees of the clock is its latched copy. *)
LEMMA SeenOf ==
    ASSUME NEW c, Shape(c), c.mapper = "Mbc3"
    PROVE  ClockSeen(c) = [sel \in ClockRegs |-> rtc_read(c.latched, sel)]
  <1>1. ASSUME NEW sel \in ClockRegs
        PROVE  ReadRam([c EXCEPT !.upper = sel, !.enabled = TRUE], 0) = rtc_read(c.latched, sel)
    <2> DEFINE d == [c EXCEPT !.upper = sel, !.enabled = TRUE]
    <2>1. DOMAIN c = Fields
      BY DEF Shape
    <2>2. d.mapper = "Mbc3" /\ d.upper = sel /\ d.latched = c.latched
      BY <2>1 DEF Fields
    <2>3. d.enabled
      BY <2>1 DEF Fields
    <2> HIDE DEF d
    <2>4. ReachesClock(d)
      BY <1>1, <2>2, <2>3 DEF ReachesClock
    <2>5. ~ReachesRam(d)
      BY <1>1, <2>2 DEF ReachesRam, ClockRegs
    <2>6. ReadRam(d, 0) = ReadClock(d)
      BY <2>4, <2>5, Zenon DEF ReadRam
    <2>7. ReadClock(d) = rtc_read(c.latched, sel)
      BY <2>2 DEF ReadClock
    <2> QED BY <2>6, <2>7 DEF d
  <1> QED BY <1>1 DEF ClockSeen

(* What no step changes, and what the clock alone changes. *)
LEMMA StepsKeep ==
    ASSUME Whole(cart), Next
    PROVE  /\ cart'.mapper = cart.mapper /\ cart'.has_rtc = cart.has_rtc
           /\ cart'.rtc = cart.rtc \/ StoreClock \/ Ticks
           /\ cart'.sub = cart.sub \/ StoreClock \/ Ticks
  <1>0. DOMAIN cart = Fields
    BY DEF Whole, Shape
  <1>1. CASE WriteEnable
    BY <1>0, <1>1 DEF WriteEnable, Fields
  <1>2. CASE WriteBank
    BY <1>0, <1>2 DEF WriteBank, Fields
  <1>3. CASE WriteBankHigh
    BY <1>0, <1>3 DEF WriteBankHigh, Fields
  <1>4. CASE WriteUpper
    BY <1>0, <1>4 DEF WriteUpper, Fields
  <1>5. CASE WriteMode
    BY <1>0, <1>5 DEF WriteMode, Fields
  <1>6. CASE WriteLatch
    BY <1>0, <1>6 DEF WriteLatch, Fields
  <1>7. CASE StoreRam
    BY <1>0, <1>7 DEF StoreRam, Fields
  <1>8. CASE RestoreRam
    BY <1>0, <1>8 DEF RestoreRam, Fields
  <1>9. CASE StoreClock
    BY <1>0, <1>9 DEF StoreClock, Fields
  <1>10. CASE Ticks
    BY <1>0, <1>10 DEF Ticks, Tick, Fields
  <1> QED BY <1>1, <1>2, <1>3, <1>4, <1>5, <1>6, <1>7, <1>8, <1>9, <1>10 DEF Next

(* What is read of the clock changes only by the latch, to one moment of it. *)
THEOREM OneMomentHolds == Spec => OneMoment
  <1> DEFINE Moment ==
        cart.mapper = "Mbc3" /\ ClockSeen(cart') # ClockSeen(cart) =>
            /\ cart.latch = 0 /\ cart'.latch = 1
            /\ ClockSeen(cart') = [sel \in ClockRegs |-> rtc_read(cart.rtc, sel)]
  <1>1. ASSUME Whole(cart), Whole(cart'), Next, cart.mapper = "Mbc3",
               ClockSeen(cart') # ClockSeen(cart)
        PROVE  /\ cart.latch = 0 /\ cart'.latch = 1
               /\ ClockSeen(cart') = [sel \in ClockRegs |-> rtc_read(cart.rtc, sel)]
    <2>1. DOMAIN cart = Fields /\ Shape(cart) /\ Shape(cart')
      BY <1>1 DEF Whole, Shape
    <2>2. cart'.mapper = "Mbc3"
      BY <1>1, StepsKeep
    <2>3. cart'.latched # cart.latched
      BY <1>1, <2>1, <2>2, SeenOf
    <2>4. WriteLatch
      BY <1>1, <2>1, <2>3 DEF Next, WriteEnable, WriteBank, WriteBankHigh, WriteUpper, WriteMode,
            StoreRam, StoreClock, RestoreRam, Ticks, Tick, Fields
    <2>5. PICK v \in {0, 1, 255} :
            cart' = [cart EXCEPT !.latch = v,
                        !.latched = IF cart.latch = 0 /\ v = 1 THEN cart.rtc ELSE cart.latched]
      BY <2>4 DEF WriteLatch
    <2>6. cart'.latch = v
      BY <2>1, <2>5 DEF Fields
    <2>7. cart'.latched = IF cart.latch = 0 /\ v = 1 THEN cart.rtc ELSE cart.latched
      BY <2>1, <2>5 DEF Fields
    <2>8. cart.latch = 0 /\ v = 1 /\ cart'.latched = cart.rtc
      BY <2>3, <2>7
    <2>9. ClockSeen(cart') = [sel \in ClockRegs |-> rtc_read(cart'.latched, sel)]
      BY <2>1, <2>2, SeenOf
    <2> QED BY <2>6, <2>8, <2>9
  <1>2. CartridgeInv /\ CartridgeInv' /\ [Next]_cart => [Moment]_cart
    BY <1>1 DEF CartridgeInv
  <1> QED BY <1>2, CartridgeInvariant, PTL DEF Spec, OneMoment

----------------------------------------------------------------------------
(* The registers as the digits of a number of seconds.                     *)

Inc(x, p) == IF x + 1 = p THEN 0 ELSE x + 1

(* A digit of base b before a number below p; and what such a number is below.   *)
Put(a, b, y) == a + b * y
Size(b, p) == b * p

LEMMA Digit ==
    ASSUME NEW b \in Nat \ {0}, NEW p \in Nat \ {0}, NEW a \in 0..(b - 1), NEW y \in 0..(p - 1)
    PROVE  /\ Size(b, p) \in Nat \ {0}
           /\ Put(a, b, y) \in 0..(Size(b, p) - 1)
           /\ a + 1 = b /\ y + 1 = p => Put(a, b, y) + 1 = Size(b, p)
           /\ Put(a, b, y) + 1 = Size(b, p) => a + 1 = b /\ y + 1 = p
           /\ Inc(Put(a, b, y), Size(b, p)) =
                IF a + 1 = b THEN Put(0, b, Inc(y, p)) ELSE Put(a + 1, b, y)
  <1>1. PICK k \in Nat : p = y + 1 + k
    BY p - y - 1 \in Nat
  <1>2. b * (y + 1 + k) = b * y + b + b * k
    OBVIOUS
  <1>3. b * p = b * y + b + b * k
    BY <1>1, <1>2
  <1>4. b * y \in Nat /\ b * k \in Nat /\ (k # 0 => b * k >= 1)
    OBVIOUS
  <1>5. b * p \in Nat \ {0} /\ a + b * y \in 0..(b * p - 1)
    BY <1>3, <1>4
  <1>6. y + 1 = p <=> k = 0
    BY <1>1
  <1>7. k = 0 => b * k = 0
    OBVIOUS
  <1>8. (a + b * y) + 1 = b * p <=> a + 1 = b /\ y + 1 = p
    BY <1>3, <1>4, <1>6, <1>7
  <1>9. Inc(a + b * y, b * p) = IF a + 1 = b THEN 0 + b * Inc(y, p) ELSE (a + 1) + b * y
    <2>1. CASE a + 1 # b
      BY <1>8, <2>1, <1>4 DEF Inc
    <2>2. CASE a + 1 = b /\ y + 1 = p
      <3>1. b * 0 = 0
        OBVIOUS
      <3> QED BY <1>8, <2>2, <3>1 DEF Inc
    <2>3. CASE a + 1 = b /\ y + 1 # p
      <3>1. b * (y + 1) = b * y + b
        OBVIOUS
      <3>2. Inc(y, p) = y + 1 /\ Inc(a + b * y, b * p) = a + b * y + 1
        BY <1>8, <2>3 DEF Inc
      <3>3. (a + b * y) + 1 = b * y + b
        BY <1>4, <2>3
      <3> QED BY <1>4, <2>3, <3>1, <3>2, <3>3
    <2> QED BY <2>1, <2>2, <2>3
  <1>10. Size(b, p) = b * p /\ Put(a, b, y) = a + b * y
    BY DEF Size, Put
  <1>11. Put(0, b, Inc(y, p)) = 0 + b * Inc(y, p) /\ Put(a + 1, b, y) = (a + 1) + b * y
    BY DEF Put
  <1>12. Size(b, p) \in Nat \ {0} /\ Put(a, b, y) \in 0..(Size(b, p) - 1)
    BY <1>5, <1>10
  <1>13. Put(a, b, y) + 1 = Size(b, p) <=> a + 1 = b /\ y + 1 = p
    BY <1>8, <1>10
  <1>14. Inc(Put(a, b, y), Size(b, p)) =
            IF a + 1 = b THEN Put(0, b, Inc(y, p)) ELSE Put(a + 1, b, y)
    BY <1>9, <1>10, <1>11
  <1> QED BY <1>12, <1>13, <1>14

LEMMA DigitInc ==
    ASSUME NEW b \in Nat \ {0}, NEW p \in Nat \ {0}, NEW a \in 0..(b - 1), NEW y \in 0..(p - 1)
    PROVE  /\ a + 1 = b => Inc(Put(a, b, y), Size(b, p)) = Put(0, b, Inc(y, p))
           /\ a + 1 # b => Inc(Put(a, b, y), Size(b, p)) = Put(a + 1, b, y)
  BY Digit

(* What stands above the seconds, above the minutes, and the days. *)
Days == 2 * DayLow
AllHours == Size(Day, Days)
AllMinutes == Size(Hour, AllHours)
AllSeconds == Minute * Hour * Day * 2 * DayLow

Cut(x, b) == Least(x, b - 1)

HoursOf(r) == Put(Cut(r.hours, Day), Day, r.day)
MinutesOf(r) == Put(Cut(r.minutes, Hour), Hour, HoursOf(r))

LEMMA TotalIs ==
    ASSUME NEW r
    PROVE  TotalOf(r) = Put(Cut(r.seconds, Minute), Minute, MinutesOf(r))
  BY DEF TotalOf, MinutesOf, HoursOf, Put, Cut

LEMMA AllOf ==
    /\ Minute \in Nat \ {0} /\ Hour \in Nat \ {0} /\ Day \in Nat \ {0} /\ Days \in Nat \ {0}
    /\ AllHours \in Nat \ {0} /\ AllMinutes \in Nat \ {0} /\ AllSeconds \in Nat \ {0}
    /\ AllSeconds = Size(Minute, AllMinutes)
  <1>1. ASSUME NEW a \in Nat, NEW b \in Nat, NEW c \in Nat PROVE (a * b) * c = a * (b * c)
    OBVIOUS
  <1>2. Minute \in Nat \ {0} /\ Hour \in Nat \ {0} /\ Day \in Nat \ {0} /\ DayLow \in Nat \ {0}
    BY RtcAssumption
  <1>3. Days \in Nat \ {0}
    BY <1>2 DEF Days
  <1>4. AllSeconds = ((Minute * Hour) * Day) * Days
    <2> DEFINE m == (Minute * Hour) * Day
    <2>1. m \in Nat
      BY <1>2
    <2> HIDE DEF m
    <2>2. (m * 2) * DayLow = m * (2 * DayLow)
      BY <1>1, <1>2, <2>1
    <2> QED BY <2>2 DEF m, AllSeconds, Days
  <1>5. Day * Days \in Nat /\ Hour * (Day * Days) \in Nat /\ Minute * Hour \in Nat
    BY <1>2, <1>3
  <1>6. ((Minute * Hour) * Day) * Days = (Minute * Hour) * (Day * Days)
    BY <1>1, <1>2, <1>3, <1>5
  <1>7. (Minute * Hour) * (Day * Days) = Minute * (Hour * (Day * Days))
    BY <1>1, <1>2, <1>5
  <1>8. AllSeconds = Size(Minute, AllMinutes)
    BY <1>4, <1>6, <1>7 DEF AllMinutes, AllHours, Size
  <1>9. ASSUME NEW b \in Nat \ {0}, NEW p \in Nat \ {0} PROVE Size(b, p) \in Nat \ {0}
    <2>1. 0 \in 0..(b - 1) /\ 0 \in 0..(p - 1)
      OBVIOUS
    <2> QED BY <2>1, Digit
  <1>10. AllHours \in Nat \ {0} /\ AllMinutes \in Nat \ {0}
    BY <1>2, <1>3, <1>9 DEF AllHours, AllMinutes
  <1>11. AllSeconds \in Nat \ {0}
    BY <1>2, <1>8, <1>9, <1>10
  <1> QED BY <1>2, <1>3, <1>8, <1>10, <1>11

LEMMA CutOf ==
    ASSUME NEW b \in Nat \ {0}, NEW x \in Nat
    PROVE  /\ Cut(x, b) \in 0..(b - 1)
           /\ x + 1 >= b <=> Cut(x, b) + 1 = b
           /\ x + 1 < b => Cut(x + 1, b) = Cut(x, b) + 1
           /\ Cut(0, b) = 0
  BY DEF Cut, Least

(* The total and the numbers it is made of, in their bounds. *)
LEMMA Bounds ==
    ASSUME NEW r \in RtcRegs
    PROVE  /\ r.seconds \in Nat /\ r.minutes \in Nat /\ r.hours \in Nat
           /\ r.day \in 0..(Days - 1)
           /\ HoursOf(r) \in 0..(AllHours - 1)
           /\ MinutesOf(r) \in 0..(AllMinutes - 1)
           /\ TotalOf(r) \in 0..(AllSeconds - 1)
  <1>1. r.seconds \in Nat /\ r.minutes \in Nat /\ r.hours \in Nat /\ r.day \in 0..(Days - 1)
    BY RtcAssumption DEF RtcRegs, Days
  <1>2. HoursOf(r) \in 0..(AllHours - 1)
    BY <1>1, AllOf, CutOf, Digit DEF HoursOf, AllHours
  <1>3. MinutesOf(r) \in 0..(AllMinutes - 1)
    BY <1>1, <1>2, AllOf, CutOf, Digit DEF MinutesOf, AllMinutes
  <1>4. TotalOf(r) \in 0..(AllSeconds - 1)
    BY <1>1, <1>3, AllOf, CutOf, Digit, TotalIs
  <1> QED BY <1>1, <1>2, <1>3, <1>4

(* The second that advance_second counts. *)
LEMMA AdvanceCounts ==
    ASSUME NEW r \in RtcRegs
    PROVE  /\ TotalOf(AdvanceSecond(r)) = (TotalOf(r) + 1) % AllSeconds
           /\ AdvanceSecond(r).carry = (r.carry \/ TotalOf(r) + 1 = AllSeconds)
           /\ AdvanceSecond(r).halt = r.halt
  <1> DEFINE n == AdvanceSecond(r)
             s == Cut(r.seconds, Minute)
             m == Cut(r.minutes, Hour)
             h == Cut(r.hours, Day)
             minute == s + 1 = Minute
             hour == minute /\ m + 1 = Hour
             day == hour /\ h + 1 = Day
  <1>1. /\ r.seconds \in Nat /\ r.minutes \in Nat /\ r.hours \in Nat
        /\ r.day \in 0..(Days - 1)
    BY RtcAssumption DEF RtcRegs, Days
  <1>2. /\ s \in 0..(Minute - 1) /\ m \in 0..(Hour - 1) /\ h \in 0..(Day - 1)
    BY <1>1, AllOf, CutOf
  <1>3. /\ r.seconds + 1 >= Minute <=> s + 1 = Minute
        /\ r.minutes + 1 >= Hour <=> m + 1 = Hour
        /\ r.hours + 1 >= Day <=> h + 1 = Day
    BY <1>1, AllOf, CutOf
  <1>4. r.day = 2 * DayLow - 1 <=> r.day + 1 = Days
    BY <1>1, AllOf, RtcAssumption DEF Days
  <1>5. /\ n.seconds = IF minute THEN 0 ELSE r.seconds + 1
        /\ n.minutes = IF hour THEN 0 ELSE IF minute THEN r.minutes + 1 ELSE r.minutes
        /\ n.hours = IF day THEN 0 ELSE IF hour THEN r.hours + 1 ELSE r.hours
        /\ n.day = IF day THEN Inc(r.day, Days) ELSE r.day
    BY <1>1, <1>3, <1>4 DEF AdvanceSecond, Inc
  <1>6. n.carry = (r.carry \/ (day /\ r.day + 1 = Days)) /\ n.halt = r.halt
    BY <1>3, <1>4 DEF AdvanceSecond
  <1> HIDE DEF n
  <1>7. Cut(n.seconds, Minute) = IF minute THEN 0 ELSE s + 1
    <2>1. CASE minute
      BY <1>5, <2>1, AllOf, CutOf
    <2>2. CASE ~minute
      <3>1. n.seconds = r.seconds + 1
        BY <1>5, <2>2
      <3>2. r.seconds + 1 < Minute
        BY <1>1, <1>3, <2>2, AllOf
      <3> QED BY <1>1, <2>2, <3>1, <3>2, AllOf, CutOf
    <2> QED BY <2>1, <2>2
  <1>8. Cut(n.minutes, Hour) = IF minute THEN Inc(m, Hour) ELSE m
    <2>1. CASE hour
      BY <1>5, <2>1, AllOf, CutOf DEF Inc
    <2>2. CASE minute /\ ~hour
      <3>1. n.minutes = r.minutes + 1
        BY <1>5, <2>2
      <3>2. r.minutes + 1 < Hour
        BY <1>1, <1>3, <2>2, AllOf
      <3>3. Cut(n.minutes, Hour) = m + 1
        BY <1>1, <3>1, <3>2, AllOf, CutOf, ZenonT(60)
      <3> QED BY <2>2, <3>3 DEF Inc
    <2>3. CASE ~minute
      BY <1>5, <2>3
    <2> QED BY <2>1, <2>2, <2>3
  <1>9. Cut(n.hours, Day) = IF hour THEN Inc(h, Day) ELSE h
    <2>1. CASE day
      BY <1>5, <2>1, AllOf, CutOf DEF Inc
    <2>2. CASE hour /\ ~day
      <3>1. n.hours = r.hours + 1
        BY <1>5, <2>2
      <3>2. r.hours + 1 < Day
        BY <1>1, <1>3, <2>2, AllOf
      <3>3. Cut(n.hours, Day) = h + 1
        BY <1>1, <3>1, <3>2, AllOf, CutOf, ZenonT(60)
      <3> QED BY <2>2, <3>3 DEF Inc
    <2>3. CASE ~hour
      BY <1>5, <2>3
    <2> QED BY <2>1, <2>2, <2>3
  <1> HIDE DEF s, m, h
  <1>10. /\ HoursOf(r) = Put(h, Day, r.day)
         /\ MinutesOf(r) = Put(m, Hour, HoursOf(r))
         /\ TotalOf(r) = Put(s, Minute, MinutesOf(r))
    BY TotalIs DEF HoursOf, MinutesOf, s, m, h
  <1>11. /\ HoursOf(n) = Put(Cut(n.hours, Day), Day, n.day)
         /\ MinutesOf(n) = Put(Cut(n.minutes, Hour), Hour, HoursOf(n))
         /\ TotalOf(n) = Put(Cut(n.seconds, Minute), Minute, MinutesOf(n))
    BY TotalIs DEF HoursOf, MinutesOf
  <1>12. /\ h + 1 = Day /\ r.day + 1 = Days => HoursOf(r) + 1 = AllHours
         /\ HoursOf(r) + 1 = AllHours => h + 1 = Day /\ r.day + 1 = Days
         /\ Inc(HoursOf(r), AllHours) =
                IF h + 1 = Day THEN Put(0, Day, Inc(r.day, Days))
                ELSE Put(h + 1, Day, r.day)
    <2> DEFINE y == r.day
    <2>1. AllHours = Size(Day, Days) /\ HoursOf(r) = Put(h, Day, y)
      BY <1>10 DEF AllHours
    <2>2. y \in 0..(Days - 1)
      BY <1>1
    <2> HIDE DEF y
    <2>3. h + 1 = Day /\ y + 1 = Days => Put(h, Day, y) + 1 = Size(Day, Days)
      BY <1>2, <2>2, AllOf, Digit
    <2>4. Put(h, Day, y) + 1 = Size(Day, Days) => h + 1 = Day /\ y + 1 = Days
      BY <1>2, <2>2, AllOf, Digit
    <2>5. /\ h + 1 = Day => Inc(Put(h, Day, y), Size(Day, Days)) =
                Put(0, Day, Inc(y, Days))
          /\ h + 1 # Day => Inc(Put(h, Day, y), Size(Day, Days)) =
                Put(h + 1, Day, y)
      BY <1>2, <2>2, AllOf, DigitInc
    <2> QED BY <2>1, <2>3, <2>4, <2>5 DEF y
  <1>13. /\ m + 1 = Hour /\ HoursOf(r) + 1 = AllHours => MinutesOf(r) + 1 = AllMinutes
         /\ MinutesOf(r) + 1 = AllMinutes => m + 1 = Hour /\ HoursOf(r) + 1 = AllHours
         /\ Inc(MinutesOf(r), AllMinutes) =
                IF m + 1 = Hour THEN Put(0, Hour, Inc(HoursOf(r), AllHours))
                ELSE Put(m + 1, Hour, HoursOf(r))
    <2> DEFINE y == HoursOf(r)
    <2>1. AllMinutes = Size(Hour, AllHours) /\ MinutesOf(r) = Put(m, Hour, y)
      BY <1>10 DEF AllMinutes
    <2>2. y \in 0..(AllHours - 1)
      BY Bounds
    <2> HIDE DEF y
    <2>3. m + 1 = Hour /\ y + 1 = AllHours => Put(m, Hour, y) + 1 = Size(Hour, AllHours)
      BY <1>2, <2>2, AllOf, Digit
    <2>4. Put(m, Hour, y) + 1 = Size(Hour, AllHours) => m + 1 = Hour /\ y + 1 = AllHours
      BY <1>2, <2>2, AllOf, Digit
    <2>5. /\ m + 1 = Hour => Inc(Put(m, Hour, y), Size(Hour, AllHours)) =
                Put(0, Hour, Inc(y, AllHours))
          /\ m + 1 # Hour => Inc(Put(m, Hour, y), Size(Hour, AllHours)) =
                Put(m + 1, Hour, y)
      BY <1>2, <2>2, AllOf, DigitInc
    <2> QED BY <2>1, <2>3, <2>4, <2>5 DEF y
  <1>14. /\ s + 1 = Minute /\ MinutesOf(r) + 1 = AllMinutes => TotalOf(r) + 1 = AllSeconds
         /\ TotalOf(r) + 1 = AllSeconds => s + 1 = Minute /\ MinutesOf(r) + 1 = AllMinutes
         /\ Inc(TotalOf(r), AllSeconds) =
                IF s + 1 = Minute THEN Put(0, Minute, Inc(MinutesOf(r), AllMinutes))
                ELSE Put(s + 1, Minute, MinutesOf(r))
    <2> DEFINE y == MinutesOf(r)
    <2>1. AllSeconds = Size(Minute, AllMinutes) /\ TotalOf(r) = Put(s, Minute, y)
      BY <1>10, AllOf
    <2>2. y \in 0..(AllMinutes - 1)
      BY Bounds
    <2> HIDE DEF y
    <2>3. s + 1 = Minute /\ y + 1 = AllMinutes => Put(s, Minute, y) + 1 = Size(Minute, AllMinutes)
      BY <1>2, <2>2, AllOf, Digit
    <2>4. Put(s, Minute, y) + 1 = Size(Minute, AllMinutes) => s + 1 = Minute /\ y + 1 = AllMinutes
      BY <1>2, <2>2, AllOf, Digit
    <2>5. /\ s + 1 = Minute => Inc(Put(s, Minute, y), Size(Minute, AllMinutes)) =
                Put(0, Minute, Inc(y, AllMinutes))
          /\ s + 1 # Minute => Inc(Put(s, Minute, y), Size(Minute, AllMinutes)) =
                Put(s + 1, Minute, y)
      BY <1>2, <2>2, AllOf, DigitInc
    <2> QED BY <2>1, <2>3, <2>4, <2>5 DEF y
  <1>15. HoursOf(n) = IF hour THEN Inc(HoursOf(r), AllHours) ELSE HoursOf(r)
    BY <1>5, <1>9, <1>10, <1>11, <1>12 DEF Inc
  <1>16. MinutesOf(n) = IF minute THEN Inc(MinutesOf(r), AllMinutes) ELSE MinutesOf(r)
    BY <1>8, <1>10, <1>11, <1>13, <1>15 DEF Inc
  <1>17. TotalOf(n) = Inc(TotalOf(r), AllSeconds)
    BY <1>7, <1>11, <1>14, <1>16
  <1>18. Inc(TotalOf(r), AllSeconds) = (TotalOf(r) + 1) % AllSeconds
    <2>1. ASSUME NEW p \in Nat \ {0}, NEW x \in 0..(p - 1) PROVE Inc(x, p) = (x + 1) % p
      <3>1. CASE x + 1 = p
        BY <3>1 DEF Inc
      <3>2. CASE x + 1 # p
        <4>1. (x + 1) % p = x + 1
          BY <3>2, x + 1 \in 0..(p - 1), Remainder
        <4> QED BY <3>2, <4>1 DEF Inc
      <3> QED BY <3>1, <3>2
    <2> QED BY <2>1, Bounds, AllOf
  <1>19. (day /\ r.day + 1 = Days) <=> TotalOf(r) + 1 = AllSeconds
    BY <1>12, <1>13, <1>14
  <1> HIDE DEF minute, hour, day
  <1>20. n.carry = (r.carry \/ TotalOf(r) + 1 = AllSeconds)
    BY <1>6, <1>19, Zenon
  <1> QED BY <1>6, <1>17, <1>18, <1>20 DEF n

(* The seconds alone, and the rest.                                              *)
LEMMA Parts ==
    ASSUME NEW r \in RtcRegs
    PROVE  /\ TotalOf(r) \div Minute = MinutesOf(r)
           /\ TotalOf(r) % Minute = Cut(r.seconds, Minute)
  <1>1. ASSUME NEW b \in Nat \ {0}, NEW q \in Nat, NEW a \in 0..(b - 1)
        PROVE  (a + b * q) \div b = q /\ (a + b * q) % b = a
    <2>1. ASSUME NEW c \in Nat, c = b * q + a PROVE c \div b = q /\ c % b = a
      BY <2>1
    <2>2. a + b * q \in Nat /\ a + b * q = b * q + a
      <3>1. b * q \in Nat
        OBVIOUS
      <3> QED BY <3>1
    <2> QED BY <2>1, <2>2
  <1>2. Cut(r.seconds, Minute) \in 0..(Minute - 1) /\ MinutesOf(r) \in Nat
    <2>1. Cut(r.seconds, Minute) \in 0..(Minute - 1)
      BY Bounds, AllOf, CutOf
    <2>2. MinutesOf(r) \in 0..(AllMinutes - 1) /\ AllMinutes \in Nat
      BY Bounds, AllOf
    <2> QED BY <2>1, <2>2
  <1>3. TotalOf(r) = Cut(r.seconds, Minute) + Minute * MinutesOf(r)
    BY TotalIs DEF Put
  <1> DEFINE a == Cut(r.seconds, Minute)
             q == MinutesOf(r)
  <1>4. Minute \in Nat \ {0}
    BY AllOf
  <1> HIDE DEF a, q
  <1>5. a \in 0..(Minute - 1) /\ q \in Nat
    BY <1>2 DEF a, q
  <1>6. (a + Minute * q) \div Minute = q /\ (a + Minute * q) % Minute = a
    BY <1>1, <1>4, <1>5
  <1>7. TotalOf(r) = a + Minute * q
    BY <1>3 DEF a, q
  <1>8. TotalOf(r) \div Minute = q /\ TotalOf(r) % Minute = a
    BY <1>6, <1>7
  <1> QED BY <1>8 DEF a, q

LEMMA SetCounts ==
    ASSUME NEW r \in RtcRegs, NEW sel \in ClockRegs, NEW w \in Written(r, sel)
    PROVE  /\ sel = 8 => MinutesOf(w) = MinutesOf(r) /\ w.carry = r.carry /\ w.halt = r.halt
           /\ sel # 8 => w.seconds = r.seconds
  <1>1. CASE sel = 8
    <2>1. PICK v \in 0..(Seconds - 1) : w = [r EXCEPT !.seconds = v]
      BY <1>1 DEF Written
    <2>2. w.minutes = r.minutes /\ w.hours = r.hours /\ w.day = r.day
      BY <2>1 DEF RtcRegs
    <2>3. w.carry = r.carry /\ w.halt = r.halt
      BY <2>1 DEF RtcRegs
    <2>4. MinutesOf(w) = MinutesOf(r)
      BY <2>2 DEF MinutesOf, HoursOf
    <2> QED BY <1>1, <2>3, <2>4
  <1>2. CASE sel = 9
    BY <1>2 DEF Written, RtcRegs
  <1>3. CASE sel = 10
    BY <1>3 DEF Written, RtcRegs
  <1>4. CASE sel = 11
    BY <1>4 DEF Written, RtcRegs
  <1>5. CASE sel = 12
    <2>1. PICK b \in [day: {0, 1}, halt: BOOLEAN, carry: BOOLEAN] : w = HighWritten(r, b)
      BY <1>5 DEF Written
    <2> QED BY <1>5, <2>1 DEF HighWritten, RtcRegs
  <1> QED BY <1>1, <1>2, <1>3, <1>4, <1>5 DEF ClockRegs

(* The registers count seconds as Clock does.                                    *)
THEOREM Refinement == Spec => ImplementsClock
  <1>1. ASSUME Init PROVE Promise!Init
    <2>1. cart.rtc = RtcZero /\ cart.sub = 0
      BY <1>1 DEF Init, NewCartridge
    <2>2. TotalOf(RtcZero) = 0
      <3>1. RtcZero \in RtcRegs /\ RtcZero.seconds = 0 /\ RtcZero.minutes = 0
            /\ RtcZero.hours = 0 /\ RtcZero.day = 0
        BY RtcAssumption DEF RtcZero, RtcRegs
      <3>2. ASSUME NEW b \in Nat \ {0} PROVE Put(Cut(0, b), b, 0) = 0
        BY CutOf DEF Put
      <3>3. HoursOf(RtcZero) = 0
        BY <3>1, <3>2, AllOf DEF HoursOf
      <3>4. MinutesOf(RtcZero) = 0
        BY <3>1, <3>2, <3>3, AllOf DEF MinutesOf
      <3> QED BY <3>1, <3>2, <3>4, AllOf, TotalIs
    <2>3. ~cart.rtc.carry
      BY <2>1 DEF RtcZero
    <2> QED BY <2>1, <2>2, <2>3 DEF Promise!Init
  <1>2. ASSUME Whole(cart), Whole(cart'), Next
        PROVE  Promise!Run \/ Promise!SetSeconds \/ Promise!SetRest \/ UNCHANGED Promise!clockVars
    <2> DEFINE t == TotalOf(cart.rtc)
    <2>1. cart.rtc \in RtcRegs /\ cart'.rtc \in RtcRegs /\ DOMAIN cart = Fields
      BY <1>2 DEF Whole, ClockOK, Shape
    <2>2. TotalOf(cart'.rtc) \in 0..(AllSeconds - 1)
      BY <2>1, Bounds
    <2>3. cart'.has_rtc = cart.has_rtc
      BY <1>2, StepsKeep
    <2>4. CASE StoreClock
      <3>1. PICK r \in Written(cart.rtc, cart.upper) :
                cart' = [cart EXCEPT !.rtc = r, !.sub = IF cart.upper = 8 THEN 0 ELSE cart.sub]
        BY <2>4 DEF StoreClock
      <3>2. cart'.rtc = r /\ cart'.sub = IF cart.upper = 8 THEN 0 ELSE cart.sub
        BY <2>1, <3>1 DEF Fields
      <3>3. cart.upper \in ClockRegs
        BY <2>4 DEF StoreClock, ReachesClock
      <3>4. CASE cart.upper = 8
        <4>1. MinutesOf(r) = MinutesOf(cart.rtc) /\ r.carry = cart.rtc.carry
              /\ r.halt = cart.rtc.halt
          BY <2>1, <3>3, <3>4, SetCounts
        <4>2. TotalOf(cart'.rtc) \div Minute = TotalOf(cart.rtc) \div Minute
          BY <2>1, <3>2, <4>1, Parts
        <4>3. cart'.rtc.carry = cart.rtc.carry
          BY <3>2, <4>1
        <4>4. (~ClockRuns(cart')) = (~ClockRuns(cart))
          BY <2>3, <3>2, <4>1, Zenon DEF ClockRuns
        <4>5. cart'.sub = 0
          BY <3>2, <3>4
        <4>6. Promise!SetSeconds
          BY <2>2, <4>2, <4>3, <4>4, <4>5 DEF Promise!SetSeconds, AllSeconds
        <4> QED BY <4>6
      <3>5. CASE cart.upper # 8
        <4>1. r.seconds = cart.rtc.seconds
          BY <2>1, <3>3, <3>5, SetCounts
        <4>2. TotalOf(cart'.rtc) % Minute = TotalOf(cart.rtc) % Minute
          BY <2>1, <3>2, <4>1, Parts
        <4>3. cart'.rtc.carry \in BOOLEAN /\ (~ClockRuns(cart')) \in BOOLEAN
          BY <2>1 DEF RtcRegs
        <4>4. cart'.sub = cart.sub
          BY <3>2, <3>5
        <4>5. Promise!SetRest
          BY <2>2, <4>2, <4>3, <4>4 DEF Promise!SetRest, AllSeconds
        <4> QED BY <4>5
      <3> QED BY <3>4, <3>5
    <2>5. CASE Ticks
      <3>1. PICK n \in TickLengths : Tick(n)
        BY <2>5 DEF Ticks
      <3> DEFINE full == cart.sub + n >= SecondLength
      <3>2. /\ cart'.sub = IF full THEN cart.sub + n - SecondLength ELSE cart.sub + n
            /\ cart'.rtc = IF full THEN AdvanceSecond(cart.rtc) ELSE cart.rtc
        BY <2>1, <3>1 DEF Tick, Fields
      <3>3. ClockRuns(cart)
        BY <3>1 DEF Tick
      <3> HIDE DEF full
      <3>4. cart'.rtc.halt = cart.rtc.halt
        BY <2>1, <3>2, AdvanceCounts
      <3>5. ClockRuns(cart')
        BY <2>3, <3>3, <3>4, Zenon DEF ClockRuns
      <3>6. TotalOf(cart'.rtc) = IF full THEN (t + 1) % AllSeconds ELSE t
        BY <2>1, <3>2, AdvanceCounts
      <3>7. cart'.rtc.carry = (cart.rtc.carry \/ (full /\ t + 1 = AllSeconds))
        <4>1. CASE full
          <5>1. cart'.rtc = AdvanceSecond(cart.rtc)
            BY <3>2, <4>1
          <5>2. AdvanceSecond(cart.rtc).carry = (cart.rtc.carry \/ t + 1 = AllSeconds)
            BY <2>1, AdvanceCounts
          <5> QED BY <4>1, <5>1, <5>2, Zenon
        <4>2. CASE ~full
          <5>1. cart'.rtc = cart.rtc /\ cart.rtc.carry \in BOOLEAN
            BY <2>1, <3>2, <4>2 DEF RtcRegs
          <5> QED BY <4>2, <5>1, Zenon
        <4> QED BY <4>1, <4>2
      <3>8. Promise!Run
        BY <3>2, <3>3, <3>5, <3>6, <3>7, Zenon DEF Promise!Run, AllSeconds, full
      <3> QED BY <3>8
    <2>6. CASE ~StoreClock /\ ~Ticks
      <3>1. cart'.rtc = cart.rtc /\ cart'.sub = cart.sub
        BY <1>2, <2>6, StepsKeep
      <3>2. (~ClockRuns(cart')) = (~ClockRuns(cart))
        BY <2>3, <3>1, Zenon DEF ClockRuns
      <3> QED BY <3>1, <3>2 DEF Promise!clockVars
    <2> QED BY <2>4, <2>5, <2>6
  <1>3. ASSUME UNCHANGED cart PROVE UNCHANGED Promise!clockVars
    BY <1>3 DEF Promise!clockVars
  <1>4. Init => Promise!Init
    BY <1>1
  <1>5. CartridgeInv /\ CartridgeInv' /\ [Next]_cart =>
            [Promise!Run \/ Promise!SetSeconds \/ Promise!SetRest]_Promise!clockVars
    BY <1>2, <1>3 DEF CartridgeInv
  <1> QED BY <1>4, <1>5, CartridgeInvariant, PTL DEF Spec, ImplementsClock, Promise!Spec
============================================================================
