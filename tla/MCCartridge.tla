---------------------------- MODULE MCCartridge ----------------------------
(***************************************************************************)
(* Cartridge with few banks and cells and a clock of short minutes: two    *)
(* seconds of a register that holds three, two minutes, one hour and two   *)
(* days.                                                                   *)
(***************************************************************************)
EXTENDS Cartridge

\* Every mapper, with little RAM and with more than its window; and headers that
\* make_cartridge refuses.
MCHeaders ==
    {<<0, 0, 0>>, <<8, 0, 1>>, <<1, 1, 0>>, <<3, 1, 3>>, <<3, 2, 1>>, <<6, 1, 9>>,
     <<16, 1, 1>>, <<19, 1, 0>>, <<25, 2, 0>>, <<27, 1, 3>>,
     <<4, 0, 0>>, <<1, 9, 0>>, <<1, 0, 9>>}

MCRomBanks == [c \in 0..2 |-> 2^(c + 1)]

\* Nothing, half a window, a window, two.
MCRamCells == [c \in 0..3 |-> <<0, 1, 2, 4>>[c + 1]]

MCCodes == [m \in {"Mbc1", "Mbc2", "Mbc3", "Mbc5"} |-> IF m = "Mbc3" THEN 2 ELSE 4]

MCUppers ==
    [m \in {"Mbc1", "Mbc3", "Mbc5"} |-> IF m = "Mbc3" THEN {0, 8, 9, 10, 12} ELSE {0, 1}]
============================================================================
