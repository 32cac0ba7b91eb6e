---------------------------- MODULE MCycleTimer ----------------------------
(***************************************************************************)
(* What the timer promises the CPU, which only sees it once per M-cycle:   *)
(* the timer as a machine that moves four T-cycles at a time.  A wrap of   *)
(* TIMA is followed by exactly one M-cycle in which TIMA is 0 and no edge  *)
(* is counted, and that by exactly one M-cycle in which TMA has been       *)
(* copied in.  At most one register access follows each M-cycle.           *)
(*                                                                         *)
(* ClockTree, which models core/timer.cpp one T-cycle at a time, is shown  *)
(* to implement this.                                                      *)
(***************************************************************************)
EXTENDS Integers

CONSTANTS
    DivMod,       \* divider values, counted in M-cycles
    DivReset,
    TimaMod,
    DivHalf       \* the weights of the four selectable bits, in M-cycles

VARIABLES
    div, tima, tma, tac,
    phase,        \* "run", "overflow" or "reload"
    irq,
    ready         \* the CPU may access a register before the next M-cycle

vars == <<div, tima, tma, tac, phase, irq, ready>>

Input(d, t) == t >= 4 /\ (d \div DivHalf[t % 4]) % 2 = 1

Init ==
    /\ div = DivReset
    /\ tima = 0
    /\ tma = 0
    /\ tac = 0
    /\ phase = "run"
    /\ irq = FALSE
    /\ ready = FALSE

\* An edge of the input: TIMA counts it, and a wrap opens the overflow cycle.
Count(fell) ==
    /\ tima' = IF fell THEN (tima + 1) % TimaMod ELSE tima
    /\ phase' = IF fell /\ tima' = 0 THEN "overflow" ELSE phase

\* An ordinary M-cycle.  It may or may not end in a turn of the CPU.
Run ==
    /\ ~ready
    /\ phase = "run"
    /\ div' = (div + 1) % DivMod
    /\ Count(Input(div, tac) /\ ~Input(div', tac))
    /\ ready' \in BOOLEAN
    /\ UNCHANGED <<tma, tac, irq>>

\* The M-cycle after a wrap.
Reload ==
    /\ ~ready
    /\ phase = "overflow"
    /\ div' = (div + 1) % DivMod
    /\ tima' = tma
    /\ irq' = TRUE
    /\ phase' = "reload"
    /\ ready' \in BOOLEAN
    /\ UNCHANGED <<tma, tac>>

\* Time moves on: TMA writes no longer reach TIMA.
EndReload ==
    /\ ~ready
    /\ phase = "reload"
    /\ phase' = "run"
    /\ UNCHANGED <<div, tima, tma, tac, irq, ready>>

\* The CPU need not use its turn.
Pass ==
    /\ ready
    /\ ready' = FALSE
    /\ UNCHANGED <<div, tima, tma, tac, phase, irq>>

\* A register access uses the cycle up.
Access ==
    /\ ready
    /\ ready' = FALSE

WriteDiv ==
    /\ Access
    /\ div' = 0
    /\ Count(Input(div, tac) /\ ~Input(0, tac))
    /\ UNCHANGED <<tma, tac, irq>>

WriteTac ==
    /\ Access
    /\ tac' \in 0..7
    /\ Count(Input(div, tac) /\ ~Input(div, tac'))
    /\ UNCHANGED <<div, tma, irq>>

WriteTima ==
    /\ Access
    /\ IF phase = "reload"
       THEN UNCHANGED <<tima, phase>>
       ELSE /\ tima' \in 0..(TimaMod - 1)
            /\ phase' = "run"
    /\ UNCHANGED <<div, tma, tac, irq>>

WriteTma ==
    /\ Access
    /\ tma' \in 0..(TimaMod - 1)
    /\ tima' = IF phase = "reload" THEN tma' ELSE tima
    /\ UNCHANGED <<div, tac, phase, irq>>

\* The interrupt flag is also written by the CPU, at any point it is running.
WriteIrq ==
    /\ irq' \in BOOLEAN
    /\ ready' \in {ready, FALSE}
    /\ UNCHANGED <<div, tima, tma, tac, phase>>

Next == \/ Run \/ Reload \/ EndReload \/ Pass
        \/ WriteDiv \/ WriteTac \/ WriteTima \/ WriteTma \/ WriteIrq

Spec == Init /\ [][Next]_vars
============================================================================
