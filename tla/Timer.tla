------------------------------- MODULE Timer -------------------------------
(***************************************************************************)
(* The timer unit (core/timer.cpp): DIV, TIMA, TMA and TAC over one        *)
(* internal divider that counts T-cycles.  TIMA counts the falling edges   *)
(* of one divider bit gated by the TAC enable, so a write to DIV or TAC    *)
(* can make an edge of its own.  When TIMA wraps it reads 0 for four       *)
(* T-cycles, and then TMA is copied in and the interrupt is requested.     *)
(*                                                                         *)
(* The actions are the handlers of class Timer.  When they may run is      *)
(* decided by the bus: see ClockTree.                                      *)
(***************************************************************************)
EXTENDS Integers

CONSTANTS
    CounterMod,     \* number of divider values: 65536 in the code
    CounterReset,   \* the divider after reset: 0xABCC in the code
    TimaMod,        \* number of TIMA and TMA values: 256 in the code
    SelectHalf      \* SelectHalf[s] is 2^b for the bit b that TAC value s selects

\* The selected bits are 9, 3, 5 and 7: each weighs a whole number of M-cycles
\* (4 T-cycles), and a divider wrap is also a fall of every one of them.
ASSUME TimerAssumption ==
    /\ TimaMod \in Nat \ {0}
    /\ CounterMod \in Nat \ {0}
    /\ SelectHalf \in [0..3 -> Nat \ {0}]
    /\ \A s \in 0..3 : /\ SelectHalf[s] % 4 = 0
                       /\ CounterMod % (2 * SelectHalf[s]) = 0
    /\ CounterReset \in 0..(CounterMod - 1)
    /\ CounterReset % 4 = 0

VARIABLES
    counter,        \* the internal divider
    tima,
    tma,
    tac,            \* the three bits that exist: 4..7 enable, tac % 4 selects
    reload_delay,   \* T-cycles left before TMA is copied in, 0 when none is due
    reloaded,       \* the T-cycle just run copied TMA in
    timer_irq       \* the timer bit of IF, which lives in the bus

timerVars == <<counter, tima, tma, tac, reload_delay, reloaded, timer_irq>>

TimerTypeOK ==
    /\ counter \in 0..(CounterMod - 1)
    /\ tima \in 0..(TimaMod - 1)
    /\ tma \in 0..(TimaMod - 1)
    /\ tac \in 0..7
    /\ reload_delay \in 0..4
    /\ reloaded \in BOOLEAN
    /\ timer_irq \in BOOLEAN

\* Bus::reset leaves IF at 0xE1: the timer bit is clear.
TimerInit ==
    /\ counter = CounterReset
    /\ tima = 0
    /\ tma = 0
    /\ tac = 0
    /\ reload_delay = 0
    /\ reloaded = FALSE
    /\ timer_irq = FALSE

----------------------------------------------------------------------------

\* A bit of weight half in the divider value c.
Bit(c, half) == (c \div half) % 2 = 1

\* The signal TIMA counts the falling edges of.
EdgeInput(c, t) == t >= 4 /\ Bit(c, SelectHalf[t % 4])

\* TIMA and the pending reload once the input has gone from before to after.
\* v and d are their values when the handler reaches this point.
DetectEdge(before, after, v, d) ==
    LET fell == before /\ ~after
        next == (v + 1) % TimaMod
    IN  /\ tima' = IF fell THEN next ELSE v
        /\ reload_delay' = IF fell /\ next = 0 THEN 4 ELSE d

SetCounter(c, v, d) ==
    /\ counter' = c
    /\ DetectEdge(EdgeInput(counter, tac), EdgeInput(c, tac), v, d)

\* A bug the checks must notice: the mark of the reload is never taken away.
StepOneKeepsMark ==
    LET due == reload_delay = 1
    IN  /\ reloaded' = (reloaded \/ due)
        /\ timer_irq' = (timer_irq \/ due)
        /\ SetCounter((counter + 1) % CounterMod,
                      IF due THEN tma ELSE tima,
                      IF reload_delay = 0 THEN 0 ELSE reload_delay - 1)
        /\ UNCHANGED <<tma, tac>>

\* One T-cycle: a reload that has run out happens before the divider moves.
StepOne ==
    LET due == reload_delay = 1
    IN  /\ reloaded' = due
        /\ timer_irq' = (timer_irq \/ due)
        /\ SetCounter((counter + 1) % CounterMod,
                      IF due THEN tma ELSE tima,
                      IF reload_delay = 0 THEN 0 ELSE reload_delay - 1)
        /\ UNCHANGED <<tma, tac>>

\* Writing DIV clears the whole divider, whatever the value.
WriteDiv ==
    /\ SetCounter(0, tima, reload_delay)
    /\ UNCHANGED <<tma, tac, reloaded, timer_irq>>

\* A bug the checks must notice: the write leaves the reload pending.
WriteTimaKeepsReload(v) ==
    /\ tima' = IF reloaded THEN tima ELSE v
    /\ UNCHANGED <<counter, tma, tac, reload_delay, reloaded, timer_irq>>

\* Writing TIMA cancels a pending reload, except in the cycle of the reload,
\* where it loses to TMA.
WriteTima(v) ==
    /\ IF reloaded
       THEN UNCHANGED <<tima, reload_delay>>
       ELSE /\ tima' = v
            /\ reload_delay' = 0
    /\ UNCHANGED <<counter, tma, tac, reloaded, timer_irq>>

\* A bug the checks must notice: TIMA does not follow in the reload cycle.
WriteTmaAlone(v) ==
    /\ tma' = v
    /\ UNCHANGED <<counter, tima, tac, reload_delay, reloaded, timer_irq>>

\* In the cycle of the reload a write to TMA goes through to TIMA.
WriteTma(v) ==
    /\ tma' = v
    /\ tima' = IF reloaded THEN v ELSE tima
    /\ UNCHANGED <<counter, tac, reload_delay, reloaded, timer_irq>>

WriteTac(t) ==
    /\ tac' = t
    /\ DetectEdge(EdgeInput(counter, tac), EdgeInput(counter, t), tima, reload_delay)
    /\ UNCHANGED <<counter, tma, reloaded, timer_irq>>

\* The timer bit of IF changes without the timer: a write to IF, or the CPU
\* clearing the bit as it dispatches the interrupt.
SetTimerIrq(b) ==
    /\ timer_irq' = b
    /\ UNCHANGED <<counter, tima, tma, tac, reload_delay, reloaded>>
============================================================================
