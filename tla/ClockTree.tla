----------------------------- MODULE ClockTree -----------------------------
(***************************************************************************)
(* The bus clock with the two units that hang off the divider: the timer   *)
(* and the APU frame sequencer.  A CPU access is a call of Bus::tick and   *)
(* then the access itself.  Bus::tick(n) runs the n T-cycles of the timer  *)
(* and only then the APU (bus.cpp), so the APU learns of the divider       *)
(* late, except when the timer calls Apu::div_edge in the middle of its    *)
(* own loop, which it does when bit 4 of the divider falls (timer.cpp).    *)
(*                                                                         *)
(* Each T-cycle of the timer is a step here.  The rest of the M-cycle is   *)
(* one step for Apu::tick and at most one for the register access.         *)
(***************************************************************************)
EXTENDS Timer, FrameSequencer

CONSTANT CallHalf   \* weight of the bit whose fall calls Apu::div_edge: 16

ASSUME ClockTreeAssumption ==
    /\ CallHalf \in Nat \ {0}
    /\ SequencerHalf % (2 * CallHalf) = 0
    /\ SequencerHalf > 8    \* longer than the longest Bus::tick
    /\ CounterMod % (2 * SequencerHalf) = 0
    /\ ~SequencerBit(CounterReset)

VARIABLES
    pc,     \* "tick": in Timer::tick; "apu": Apu::tick is next;
            \* "access": the access may follow; "between": it is done
    left,   \* T-cycles of this tick the timer has yet to run
    owed    \* history: falls of the sequencer's bit it has not been clocked for

vars == <<timerVars, sequencerVars, pc, left, owed>>

TypeOK ==
    /\ TimerTypeOK
    /\ SequencerTypeOK
    /\ pc \in {"tick", "apu", "access", "between"}
    /\ left \in 0..8
    /\ owed \in Int

Init ==
    /\ TimerInit
    /\ SequencerInit
    /\ pc = "between"
    /\ left = 0
    /\ owed = 0

----------------------------------------------------------------------------

\* The second half of Timer::set_counter: the divider has gone to c.
DivEdge(c) ==
    IF Bit(counter, CallHalf) /\ ~Bit(c, CallHalf)
    THEN SyncFrameSequencer(c)
    ELSE UNCHANGED sequencerVars

\* The sequencer was clocked in this step with divider value c.
Clocked(c) == SeesFall(c) /\ div_bit' # div_bit

\* Falls of the bit owed to the sequencer after the divider has gone to c.
Account(c) ==
    owed' = owed + (IF SequencerBit(counter) /\ ~SequencerBit(c) THEN 1 ELSE 0)
                 - (IF Clocked(c) THEN 1 ELSE 0)

\* An access costs one M-cycle; the first two M-cycles of an interrupt
\* dispatch are one call.
BusTick(n) ==
    /\ pc \in {"access", "between"}
    /\ pc' = "tick"
    /\ left' = n
    /\ UNCHANGED <<timerVars, sequencerVars, owed>>

TimerTick ==
    /\ pc = "tick"
    /\ StepOne
    /\ DivEdge(counter')
    /\ Account(counter')
    /\ left' = left - 1
    /\ pc' = IF left' = 0 THEN "apu" ELSE "tick"

ApuTick ==
    /\ pc = "apu"
    /\ SyncFrameSequencer(counter)
    /\ Account(counter)
    /\ pc' = "access"
    /\ UNCHANGED <<timerVars, left>>

\* The access of an M-cycle.
Access ==
    /\ pc = "access"
    /\ pc' = "between"
    /\ UNCHANGED left

AccessDiv ==
    /\ Access
    /\ WriteDiv
    /\ DivEdge(0)
    /\ Account(0)

AccessTimer ==
    /\ Access
    /\ \/ \E v \in 0..(TimaMod - 1) : WriteTima(v) \/ WriteTma(v)
       \/ \E t \in 0..7 : WriteTac(t)
    /\ UNCHANGED <<sequencerVars, owed>>

AccessPower ==
    /\ Access
    /\ \E on \in BOOLEAN : WritePower(on)
    /\ UNCHANGED <<timerVars, owed>>

AccessIf ==
    /\ Access
    /\ \E b \in BOOLEAN : SetTimerIrq(b)
    /\ UNCHANGED <<sequencerVars, owed>>

\* The dispatch clears the bit after its last access and before the next tick.
DispatchTimerIrq ==
    /\ pc \in {"access", "between"}
    /\ timer_irq
    /\ pc' = "between"
    /\ SetTimerIrq(FALSE)
    /\ UNCHANGED <<sequencerVars, left, owed>>

Next ==
    \/ BusTick(4) \/ BusTick(8)
    \/ TimerTick \/ ApuTick
    \/ AccessDiv \/ AccessTimer \/ AccessPower \/ AccessIf
    \/ DispatchTimerIrq

Spec == Init /\ [][Next]_vars

----------------------------------------------------------------------------

\* TIMA reads 0 for the four T-cycles between its wrap and the copy of TMA,
\* and the CPU can only ever see that window at its very beginning: a write
\* that cancels the reload comes a whole M-cycle ahead of it.  (timer.h: "TIMA
\* reads 0 for the four cycles between overflow and the TMA reload".)
ReloadWindow ==
    /\ reload_delay # 0 => tima = 0
    /\ pc # "tick" => reload_delay \in {0, 4}

\* In the M-cycle of the reload, TIMA is what TMA is, until the CPU's access:
\* no edge of the input falls on the T-cycle that copies TMA, so the copied
\* value is never counted up in the same breath.
ReloadIsTma == reloaded /\ pc \in {"apu", "access"} => tima = tma

\* The frame sequencer is clocked once for every fall of its bit, late by one
\* M-cycle at most: never twice, never not at all, whether the divider rolled
\* over or was reset (apu.cpp: "keeps the sequencer locked to DIV").
SequencerLocked ==
    /\ owed \in {0, 1}
    /\ pc = "access" => owed = 0 /\ div_bit = SequencerBit(counter)
    /\ pc \in {"tick", "apu"} /\ owed = 1 => div_bit /\ ~SequencerBit(counter)

\* The strengthening that makes the three invariants above inductive.
Aligned ==      \* accesses fall on M-cycle boundaries of the divider
    /\ (counter + left) % 4 = 0
    /\ pc = "tick" <=> left # 0

WindowInv ==    \* where the window of a pending reload lies
    reload_delay # 0 =>
        /\ tima = 0
        /\ (counter + reload_delay) % 4 = 0
        /\ pc \in {"apu", "access"} => ~EdgeInput(counter, tac) /\ ~reloaded
        /\ pc \in {"apu", "access"} \/ EdgeInput(counter, tac)
               => (counter + reload_delay) % 8 = 4

SequencerInv == \* the copy of the bit is behind only after a reset of DIV
    /\ SequencerBit(counter) => div_bit
    /\ owed = IF SeesFall(counter) THEN 1 ELSE 0
    /\ owed = 1 => /\ pc # "access" /\ counter + left <= 8
                   /\ pc = "between" => counter = 0

ClockInv == TypeOK /\ Aligned /\ WindowInv /\ ReloadIsTma /\ SequencerInv

\* To the CPU the timer moves one M-cycle at a time: see MCycleTimer.
MCycle == INSTANCE MCycleTimer WITH
    DivMod <- CounterMod \div 4,
    DivReset <- CounterReset \div 4,
    DivHalf <- [s \in 0..3 |-> SelectHalf[s] \div 4],
    div <- counter \div 4,
    phase <- IF reload_delay # 0 THEN "overflow" ELSE IF reloaded THEN "reload" ELSE "run",
    irq <- timer_irq,
    ready <- pc \in {"apu", "access"}

ImplementsMCycleTimer == MCycle!Spec
============================================================================
