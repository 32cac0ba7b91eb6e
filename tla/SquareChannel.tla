--------------------------- MODULE SquareChannel ---------------------------
(***************************************************************************)
(* The two square channels (apu/channel.h, apu/square.cpp): the sweep of   *)
(* the first.  The phase of the wave (timer, duty, duty_pos) is left out:  *)
(* it decides what the channel sounds like and nothing else.               *)
(***************************************************************************)
EXTENDS Channel

CONSTANTS
    ShiftScale      \* what a shift by s divides by: 2^s, for s in 0..7

ASSUME SquareAssumption ==
    /\ ShiftScale \in [DOMAIN ShiftScale -> Nat \ {0}]
    /\ 0 \in DOMAIN ShiftScale

SquareChannels ==
    [length: Nat, length_on: BOOLEAN, enabled: BOOLEAN, dac: BOOLEAN, env: Envelopes,
     freq: 0..MaxFreq, shadow: 0..MaxFreq, pace: Periods, shift: DOMAIN ShiftScale,
     sweep_timer: 0..IdlePeriod, negate: BOOLEAN, sweep_on: BOOLEAN, negate_used: BOOLEAN]

SquareReset ==
    [length |-> 0, length_on |-> FALSE, enabled |-> FALSE, dac |-> FALSE,
     env |-> EnvelopeReset, freq |-> 0, shadow |-> 0, pace |-> 0, shift |-> 0,
     sweep_timer |-> 0, negate |-> FALSE, sweep_on |-> FALSE, negate_used |-> FALSE]

\* What sweep_calculate returns.
SweepNext(c) ==
    LET delta == c.shadow \div ShiftScale[c.shift]
    IN  IF c.negate THEN c.shadow - delta ELSE c.shadow + delta

\* What it does to the channel.
SweepCalculate(c) ==
    [c EXCEPT !.negate_used = @ \/ c.negate,
              !.enabled = @ /\ SweepNext(c) <= MaxFreq]

\* A bug the checks must notice: the new frequency is not checked in its turn.
SweepClockOnce(c) ==
    LET ticked == [c EXCEPT !.sweep_timer = IF CountDown(@) = 0 THEN Reload(c.pace)
                                            ELSE CountDown(@)]
        next == SweepNext(c)
    IN  CASE CountDown(c.sweep_timer) # 0 \/ ~c.sweep_on \/ c.pace = 0 -> ticked
          [] OTHER -> [SweepCalculate(ticked) EXCEPT
                          !.shadow = IF next > MaxFreq \/ c.shift = 0 THEN @ ELSE next,
                          !.freq = IF next > MaxFreq \/ c.shift = 0 THEN @ ELSE next]

\* "A shift of 0 still runs the overflow check but never writes back."
SweepClock(c) ==
    LET ticked == [c EXCEPT !.sweep_timer = IF CountDown(@) = 0 THEN Reload(c.pace)
                                            ELSE CountDown(@)]
        checked == SweepCalculate(ticked)
        next == SweepNext(c)
    IN  CASE CountDown(c.sweep_timer) # 0 \/ ~c.sweep_on \/ c.pace = 0 -> ticked
          [] OTHER -> IF next > MaxFreq \/ c.shift = 0 THEN checked
                      ELSE SweepCalculate([checked EXCEPT !.shadow = next, !.freq = next])

SquareTrigger(c, with_sweep) ==
    LET started == [c EXCEPT !.enabled = c.dac, !.env = EnvelopeTrigger(@)]
        swept == [started EXCEPT !.shadow = c.freq,
                                 !.sweep_timer = Reload(c.pace),
                                 !.sweep_on = c.pace # 0 \/ c.shift # 0,
                                 !.negate_used = FALSE]
    IN  CASE ~with_sweep -> started
          [] with_sweep -> IF c.shift # 0 THEN SweepCalculate(swept) ELSE swept

\* NR10.  "Clearing negate after a calculation kills the channel."
WriteSweep(c, pace, negate, shift) ==
    [c EXCEPT !.pace = pace, !.negate = negate, !.shift = shift,
              !.enabled = @ /\ (c.negate_used => negate)]
============================================================================
