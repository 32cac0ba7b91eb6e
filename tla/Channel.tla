------------------------------ MODULE Channel ------------------------------
(***************************************************************************)
(* What the channels of the APU share, as operators on a channel's record: *)
(* the length counter (apu/apu.cpp) and, for the squares and the noise,    *)
(* the volume envelope (apu/channel.h, apu/square.cpp).                    *)
(***************************************************************************)
EXTENDS Integers

CONSTANTS
    MaxFreq,        \* 2047
    MaxVolume,      \* 15
    IdlePeriod      \* what a timer whose period is 0 reloads with: 8

ASSUME ChannelAssumption ==
    /\ MaxFreq \in Nat
    /\ MaxVolume \in Nat
    /\ IdlePeriod \in Nat \ {0}

Periods == 0..(IdlePeriod - 1)

\* A timer that counts down to 0 and no further.
CountDown(timer) == IF timer > 0 THEN timer - 1 ELSE 0

ClockLength(c) ==
    IF c.length_on /\ c.length > 0
    THEN [c EXCEPT !.length = @ - 1, !.enabled = @ /\ c.length > 1]
    ELSE c

\* A bug the checks must notice: a trigger looks at the counter before the clock
\* is stolen from it.
WriteControlEarly(c, on, trigger, max, next_clocks) ==
    LET steals == ~next_clocks /\ ~c.length_on /\ on /\ c.length > 0
        left == IF steals THEN c.length - 1 ELSE c.length
    IN  [c EXCEPT
            !.length_on = on,
            !.length = IF trigger /\ c.length = 0
                       THEN IF on /\ ~next_clocks THEN max - 1 ELSE max
                       ELSE left,
            !.enabled = @ /\ ~(steals /\ left = 0 /\ ~trigger)]

\* NRx4.  "Enabling length while the next sequencer step is not a length step
\* steals one clock", and a trigger refills a counter that is at 0.
WriteControl(c, on, trigger, max, next_clocks) ==
    LET steals == ~next_clocks /\ ~c.length_on /\ on /\ c.length > 0
        left == IF steals THEN c.length - 1 ELSE c.length
    IN  [c EXCEPT
            !.length_on = on,
            !.length = IF trigger /\ left = 0
                       THEN IF on /\ ~next_clocks THEN max - 1 ELSE max
                       ELSE left,
            !.enabled = @ /\ ~(steals /\ left = 0 /\ ~trigger)]

\* The channel's DAC is switched; a channel without it is silent.
SetDac(c, dac) == [c EXCEPT !.dac = dac, !.enabled = @ /\ dac]

----------------------------------------------------------------------------

Envelopes == [initial: 0..MaxVolume, period: Periods, volume: 0..MaxVolume,
              timer: 0..IdlePeriod, add: BOOLEAN, running: BOOLEAN]

EnvelopeReset == [initial |-> 0, period |-> 0, volume |-> 0,
                  timer |-> 0, add |-> FALSE, running |-> FALSE]

\* "A period of 0 never steps the volume, but the timer still reloads as if it
\* were 8."
Reload(period) == IF period = 0 THEN IdlePeriod ELSE period

EnvelopeTrigger(e) ==
    [e EXCEPT !.volume = e.initial, !.timer = Reload(e.period), !.running = TRUE]

\* A bug the checks must notice: the volume is checked against its upper end.
EnvelopeClockUp(e) ==
    LET due == CountDown(e.timer) = 0
        next == e.volume + (IF e.add THEN 1 ELSE -1)
        steps == due /\ e.running /\ e.period # 0
    IN  [e EXCEPT
            !.timer = IF due THEN Reload(e.period) ELSE CountDown(@),
            !.running = @ /\ (steps => next <= MaxVolume),
            !.volume = IF steps /\ next <= MaxVolume THEN next ELSE @]

\* At either end of its range the volume stays, until the next trigger.
EnvelopeClock(e) ==
    LET due == CountDown(e.timer) = 0
        next == e.volume + (IF e.add THEN 1 ELSE -1)
        steps == due /\ e.running /\ e.period # 0
    IN  [e EXCEPT
            !.timer = IF due THEN Reload(e.period) ELSE CountDown(@),
            !.running = @ /\ (steps => next \in 0..MaxVolume),
            !.volume = IF steps /\ next \in 0..MaxVolume THEN next ELSE @]

\* NRx2.
WriteEnvelope(c, initial, add, period) ==
    SetDac([c EXCEPT !.env.initial = initial, !.env.add = add, !.env.period = period],
           initial # 0 \/ add)
============================================================================
