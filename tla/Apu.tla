-------------------------------- MODULE Apu --------------------------------
(***************************************************************************)
(* The channels of the APU (core/apu) under the frame sequencer and the    *)
(* program's accesses.                                                     *)
(*                                                                         *)
(* The four channels share the power bit and the sequencer's step and      *)
(* nothing else, so one of them is followed, any one, with accesses to its *)
(* own registers.  The divider is anything: that the sequencer is clocked  *)
(* once for each fall of its bit is checked in ClockTree, and how far      *)
(* apart falls are matters to nothing here.                                *)
(***************************************************************************)
EXTENDS FrameSequencer, SquareChannel, WaveChannel, NoiseChannel

CONSTANTS
    Followed,       \* the channels to follow, of 1..4
    WithEnvelope,   \* those whose envelope is followed too: it acts on nothing else
    MaxLength,      \* of each: 64, and 256 for the third
    FreqLow,        \* values of the low byte of a frequency: 256
    EnvelopeWrites, \* what the program writes to each channel's NRx2
    Bytes           \* of wave RAM, 0 among them

ASSUME ApuAssumption ==
    /\ Followed \subseteq 1..4
    /\ WithEnvelope \subseteq {1, 2, 4}
    /\ MaxLength \in [1..4 -> Nat \ {0, 1}]
    /\ FreqLow \in Nat \ {0}
    /\ (MaxFreq + 1) % FreqLow = 0
    /\ EnvelopeWrites \in [1..4 -> SUBSET ((0..MaxVolume) \X BOOLEAN \X Periods)]
    /\ 0 \in Bytes
    /\ SequencerHalf = 1    \* a divider value here is the bit itself

VARIABLES
    who,        \* the channel that is followed
    ch,         \* its state
    wave,       \* wave RAM
    accessed,   \* the program has made its access of this tick
    fetched,    \* history: the last T-cycle of the tick fetched a byte
    starved     \* history: since the last trigger the register was made short when
                \* there was nothing in what is fed back then

apuVars == <<who, ch, wave, accessed, fetched, starved>>
vars == <<sequencerVars, apuVars>>

ResetChannel ==
    CASE who \in {1, 2} -> SquareReset
      [] who = 3 -> WaveReset
      [] who = 4 -> NoiseReset

Silence == [i \in 0..(WaveBytes - 1) |-> 0]

Init ==
    /\ SequencerInit
    /\ who \in Followed
    /\ ch = ResetChannel
    /\ wave = Silence
    /\ accessed = TRUE
    /\ fetched = FALSE
    /\ starved = FALSE

----------------------------------------------------------------------------

\* next_step_clocks_length.
NextClocksLength == frame_step % 2 = 0

\* step_frame_sequencer: what step s clocks.
ClockSweep(c, s) == IF who = 1 /\ s \in {2, 6} THEN SweepClock(c) ELSE c

ClockEnvelope(c, s) ==
    IF who \in WithEnvelope /\ s = 7 THEN [c EXCEPT !.env = EnvelopeClock(@)] ELSE c

ClockChannel(c, s) ==
    ClockEnvelope(ClockSweep(IF s % 2 = 0 THEN ClockLength(c) ELSE c, s), s)

\* The channel after the sequencer has looked at the divider.
Sequenced(d) == IF SeesFall(d) /\ apu_on THEN ClockChannel(ch, frame_step) ELSE ch

\* What n T-cycles of Apu::tick do to the channel c.  The third is stepped only
\* while it plays.
Stepped(c, n) ==
    CASE who \in {1, 2} -> {c}
      [] who = 3 -> {IF c.enabled THEN WaveStep(c, n) ELSE c}
      [] who = 4 -> {c, [c EXCEPT !.lfsr = Shifted(c)]}

\* The wave timer taken a T-cycle at a time: whether the last of n fetches.
FetchesLast(c, n) ==
    LET run[k \in 0..n] ==
            IF k = 0 THEN [timer |-> c.timer, fetch |-> FALSE]
            ELSE IF run[k - 1].timer > 1
                 THEN [timer |-> run[k - 1].timer - 1, fetch |-> FALSE]
                 ELSE [timer |-> WavePeriod(c.freq), fetch |-> TRUE]
    IN  run[n].fetch

\* Bus::tick(n), as the APU sees it, with divider value d.
Tick(n, d) ==
    /\ SyncFrameSequencer(d)
    /\ ch' \in IF apu_on THEN Stepped(Sequenced(d), n) ELSE {ch}
    /\ fetched' = (who = 3 /\ Sequenced(d).enabled /\ FetchesLast(Sequenced(d), n))
    /\ accessed' = FALSE
    /\ UNCHANGED <<who, wave, starved>>

----------------------------------------------------------------------------

\* The program makes at most one access after a tick.  Only to the wave channel
\* is a tick without a fall something, so only there are accesses counted.
Access ==
    /\ ~accessed
    /\ accessed' = (who = 3)
    /\ fetched' = FALSE
    /\ UNCHANGED who

\* A write to DIV resets the divider, and the timer calls Apu::div_edge.
AccessDiv ==
    /\ Access
    /\ SyncFrameSequencer(0)
    /\ ch' = Sequenced(0)
    /\ UNCHANGED <<wave, starved>>

\* "A DMG power cycle leaves the length counters alone."
PowerOff ==
    /\ apu_on
    /\ WritePower(FALSE)
    /\ ch' = [ResetChannel EXCEPT !.length = ch.length]
    /\ starved' = FALSE

PowerOn ==
    /\ ~apu_on
    /\ WritePower(TRUE)
    /\ ch' = IF who = 3 THEN [ch EXCEPT !.position = 0] ELSE ch
    /\ UNCHANGED starved

\* NR52.
AccessPower == Access /\ (PowerOff \/ PowerOn) /\ UNCHANGED wave

\* NRx1: the length loads are the only registers that work with the power off.
AccessLength ==
    /\ Access
    /\ \E l \in 1..MaxLength[who] : ch' = [ch EXCEPT !.length = l]
    /\ UNCHANGED <<sequencerVars, wave, starved>>

\* The other registers of the channel.
AccessOn == Access /\ apu_on /\ UNCHANGED sequencerVars

\* NRx2, and NR30 for the third channel.
AccessDac ==
    /\ AccessOn
    /\ IF who = 3 THEN \E dac \in BOOLEAN : ch' = SetDac(ch, dac)
                  ELSE \E e \in EnvelopeWrites[who] : ch' = WriteEnvelope(ch, e[1], e[2], e[3])
    /\ UNCHANGED <<wave, starved>>

\* NRx3.
AccessFrequency ==
    /\ AccessOn
    /\ who # 4
    /\ \E f \in 0..(FreqLow - 1) :
            ch' = [ch EXCEPT !.freq = @ - (@ % FreqLow) + f]
    /\ UNCHANGED <<wave, starved>>

\* NR10.
AccessSweep ==
    /\ AccessOn
    /\ who = 1
    /\ \E pace \in Periods, negate \in BOOLEAN, shift \in DOMAIN ShiftScale :
            ch' = WriteSweep(ch, pace, negate, shift)
    /\ UNCHANGED <<wave, starved>>

\* NR43: only the width of the register is followed.
AccessWidth ==
    /\ AccessOn
    /\ who = 4
    /\ \E width \in BOOLEAN :
            /\ ch' = [ch EXCEPT !.width = width]
            /\ starved' = (starved \/ (width /\ ShortEmpty(ch)))
    /\ UNCHANGED wave

\* NRx4, whose low bits are the high ones of the frequency.
WithHigh(high) ==
    IF who = 4 THEN ch ELSE [ch EXCEPT !.freq = high * FreqLow + (@ % FreqLow)]

Highs == IF who = 4 THEN {0} ELSE 0..((MaxFreq + 1) \div FreqLow - 1)

Controlled(on, trigger, high) ==
    WriteControl(WithHigh(high), on, trigger, MaxLength[who], NextClocksLength)

AccessControl ==
    /\ AccessOn
    /\ \E on \in BOOLEAN, high \in Highs : ch' = Controlled(on, FALSE, high)
    /\ UNCHANGED <<wave, starved>>

TriggerChannel(c) ==
    CASE who \in {1, 2} -> SquareTrigger(c, who = 1)
      [] who = 3 -> WaveTrigger(c)
      [] who = 4 -> NoiseTrigger(c)

\* The wave channel triggered while it plays, on a fetch, damages its RAM.
AccessTrigger ==
    /\ AccessOn
    /\ \E on \in BOOLEAN, high \in Highs :
            ch' = TriggerChannel(Controlled(on, TRUE, high))
    /\ wave' = IF who = 3 /\ ch.enabled /\ ch.latched THEN CorruptWave(wave, ch) ELSE wave
    /\ starved' = FALSE

\* Wave RAM works with the power off too.
AccessWave ==
    /\ Access
    /\ who = 3
    /\ \E i \in DOMAIN wave, b \in Bytes : wave' = WriteWave(wave, ch, i, b)
    /\ UNCHANGED <<sequencerVars, ch, starved>>

\* Apu::reset, by the frontend.
Reset ==
    /\ apu_on' = FALSE
    /\ frame_step' = 0
    /\ div_bit' = FALSE
    /\ ch' = ResetChannel
    /\ wave' = Silence
    /\ accessed' = TRUE
    /\ fetched' = FALSE
    /\ starved' = FALSE
    /\ UNCHANGED who

\* How long a tick lasts matters to the wave channel only.
Ticks == \E n \in {4, 8}, d \in {0, 1} : (n = 8 => who = 3) /\ Tick(n, d)

Next ==
    \/ Ticks
    \/ AccessDiv \/ AccessPower \/ AccessLength \/ AccessDac \/ AccessFrequency
    \/ AccessSweep \/ AccessWidth \/ AccessControl \/ AccessTrigger \/ AccessWave
    \/ Reset

\* The clock goes on, and the divider's bit rises and falls with it.
Fairness == WF_vars(\E d \in {0, 1} : SequencerBit(d) # div_bit /\ Tick(4, d))

Spec == Init /\ [][Next]_vars

FairSpec == Spec /\ Fairness

----------------------------------------------------------------------------

\* What a channel's record can be: among the rest, a volume within its range and
\* a frequency whose period is not 0, for a period of 0 would never let the
\* stepping loops of the channels end.
TypeOK ==
    /\ SequencerTypeOK
    /\ who \in Followed
    /\ ch \in CASE who \in {1, 2} -> SquareChannels
               [] who = 3 -> WaveChannels
               [] who = 4 -> NoiseChannels
    /\ ch.length \in 0..MaxLength[who]
    /\ wave \in [0..(WaveBytes - 1) -> Bytes]
    /\ accessed \in BOOLEAN
    /\ fetched \in BOOLEAN
    /\ starved \in BOOLEAN

\* A channel that sounds has power, a DAC, and time left on its length counter,
\* however triggers, the enabling of the counter, its stolen clocks and the
\* sequencer's own fall together; and a sweep that has subtracted still does.
Sounding ==
    ch.enabled =>
        /\ apu_on
        /\ ch.dac
        /\ ch.length > 0
        /\ who = 1 => (ch.negate_used => ch.negate)

\* An access meets the wave channel on its byte exactly if the last T-cycle of
\* its own tick fetched it.  The mark is kept by ticks in which the channel does
\* not play, so it may be old when a trigger lets the channel play again.
\* (channel.h: "Set for the duration of the tick in which a byte was latched.")
WaveWindow ==
    who = 3 /\ ~accessed /\ ch.enabled => (ch.latched <=> fetched)

\* The shift register runs empty, and the noise stops for good, only after it was
\* made short at a moment when nothing was left in its short part: a switch at any
\* other moment, either way and however often, leaves it running.
NoiseKeepsGoing ==
    who = 4 /\ ~starved =>
        /\ \E i \in Cells : ch.lfsr[i]
        /\ ch.width => ~ShortEmpty(ch)

\* A channel that starts to sound, or that the sweep moves, is silenced in the
\* same step if the frequency after that would not fit.  (square.cpp: "The check
\* runs before a single sample is produced, so an overflowing frequency never
\* sounds".)
OverflowNeverSounds ==
    [][who = 1 /\ ch'.enabled /\ (ch'.shadow # ch.shadow \/ ~ch.enabled)
            => ch'.shift = 0 \/ SweepNext(ch') <= MaxFreq]_vars

\* Once the program leaves it alone, a note whose length counter is on ends.
NoteEnds ==
    <>[][Ticks]_vars => <>[](ch.length_on => ~ch.enabled)
============================================================================
