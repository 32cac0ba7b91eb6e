--------------------------- MODULE FrameSequencer ---------------------------
(***************************************************************************)
(* The frame sequencer of the APU (core/apu/apu.cpp): an eight-step        *)
(* counter that clocks the length counters, the sweep and the envelopes.   *)
(* It moves when bit 12 of the divider (bit 4 of DIV) falls.  The APU does *)
(* not see the divider move; it keeps its own copy of the bit and compares *)
(* it whenever it is asked to synchronise.                                 *)
(***************************************************************************)
EXTENDS Integers

CONSTANT SequencerHalf   \* the weight of the bit it follows: 4096 in the code

ASSUME SequencerAssumption == SequencerHalf \in Nat \ {0}

VARIABLES
    apu_on,       \* NR52 bit 7
    frame_step,   \* the step that the next edge runs
    div_bit       \* the sequencer's bit when the APU last looked

sequencerVars == <<apu_on, frame_step, div_bit>>

SequencerTypeOK ==
    /\ apu_on \in BOOLEAN
    /\ frame_step \in 0..7
    /\ div_bit \in BOOLEAN

SequencerInit ==
    /\ apu_on = FALSE
    /\ frame_step = 0
    /\ div_bit = FALSE

\* The sequencer's bit of the divider value c.
SequencerBit(c) == (c \div SequencerHalf) % 2 = 1

\* The APU sees the bit fallen when it synchronises with divider value c.
SeesFall(c) == div_bit /\ ~SequencerBit(c)

\* A bug the checks must notice: an APU that is off does not look at the bit.
SyncWhenOn(c) ==
    /\ frame_step' = IF SeesFall(c) /\ apu_on THEN (frame_step + 1) % 8 ELSE frame_step
    /\ div_bit' = IF apu_on THEN SequencerBit(c) ELSE div_bit
    /\ UNCHANGED apu_on

\* A bug the checks must notice: an edge sets the step to 1 and adds nothing.
SyncOnce(c) ==
    /\ frame_step' = IF SeesFall(c) /\ apu_on THEN 1 ELSE frame_step
    /\ div_bit' = SequencerBit(c)
    /\ UNCHANGED apu_on

\* sync_frame_sequencer and step_frame_sequencer: the step counter stands
\* still while the APU is off, but the copy of the bit is kept up to date.
SyncFrameSequencer(c) ==
    /\ frame_step' = IF SeesFall(c) /\ apu_on THEN (frame_step + 1) % 8 ELSE frame_step
    /\ div_bit' = SequencerBit(c)
    /\ UNCHANGED apu_on

\* NR52: only a change of bit 7 does anything, and power-on restarts the steps.
WritePower(on) ==
    /\ apu_on' = on
    /\ frame_step' = IF on /\ ~apu_on THEN 0 ELSE frame_step
    /\ UNCHANGED div_bit
============================================================================
