------------------------------- MODULE Ports -------------------------------
(***************************************************************************)
(* What crosses the border of the machine while a frontend runs it frame   *)
(* by frame: buttons in, bytes of the serial port out, sound out.  The     *)
(* libretro frontend takes the sound after every frame; the others never   *)
(* do.  The program's accesses fall anywhere between ticks of the bus.     *)
(***************************************************************************)
EXTENDS Serial, Joypad

CONSTANTS
    Period,         \* T-cycles of a sample: 4194304 \div 48000
    MaxFrames,      \* sample pairs that the buffer holds: 48000
    AudioFrames,    \* sample pairs that libretro takes at most: kAudioFrames, 2048
    Cap,            \* T-cycles after which run_frame begins no other step
    LongestStep     \* T-cycles of the longest step of the CPU

ASSUME PortsAssumption ==
    /\ {Period, MaxFrames, AudioFrames, Cap, LongestStep} \subseteq Nat \ {0}
    \* As the build's numbers have it: (140448 + 24) / 87 and one more, of 2048.
    /\ (Cap + LongestStep) \div Period + 1 <= AudioFrames
    /\ AudioFrames <= MaxFrames
    /\ \A n \in TickLengths : n <= Period

VARIABLES
    drains,         \* the frontend is libretro
    phase,          \* "frontend", or "running" in run_frame
    spent,          \* T-cycles of this run_frame
    if_reg,         \* the interrupts of the ports that are asked for
    samples,        \* sample pairs in the buffer
    sample_accum    \* T-cycles since the last sample

portVars == <<drains, phase, spent, if_reg, samples, sample_accum>>
vars == <<serialVars, joypadVars, portVars>>

Init ==
    /\ SerialInit
    /\ JoypadInit
    /\ drains \in BOOLEAN
    /\ phase = "frontend"
    /\ spent = 0
    /\ if_reg = {}
    /\ samples = 0
    /\ sample_accum = 0

----------------------------------------------------------------------------
(* The frontend.                                                           *)

\* set_buttons, once before each run_frame.
RunFrame ==
    /\ phase = "frontend"
    /\ phase' = "running"
    /\ \E b \in SUBSET Buttons :
            /\ if_reg' = IF Asks(b) THEN if_reg \cup {"joypad"} ELSE if_reg
            /\ SetButtons(b)
    /\ SerialQuiet
    /\ UNCHANGED <<drains, spent, samples, sample_accum>>

\* A bug the checks must notice: the most that may be taken is of single samples,
\* not of pairs.
TakenSingly == IF samples < AudioFrames \div 2 THEN samples ELSE AudioFrames \div 2

\* take_samples.
Taken == IF samples < AudioFrames THEN samples ELSE AudioFrames

\* run_frame returns, for the PPU has a frame or the cap is reached, and libretro
\* calls emit_audio.
EmitAudio ==
    /\ phase = "running"
    /\ spent > 0
    /\ phase' = "frontend"
    /\ spent' = 0
    /\ samples' = IF drains THEN samples - Taken ELSE samples
    /\ SerialQuiet
    /\ UNCHANGED <<joypadVars, drains, if_reg, sample_accum>>

\* retro_reset and gb_reset.
Reset ==
    /\ phase = "frontend"
    /\ SerialReset
    /\ JoypadReset
    /\ if_reg' = {}
    /\ samples' = 0
    /\ sample_accum' = 0
    /\ UNCHANGED <<drains, phase, spent>>

----------------------------------------------------------------------------
(* The machine.                                                            *)

\* Apu::tick, as far as the buffer goes: no tick is longer than a sample.
Sample(n) ==
    LET due == sample_accum + n >= Period
    IN  /\ sample_accum' = IF due THEN sample_accum + n - Period ELSE sample_accum + n
        /\ samples' = IF due /\ samples < MaxFrames THEN samples + 1 ELSE samples

\* Bus::tick.  A step that begins before the cap is finished after it.
Tick(n) ==
    /\ phase = "running"
    /\ spent + n <= Cap + LongestStep
    /\ spent' = spent + n
    /\ Sample(n)
    /\ if_reg' = IF Completes(n) THEN if_reg \cup {"serial"} ELSE if_reg
    /\ SerialTick(n)
    /\ UNCHANGED <<joypadVars, drains, phase>>

Access == phase = "running" /\ UNCHANGED <<drains, phase, spent, samples, sample_accum>>

AccessSb == Access /\ (\E v \in SerialBytes : WriteSb(v)) /\ UNCHANGED <<joypadVars, if_reg>>

AccessSc ==
    /\ Access
    /\ \E start, internal \in BOOLEAN : WriteSc(start, internal)
    /\ UNCHANGED <<joypadVars, if_reg>>

AccessP1 ==
    /\ Access
    /\ \E s \in SUBSET Rows : SelectRows(s)
    /\ SerialQuiet
    /\ UNCHANGED if_reg

\* A write to IF, or a dispatch.
AccessIf ==
    /\ Access
    /\ if_reg' \in SUBSET {"serial", "joypad"}
    /\ SerialQuiet
    /\ UNCHANGED joypadVars

Ticks == \E n \in TickLengths : Tick(n)

Next ==
    \/ RunFrame \/ EmitAudio \/ Reset
    \/ Ticks
    \/ AccessSb \/ AccessSc \/ AccessP1 \/ AccessIf

Spec == Init /\ [][Next]_vars

----------------------------------------------------------------------------

TypeOK ==
    /\ SerialTypeOK
    /\ JoypadTypeOK
    /\ drains \in BOOLEAN
    /\ phase \in {"frontend", "running"}
    /\ spent \in 0..(Cap + LongestStep)
    /\ if_reg \subseteq {"serial", "joypad"}
    /\ samples \in 0..MaxFrames
    /\ sample_accum \in 0..(Period - 1)

\* The libretro frontend never falls behind: what it takes after a frame is all
\* there is, even of the longest run_frame, and a run that ended early leaves
\* nothing that adds up.  (libretro.cpp: "leave room for the APU running long".)
NoBacklog == drains /\ phase = "frontend" => samples = 0

SeenPresses == {b \in pressed' \ pressed : b[1] \in selected}

\* New buttons ask for the interrupt if one of them is of a selected row and its
\* line was not already held low by another, and only if one is of a selected
\* row: not a release, not a press that another button of the line hides, and not
\* the selection of a row in which a button is held.
\* (joypad.cpp: "it only fires for a press on a currently selected row".)
PressInterrupts ==
    [][joypadVars' # joypadVars =>
            /\ (\E b \in SeenPresses : b[2] \notin Low(pressed)) => "joypad" \in if_reg'
            /\ "joypad" \in if_reg' \ if_reg => SeenPresses # {}]_vars

\* The T-cycles left of a transfer.
Left == IF Shifting THEN bits_left * BitPeriod - shift_timer ELSE 0

Promise ==
    INSTANCE Link WITH
        Duration <- Bits * BitPeriod,
        left <- Left,
        register <- sb,
        byte <- out_byte,
        irq <- "serial" \in if_reg,
        time <- spent

\* However the program writes SB and SC while bits leave, a transfer delivers the
\* byte it was begun with, once, Bits * BitPeriod T-cycles after, with its
\* interrupt; one begun again or given up delivers nothing, and none is given up by
\* the passing of time.
ImplementsLink == Promise!Spec
============================================================================
