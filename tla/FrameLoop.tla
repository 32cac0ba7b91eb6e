----------------------------- MODULE FrameLoop -----------------------------
(***************************************************************************)
(* The loops of core/gb.cpp that run the CPU: run_frame until the PPU has  *)
(* a frame or two frames' time is up, run_cycles until its time is up.     *)
(*                                                                         *)
(* The PPU is that of Screen, which Ppu implements.  The CPU is anything   *)
(* that takes up to MaxStep M-cycles for a step and switches the LCD at    *)
(* the end of any of them.                                                 *)
(***************************************************************************)
EXTENDS Integers

CONSTANTS
    LineDots, ScanDots, MinDraw, MaxDraw, HeadStart, VisibleLines, Lines,
    MaxStep,        \* M-cycles of the longest CPU step
    Targets         \* T-cycles asked of run_cycles; 1 is as step_instruction

VARIABLES on, beam, mode, frame, vblank

VARIABLES
    pc,             \* "idle", or in a call: "dots", "access" or "check"
    call,           \* the call being made, or the last one made
    left,           \* T-cycles until its end, no less than 0
    step,           \* M-cycles left of the CPU's step
    dots,           \* T-cycles left of the M-cycle

    \* History.
    dark,           \* the LCD has been off in this call
    partial,        \* a line has been drawn since the last complete frame
    stepped         \* the CPU has run since run_frame last returned, but not by it

screenVars == <<on, beam, mode, frame, vblank>>
callVars == <<pc, call, left, step, dots>>
loopVars == <<screenVars, callVars, dark, partial, stepped>>

Screen == INSTANCE Screen

FrameTime == Lines * LineDots

ASSUME FrameLoopAssumption ==
    /\ \A n \in {LineDots, ScanDots, MinDraw, VisibleLines, Lines, MaxStep} : n \in Nat \ {0}
    /\ HeadStart \in Nat
    /\ ScanDots + MinDraw <= LineDots
    /\ VisibleLines < Lines
    /\ Targets \subseteq Nat \ {0}
    \* A step that began before the vertical blank ends before the next line.
    /\ 4 * MaxStep < (Lines - VisibleLines) * LineDots
    \* Nor does a line get drawn in the step that switches the LCD on.
    /\ HeadStart + 4 * MaxStep < ScanDots + MinDraw

LoopInit ==
    /\ Screen!Init
    /\ pc = "idle"
    /\ call = "frame"
    /\ left = 0
    /\ step = 0
    /\ dots = 0
    /\ dark = FALSE
    /\ partial = FALSE
    /\ stepped = FALSE

----------------------------------------------------------------------------

\* A bug the checks must notice: the time of the lines that are seen.
CapVisible == VisibleLines * LineDots

\* With the LCD off no frame is ever produced.
Cap == FrameTime * 2

\* A bug the checks must notice: a CPU that stopped, but with it the clock.
BeginStepTimeless ==
    /\ step' \in 1..MaxStep
    /\ \/ dots' = 4 /\ pc' = "dots"
       \/ dots' = 0 /\ pc' = "access"

\* One more Sm83::step.
BeginStep ==
    /\ step' \in 1..MaxStep
    /\ dots' = 4
    /\ pc' = "dots"

BeginRunFrame ==
    /\ pc = "idle"
    /\ call' = "frame"
    /\ left' = Cap
    /\ dark' = ~on
    /\ BeginStep
    /\ UNCHANGED <<screenVars, partial, stepped>>

BeginRunCycles ==
    /\ pc = "idle"
    /\ call' = "cycles"
    /\ left' \in Targets
    /\ dark' = ~on
    /\ stepped' = TRUE
    /\ BeginStep
    /\ UNCHANGED <<screenVars, partial>>

----------------------------------------------------------------------------

\* The clock and the PPU go on by one.
RunDot ==
    /\ pc = "dots"
    /\ IF on THEN Screen!Move ELSE UNCHANGED screenVars
    /\ partial' = CASE mode = "drawing" /\ mode' = "hblank" -> TRUE
                    [] mode # "vblank" /\ mode' = "vblank" -> FALSE
                    [] OTHER                               -> partial
    /\ left' = IF left > 0 THEN left - 1 ELSE 0
    /\ dots' = dots - 1
    /\ pc' = IF dots = 1 THEN "access" ELSE "dots"
    /\ UNCHANGED <<call, step, dark, stepped>>

\* The CPU's access at the end of an M-cycle.
Access ==
    /\ pc = "access"
    /\ \/ UNCHANGED screenVars
       \/ Screen!TurnOff
       \/ Screen!TurnOn
       \/ UNCHANGED frame /\ Screen!Take     \* a write to IF
    /\ dark' = (dark \/ ~on')
    /\ step' = step - 1
    /\ dots' = IF step = 1 THEN 0 ELSE 4
    /\ pc' = IF step = 1 THEN "check" ELSE "dots"
    /\ UNCHANGED <<call, left, partial, stepped>>

\* Another: the frame is looked at and not taken.
PeekFrame == UNCHANGED frame

\* What take_frame leaves.
TakeFrame == frame' = FALSE

\* The end of a turn of the loop of run_frame.
CheckFrame ==
    /\ pc = "check" /\ call = "frame"
    /\ TakeFrame
    /\ \/ /\ frame \/ left = 0
          /\ pc' = "idle"
          /\ stepped' = FALSE
          /\ UNCHANGED <<step, dots>>
       \/ /\ ~frame /\ left > 0
          /\ BeginStep
          /\ UNCHANGED stepped
    /\ UNCHANGED <<on, beam, mode, vblank, call, left, dark, partial>>

\* And of that of run_cycles.
CheckCycles ==
    /\ pc = "check" /\ call = "cycles"
    /\ \/ left = 0 /\ pc' = "idle" /\ UNCHANGED <<step, dots>>
       \/ left > 0 /\ BeginStep
    /\ UNCHANGED <<screenVars, call, left, dark, partial, stepped>>

InCall == RunDot \/ Access \/ CheckFrame \/ CheckCycles

LoopNext == BeginRunFrame \/ BeginRunCycles \/ InCall

\* A call is a loop that goes on by itself; that one is made is up to the caller.
LoopSpec == LoopInit /\ [][LoopNext]_loopVars /\ WF_loopVars(InCall)

----------------------------------------------------------------------------

LoopTypeOK ==
    /\ on \in BOOLEAN /\ frame \in BOOLEAN /\ vblank \in BOOLEAN
    /\ beam \in 0..(FrameTime - 1)
    /\ mode \in {"scan", "drawing", "hblank", "vblank"}
    /\ pc \in {"idle", "dots", "access", "check"}
    /\ call \in {"frame", "cycles"}
    /\ left \in 0..Cap \union UNION {0..n : n \in Targets}
    /\ step \in 0..MaxStep
    /\ dots \in 0..4
    /\ pc = "dots" <=> dots # 0
    /\ {dark, partial, stepped} \subseteq BOOLEAN

\* run_frame is about to return.
Returning == pc = "check" /\ call = "frame" /\ (frame \/ left = 0)

\* run_frame returns at the end of a frame or not: while the LCD stays on it
\* returns with a frame, within a frame's time and a step.  (gb.h: "or a cycle
\* cap if the LCD is off".)
OnTime ==
    Returning /\ ~dark =>
        /\ frame
        /\ left + FrameTime + 4 * MaxStep >= Cap

\* When run_frame returns with a frame the picture is that frame, with nothing
\* of the next drawn over it, if the CPU runs by run_frame alone.
WholePicture == Returning /\ frame /\ ~stepped => ~partial

\* The same of every run_frame.  (tests/acceptance/main.cpp runs single
\* instructions, then run_frame to "finish the frame first".)
FinishesFrame == Returning /\ frame => ~partial

\* Every call returns, whatever the program does to the LCD.
Returns == pc # "idle" ~> pc = "idle"
============================================================================
