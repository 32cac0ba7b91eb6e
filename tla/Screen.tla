------------------------------- MODULE Screen -------------------------------
(***************************************************************************)
(* What the PPU promises the rest of the machine: a beam that goes over a  *)
(* frame of lines at a constant pace while the LCD is on, one frame and    *)
(* one VBlank interrupt each time it leaves the last visible line, and in  *)
(* each visible line a scan, a drawing of variable but bounded length, and *)
(* a blank until the end.  When the LCD comes on the beam starts a little  *)
(* way into the first line, and that line has no scan.                     *)
(*                                                                         *)
(* Ppu, which models core/ppu/ppu.cpp, is shown to implement this.         *)
(***************************************************************************)
EXTENDS Integers

CONSTANTS
    LineDots, ScanDots,     \* dots of a line and of its scan
    MinDraw, MaxDraw,       \* bounds on the dots of drawing
    HeadStart,              \* the dot of the first line the LCD comes on at
    VisibleLines, Lines

VARIABLES
    on,
    beam,       \* dots since the beginning of the frame
    mode,
    frame,      \* a frame is complete and has not been taken
    vblank      \* the VBlank bit of IF

vars == <<on, beam, mode, frame, vblank>>

Init ==
    /\ on = TRUE
    /\ beam = 0
    /\ mode = "scan"
    /\ frame = FALSE
    /\ vblank = TRUE        \* the boot ROM leaves the request

\* What the mode may be at dot d of a visible line, after the mode m.
ModesAt(d, m) ==
    CASE d = 0 -> {"scan"}
      [] d \in 1..(ScanDots - 1) -> {m}
      [] d \in ScanDots..(ScanDots + MinDraw - 1) -> {"drawing"}
      [] d \in (ScanDots + MinDraw)..(ScanDots + MaxDraw - 1) -> {m, "hblank"}
      [] OTHER -> {"hblank"}

Move ==
    /\ on
    /\ beam' = (beam + 1) % (Lines * LineDots)
    /\ LET line == beam' \div LineDots
           complete == beam' = VisibleLines * LineDots
       IN  /\ mode' \in IF line < VisibleLines THEN ModesAt(beam' % LineDots, mode)
                                               ELSE {"vblank"}
           /\ frame' = (frame \/ complete)
           /\ vblank' = (vblank \/ complete)
    /\ UNCHANGED on

TurnOff ==
    /\ on' = FALSE
    /\ beam' = 0
    /\ mode' = "hblank"
    /\ UNCHANGED <<frame, vblank>>

TurnOn ==
    /\ ~on
    /\ on' = TRUE
    /\ beam' = HeadStart
    /\ UNCHANGED <<mode, frame, vblank>>

\* The frame is taken; the interrupt flag is written by the CPU.
Take ==
    /\ frame' \in {frame, FALSE}
    /\ vblank' \in BOOLEAN
    /\ UNCHANGED <<on, beam, mode>>

Next == Move \/ TurnOff \/ TurnOn \/ Take

Spec == Init /\ [][Next]_vars
============================================================================
