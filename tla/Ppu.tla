--------------------------------- MODULE Ppu ---------------------------------
(***************************************************************************)
(* The timing of the PPU (core/ppu/ppu.cpp): the dots of a line and the    *)
(* lines of a frame, the modes, the STAT interrupt line, the switching of  *)
(* the LCD, and the window in which an OAM address damages OAM.            *)
(*                                                                         *)
(* Bus::tick(n) runs n dots, each a step here, and the CPU's access comes  *)
(* after them.  What is drawn is left out, but for the count of the lines  *)
(* the window was drawn on.                                                *)
(***************************************************************************)
EXTENDS Integers

CONSTANTS
    LineDots,       \* kDotsPerLine, 456
    ScanDots,       \* kOamScanDots, 80
    VisibleLines,   \* kVBlankLine, 144
    Lines,          \* kLinesPerFrame, 154
    BaseDraw,       \* 172, drawing with nothing in the way
    FineScroll,     \* 7, the largest value of SCX % 8
    Stall,          \* 6, what the window or an object adds
    MaxObjects,     \* kMaxSpritesPerLine, 10
    HeadStart,      \* 4, the dot of line 0 the LCD comes on at
    LycValues       \* values of LYC: 0..255

MaxDraw == BaseDraw + FineScroll + Stall + Stall * MaxObjects

ASSUME PpuAssumption ==
    /\ \A n \in {LineDots, ScanDots, VisibleLines, Lines, BaseDraw} : n \in Nat \ {0}
    /\ \A n \in {FineScroll, Stall, MaxObjects, HeadStart, MaxDraw} : n \in Nat
    /\ LineDots % 4 = 0 /\ ScanDots % 4 = 0 /\ HeadStart % 4 = 0
    /\ 4 <= HeadStart /\ HeadStart < ScanDots
    /\ ScanDots + MaxDraw < LineDots
    /\ VisibleLines < Lines
    /\ LycValues \subseteq Nat /\ 0 \in LycValues

Sources == {"lyc", "scan", "hblank", "vblank"}  \* STAT bits 6, 5, 3 and 4

VARIABLES
    lcd_on,         \* LCDC bit 7
    ly, dot, mode, mode3_dots, window_line,
    sources,        \* the enables of STAT
    lyc, lyc_bit,   \* LYC, and STAT bit 2
    stat_mode,      \* STAT bits 0 and 1
    stat_line, frame_ready,
    irq,            \* of IF, the bits "vblank" and "stat"
    pc, left,       \* where Bus::tick is, as in ClockTree
    restart         \* history: this is the line the LCD came on in

beamVars == <<lcd_on, ly, dot, mode, mode3_dots, window_line, restart>>
statVars == <<lyc_bit, stat_mode, stat_line>>
vars == <<beamVars, statVars, sources, lyc, frame_ready, irq, pc, left>>

\* STAT is 0x85 after reset: LYC matches, and the mode bits say 1.
Init ==
    /\ lcd_on = TRUE
    /\ ly = 0
    /\ dot = 0
    /\ mode = "scan"
    /\ mode3_dots = BaseDraw
    /\ window_line = 0
    /\ sources = {}
    /\ lyc = 0
    /\ lyc_bit = TRUE
    /\ stat_mode = "vblank"
    /\ stat_line = FALSE
    /\ frame_ready = FALSE
    /\ irq = {"vblank"}         \* IF is 0xE1
    /\ pc = "between"
    /\ left = 0
    /\ restart = FALSE

----------------------------------------------------------------------------

\* The OR of the enabled sources.  Mode 3 is no source.
Level(l, c, m, enabled) == m \in enabled \/ ("lyc" \in enabled /\ l = c)

\* A bug the checks must notice: every source interrupts for itself.
UpdateStatLineEach(line, others) ==
    /\ lyc_bit' = (ly' = lyc')
    /\ stat_line' = Level(ly', lyc', mode', sources')
    /\ irq' = irq \cup others \cup
              (IF stat_line' /\ (~line \/ (mode' # mode /\ mode' \in sources'))
               THEN {"stat"} ELSE {})

\* update_stat_line, when the line was as given, along with other interrupts.
\* It looks at the registers as the handler has left them.
UpdateStatLine(line, others) ==
    /\ lyc_bit' = (ly' = lyc')
    /\ stat_line' = Level(ly', lyc', mode', sources')
    /\ irq' = irq \cup others \cup (IF stat_line' /\ ~line THEN {"stat"} ELSE {})

SetMode(m, others) ==
    /\ mode' = m
    /\ stat_mode' = m
    /\ UpdateStatLine(stat_line, others)

NextLine == IF ly + 1 >= Lines THEN 0 ELSE ly + 1

\* What the fine scroll, the window and the objects make of mode 3.
DrawLengths ==
    {BaseDraw + f + w + Stall * n : f \in 0..FineScroll, w \in {0, Stall}, n \in 0..MaxObjects}

\* The dots of a line at which something happens; they are all different.
StartDrawing ==
    /\ ly < VisibleLines
    /\ dot + 1 = ScanDots
    /\ dot' = dot + 1
    /\ mode3_dots' \in DrawLengths
    /\ UNCHANGED <<ly, window_line, frame_ready, restart>>
    /\ SetMode("drawing", {})

\* The line is rendered as drawing ends, with the window in it or not.
EndDrawing ==
    /\ ly < VisibleLines
    /\ dot + 1 = ScanDots + mode3_dots
    /\ dot' = dot + 1
    /\ window_line' \in {window_line, window_line + 1}
    /\ UNCHANGED <<ly, mode3_dots, frame_ready, restart>>
    /\ SetMode("hblank", {})

\* A bug the checks must notice: the window's line count is never reset.
EnterLineKeepsWindow(l) ==
    /\ ly' = l
    /\ UNCHANGED window_line
    /\ frame_ready' = (frame_ready \/ l = VisibleLines)
    /\ \/ l < VisibleLines /\ SetMode("scan", {})
       \/ l = VisibleLines /\ SetMode("vblank", {"vblank"})
       \/ l > VisibleLines /\ UNCHANGED <<mode, stat_mode>> /\ UpdateStatLine(stat_line, {})

\* Another: the frame is reported a VBlank late.
EnterLineFrameLate(l) ==
    /\ ly' = l
    /\ window_line' = IF l = 0 THEN 0 ELSE window_line
    /\ frame_ready' = (frame_ready \/ l = 0)
    /\ \/ l < VisibleLines /\ SetMode("scan", {})
       \/ l = VisibleLines /\ SetMode("vblank", {"vblank"})
       \/ l > VisibleLines /\ UNCHANGED <<mode, stat_mode>> /\ UpdateStatLine(stat_line, {})

EnterLine(l) ==
    /\ ly' = l
    /\ window_line' = IF l = 0 THEN 0 ELSE window_line
    /\ frame_ready' = (frame_ready \/ l = VisibleLines)
    /\ \/ l < VisibleLines /\ SetMode("scan", {})
       \/ l = VisibleLines /\ SetMode("vblank", {"vblank"})
       \/ l > VisibleLines /\ UNCHANGED <<mode, stat_mode>> /\ UpdateStatLine(stat_line, {})

EndLine ==
    /\ dot + 1 >= LineDots
    /\ dot' = 0
    /\ restart' = FALSE
    /\ UNCHANGED mode3_dots
    /\ EnterLine(NextLine)

OtherDot ==
    /\ ly < VisibleLines => dot + 1 \notin {ScanDots, ScanDots + mode3_dots}
    /\ dot + 1 < LineDots
    /\ dot' = dot + 1
    /\ UNCHANGED <<ly, mode, mode3_dots, window_line, restart, statVars, frame_ready, irq>>

\* One dot of Ppu::tick.
StepDot ==
    /\ UNCHANGED <<lcd_on, sources, lyc>>
    /\ StartDrawing \/ EndDrawing \/ EndLine \/ OtherDot

----------------------------------------------------------------------------

BusTick(n) ==
    /\ pc \in {"access", "between"}
    /\ pc' = "tick"
    /\ left' = n
    /\ UNCHANGED <<beamVars, statVars, sources, lyc, frame_ready, irq>>

\* An LCD that is off has no dots.
DotTick ==
    /\ pc = "tick"
    /\ left' = left - 1
    /\ pc' = IF left' = 0 THEN "access" ELSE "tick"
    /\ \/ lcd_on /\ StepDot
       \/ ~lcd_on /\ UNCHANGED <<beamVars, statVars, sources, lyc, frame_ready, irq>>

\* A bug the checks must notice: the row that ends at the last dot counts too.
OamBugWindowLong == lcd_on /\ ly < VisibleLines /\ dot \in 4..ScanDots

\* oam_bug_window and oam_row: an access that names OAM damages this row of it.
OamBugWindow == lcd_on /\ ly < VisibleLines /\ dot \in 4..(ScanDots - 4)

OamRow == dot \div 4

Access ==
    /\ pc = "access"
    /\ pc' = "between"
    /\ UNCHANGED left

\* A bug the checks must notice: the beam stays where it was.
TurnOffHalfway ==
    /\ lcd_on
    /\ lcd_on' = FALSE
    /\ ly' = 0
    /\ mode' = "hblank"
    /\ stat_mode' = "hblank"
    /\ window_line' = 0
    /\ stat_line' = FALSE
    /\ restart' = FALSE
    /\ UNCHANGED <<dot, mode3_dots, sources, lyc, lyc_bit, frame_ready, irq>>

\* LCDC bit 7 goes from 1 to 0.
TurnOff ==
    /\ lcd_on
    /\ lcd_on' = FALSE
    /\ ly' = 0
    /\ dot' = 0
    /\ window_line' = 0
    /\ mode' = "hblank"
    /\ stat_mode' = "hblank"
    /\ stat_line' = FALSE
    /\ restart' = FALSE
    /\ UNCHANGED <<mode3_dots, sources, lyc, lyc_bit, frame_ready, irq>>

\* And from 0 to 1: mode3_dots is still that of a line of long ago.
TurnOn ==
    /\ ~lcd_on
    /\ lcd_on' = TRUE
    /\ ly' = 0
    /\ dot' = HeadStart
    /\ window_line' = 0
    /\ mode' = "hblank"
    /\ stat_mode' = "hblank"
    /\ restart' = TRUE
    /\ UNCHANGED <<mode3_dots, sources, lyc, frame_ready>>
    /\ UpdateStatLine(FALSE, {})

WriteStat ==
    /\ sources' \in SUBSET Sources
    /\ UNCHANGED <<beamVars, lyc, stat_mode, frame_ready>>
    /\ UpdateStatLine(stat_line, {})

\* A bug the checks must notice: the comparison waits for the next line.
WriteLycLater ==
    /\ lyc' \in LycValues
    /\ UNCHANGED <<beamVars, sources, statVars, frame_ready, irq>>

WriteLyc ==
    /\ lyc' \in LycValues
    /\ UNCHANGED <<beamVars, sources, stat_mode, frame_ready>>
    /\ UpdateStatLine(stat_line, {})

AccessPpu == Access /\ (TurnOff \/ TurnOn \/ WriteStat \/ WriteLyc)

\* IF is written by the CPU, or a bit of it cleared by a dispatch.
WriteIf ==
    /\ pc # "tick"
    /\ pc' = "between"
    /\ irq' \in SUBSET {"vblank", "stat"}
    /\ UNCHANGED <<beamVars, statVars, sources, lyc, frame_ready, left>>

\* take_frame, which the frame loop calls after every instruction.
TakeFrame ==
    /\ pc # "tick"
    /\ pc' = "between"
    /\ frame_ready' = FALSE
    /\ UNCHANGED <<beamVars, statVars, sources, lyc, irq, left>>

Next ==
    \/ BusTick(4) \/ BusTick(8)
    \/ DotTick
    \/ AccessPpu \/ WriteIf \/ TakeFrame

Spec == Init /\ [][Next]_vars

----------------------------------------------------------------------------

TypeOK ==
    /\ lcd_on \in BOOLEAN
    /\ ly \in 0..(Lines - 1)
    /\ dot \in 0..(LineDots - 1)
    /\ mode \in {"scan", "drawing", "hblank", "vblank"}
    /\ mode3_dots \in BaseDraw..MaxDraw
    /\ window_line \in 0..VisibleLines
    /\ sources \in SUBSET Sources
    /\ lyc \in LycValues
    /\ lyc_bit \in BOOLEAN
    /\ stat_mode \in {"scan", "drawing", "hblank", "vblank"}
    /\ stat_line \in BOOLEAN
    /\ frame_ready \in BOOLEAN
    /\ irq \in SUBSET {"vblank", "stat"}
    /\ pc \in {"tick", "access", "between"}
    /\ left \in 0..8
    /\ restart \in BOOLEAN

\* The mode is what the place of the beam says, whenever and however often the
\* LCD is switched: a stale length of mode 3 never ends a drawing that has not
\* begun, no line is without its drawing, and the line the LCD comes on in has
\* a blank where the others have a scan (ppu.cpp: "The line the LCD restarts on
\* has no OAM scan").
ModeFollowsBeam ==
    IF ~lcd_on
    THEN mode = "hblank" /\ ly = 0 /\ dot = 0
    ELSE /\ restart => ly = 0 /\ dot >= HeadStart
         /\ mode = IF ly >= VisibleLines THEN "vblank"
                   ELSE IF dot < ScanDots THEN (IF restart THEN "hblank" ELSE "scan")
                   ELSE IF dot < ScanDots + mode3_dots THEN "drawing" ELSE "hblank"

\* What STAT shows is never stale while the LCD is on: the comparison, and the
\* mode, which in a scan of line 0 alone may still read as the vertical blank that
\* the boot ROM left it at; and the interrupt line is at the level of its sources.
StatIsCurrent ==
    lcd_on => /\ lyc_bit = (ly = lyc)
              /\ stat_mode = mode \/ (stat_mode = "vblank" /\ mode = "scan" /\ ly = 0)
              /\ stat_line = Level(ly, lyc, mode, sources)

\* An OAM address that the CPU puts on the bus damages the row the scan is at:
\* an exact row, never the first, in every M-cycle of a scan but the first of
\* the line, and otherwise only in the line the LCD came on in.  (ppu.cpp: "Row
\* 0 is already behind the scan by the time the first M-cycle of the line
\* completes".)
OamBugInScan ==
    pc = "access" =>
        /\ OamBugWindow => /\ dot = 4 * OamRow
                           /\ OamRow \in 1..(ScanDots \div 4 - 1)
                           /\ mode = IF restart THEN "hblank" ELSE "scan"
        /\ mode = "scan" => OamBugWindow \/ dot = 0

\* The window's line is never ahead of the lines rendered in this frame, so it
\* stays within the frame whatever the program does with the window and the
\* LCD.  (ppu.h: "Counts only the lines the window actually drew".)
WindowLineBehind ==
    window_line <= IF ly >= VisibleLines THEN VisibleLines
                   ELSE IF mode = "hblank" /\ dot >= ScanDots THEN ly + 1 ELSE ly

\* While the LCD is on STAT interrupts when the OR of its sources rises and
\* only then: a source that takes over from another does not interrupt again,
\* and the LCD coming on counts as a rise.  (ppu.cpp: "STAT fires on the rising
\* edge of the ORed condition, not on each source".)
High == lcd_on /\ Level(ly, lyc, mode, sources)

StatOnRise ==
    [][~WriteIf /\ lcd_on' =>
          /\ "stat" \in irq' \ irq => ~High /\ High'
          /\ ~High /\ High' => "stat" \in irq']_vars

\* The PPU is the beam of Screen.
Beam == INSTANCE Screen WITH
    MinDraw <- BaseDraw,
    on <- lcd_on,
    beam <- ly * LineDots + dot,
    frame <- frame_ready,
    vblank <- "vblank" \in irq

ImplementsScreen == Beam!Spec
============================================================================
