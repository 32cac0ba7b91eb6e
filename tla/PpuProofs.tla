------------------------------ MODULE PpuProofs ------------------------------
(***************************************************************************)
(* The PPU's timing for every length of lines and frames: the mode follows *)
(* the beam, STAT is current and interrupts on rises only, the OAM bug     *)
(* keeps to the scan, and the dots and lines of the code are the beam of   *)
(* Screen.  And what a line shows, for every size of the picture and of    *)
(* the objects: the pixels of the tiles and the frontmost object, and the  *)
(* rows of OAM that the bug damages.  MCPpu is where the two meet.         *)
(***************************************************************************)
EXTENDS MCPpu, FiniteSetTheorems, NaturalsInduction, WellFoundedInduction, TLAPS

(* The quotient and the remainder are the only ones within their bounds. *)
LEMMA DivModUnique ==
    ASSUME NEW c \in Nat, NEW h \in Nat \ {0},
           NEW q \in Nat, NEW r \in 0..(h - 1), c = (h * q) + r
    PROVE  c \div h = q /\ c % h = r
  OBVIOUS

(* Accesses come at dots that are whole M-cycles. *)
Aligned ==
    /\ pc = "tick" <=> left # 0
    /\ lcd_on => (dot + left) % 4 = 0

PpuInv == TypeOK /\ Aligned /\ ModeFollowsBeam /\ StatIsCurrent /\ WindowLineBehind

(* The constants, without the products that MaxDraw is made of. *)
LEMMA Numbers ==
    /\ LineDots \in Nat \ {0} /\ ScanDots \in Nat \ {0}
    /\ VisibleLines \in Nat \ {0} /\ Lines \in Nat \ {0}
    /\ BaseDraw \in Nat \ {0} /\ MaxDraw \in Nat /\ HeadStart \in Nat
    /\ LineDots % 4 = 0 /\ ScanDots % 4 = 0 /\ HeadStart % 4 = 0
    /\ 4 <= HeadStart /\ HeadStart < ScanDots
    /\ ScanDots + MaxDraw < LineDots
    /\ VisibleLines < Lines
    /\ BaseDraw <= MaxDraw
  <1>1. /\ BaseDraw \in Nat /\ FineScroll \in Nat /\ Stall \in Nat /\ MaxObjects \in Nat
    BY PpuAssumption
  <1>2. Stall * MaxObjects \in Nat
    BY <1>1
  <1>3. BaseDraw <= MaxDraw
    BY <1>1, <1>2 DEF MaxDraw
  <1> QED BY <1>3, PpuAssumption

(* Whatever is in the way of mode 3, its length stays within the bounds. *)
LEMMA DrawBounds == DrawLengths \subseteq BaseDraw..MaxDraw
  <1> SUFFICES ASSUME NEW f \in 0..FineScroll, NEW w \in {0, Stall}, NEW n \in 0..MaxObjects
               PROVE  BaseDraw + f + w + Stall * n \in BaseDraw..MaxDraw
    BY DEF DrawLengths
  <1>1. /\ BaseDraw \in Nat /\ FineScroll \in Nat /\ Stall \in Nat /\ MaxObjects \in Nat
    BY PpuAssumption
  <1>2. Stall * n \in Nat /\ Stall * n <= Stall * MaxObjects /\ Stall * MaxObjects \in Nat
    <2>1. PICK k \in Nat : MaxObjects = n + k
      BY <1>1
    <2>2. Stall * (n + k) = Stall * n + Stall * k
      BY <1>1, <2>1
    <2>3. Stall * n \in Nat /\ Stall * k \in Nat
      BY <1>1, <2>1
    <2> QED BY <2>1, <2>2, <2>3
  <1>3. 0 <= f /\ f <= FineScroll /\ f \in Nat /\ w \in Nat /\ w <= Stall
    BY <1>1
  <1> HIDE DEF MaxDraw
  <1> DEFINE p == Stall * n
             q == Stall * MaxObjects
  <1>4. p \in Nat /\ q \in Nat /\ p <= q
    BY <1>2
  <1>5. MaxDraw = BaseDraw + FineScroll + Stall + q
    BY DEF MaxDraw
  <1> HIDE DEF p, q
  <1>6. BaseDraw + f + w + p \in BaseDraw..MaxDraw
    BY <1>1, <1>3, <1>4, <1>5
  <1> QED BY <1>6 DEF p

LEMMA InitPpuInv == Init => PpuInv
  <1> SUFFICES ASSUME Init PROVE PpuInv
    OBVIOUS
  <1>1. TypeOK
    <2>1. 0 \in LycValues
      BY PpuAssumption
    <2>2. {} \in SUBSET Sources /\ {"vblank"} \in SUBSET {"vblank", "stat"}
      OBVIOUS
    <2>3. /\ ly \in 0..(Lines - 1) /\ dot \in 0..(LineDots - 1)
          /\ mode3_dots \in BaseDraw..MaxDraw /\ window_line \in 0..VisibleLines
          /\ left \in 0..8
      BY Numbers DEF Init
    <2>4. sources \in SUBSET Sources /\ irq \in SUBSET {"vblank", "stat"} /\ lyc \in LycValues
      BY <2>1, <2>2 DEF Init
    <2> QED BY <2>3, <2>4 DEF Init, TypeOK
  <1>2. Aligned /\ ModeFollowsBeam /\ WindowLineBehind
    BY Numbers DEF Init, Aligned, ModeFollowsBeam, WindowLineBehind
  <1>3. StatIsCurrent
    <2>1. Level(ly, lyc, mode, sources) = FALSE
      BY DEF Init, Level
    <2>2. lyc_bit = (ly = lyc)
      BY DEF Init
    <2>3. ly = 0 /\ mode = "scan" /\ stat_mode = "vblank" /\ stat_line = FALSE
      BY DEF Init
    <2> QED BY <2>1, <2>2, <2>3 DEF StatIsCurrent
  <1> QED BY <1>1, <1>2, <1>3 DEF PpuInv

(* update_stat_line leaves STAT current, whatever was done before it. *)
LEMMA StatUpdated ==
    ASSUME NEW line \in BOOLEAN, NEW others \in SUBSET {"vblank", "stat"},
           irq \in SUBSET {"vblank", "stat"},
           UpdateStatLine(line, others)
    PROVE  /\ lyc_bit' = (ly' = lyc')
           /\ stat_line' = Level(ly, lyc, mode, sources)'
           /\ lyc_bit' \in BOOLEAN
           /\ stat_line' \in BOOLEAN
           /\ irq' \in SUBSET {"vblank", "stat"}
  <1>1. lyc_bit' = (ly' = lyc') /\ stat_line' = Level(ly', lyc', mode', sources')
    BY DEF UpdateStatLine
  <1>2. Level(ly', lyc', mode', sources') \in BOOLEAN
    BY DEF Level
  <1>3. irq' \in SUBSET {"vblank", "stat"}
    BY DEF UpdateStatLine
  <1>4. (ly' = lyc') \in BOOLEAN
    OBVIOUS
  <1> QED BY <1>1, <1>2, <1>3, <1>4

----------------------------------------------------------------------------

(* The parts of the invariant that a dot changes. *)
BeamInv == TypeOK /\ ModeFollowsBeam /\ StatIsCurrent /\ WindowLineBehind

LEMMA StartDrawingKeeps ==
    ASSUME PpuInv, lcd_on, StepDot, StartDrawing, pc' \in {"tick", "access", "between"},
           left' \in 0..8
    PROVE  BeamInv' /\ dot' = dot + 1
  <1>1. /\ stat_line \in BOOLEAN /\ irq \in SUBSET {"vblank", "stat"}
        /\ UpdateStatLine(stat_line, {}) /\ mode' = "drawing" /\ stat_mode' = "drawing"
        /\ UNCHANGED <<lcd_on, sources, lyc, ly, window_line, frame_ready, restart>>
    BY DEF PpuInv, TypeOK, StepDot, StartDrawing, SetMode
  <1>2. /\ lyc_bit' = (ly' = lyc') /\ stat_line' = Level(ly, lyc, mode, sources)'
        /\ lyc_bit' \in BOOLEAN /\ stat_line' \in BOOLEAN
        /\ irq' \in SUBSET {"vblank", "stat"}
    BY <1>1, StatUpdated, {} \in SUBSET {"vblank", "stat"}
  <1>3. StatIsCurrent'
    BY <1>1, <1>2 DEF StatIsCurrent
  <1>4. mode3_dots' \in BaseDraw..MaxDraw /\ dot' = dot + 1 /\ dot' = ScanDots
        /\ ly < VisibleLines /\ ly \in Nat
    BY DrawBounds, Numbers DEF PpuInv, TypeOK, StartDrawing
  <1>5. TypeOK'
    BY <1>1, <1>2, <1>4, Numbers DEF PpuInv, TypeOK
  <1>6. ModeFollowsBeam'
    <2>1. restart => ly = 0
      BY DEF PpuInv, ModeFollowsBeam
    <2> QED BY <2>1, <1>1, <1>4, Numbers DEF ModeFollowsBeam
  <1>7. WindowLineBehind'
    BY <1>1, <1>4, Numbers DEF PpuInv, TypeOK, ModeFollowsBeam, WindowLineBehind
  <1> QED BY <1>3, <1>4, <1>5, <1>6, <1>7 DEF BeamInv

LEMMA EndDrawingKeeps ==
    ASSUME PpuInv, lcd_on, StepDot, EndDrawing, pc' \in {"tick", "access", "between"},
           left' \in 0..8
    PROVE  BeamInv' /\ dot' = dot + 1
  <1>1. /\ stat_line \in BOOLEAN /\ irq \in SUBSET {"vblank", "stat"}
        /\ UpdateStatLine(stat_line, {}) /\ mode' = "hblank" /\ stat_mode' = "hblank"
        /\ UNCHANGED <<lcd_on, sources, lyc, ly, mode3_dots, frame_ready, restart>>
    BY DEF PpuInv, TypeOK, StepDot, EndDrawing, SetMode
  <1>2. /\ lyc_bit' = (ly' = lyc') /\ stat_line' = Level(ly, lyc, mode, sources)'
        /\ lyc_bit' \in BOOLEAN /\ stat_line' \in BOOLEAN
        /\ irq' \in SUBSET {"vblank", "stat"}
    BY <1>1, StatUpdated, {} \in SUBSET {"vblank", "stat"}
  <1>3. StatIsCurrent'
    BY <1>1, <1>2 DEF StatIsCurrent
  <1>4. /\ dot' = dot + 1 /\ dot' = ScanDots + mode3_dots /\ ly < VisibleLines
        /\ mode3_dots \in BaseDraw..MaxDraw /\ ly \in Nat
        /\ window_line' \in {window_line, window_line + 1}
    BY DEF PpuInv, TypeOK, EndDrawing
  <1>5. window_line <= ly /\ window_line \in Nat
    <2>1. mode = "drawing"
      BY <1>4, Numbers DEF PpuInv, TypeOK, ModeFollowsBeam
    <2> QED BY <2>1, <1>4, Numbers DEF PpuInv, TypeOK, WindowLineBehind
  <1>6. TypeOK'
    BY <1>1, <1>2, <1>4, <1>5, Numbers DEF PpuInv, TypeOK
  <1>7. ModeFollowsBeam'
    BY <1>1, <1>4, Numbers DEF PpuInv, TypeOK, ModeFollowsBeam
  <1>8. WindowLineBehind'
    BY <1>1, <1>4, <1>5, Numbers DEF WindowLineBehind
  <1> QED BY <1>3, <1>4, <1>6, <1>7, <1>8 DEF BeamInv

LEMMA EndLineKeeps ==
    ASSUME PpuInv, lcd_on, StepDot, EndLine, pc' \in {"tick", "access", "between"},
           left' \in 0..8
    PROVE  BeamInv' /\ dot = LineDots - 1 /\ dot' = 0
  <1>1. /\ stat_line \in BOOLEAN /\ irq \in SUBSET {"vblank", "stat"}
        /\ UNCHANGED <<lcd_on, sources, lyc, mode3_dots>>
        /\ restart' = FALSE /\ dot' = 0 /\ ly' = NextLine
        /\ UpdateStatLine(stat_line, {}) \/ UpdateStatLine(stat_line, {"vblank"})
        /\ window_line' = IF ly' = 0 THEN 0 ELSE window_line
        /\ frame_ready' = (frame_ready \/ ly' = VisibleLines)
    BY DEF PpuInv, TypeOK, StepDot, EndLine, EnterLine, SetMode
  <1>2. /\ lyc_bit' = (ly' = lyc') /\ stat_line' = Level(ly, lyc, mode, sources)'
        /\ lyc_bit' \in BOOLEAN /\ stat_line' \in BOOLEAN
        /\ irq' \in SUBSET {"vblank", "stat"}
    BY <1>1, StatUpdated, {} \in SUBSET {"vblank", "stat"}, {"vblank"} \in SUBSET {"vblank", "stat"}
  <1>3. /\ dot = LineDots - 1 /\ ly \in 0..(Lines - 1)
        /\ mode3_dots \in BaseDraw..MaxDraw /\ window_line \in 0..VisibleLines
        /\ ly' = IF ly + 1 >= Lines THEN 0 ELSE ly + 1
    BY <1>1, Numbers DEF PpuInv, TypeOK, EndLine, NextLine
  <1>4. /\ ly' \in 0..(Lines - 1)
        /\ ly' < VisibleLines => mode' = "scan" /\ stat_mode' = "scan"
        /\ ly' = VisibleLines => mode' = "vblank" /\ stat_mode' = "vblank"
        /\ ly' > VisibleLines => UNCHANGED <<mode, stat_mode>> /\ ly' = ly + 1
    <2>1. ly' \in 0..(Lines - 1)
      BY <1>3, Numbers
    <2>2. \/ ly' < VisibleLines /\ mode' = "scan" /\ stat_mode' = "scan"
          \/ ly' = VisibleLines /\ mode' = "vblank" /\ stat_mode' = "vblank"
          \/ ly' > VisibleLines /\ UNCHANGED <<mode, stat_mode>>
      BY <1>1 DEF EndLine, EnterLine, SetMode
    <2> QED BY <2>1, <2>2, <1>3, Numbers
  <1>5. ModeFollowsBeam'
    <2>1. ly' > VisibleLines => mode = "vblank"
      BY <1>3, <1>4, Numbers DEF PpuInv, ModeFollowsBeam
    <2> QED BY <2>1, <1>1, <1>4, Numbers DEF ModeFollowsBeam
  <1>6. StatIsCurrent'
    <2>1. stat_mode' = mode'
      <3>1. ly' > VisibleLines => stat_mode = mode
        BY <1>3, <1>4, Numbers DEF PpuInv, TypeOK, StatIsCurrent
      <3> QED BY <3>1, <1>4, Numbers
    <2> QED BY <2>1, <1>2 DEF StatIsCurrent
  <1>7. window_line <= IF ly >= VisibleLines THEN VisibleLines ELSE ly + 1
    BY <1>3, Numbers DEF PpuInv, WindowLineBehind
  <1>8. window_line' \in 0..VisibleLines /\ WindowLineBehind'
    BY <1>1, <1>3, <1>4, <1>7, Numbers DEF WindowLineBehind
  <1>9. TypeOK'
    <2>1. mode' \in {"scan", "drawing", "hblank", "vblank"}
          /\ stat_mode' \in {"scan", "drawing", "hblank", "vblank"}
      BY <1>3, <1>4, Numbers DEF PpuInv, TypeOK
    <2>2. frame_ready' \in BOOLEAN
      BY <1>1
    <2>3. /\ UNCHANGED <<lcd_on, sources, lyc, mode3_dots>> /\ dot' \in 0..(LineDots - 1)
          /\ restart' \in BOOLEAN
      <3>1. UNCHANGED <<lcd_on, sources, lyc, mode3_dots>>
        BY DEF StepDot, EndLine
      <3>2. dot' = 0 /\ restart' = FALSE
        BY DEF EndLine
      <3>3. 0 \in 0..(LineDots - 1)
        BY Numbers
      <3> QED BY ONLY <3>1, <3>2, <3>3
    <2>4. TypeOK /\ pc' \in {"tick", "access", "between"} /\ left' \in 0..8
      BY DEF PpuInv
    <2>5. ly' \in 0..(Lines - 1) /\ window_line' \in 0..VisibleLines
      BY <1>4, <1>8
    <2> QED BY ONLY <2>1, <2>2, <2>3, <2>4, <2>5, <1>2 DEF TypeOK
  <1> QED BY <1>1, <1>3, <1>5, <1>6, <1>8, <1>9 DEF BeamInv

LEMMA OtherDotKeeps ==
    ASSUME PpuInv, lcd_on, StepDot, OtherDot, pc' \in {"tick", "access", "between"},
           left' \in 0..8
    PROVE  BeamInv' /\ dot' = dot + 1
  <1>1. /\ UNCHANGED <<lcd_on, ly, mode, mode3_dots, window_line, restart, statVars, frame_ready,
                       irq, sources, lyc>>
        /\ dot' = dot + 1 /\ dot \in Nat /\ ly \in Nat /\ dot' < LineDots
        /\ mode3_dots \in BaseDraw..MaxDraw
        /\ ly < VisibleLines => dot' # ScanDots /\ dot' # ScanDots + mode3_dots
    BY Numbers DEF PpuInv, TypeOK, StepDot, OtherDot
  <1>2. TypeOK'
    <2>1. UNCHANGED <<lcd_on, ly, mode, mode3_dots, window_line, restart, lyc_bit, stat_mode,
                      stat_line, frame_ready, irq, sources, lyc>>
      BY <1>1 DEF statVars
    <2>2. dot' \in 0..(LineDots - 1)
      BY <1>1, Numbers
    <2>3. pc' \in {"tick", "access", "between"} /\ left' \in 0..8
      OBVIOUS
    <2>4. TypeOK
      BY DEF PpuInv
    <2> QED BY ONLY <2>1, <2>2, <2>3, <2>4 DEF TypeOK
  <1>3. ModeFollowsBeam'
    BY <1>1, Numbers DEF PpuInv, ModeFollowsBeam
  <1>4. StatIsCurrent'
    <2>1. /\ lyc_bit = (ly = lyc)
          /\ stat_mode = mode \/ (stat_mode = "vblank" /\ mode = "scan" /\ ly = 0)
          /\ stat_line = Level(ly, lyc, mode, sources)
      BY DEF PpuInv, StatIsCurrent
    <2>3. UNCHANGED <<lyc_bit, stat_mode, stat_line, ly, lyc, mode, sources>>
      BY <1>1 DEF statVars
    <2>4. Level(ly, lyc, mode, sources)' = Level(ly, lyc, mode, sources)
      BY <2>3
    <2> QED BY <2>1, <2>3, <2>4 DEF StatIsCurrent
  <1>5. WindowLineBehind'
    BY <1>1, Numbers DEF PpuInv, TypeOK, WindowLineBehind
  <1> QED BY <1>1, <1>2, <1>3, <1>4, <1>5 DEF BeamInv

----------------------------------------------------------------------------

LEMMA DotTickKeeps ==
    ASSUME PpuInv, DotTick
    PROVE  PpuInv'
  <1>1. /\ pc = "tick" /\ left \in 1..8 /\ left' = left - 1
        /\ pc' = IF left' = 0 THEN "access" ELSE "tick"
    BY DEF PpuInv, TypeOK, Aligned, DotTick
  <1>2. pc' \in {"tick", "access", "between"} /\ left' \in 0..8
    BY <1>1
  <1>3. CASE lcd_on /\ StepDot
    <2>1. BeamInv' /\ (dot' = dot + 1 \/ (dot = LineDots - 1 /\ dot' = 0))
      BY <1>2, <1>3, StartDrawingKeeps, EndDrawingKeeps, EndLineKeeps, OtherDotKeeps DEF StepDot
    <2>2. (dot + left) % 4 = 0 /\ dot \in Nat /\ lcd_on' = lcd_on
      BY <1>3 DEF PpuInv, TypeOK, Aligned, StepDot
    <2>3. (dot' + left') % 4 = 0
      BY <1>1, <2>1, <2>2, Numbers
    <2>4. Aligned'
      BY <1>1, <2>3 DEF Aligned
    <2> QED BY <2>1, <2>4 DEF BeamInv, PpuInv
  <1>4. CASE ~lcd_on /\ UNCHANGED <<beamVars, statVars, sources, lyc, frame_ready, irq>>
    <2>1. TypeOK'
      BY <1>2, <1>4 DEF PpuInv, TypeOK, beamVars, statVars
    <2>2. Aligned'
      BY <1>1, <1>4 DEF Aligned, beamVars
    <2>3. ModeFollowsBeam' /\ StatIsCurrent' /\ WindowLineBehind'
      BY <1>4 DEF PpuInv, ModeFollowsBeam, StatIsCurrent, WindowLineBehind, beamVars
    <2> QED BY <2>1, <2>2, <2>3 DEF PpuInv
  <1> QED BY <1>3, <1>4 DEF DotTick

LEMMA BusTickKeeps ==
    ASSUME PpuInv, NEW n \in {4, 8}, BusTick(n)
    PROVE  PpuInv'
  <1>1. /\ UNCHANGED <<beamVars, statVars, sources, lyc, frame_ready, irq>>
        /\ pc \in {"access", "between"} /\ pc' = "tick" /\ left' = n
    BY DEF BusTick
  <1>2. Aligned'
    <2>1. left = 0 /\ dot \in Nat /\ lcd_on => dot % 4 = 0
      BY <1>1 DEF PpuInv, TypeOK, Aligned
    <2> QED BY <1>1, <2>1 DEF PpuInv, TypeOK, Aligned, beamVars
  <1>3. TypeOK'
    BY <1>1 DEF PpuInv, TypeOK, beamVars, statVars
  <1>4. ModeFollowsBeam' /\ WindowLineBehind'
    BY <1>1 DEF PpuInv, ModeFollowsBeam, WindowLineBehind, beamVars
  <1>5. StatIsCurrent'
    BY <1>1 DEF PpuInv, StatIsCurrent, Level, beamVars, statVars
  <1> QED BY <1>2, <1>3, <1>4, <1>5 DEF PpuInv

(* Writes to IF and taking the frame touch none of it. *)
LEMMA OutsideKeeps ==
    ASSUME PpuInv, WriteIf \/ TakeFrame \/ UNCHANGED vars
    PROVE  PpuInv'
  <1>1. /\ UNCHANGED <<lcd_on, ly, dot, mode, mode3_dots, window_line, restart, lyc_bit, stat_mode,
                       stat_line, sources, lyc, left>>
        /\ irq' \in SUBSET {"vblank", "stat"} /\ frame_ready' \in BOOLEAN
        /\ pc' \in {"tick", "access", "between"} /\ (pc' = "tick" <=> pc = "tick")
    BY DEF PpuInv, TypeOK, WriteIf, TakeFrame, vars, beamVars, statVars
  <1>2. TypeOK' /\ Aligned'
    BY <1>1 DEF PpuInv, TypeOK, Aligned
  <1>3. ModeFollowsBeam' /\ WindowLineBehind'
    BY <1>1 DEF PpuInv, ModeFollowsBeam, WindowLineBehind
  <1>4. StatIsCurrent'
    BY <1>1 DEF PpuInv, StatIsCurrent, Level
  <1> QED BY <1>2, <1>3, <1>4 DEF PpuInv

LEMMA SwitchKeeps ==
    ASSUME PpuInv, Access, TurnOff \/ TurnOn
    PROVE  PpuInv'
  <1>1. /\ pc = "access" /\ pc' = "between" /\ left' = left /\ left = 0
        /\ UNCHANGED <<mode3_dots, sources, lyc, frame_ready>>
        /\ ly' = 0 /\ window_line' = 0 /\ mode' = "hblank" /\ stat_mode' = "hblank"
        /\ mode3_dots \in BaseDraw..MaxDraw /\ irq \in SUBSET {"vblank", "stat"}
        /\ sources \in SUBSET Sources /\ lyc \in LycValues /\ frame_ready \in BOOLEAN
        /\ lyc_bit \in BOOLEAN
    BY DEF PpuInv, TypeOK, Aligned, Access, TurnOff, TurnOn
  <1>2. CASE TurnOff
    <2>1. lcd_on' = FALSE /\ dot' = 0 /\ stat_line' = FALSE /\ restart' = FALSE
          /\ lyc_bit' = lyc_bit /\ irq' = irq
      BY <1>2 DEF TurnOff
    <2>2. TypeOK'
      <3>1. ly' \in 0..(Lines - 1) /\ dot' \in 0..(LineDots - 1) /\ window_line' \in 0..VisibleLines
            /\ left' \in 0..8
        BY <1>1, <2>1, Numbers
      <3> QED BY ONLY <3>1, <1>1, <2>1 DEF TypeOK
    <2>3. Aligned' /\ ModeFollowsBeam' /\ StatIsCurrent' /\ WindowLineBehind'
      BY <1>1, <2>1, Numbers DEF Aligned, ModeFollowsBeam, StatIsCurrent, WindowLineBehind
    <2> QED BY <2>2, <2>3 DEF PpuInv
  <1>3. CASE TurnOn
    <2>1. lcd_on' = TRUE /\ dot' = HeadStart /\ restart' = TRUE /\ UpdateStatLine(FALSE, {})
      BY <1>3 DEF TurnOn
    <2>2. /\ lyc_bit' = (ly' = lyc') /\ stat_line' = Level(ly, lyc, mode, sources)'
          /\ lyc_bit' \in BOOLEAN /\ stat_line' \in BOOLEAN
          /\ irq' \in SUBSET {"vblank", "stat"}
      BY <1>1, <2>1, StatUpdated, {} \in SUBSET {"vblank", "stat"}, FALSE \in BOOLEAN
    <2>3. TypeOK'
      BY <1>1, <2>1, <2>2, Numbers DEF TypeOK
    <2>4. Aligned' /\ ModeFollowsBeam' /\ WindowLineBehind'
      BY <1>1, <2>1, Numbers DEF Aligned, ModeFollowsBeam, WindowLineBehind
    <2>5. StatIsCurrent'
      BY <1>1, <2>2 DEF StatIsCurrent
    <2> QED BY <2>3, <2>4, <2>5 DEF PpuInv
  <1> QED BY <1>2, <1>3

LEMMA WriteKeeps ==
    ASSUME PpuInv, Access, WriteStat \/ WriteLyc
    PROVE  PpuInv'
  <1>1. /\ pc' = "between" /\ pc = "access" /\ left' = left
        /\ UNCHANGED <<lcd_on, ly, dot, mode, mode3_dots, window_line, restart, stat_mode, frame_ready>>
        /\ sources' \in SUBSET Sources /\ lyc' \in LycValues
        /\ UpdateStatLine(stat_line, {})
        /\ stat_line \in BOOLEAN /\ irq \in SUBSET {"vblank", "stat"}
    BY DEF PpuInv, TypeOK, Access, WriteStat, WriteLyc, beamVars
  <1>2. /\ lyc_bit' = (ly' = lyc') /\ stat_line' = Level(ly, lyc, mode, sources)'
        /\ lyc_bit' \in BOOLEAN /\ stat_line' \in BOOLEAN
        /\ irq' \in SUBSET {"vblank", "stat"}
    BY <1>1, StatUpdated, {} \in SUBSET {"vblank", "stat"}
  <1>3. TypeOK' /\ Aligned'
    BY <1>1, <1>2 DEF PpuInv, TypeOK, Aligned
  <1>4. ModeFollowsBeam' /\ WindowLineBehind'
    BY <1>1 DEF PpuInv, ModeFollowsBeam, WindowLineBehind
  <1>5. StatIsCurrent'
    <2>1. lcd_on => stat_mode = mode \/ (stat_mode = "vblank" /\ mode = "scan" /\ ly = 0)
      BY DEF PpuInv, StatIsCurrent
    <2> QED BY <2>1, <1>1, <1>2 DEF StatIsCurrent
  <1> QED BY <1>3, <1>4, <1>5 DEF PpuInv

LEMMA PpuInvStep == PpuInv /\ [Next]_vars => PpuInv'
  BY BusTickKeeps, DotTickKeeps, OutsideKeeps, SwitchKeeps, WriteKeeps DEF Next, AccessPpu

(* The inductive invariant of the PPU: types, the M-cycle the beam is in, and *)
(* everything the beam decides.                                               *)
THEOREM PpuInvariant == Spec => []PpuInv
  BY InitPpuInv, PpuInvStep, PTL DEF Spec

(* Every variable stays within its type. *)
THEOREM TypeCorrect == Spec => []TypeOK
  <1>1. PpuInv => TypeOK
    BY DEF PpuInv
  <1> QED BY <1>1, PpuInvariant, PTL

(* The mode is what the place of the beam says. *)
THEOREM ModeFollowsBeamHolds == Spec => []ModeFollowsBeam
  <1>1. PpuInv => ModeFollowsBeam
    BY DEF PpuInv
  <1> QED BY <1>1, PpuInvariant, PTL

(* STAT is never stale while the LCD is on. *)
THEOREM StatIsCurrentHolds == Spec => []StatIsCurrent
  <1>1. PpuInv => StatIsCurrent
    BY DEF PpuInv
  <1> QED BY <1>1, PpuInvariant, PTL

(* The window's line is never ahead of the lines rendered. *)
THEOREM WindowLineBehindHolds == Spec => []WindowLineBehind
  <1>1. PpuInv => WindowLineBehind
    BY DEF PpuInv
  <1> QED BY <1>1, PpuInvariant, PTL

(* The OAM bug damages the row the scan is at, and only in a scan or in the  *)
(* line the LCD came on in.                                                  *)
THEOREM OamBugInScanHolds == Spec => []OamBugInScan
  <1>1. PpuInv => OamBugInScan
    <2> SUFFICES ASSUME PpuInv, pc = "access" PROVE
            /\ OamBugWindow => /\ dot = 4 * OamRow
                               /\ OamRow \in 1..(ScanDots \div 4 - 1)
                               /\ mode = IF restart THEN "hblank" ELSE "scan"
            /\ mode = "scan" => OamBugWindow \/ dot = 0
      BY DEF OamBugInScan
    <2>1. left = 0 /\ dot \in Nat /\ (lcd_on => dot % 4 = 0)
      BY DEF PpuInv, TypeOK, Aligned
    <2>2. ASSUME OamBugWindow
          PROVE  dot = 4 * OamRow /\ OamRow \in 1..(ScanDots \div 4 - 1)
      BY <2>1, <2>2, Numbers DEF OamBugWindow, OamRow
    <2>3. ASSUME OamBugWindow PROVE mode = IF restart THEN "hblank" ELSE "scan"
      <3>1. lcd_on /\ ~(ly >= VisibleLines) /\ dot < ScanDots
        BY <2>1, <2>3, Numbers DEF OamBugWindow, PpuInv, TypeOK
      <3>2. ModeFollowsBeam
        BY DEF PpuInv
      <3> QED BY ONLY <3>1, <3>2 DEF ModeFollowsBeam
    <2>4. ASSUME mode = "scan" PROVE OamBugWindow \/ dot = 0
      <3>1. lcd_on /\ ly < VisibleLines /\ dot < ScanDots
        <4>1. ModeFollowsBeam /\ ly \in Nat /\ dot \in Nat /\ mode3_dots \in Nat
          BY Numbers DEF PpuInv, TypeOK
        <4> QED BY ONLY <4>1, <2>4, Numbers DEF ModeFollowsBeam
      <3> QED BY <3>1, <2>1, Numbers DEF OamBugWindow
    <2> QED BY <2>2, <2>3, <2>4
  <1> QED BY <1>1, PpuInvariant, PTL

(* A step that updates the line from the level it had interrupts on a rise.  *)
LEMMA UpdateIsRise ==
    ASSUME NEW line \in BOOLEAN, NEW others \in SUBSET {"vblank"},
           UpdateStatLine(line, others), lcd_on', line <=> High
    PROVE  /\ "stat" \in irq' \ irq => ~High /\ High'
           /\ ~High /\ High' => "stat" \in irq'
  <1>1. High' <=> Level(ly', lyc', mode', sources')
    BY DEF High
  <1>2. Level(ly', lyc', mode', sources') \in BOOLEAN
    BY DEF Level
  <1>3. /\ stat_line' = Level(ly', lyc', mode', sources')
        /\ irq' = irq \cup others \cup (IF stat_line' /\ ~line THEN {"stat"} ELSE {})
    BY DEF UpdateStatLine
  <1>4. CASE High' /\ ~High
    <2>1. irq' = irq \cup others \cup {"stat"}
      BY <1>1, <1>2, <1>3, <1>4
    <2> QED BY <2>1, <1>4
  <1>5. CASE ~(High' /\ ~High)
    <2>1. irq' = irq \cup others
      BY <1>1, <1>2, <1>3, <1>5
    <2>2. "stat" \notin others
      OBVIOUS
    <2> QED BY <2>1, <2>2, <1>5
  <1> QED BY <1>4, <1>5

LEMMA StepOnRise ==
    PpuInv /\ [Next]_vars /\ ~WriteIf /\ lcd_on' =>
        /\ "stat" \in irq' \ irq => ~High /\ High'
        /\ ~High /\ High' => "stat" \in irq'
  <1> SUFFICES ASSUME PpuInv, [Next]_vars, ~WriteIf, lcd_on'
               PROVE  /\ "stat" \in irq' \ irq => ~High /\ High'
                      /\ ~High /\ High' => "stat" \in irq'
    OBVIOUS
  <1>1. stat_line \in BOOLEAN /\ {} \in SUBSET {"vblank"} /\ {"vblank"} \in SUBSET {"vblank"}
    BY DEF PpuInv, TypeOK
  <1>2. lcd_on => (stat_line <=> High)
    BY DEF PpuInv, StatIsCurrent, High
  <1>3. CASE /\ UNCHANGED <<lcd_on, ly, lyc, mode, sources>>
             /\ irq' = irq
    BY <1>3 DEF High
  <1>4. CASE /\ lcd_on
             /\ UpdateStatLine(stat_line, {}) \/ UpdateStatLine(stat_line, {"vblank"})
    BY <1>1, <1>2, <1>4, UpdateIsRise
  <1>5. CASE ~lcd_on /\ UpdateStatLine(FALSE, {})
    <2>1. FALSE <=> High
      BY <1>5 DEF High
    <2> QED BY <1>1, <1>5, <2>1, UpdateIsRise
  <1>6. CASE BusTick(4) \/ BusTick(8) \/ TakeFrame \/ UNCHANGED vars
    BY <1>3, <1>6 DEF BusTick, TakeFrame, vars, beamVars
  <1>7. CASE DotTick
    <2>1. CASE lcd_on /\ StepDot
      <3>1. CASE OtherDot
        BY <1>3, <2>1, <3>1 DEF StepDot, OtherDot
      <3>2. CASE StartDrawing \/ EndDrawing \/ EndLine
        BY <1>4, <2>1, <3>2 DEF StartDrawing, EndDrawing, EndLine, EnterLine, SetMode
      <3> QED BY <2>1, <3>1, <3>2 DEF StepDot
    <2>2. CASE ~lcd_on /\ UNCHANGED beamVars
      BY <2>2 DEF beamVars
    <2> QED BY <1>7, <2>1, <2>2 DEF DotTick
  <1>8. CASE AccessPpu
    <2>1. CASE TurnOff
      BY <2>1 DEF TurnOff
    <2>2. CASE TurnOn
      BY <1>5, <2>2 DEF TurnOn
    <2>3. CASE WriteStat \/ WriteLyc
      <3>1. UpdateStatLine(stat_line, {}) /\ lcd_on' = lcd_on
        BY <2>3 DEF WriteStat, WriteLyc, beamVars
      <3> QED BY <1>4, <3>1
    <2> QED BY <1>8, <2>1, <2>2, <2>3 DEF AccessPpu
  <1> QED BY <1>6, <1>7, <1>8 DEF Next

(* STAT interrupts when the OR of its sources rises, and only then. *)
THEOREM StatOnRiseHolds == Spec => StatOnRise
  <1>1. PpuInv /\ [Next]_vars =>
          [~WriteIf /\ lcd_on' =>
              /\ "stat" \in irq' \ irq => ~High /\ High'
              /\ ~High /\ High' => "stat" \in irq']_vars
    BY StepOnRise
  <1> QED BY <1>1, PpuInvariant, PTL DEF Spec, StatOnRise

----------------------------------------------------------------------------

(* The place of the beam, as one number and as a line and a dot. *)
LEMMA BeamPlace ==
    ASSUME NEW l \in Nat, NEW d \in 0..(LineDots - 1)
    PROVE  /\ l * LineDots + d \in Nat
           /\ (l * LineDots + d) \div LineDots = l
           /\ (l * LineDots + d) % LineDots = d
  <1> DEFINE c == l * LineDots + d
  <1>1. LineDots \in Nat \ {0} /\ d \in Nat
    BY Numbers
  <1>2. l * LineDots = LineDots * l /\ LineDots * l \in Nat
    BY <1>1
  <1>3. c \in Nat /\ c = (LineDots * l) + d
    BY <1>1, <1>2
  <1> HIDE DEF c
  <1>4. c \div LineDots = l /\ c % LineDots = d
    BY <1>1, <1>3, DivModUnique
  <1> QED BY <1>3, <1>4 DEF c

LEMMA Small ==
    ASSUME NEW n \in Nat \ {0}, NEW c \in 0..(n - 1)
    PROVE  c % n = c
  OBVIOUS

LEMMA BeamNext ==
    ASSUME NEW l \in 0..(Lines - 1), NEW d \in 0..(LineDots - 1)
    PROVE  /\ d + 1 < LineDots =>
                 (l * LineDots + d + 1) % (Lines * LineDots) = l * LineDots + (d + 1)
           /\ d + 1 = LineDots /\ l + 1 < Lines =>
                 (l * LineDots + d + 1) % (Lines * LineDots) = (l + 1) * LineDots
           /\ d + 1 = LineDots /\ l + 1 = Lines =>
                 (l * LineDots + d + 1) % (Lines * LineDots) = 0
  <1> DEFINE p == l * LineDots
             n == Lines * LineDots
  <1>1. LineDots \in Nat \ {0} /\ Lines \in Nat \ {0} /\ l \in Nat /\ d \in Nat
    BY Numbers
  <1>2. PICK k \in Nat : Lines = l + 1 + k
    <2>1. Lines - 1 - l \in Nat /\ Lines = l + 1 + (Lines - 1 - l)
      BY <1>1
    <2> QED BY <2>1
  <1> DEFINE q == k * LineDots
  <1>3. n = p + LineDots + q /\ p \in Nat /\ q \in Nat /\ n \in Nat \ {0}
    <2>1. (l + 1 + k) * LineDots = l * LineDots + LineDots + k * LineDots
      BY <1>1, <1>2
    <2>2. p \in Nat /\ q \in Nat
      BY <1>1, <1>2
    <2> HIDE DEF p, q
    <2>3. n = p + LineDots + q
      BY <2>1, <1>2 DEF p, q
    <2> HIDE DEF n
    <2> QED BY <2>2, <2>3, <1>1
  <1>4. (l + 1) * LineDots = p + LineDots
    BY <1>1
  <1>5. k # 0 => q >= LineDots
    <2> SUFFICES ASSUME k # 0 PROVE q >= LineDots
      OBVIOUS
    <2>1. PICK j \in Nat : k = j + 1
      <3>1. k - 1 \in Nat /\ k = (k - 1) + 1
        BY <1>2
      <3> QED BY <3>1
    <2>2. (j + 1) * LineDots = j * LineDots + LineDots /\ j * LineDots \in Nat
      BY <1>1, <2>1
    <2> QED BY <1>1, <2>1, <2>2
  <1> HIDE DEF p, n, q
  <1>6. ASSUME d + 1 < LineDots PROVE (p + d + 1) % n = p + (d + 1)
    <2>1. p + d + 1 \in 0..(n - 1) /\ p + d + 1 = p + (d + 1)
      BY <1>1, <1>3, <1>6
    <2> QED BY <2>1, <1>3, Small
  <1>7. ASSUME d + 1 = LineDots, l + 1 < Lines PROVE (p + d + 1) % n = p + LineDots
    <2>1. p + d + 1 = p + LineDots /\ p + LineDots \in 0..(n - 1)
      BY <1>1, <1>2, <1>3, <1>5, <1>7
    <2> QED BY <2>1, <1>3, Small
  <1>8. ASSUME d + 1 = LineDots, l + 1 = Lines PROVE (p + d + 1) % n = 0
    <2>1. k = 0
      BY <1>1, <1>2, <1>8
    <2>2. q = 0
      BY <2>1, <1>1 DEF q
    <2>3. p + d + 1 = n
      BY <1>1, <1>3, <1>8, <2>2
    <2>4. n % n = 0
      BY <1>3
    <2> QED BY <2>3, <2>4
  <1> QED BY <1>4, <1>6, <1>7, <1>8 DEF p, n

(* The mode after a dot of a visible line is one that Screen allows there.    *)
LEMMA ModeAllowed ==
    ASSUME PpuInv, lcd_on, StepDot, ly' < VisibleLines
    PROVE  mode' \in Beam!ModesAt(dot', mode)
  <1>1. /\ dot \in 0..(LineDots - 1) /\ ly \in Nat /\ mode3_dots \in BaseDraw..MaxDraw
        /\ ModeFollowsBeam
    BY DEF PpuInv, TypeOK
  <1>2. CASE StartDrawing
    <2>1. dot' = ScanDots /\ mode' = "drawing"
      BY <1>2 DEF StartDrawing, SetMode
    <2> QED BY <2>1, Numbers DEF Beam!ModesAt
  <1>3. CASE EndDrawing
    <2>1. dot' = ScanDots + mode3_dots /\ mode' = "hblank"
      BY <1>3 DEF EndDrawing, SetMode
    <2> QED BY <2>1, <1>1, Numbers DEF Beam!ModesAt
  <1>4. CASE EndLine
    <2>1. dot' = 0 /\ EnterLine(NextLine) /\ ly' = NextLine /\ NextLine \in Nat
      BY <1>1, <1>4, Numbers DEF EndLine, EnterLine, NextLine
    <2>2. ly' < VisibleLines
      OBVIOUS
    <2>3. NextLine < VisibleLines
      BY <2>1, <2>2
    <2>4. mode' = "scan"
      BY <2>1, <2>3, Numbers DEF EnterLine, SetMode
    <2>5. Beam!ModesAt(0, mode) = {"scan"}
      BY Numbers DEF Beam!ModesAt
    <2> QED BY <2>1, <2>4, <2>5
  <1>5. CASE OtherDot
    <2>1. /\ dot' = dot + 1 /\ ly' = ly /\ mode' = mode /\ dot' < LineDots
          /\ dot' # ScanDots /\ dot' # ScanDots + mode3_dots
      BY <1>1, <1>5 DEF OtherDot
    <2>2. CASE dot' < ScanDots
      BY <2>1, <2>2, <1>1, Numbers DEF Beam!ModesAt
    <2>3. CASE dot' >= ScanDots /\ dot' < ScanDots + mode3_dots
      <3>1. mode = "drawing"
        BY <2>1, <2>3, <1>1, Numbers DEF ModeFollowsBeam
      <3> QED BY <2>1, <2>3, <3>1, <1>1, Numbers DEF Beam!ModesAt
    <2>4. CASE dot' > ScanDots + mode3_dots
      <3>1. mode = "hblank"
        BY <2>1, <2>4, <1>1, Numbers DEF ModeFollowsBeam
      <3> QED BY <2>1, <2>4, <3>1, <1>1, Numbers DEF Beam!ModesAt
    <2> QED BY <2>1, <2>2, <2>3, <2>4, <1>1, Numbers
  <1> QED BY <1>2, <1>3, <1>4, <1>5 DEF StepDot

(* A frame and its interrupt come with the line after the visible ones.       *)
LEMMA FrameCompletes ==
    ASSUME PpuInv, lcd_on, StepDot
    PROVE  /\ ly' = VisibleLines /\ dot' = 0 => frame_ready' = TRUE /\ "vblank" \in irq'
           /\ ~(ly' = VisibleLines /\ dot' = 0) =>
                 frame_ready' = frame_ready /\ ("vblank" \in irq' <=> "vblank" \in irq)
  <1>1. frame_ready \in BOOLEAN /\ dot \in Nat /\ irq \in SUBSET {"vblank", "stat"}
    BY DEF PpuInv, TypeOK
  <1>2. CASE StartDrawing \/ EndDrawing
    <2>1. dot' # 0 /\ frame_ready' = frame_ready /\ UpdateStatLine(stat_line, {})
      BY <1>1, <1>2 DEF StartDrawing, EndDrawing, SetMode
    <2>2. "vblank" \in irq' <=> "vblank" \in irq
      BY <2>1 DEF UpdateStatLine
    <2> QED BY <2>1, <2>2
  <1>3. CASE EndLine
    <2>1. dot' = 0 /\ ly' = NextLine /\ frame_ready' = (frame_ready \/ ly' = VisibleLines)
      BY <1>3 DEF EndLine, EnterLine
    <2>2. CASE ly' = VisibleLines
      <3>1. UpdateStatLine(stat_line, {"vblank"})
        BY <1>3, <2>1, <2>2, Numbers DEF EndLine, EnterLine, SetMode
      <3>2. "vblank" \in irq'
        BY <3>1 DEF UpdateStatLine
      <3> QED BY <2>1, <2>2, <3>2
    <2>3. CASE ly' # VisibleLines
      <3>1. UpdateStatLine(stat_line, {})
        BY <1>3, <2>1, <2>3, Numbers DEF EndLine, EnterLine, SetMode
      <3>2. "vblank" \in irq' <=> "vblank" \in irq
        BY <3>1 DEF UpdateStatLine
      <3> QED BY <1>1, <2>1, <2>3, <3>2
    <2> QED BY <2>2, <2>3
  <1>4. CASE OtherDot
    BY <1>1, <1>4 DEF OtherDot
  <1> QED BY <1>2, <1>3, <1>4 DEF StepDot

(* A dot moves the beam by one place. *)
LEMMA DotMoves ==
    ASSUME PpuInv, PpuInv', lcd_on, StepDot
    PROVE  Beam!Move
  <1> DEFINE place == ly * LineDots + dot
  <1>1. /\ ly \in 0..(Lines - 1) /\ dot \in 0..(LineDots - 1)
        /\ ly' \in 0..(Lines - 1) /\ dot' \in 0..(LineDots - 1)
        /\ ly' \in Nat
    BY Numbers DEF PpuInv, TypeOK
  <1>2. \/ dot + 1 < LineDots /\ ly' = ly /\ dot' = dot + 1
        \/ dot + 1 = LineDots /\ ly + 1 < Lines /\ ly' = ly + 1 /\ dot' = 0
        \/ dot + 1 = LineDots /\ ly + 1 = Lines /\ ly' = 0 /\ dot' = 0
    <2>1. CASE StartDrawing \/ EndDrawing \/ OtherDot
      <3>1. ly' = ly /\ dot' = dot + 1
        BY <2>1 DEF StartDrawing, EndDrawing, OtherDot
      <3> QED BY <3>1, <1>1, Numbers
    <2>2. CASE EndLine
      BY <2>2, <1>1, Numbers DEF EndLine, EnterLine, NextLine
    <2> QED BY <2>1, <2>2 DEF StepDot
  <1>3. place' = (place + 1) % (Lines * LineDots)
    <2>1. place + 1 = ly * LineDots + dot + 1
      BY <1>1, Numbers
    <2>2. 0 * LineDots + 0 = 0 /\ (ly + 1) * LineDots + 0 = (ly + 1) * LineDots
      BY <1>1, Numbers
    <2> QED BY <2>1, <2>2, <1>1, <1>2, BeamNext
  <1>4. place' \div LineDots = ly' /\ place' % LineDots = dot'
    BY <1>1, BeamPlace
  <1>5. place' = VisibleLines * LineDots <=> ly' = VisibleLines /\ dot' = 0
    <2>1. ASSUME ly' = VisibleLines, dot' = 0 PROVE place' = VisibleLines * LineDots
      BY <2>1, Numbers
    <2>2. ASSUME place' = VisibleLines * LineDots PROVE ly' = VisibleLines /\ dot' = 0
      <3>1. VisibleLines \in Nat /\ 0 \in 0..(LineDots - 1)
            /\ VisibleLines * LineDots + 0 = VisibleLines * LineDots
        BY Numbers
      <3>2. (VisibleLines * LineDots) \div LineDots = VisibleLines
            /\ (VisibleLines * LineDots) % LineDots = 0
        BY <3>1, BeamPlace
      <3> QED BY <2>2, <3>2, <1>4
    <2> QED BY <2>1, <2>2
  <1>6. mode' \in IF ly' < VisibleLines THEN Beam!ModesAt(dot', mode) ELSE {"vblank"}
    <2>1. ly' >= VisibleLines => mode' = "vblank"
      <3>1. ModeFollowsBeam' /\ lcd_on'
        BY DEF PpuInv, StepDot
      <3> QED BY <3>1, <1>1, Numbers DEF ModeFollowsBeam
    <2> QED BY <2>1, <1>1, ModeAllowed, Numbers
  <1>7. /\ frame_ready' = (frame_ready \/ place' = VisibleLines * LineDots)
        /\ ("vblank" \in irq') = ("vblank" \in irq \/ place' = VisibleLines * LineDots)
    <2>1. frame_ready \in BOOLEAN
      BY DEF PpuInv, TypeOK
    <2>2. CASE ly' = VisibleLines /\ dot' = 0
      <3>1. place' = VisibleLines * LineDots
        BY <1>5, <2>2
      <3>2. frame_ready' = TRUE /\ "vblank" \in irq'
        BY <2>2, FrameCompletes
      <3> QED BY <3>1, <3>2
    <2>3. CASE ~(ly' = VisibleLines /\ dot' = 0)
      <3>1. place' # VisibleLines * LineDots
        BY <1>5, <2>3
      <3>2. frame_ready' = frame_ready /\ ("vblank" \in irq' <=> "vblank" \in irq)
        BY <2>3, FrameCompletes
      <3> HIDE DEF place
      <3> QED BY <3>1, <3>2, <2>1
    <2> QED BY <2>2, <2>3
  <1>8. lcd_on' = lcd_on
    BY DEF StepDot
  <1> QED BY <1>3, <1>4, <1>6, <1>7, <1>8 DEF Beam!Move

LEMMA StepRefines == PpuInv /\ PpuInv' /\ [Next]_vars => [Beam!Next]_(Beam!vars)
  <1> SUFFICES ASSUME PpuInv, PpuInv', [Next]_vars PROVE [Beam!Next]_(Beam!vars)
    OBVIOUS
  <1>0. frame_ready \in BOOLEAN /\ ("vblank" \in irq) \in BOOLEAN
    BY DEF PpuInv, TypeOK
  <1>1. CASE UNCHANGED <<beamVars, frame_ready>> /\ ("vblank" \in irq' <=> "vblank" \in irq)
    BY <1>1 DEF beamVars, Beam!vars
  <1>2. CASE BusTick(4) \/ BusTick(8) \/ UNCHANGED vars
    BY <1>1, <1>2 DEF BusTick, vars
  <1>3. CASE DotTick
    <2>1. CASE lcd_on /\ StepDot
      BY <2>1, DotMoves DEF Beam!Next
    <2>2. CASE ~lcd_on /\ UNCHANGED <<beamVars, frame_ready, irq>>
      BY <1>1, <2>2
    <2> QED BY <1>3, <2>1, <2>2 DEF DotTick
  <1>4. CASE WriteIf \/ TakeFrame
    <2>1. UNCHANGED beamVars /\ frame_ready' \in {frame_ready, FALSE}
      BY <1>4 DEF WriteIf, TakeFrame
    <2>2. ("vblank" \in irq') \in BOOLEAN
      OBVIOUS
    <2> QED BY <2>1, <2>2 DEF beamVars, Beam!Next, Beam!Take
  <1>5. CASE AccessPpu
    <2>1. CASE TurnOff
      <3>1. lcd_on' = FALSE /\ ly' * LineDots + dot' = 0 /\ mode' = "hblank"
            /\ UNCHANGED <<frame_ready, irq>>
        BY <2>1, Numbers DEF TurnOff
      <3> QED BY <3>1 DEF Beam!Next, Beam!TurnOff
    <2>2. CASE TurnOn
      <3>1. ~lcd_on /\ lcd_on' = TRUE /\ ly' * LineDots + dot' = HeadStart
            /\ frame_ready' = frame_ready /\ mode' = "hblank" /\ UpdateStatLine(FALSE, {})
        <4>1. /\ ~lcd_on /\ lcd_on' = TRUE /\ ly' = 0 /\ dot' = HeadStart
              /\ frame_ready' = frame_ready /\ mode' = "hblank" /\ UpdateStatLine(FALSE, {})
          BY <2>2 DEF TurnOn
        <4>2. 0 * LineDots + HeadStart = HeadStart
          BY Numbers
        <4> QED BY <4>1, <4>2
      <3>2. mode = "hblank"
        BY <3>1 DEF PpuInv, ModeFollowsBeam
      <3>3. "vblank" \in irq' <=> "vblank" \in irq
        BY <3>1 DEF UpdateStatLine
      <3> QED BY <3>1, <3>2, <3>3 DEF Beam!Next, Beam!TurnOn
    <2>3. CASE WriteStat \/ WriteLyc
      <3>1. UNCHANGED <<beamVars, frame_ready>> /\ UpdateStatLine(stat_line, {})
        BY <2>3 DEF WriteStat, WriteLyc
      <3>2. "vblank" \in irq' <=> "vblank" \in irq
        BY <3>1 DEF UpdateStatLine
      <3> QED BY <1>1, <3>1, <3>2
    <2> QED BY <1>5, <2>1, <2>2, <2>3 DEF AccessPpu
  <1> QED BY <1>2, <1>3, <1>4, <1>5 DEF Next

(* The dots, lines and modes of the code are the beam of Screen. *)
THEOREM Refinement == Spec => ImplementsScreen
  <1>1. Init => Beam!Init
    <2>1. Init => ly * LineDots + dot = 0
      BY Numbers DEF Init
    <2>2. Init => ("vblank" \in irq) = TRUE
      BY DEF Init
    <2> QED BY <2>1, <2>2 DEF Init, Beam!Init
  <1> QED BY <1>1, StepRefines, PpuInvariant, PTL DEF Spec, ImplementsScreen, Beam!Spec

----------------------------------------------------------------------------
(* What is drawn on a line (Scanline), for every width of the screen, size  *)
(* of the map and the tiles, and number of objects on a line.               *)

(* Sets of naturals have a least member: what stands for induction here.   *)
LEMMA Least ==
    ASSUME NEW T \in SUBSET Nat, T # {}
    PROVE  \E m \in T : \A n \in T : m <= n
  <1> DEFINE R == OpToRel(<, Nat)
  <1>1. IsWellFoundedOn(R, Nat)
    BY NatLessThanWellFounded
  <1>2. PICK m \in T : \A n \in T : ~(<<n, m>> \in R)
    BY <1>1, WFMin
  <1>3. \A n \in T : ~(n < m)
    BY <1>2 DEF OpToRel
  <1> QED BY <1>3

LEMMA DivMod ==
    ASSUME NEW c \in Nat, NEW h \in Nat \ {0}
    PROVE  /\ c \div h \in Nat
           /\ c % h \in 0..(h - 1)
           /\ c = (h * (c \div h)) + (c % h)
  OBVIOUS

(* Inside a tile the next pixel is of the same tile. *)
LEMMA SameQuotient ==
    ASSUME NEW h \in Nat \ {0}, NEW y \in Nat, (y + 1) % h # 0
    PROVE  (y + 1) \div h = y \div h
  <1> DEFINE q == y \div h
             r == y % h
  <1>1. q \in Nat /\ r \in 0..(h - 1) /\ y = (h * q) + r
    BY DivMod
  <1> HIDE DEF q, r
  <1>2. h * q \in Nat /\ h * (q + 1) = h * q + h
    BY <1>1
  <1>3. CASE r = h - 1
    <2>1. y + 1 = (h * (q + 1)) + 0 /\ q + 1 \in Nat /\ 0 \in 0..(h - 1) /\ y + 1 \in Nat
      BY <1>1, <1>2, <1>3
    <2>2. (y + 1) % h = 0
      BY <2>1, DivModUnique
    <2> QED BY <2>2
  <1>4. CASE r # h - 1
    <2>1. y + 1 = (h * q) + (r + 1) /\ r + 1 \in 0..(h - 1) /\ y + 1 \in Nat
      BY <1>1, <1>2, <1>4
    <2>2. (y + 1) \div h = q
      BY <1>1, <2>1, DivModUnique
    <2> QED BY <2>2 DEF q
  <1> QED BY <1>3, <1>4

(* The pixel of the tile that the map has there, on a torus of m tiles. *)
LEMMA TorusPlace ==
    ASSUME NEW t \in Nat \ {0}, NEW m \in Nat \ {0}, NEW u \in Nat
    PROVE  /\ ((u \div t) % m) * t + (u % t) = u % (t * m)
           /\ t * m \in Nat \ {0}
           /\ u < t * m => (u \div t) % m = u \div t /\ (u \div t) * t + (u % t) = u
  <1> DEFINE q == u \div t
             r == u % t
             k == q \div m
             n == q % m
  <1>1. q \in Nat /\ r \in 0..(t - 1) /\ u = (t * q) + r
    BY DivMod
  <1> HIDE DEF q, r
  <1>2. k \in Nat /\ n \in 0..(m - 1) /\ q = (m * k) + n
    BY <1>1, DivMod
  <1> HIDE DEF k, n
  <1>3. t * m \in Nat \ {0}
    BY SMTT(20)
  <1>4. u = ((t * m) * k) + (n * t + r)
    <2>1. t * ((m * k) + n) = ((t * m) * k) + n * t
      BY <1>2, SMTT(20)
    <2> QED BY <1>1, <1>2, <2>1
  <1>5. n * t + r \in 0..(t * m - 1)
    <2>1. t * m = n * t + (m - n) * t
      BY <1>2, SMTT(20)
    <2>2. (m - n) * t = ((m - n) - 1) * t + t /\ ((m - n) - 1) * t \in Nat
      <3> DEFINE a == (m - n) - 1
      <3>1. a \in Nat /\ m - n = a + 1
        BY <1>2
      <3> HIDE DEF a
      <3>2. (a + 1) * t = a * t + t /\ a * t \in Nat
        BY <3>1, SMTT(20)
      <3> QED BY <3>1, <3>2 DEF a
    <2>3. n * t \in Nat
      BY <1>2
    <2> QED BY <1>1, <1>3, <2>1, <2>2, <2>3
  <1>6. u % (t * m) = n * t + r
    BY <1>2, <1>3, <1>4, <1>5, DivModUnique
  <1>7. ASSUME u < t * m PROVE n = q /\ q * t + r = u
    <2>1. q < m
      <3> SUFFICES ASSUME m <= q PROVE FALSE
        BY <1>1
      <3>1. q - m \in Nat
        BY <1>1
      <3>2. t * q = t * m + t * (q - m) /\ t * (q - m) \in Nat
        BY <1>1, <3>1, SMTT(20)
      <3> QED BY <1>1, <1>3, <1>7, <3>2
    <2>2. q = (m * 0) + q /\ q \in 0..(m - 1)
      BY <1>1, <2>1
    <2>3. n = q
      BY <1>1, <2>2, DivModUnique DEF n
    <2> QED BY <1>1, <2>3
  <1> QED BY <1>3, <1>6, <1>7 DEF q, r, n

LEMMA Sizes ==
    /\ Width \in Nat \ {0} /\ TileSize \in Nat \ {0} /\ MapSize \in Nat \ {0}
    /\ LineObjects \in Nat \ {0}
    /\ TileSize * MapSize \in Nat \ {0}
    /\ Width + TileSize <= TileSize * MapSize
  <1>1. /\ Width \in Nat \ {0} /\ TileSize \in Nat \ {0} /\ MapSize \in Nat \ {0}
        /\ LineObjects \in Nat \ {0} /\ Width + TileSize <= MapSize * TileSize
    BY ScanlineAssumption
  <1>2. MapSize * TileSize = TileSize * MapSize /\ TileSize * MapSize \in Nat \ {0}
    BY <1>1, SMTT(20)
  <1> QED BY <1>1, <1>2

(* The pixel drawn at x, counted from the left edge of what it is of. *)
Across(r, x) == IF InWindow(r, x) THEN x + TileSize - 1 - r.wx ELSE r.scx + x

LEMMA AcrossIs ==
    ASSUME NEW r \in Registers, NEW x \in Xs
    PROVE  /\ Across(r, x) \in Nat
           /\ FineX(r, x) = Across(r, x) % TileSize
           /\ Fetch(r, x).window = InWindow(r, x)
           /\ Fetch(r, x).tx = (Across(r, x) \div TileSize) % MapSize
           /\ InWindow(r, x) => Across(r, x) < TileSize * MapSize
  <1>1. r.wx \in Nat /\ r.scx \in Nat /\ x \in Nat /\ x <= Width - 1
    BY Sizes DEF Registers, Xs
  <1>2. Across(r, x) \in Nat
    BY <1>1, Sizes DEF Across, InWindow
  <1>3. InWindow(r, x) => Across(r, x) < TileSize * MapSize
    BY <1>1, Sizes DEF Across
  <1>4. Fetch(r, x).window = InWindow(r, x)
    <2>1. InWindow(r, x) \in BOOLEAN
      BY Zenon DEF InWindow
    <2>2. CASE InWindow(r, x)
      <3>1. Fetch(r, x).window = TRUE
        BY <2>2 DEF Fetch
      <3> QED BY <2>1, <2>2, <3>1, Zenon
    <2>3. CASE ~InWindow(r, x)
      <3>1. Fetch(r, x).window = FALSE
        BY <2>3 DEF Fetch
      <3> QED BY <2>1, <2>3, <3>1, Zenon
    <2> QED BY <2>2, <2>3
  <1>5. FineX(r, x) = Across(r, x) % TileSize
    BY DEF Across, FineX
  <1>6. Fetch(r, x).tx = (Across(r, x) \div TileSize) % MapSize
    BY DEF Across, Fetch
  <1> QED BY <1>2, <1>3, <1>4, <1>5, <1>6

(* The tile that the loop keeps is the one it would fetch. *)
LEMMA SameTile ==
    ASSUME NEW r \in Registers, NEW x \in Xs, x - 1 \in Xs,
           InWindow(r, x) = InWindow(r, x - 1), FineX(r, x) # 0
    PROVE  Fetch(r, x) = Fetch(r, x - 1)
  <1> DEFINE y == Across(r, x - 1)
  <1>1. x \in Nat /\ r.wx \in Nat /\ r.scx \in Nat
    BY Sizes DEF Registers, Xs
  <1>2. y \in Nat /\ Across(r, x) = y + 1
    <2>1. y \in Nat
      BY AcrossIs
    <2>2. CASE InWindow(r, x)
      <3>1. InWindow(r, x - 1)
        BY <2>2
      <3>2. Across(r, x) = x + TileSize - 1 - r.wx /\ y = x - 1 + TileSize - 1 - r.wx
        BY <2>2, <3>1, Zenon DEF Across
      <3> QED BY <1>1, <2>1, <3>2, Sizes
    <2>3. CASE ~InWindow(r, x)
      <3>1. ~InWindow(r, x - 1)
        BY <2>3
      <3>2. Across(r, x) = r.scx + x /\ y = r.scx + (x - 1)
        BY <2>3, <3>1, Zenon DEF Across
      <3> HIDE DEF y
      <3> QED BY <1>1, <2>1, <3>2
    <2> QED BY <2>2, <2>3
  <1>3. (y + 1) % TileSize # 0
    BY <1>2, AcrossIs
  <1> HIDE DEF y
  <1>4. (y + 1) \div TileSize = y \div TileSize
    BY <1>2, <1>3, SameQuotient, Sizes
  <1>5. CASE InWindow(r, x)
    BY <1>2, <1>4, <1>5 DEF Fetch, Across, y
  <1>6. CASE ~InWindow(r, x)
    BY <1>2, <1>4, <1>6 DEF Fetch, Across, y
  <1> QED BY <1>5, <1>6

(* The loop's state after pixel x, if it always has the tile of x. *)
AfterPixel(r, x) ==
    IF x = -1
    THEN [have_tile |-> FALSE, cached_window |-> FALSE, tile |-> Fetch(r, 0)]
    ELSE [have_tile |-> TRUE, cached_window |-> InWindow(r, x), tile |-> Fetch(r, x)]

(* The loop is a function at of which this is so. *)
Loops(r, at) ==
    [x \in -1..(Width - 1) |->
        IF x = -1
        THEN [have_tile |-> FALSE, cached_window |-> FALSE, tile |-> Fetch(r, 0)]
        ELSE LET s == at[x - 1]
             IN  IF ~r.bg_on \/ KeepsTile(r, s, x) THEN s
                 ELSE [have_tile |-> TRUE, cached_window |-> InWindow(r, x),
                       tile |-> Fetch(r, x)]]

LEMMA AfterPixelNext ==
    ASSUME NEW r \in Registers, r.bg_on, NEW x \in Xs
    PROVE  LET s == AfterPixel(r, x - 1)
           IN  AfterPixel(r, x) = IF KeepsTile(r, s, x) THEN s
                                  ELSE [have_tile |-> TRUE, cached_window |-> InWindow(r, x),
                                        tile |-> Fetch(r, x)]
  <1> DEFINE s == AfterPixel(r, x - 1)
  <1>1. x \in Nat /\ x # -1
    BY Sizes DEF Xs
  <1>2. AfterPixel(r, x) = [have_tile |-> TRUE, cached_window |-> InWindow(r, x),
                            tile |-> Fetch(r, x)]
    BY <1>1 DEF AfterPixel
  <1>3. CASE KeepsTile(r, s, x)
    <2>1. s.have_tile /\ InWindow(r, x) = s.cached_window /\ FineX(r, x) # 0
      BY <1>3 DEF KeepsTile
    <2>2. x - 1 # -1
      BY <2>1 DEF AfterPixel
    <2>3. s = [have_tile |-> TRUE, cached_window |-> InWindow(r, x - 1),
               tile |-> Fetch(r, x - 1)]
      BY <2>2 DEF AfterPixel
    <2>4. x - 1 \in Xs
      BY <1>1, <2>2, Sizes DEF Xs
    <2>5. InWindow(r, x) = InWindow(r, x - 1)
      <3> HIDE DEF s
      <3>1. s.cached_window = InWindow(r, x - 1)
        BY <2>3
      <3> QED BY <2>1, <3>1, Zenon
    <2>6. Fetch(r, x) = Fetch(r, x - 1)
      BY <2>1, <2>4, <2>5, SameTile
    <2>7. AfterPixel(r, x) = s
      BY <1>2, <2>3, <2>5, <2>6, Zenon
    <2> QED BY <1>3, <2>7
  <1>4. CASE ~KeepsTile(r, s, x)
    BY <1>2, <1>4
  <1> QED BY <1>3, <1>4

(* Whatever the loop is, it has the tile of every pixel. *)
LEMMA LoopsAre ==
    ASSUME NEW r \in Registers, r.bg_on, NEW at, at = Loops(r, at), NEW z \in -1..(Width - 1)
    PROVE  at[z] = AfterPixel(r, z)
  <1> DEFINE Wrong == {k \in 0..Width : at[k - 1] # AfterPixel(r, k - 1)}
  <1> SUFFICES ASSUME Wrong # {} PROVE FALSE
    <2>1. z + 1 \in 0..Width /\ (z + 1) - 1 = z
      BY Sizes
    <2> QED BY <2>1
  <1>1. PICK m \in Wrong : \A k \in Wrong : m <= k
    <2>1. Wrong \in SUBSET Nat
      BY Sizes
    <2> HIDE DEF Wrong
    <2> QED BY <2>1, Least
  <1> DEFINE x == m - 1
  <1>2. m \in 0..Width /\ x \in -1..(Width - 1) /\ at[x] # AfterPixel(r, x)
    BY Sizes
  <1>3. x # -1
    <2>1. -1 \in -1..(Width - 1)
      BY Sizes
    <2>2. at[-1] = AfterPixel(r, -1)
      BY <2>1 DEF Loops, AfterPixel
    <2> QED BY <1>2, <2>2
  <1>4. x \in Xs /\ m - 1 \in 0..Width /\ ~(m <= m - 1)
    BY <1>2, <1>3, Sizes DEF Xs
  <1>5. at[x - 1] = AfterPixel(r, x - 1)
    BY <1>1, <1>4
  <1> HIDE DEF x, Wrong
  <1>6. LET s == at[x - 1]
        IN  at[x] = IF KeepsTile(r, s, x) THEN s
                    ELSE [have_tile |-> TRUE, cached_window |-> InWindow(r, x),
                          tile |-> Fetch(r, x)]
    BY <1>2, <1>3 DEF Loops
  <1>7. at[x] = AfterPixel(r, x)
    BY <1>4, <1>5, <1>6, AfterPixelNext
  <1> QED BY <1>2, <1>7

LEMMA LoopsExist ==
    ASSUME NEW r \in Registers, r.bg_on
    PROVE  \E at : at = Loops(r, at)
  <1> DEFINE at == [x \in -1..(Width - 1) |-> AfterPixel(r, x)]
             Next1(x) == IF x = -1
                   THEN [have_tile |-> FALSE, cached_window |-> FALSE, tile |-> Fetch(r, 0)]
                   ELSE LET s == at[x - 1]
                        IN  IF ~r.bg_on \/ KeepsTile(r, s, x) THEN s
                            ELSE [have_tile |-> TRUE, cached_window |-> InWindow(r, x),
                                  tile |-> Fetch(r, x)]
  <1>1. ASSUME NEW x \in -1..(Width - 1) PROVE AfterPixel(r, x) = Next1(x)
    <2>1. CASE x = -1
      BY <2>1 DEF AfterPixel
    <2>2. CASE x # -1
      <3>1. x \in Xs /\ x - 1 \in -1..(Width - 1)
        BY <2>2, Sizes DEF Xs
      <3>2. at[x - 1] = AfterPixel(r, x - 1)
        BY <3>1
      <3> HIDE DEF at
      <3> QED BY <2>2, <3>1, <3>2, AfterPixelNext
    <2> QED BY <2>1, <2>2
  <1>2. at = [x \in -1..(Width - 1) |-> Next1(x)]
    <2> HIDE DEF Next1
    <2> QED BY <1>1
  <1>3. at = Loops(r, at)
    BY <1>2 DEF Loops
  <1> QED BY <1>3

(* With the background off the loop fetches nothing.                         *)
LEMMA BlankLoopsAre ==
    ASSUME NEW r \in Registers, ~r.bg_on, NEW at, at = Loops(r, at),
           NEW z \in -1..(Width - 1)
    PROVE  at[z] = [have_tile |-> FALSE, cached_window |-> FALSE, tile |-> Fetch(r, 0)]
  <1> DEFINE blank == [have_tile |-> FALSE, cached_window |-> FALSE, tile |-> Fetch(r, 0)]
             Wrong == {k \in 0..Width : at[k - 1] # blank}
  <1> HIDE DEF blank
  <1> SUFFICES ASSUME Wrong # {} PROVE FALSE
    <2>1. z + 1 \in 0..Width /\ (z + 1) - 1 = z
      BY Sizes
    <2> QED BY <2>1 DEF blank
  <1>1. PICK m \in Wrong : \A k \in Wrong : m <= k
    <2>1. Wrong \in SUBSET Nat
      BY Sizes
    <2> HIDE DEF Wrong
    <2> QED BY <2>1, Least
  <1> DEFINE x == m - 1
  <1>2. m \in 0..Width /\ x \in -1..(Width - 1) /\ at[x] # blank
    BY Sizes
  <1>3. x # -1
    <2>1. -1 \in -1..(Width - 1)
      BY Sizes
    <2>2. at[-1] = blank
      BY <2>1 DEF Loops, blank
    <2> QED BY <1>2, <2>2
  <1>4. m - 1 \in 0..Width /\ ~(m <= m - 1)
    BY <1>2, <1>3, Sizes
  <1>5. at[x - 1] = blank
    BY <1>1, <1>4
  <1> HIDE DEF x, Wrong
  <1>6. at[x] = at[x - 1]
    BY <1>2, <1>3 DEF Loops
  <1> QED BY <1>2, <1>5, <1>6

LEMMA BlankLoopsExist ==
    ASSUME NEW r \in Registers, ~r.bg_on
    PROVE  \E at : at = Loops(r, at)
  <1> DEFINE blank == [have_tile |-> FALSE, cached_window |-> FALSE, tile |-> Fetch(r, 0)]
             at == [x \in -1..(Width - 1) |-> blank]
             Next1(x) == IF x = -1 THEN blank
                   ELSE LET s == at[x - 1]
                        IN  IF ~r.bg_on \/ KeepsTile(r, s, x) THEN s
                            ELSE [have_tile |-> TRUE, cached_window |-> InWindow(r, x),
                                  tile |-> Fetch(r, x)]
  <1>1. ASSUME NEW x \in -1..(Width - 1) PROVE blank = Next1(x)
    <2>1. CASE x = -1
      BY <2>1
    <2>2. CASE x # -1
      <3>1. x - 1 \in -1..(Width - 1)
        BY <2>2, Sizes
      <3>2. at[x - 1] = blank
        BY <3>1
      <3> HIDE DEF at, blank
      <3> QED BY <2>2, <3>2
    <2> QED BY <2>1, <2>2
  <1>2. at = [x \in -1..(Width - 1) |-> Next1(x)]
    <2> HIDE DEF Next1
    <2> QED BY <1>1
  <1>3. at = Loops(r, at)
    BY <1>2 DEF Loops
  <1> QED BY <1>3

LEMMA BlankState ==
    ASSUME NEW r \in Registers, ~r.bg_on, NEW x \in Xs
    PROVE  RenderState(r)[x].have_tile = FALSE
  <1> DEFINE at == CHOOSE f : f = Loops(r, f)
  <1>1. RenderState(r) = [y \in Xs |-> at[y]]
    BY DEF RenderState, Loops
  <1>2. at = Loops(r, at)
    <2>1. \E f : f = Loops(r, f)
      BY BlankLoopsExist
    <2> QED BY <2>1
  <1> HIDE DEF at
  <1>3. x \in -1..(Width - 1)
    BY Sizes DEF Xs
  <1>4. at[x] = [have_tile |-> FALSE, cached_window |-> FALSE, tile |-> Fetch(r, 0)]
    BY <1>2, <1>3, BlankLoopsAre
  <1> QED BY <1>1, <1>4

LEMMA RenderedState ==
    ASSUME NEW r \in Registers, r.bg_on, NEW x \in Xs
    PROVE  RenderState(r)[x].have_tile = TRUE /\ RenderState(r)[x].tile = Fetch(r, x)
  <1> DEFINE at == CHOOSE f : f = Loops(r, f)
  <1>1. RenderState(r) = [y \in Xs |-> at[y]]
    BY DEF RenderState, Loops
  <1>2. at = Loops(r, at)
    <2>1. \E f : f = Loops(r, f)
      BY LoopsExist
    <2> QED BY <2>1
  <1> HIDE DEF at
  <1>3. x \in -1..(Width - 1) /\ x # -1
    BY Sizes DEF Xs
  <1>4. at[x] = AfterPixel(r, x)
    BY <1>2, <1>3, LoopsAre
  <1> QED BY <1>1, <1>3, <1>4 DEF AfterPixel

(* The window is in sight from its left edge on. *)
LEMMA WindowPlace ==
    ASSUME NEW r \in Registers, NEW x \in Xs
    PROVE  /\ InWindow(r, x) => /\ r.bg_on /\ r.window_on /\ r.wy <= r.line
                                /\ r.wx - (TileSize - 1) <= x
                                /\ r.wx - (TileSize - 1) < Width
           /\ ~InWindow(r, x) => ~(/\ r.bg_on /\ r.window_on
                                   /\ r.wy <= r.line
                                   /\ r.wx - (TileSize - 1) <= x
                                   /\ r.wx - (TileSize - 1) < Width)
  <1>1. r.wx \in Nat /\ r.wy \in Nat /\ r.line \in Nat /\ x \in Nat
    BY Sizes DEF Registers, Xs
  <1>2. r.line >= r.wy <=> r.wy <= r.line
    BY <1>1
  <1>3. r.wx < Width + TileSize - 1 <=> r.wx - (TileSize - 1) < Width
    BY <1>1, Sizes
  <1>4. x + TileSize - 1 >= r.wx <=> r.wx - (TileSize - 1) <= x
    BY <1>1, Sizes
  <1> QED BY <1>2, <1>3, <1>4, Zenon DEF InWindow, WindowEnabled

LEMMA PixelShown ==
    ASSUME NEW r \in Registers, r.bg_on, NEW x \in Xs
    PROVE  Rendered(r)[x] = Shown(r, x)
  <1> DEFINE f == Fetch(r, x)
             y == Across(r, x)
  <1>1. Rendered(r)[x] = {[window |-> f.window,
                           px |-> f.tx * TileSize + FineX(r, x),
                           py |-> f.ty * TileSize + f.fine_y]}
    BY RenderedState DEF Rendered
  <1>2. /\ y \in Nat /\ FineX(r, x) = y % TileSize
        /\ f.tx = (y \div TileSize) % MapSize
    BY AcrossIs
  <1>3. InWindow(r, x) => y < TileSize * MapSize
    BY AcrossIs
  <1>4. r.window_line \in Nat /\ r.scy + r.line \in Nat /\ r.wx \in Nat /\ x \in Nat
    BY Sizes DEF Registers, Xs
  <1>5. /\ f.tx * TileSize + FineX(r, x) = y % (TileSize * MapSize)
        /\ y < TileSize * MapSize => f.tx * TileSize + FineX(r, x) = y
    <2>0. y \in Nat
      BY <1>2
    <2> HIDE DEF f, y
    <2>1. /\ ((y \div TileSize) % MapSize) * TileSize + (y % TileSize) = y % (TileSize * MapSize)
          /\ y < TileSize * MapSize =>
                /\ (y \div TileSize) % MapSize = y \div TileSize
                /\ (y \div TileSize) * TileSize + (y % TileSize) = y
      <3>1. TileSize \in Nat \ {0} /\ MapSize \in Nat \ {0}
        BY Sizes
      <3> QED BY <2>0, <3>1, TorusPlace, Zenon
    <2> QED BY <1>2, <2>1, Zenon
  <1>6. CASE InWindow(r, x)
    <2>1. f.tx * TileSize + FineX(r, x) = y
      BY <1>3, <1>5, <1>6
    <2>2. f.window = TRUE /\ f.ty = r.window_line \div TileSize
          /\ f.fine_y = r.window_line % TileSize
      BY <1>6 DEF Fetch
    <2>3. (r.window_line \div TileSize) * TileSize + (r.window_line % TileSize) = r.window_line
      <3> DEFINE w == r.window_line
                 q == w \div TileSize
                 n == w % TileSize
      <3>1. q \in Nat /\ n \in 0..(TileSize - 1) /\ w = (TileSize * q) + n
        BY <1>4, DivMod, Sizes
      <3> HIDE DEF w, q, n
      <3>2. TileSize * q = q * TileSize
        BY <3>1, Sizes
      <3> QED BY <3>1, <3>2 DEF w, q, n
    <2>4. y = x - (r.wx - (TileSize - 1))
      BY <1>4, <1>6, Sizes DEF Across
    <2> HIDE DEF f, y
    <2>5. Rendered(r)[x] = {[window |-> TRUE, px |-> x - (r.wx - (TileSize - 1)),
                             py |-> r.window_line]}
      BY <1>1, <2>1, <2>2, <2>3, <2>4
    <2> QED BY <1>6, <2>5, WindowPlace DEF Shown
  <1>7. CASE ~InWindow(r, x)
    <2>1. f.window = FALSE /\ f.ty = ((r.scy + r.line) \div TileSize) % MapSize
          /\ f.fine_y = (r.scy + r.line) % TileSize
      BY <1>7 DEF Fetch
    <2>2. f.ty * TileSize + f.fine_y = (r.scy + r.line) % (TileSize * MapSize)
      <3> DEFINE v == r.scy + r.line
      <3>1. v \in Nat
        BY <1>4
      <3> HIDE DEF v, f
      <3>2. ((v \div TileSize) % MapSize) * TileSize + (v % TileSize) = v % (TileSize * MapSize)
        BY <3>1, TorusPlace, Sizes, ZenonT(60)
      <3> QED BY <2>1, <3>2, Zenon DEF v
    <2>3. y = r.scx + x
      BY <1>7 DEF Across
    <2> HIDE DEF f, y
    <2>4. Rendered(r)[x] = {[window |-> FALSE, px |-> (r.scx + x) % (TileSize * MapSize),
                             py |-> (r.scy + r.line) % (TileSize * MapSize)]}
      BY <1>1, <1>5, <2>1, <2>2, <2>3
    <2> QED BY <1>7, <2>4, WindowPlace DEF Shown
  <1> QED BY <1>6, <1>7

(* Every pixel of the background and the window is of its place on the map,  *)
(* whatever tile render_scanline kept from the pixel before, and the         *)
(* window's lines are counted where it takes time.                           *)
THEOREM TilesAreRight == TilesFetched
  <1> SUFFICES ASSUME NEW r \in Registers
               PROVE  /\ Rendered(r) = [x \in Xs |-> Shown(r, x)]
                      /\ WindowDrawn(r) <=> WindowStalls(r)
    BY DEF TilesFetched
  <1>1. Rendered(r) = [x \in Xs |-> Shown(r, x)]
    <2>1. \A x \in Xs : Rendered(r)[x] = Shown(r, x)
      <3>1. CASE r.bg_on
        BY <3>1, PixelShown
      <3>2. CASE ~r.bg_on
        BY <3>2 DEF Rendered, Shown
      <3> QED BY <3>1, <3>2
    <2>2. Rendered(r) = [x \in Xs |-> Rendered(r)[x]]
      BY DEF Rendered
    <2> QED BY <2>1, <2>2
  <1>2. ASSUME r.bg_on, NEW x \in Xs
        PROVE  /\ RenderState(r)[x].have_tile = TRUE
               /\ RenderState(r)[x].tile.window = InWindow(r, x)
    BY <1>2, RenderedState, AcrossIs
  <1>3. ASSUME WindowDrawn(r) PROVE WindowStalls(r)
    <2>1. PICK x \in Xs : RenderState(r)[x].have_tile /\ RenderState(r)[x].tile.window
      BY <1>3 DEF WindowDrawn
    <2>2. r.bg_on
      <3> SUFFICES ASSUME ~r.bg_on PROVE FALSE
        OBVIOUS
      <3> QED BY <2>1, BlankState, Zenon
    <2>3. InWindow(r, x)
      BY <1>2, <2>1, <2>2, Zenon
    <2> QED BY <2>3 DEF WindowStalls, InWindow
  <1>4. ASSUME WindowStalls(r) PROVE WindowDrawn(r)
    <2>1. r.wx \in Nat /\ r.bg_on /\ r.wx < Width + TileSize - 1
      BY <1>4 DEF WindowStalls, WindowEnabled, Registers
    <2>2. Width - 1 \in Xs /\ Width - 1 + TileSize - 1 >= r.wx
      BY <2>1, Sizes DEF Xs
    <2>3. InWindow(r, Width - 1)
      BY <1>4, <2>2 DEF WindowStalls, InWindow
    <2> QED BY <1>2, <2>1, <2>2, <2>3, Zenon DEF WindowDrawn
  <1> QED BY <1>1, <1>3, <1>4

(* The pattern tables share their middle, as the flipped bit 7 of the index  *)
(* in render_scanline makes them.                                            *)
THEOREM TilesAreShared == TilesShared
  <1> SUFFICES ASSUME NEW t \in 0..255
               PROVE  /\ t >= 128 => PatternAddress(TRUE, t) = PatternAddress(FALSE, t)
                      /\ t < 128 => PatternAddress(TRUE, t) = PatternAddress(FALSE, t + 256)
    BY DEF TilesShared
  <1>1. (t + 128) % 256 = IF t >= 128 THEN t - 128 ELSE t + 128
    OBVIOUS
  <1> QED BY <1>1 DEF PatternAddress

(* Rows of a tall object are all of its one pair of tiles.                   *)
LEMMA TallRow ==
    ASSUME NEW h \in Nat \ {0}, NEW a \in Nat, NEW row \in 0..(h - 1)
    PROVE  (a * h + row) \div h = a
  <1>1. a * h + row = (h * a) + row /\ a * h + row \in Nat
    BY SMTT(20)
  <1> QED BY <1>1, DivModUnique

(* Flipped objects are mirror images of themselves (render_scanline's row_in *)
(* and bit).                                                                 *)
THEOREM FlipsMirror == Mirrored
  <1> SUFFICES ASSUME NEW x \in 1..Width, NEW tile \in 0..3,
                      NEW line \in 0..(2 * TileSize - 1), NEW tall \in BOOLEAN
               PROVE  LET o == [y |-> 2 * TileSize, x |-> x, tile |-> tile, behind |-> FALSE,
                                flip_x |-> FALSE, flip_y |-> FALSE]
                          bottom == Height(tall) - 1
                      IN  OnLine(o, line, tall) =>
                            /\ PatternLine([o EXCEPT !.flip_y = TRUE], line, tall)
                                    = PatternLine(o, bottom - line, tall)
                            /\ PatternLine(o, line, tall) \div Height(tall)
                                    = PatternLine(o, 0, tall) \div Height(tall)
                            /\ \A px \in 0..(TileSize - 1) :
                                    PatternBit([o EXCEPT !.flip_x = TRUE], o.x - TileSize + px)
                                        = PatternBit(o, o.x - 1 - px)
    BY DEF Mirrored
  <1> DEFINE o == [y |-> 2 * TileSize, x |-> x, tile |-> tile, behind |-> FALSE,
                   flip_x |-> FALSE, flip_y |-> FALSE]
             fx == [o EXCEPT !.flip_x = TRUE]
             fy == [o EXCEPT !.flip_y = TRUE]
             h == Height(tall)
             bottom == h - 1
             first == IF tall THEN tile - (tile % 2) ELSE tile
  <1>1. /\ TileSize \in Nat \ {0} /\ h = IF tall THEN 2 * TileSize ELSE TileSize
        /\ h \in Nat \ {0} /\ x \in Nat
    BY Sizes DEF Height
  <1>2. /\ o.y = 2 * TileSize /\ o.x = x /\ o.tile = tile /\ o.flip_x = FALSE /\ o.flip_y = FALSE
        /\ fx.x = x /\ fx.flip_x = TRUE
        /\ fy.y = 2 * TileSize /\ fy.tile = tile /\ fy.flip_y = TRUE
    OBVIOUS
  <1> HIDE DEF o, fx, fy, h
  <1> SUFFICES ASSUME OnLine(o, line, tall)
               PROVE  /\ PatternLine(fy, line, tall) = PatternLine(o, bottom - line, tall)
                      /\ PatternLine(o, line, tall) \div h = PatternLine(o, 0, tall) \div h
                      /\ \A px \in 0..(TileSize - 1) :
                            PatternBit(fx, o.x - TileSize + px) = PatternBit(o, o.x - 1 - px)
    BY DEF o, fx, fy, h
  <1>3. line < h
    BY <1>1, <1>2 DEF OnLine, h
  <1>4. \A l \in Int : /\ PatternLine(o, l, tall) = first * TileSize + l
                       /\ PatternLine(fy, l, tall) = first * TileSize + (h - 1 - l)
    <2> SUFFICES ASSUME NEW l \in Int
                 PROVE  /\ PatternLine(o, l, tall) = first * TileSize + l
                        /\ PatternLine(fy, l, tall) = first * TileSize + (h - 1 - l)
      OBVIOUS
    <2>1. l - (2 * TileSize - 2 * TileSize) = l
      BY <1>1
    <2>2. PatternLine(o, l, tall) = first * TileSize + (l - (2 * TileSize - 2 * TileSize))
      BY <1>2 DEF PatternLine
    <2>3. PatternLine(fy, l, tall)
            = first * TileSize + (h - 1 - (l - (2 * TileSize - 2 * TileSize)))
      BY <1>2 DEF PatternLine, h
    <2> QED BY <2>1, <2>2, <2>3
  <1>5. bottom - line \in Int /\ line \in Int /\ 0 \in Int /\ h - 1 - line = bottom - line
    BY <1>1
  <1>6. PatternLine(fy, line, tall) = PatternLine(o, bottom - line, tall)
    BY <1>4, <1>5
  <1>7. PatternLine(o, line, tall) \div h = PatternLine(o, 0, tall) \div h
    <2>1. \E a \in Nat : first * TileSize = a * h
      <3>1. CASE tall
        <4>1. first \in {0, 2} /\ h = 2 * TileSize
          BY <1>1, <3>1
        <4>2. first * TileSize = (IF first = 0 THEN 0 ELSE 1) * h
          BY <1>1, <4>1
        <4> QED BY <4>2
      <3>2. CASE ~tall
        BY <1>1, <3>2
      <3> QED BY <3>1, <3>2
    <2>2. PICK a \in Nat : first * TileSize = a * h
      BY <2>1
    <2>3. line \in 0..(h - 1) /\ 0 \in 0..(h - 1)
      BY <1>1, <1>3
    <2>4. /\ PatternLine(o, line, tall) = a * h + line
          /\ PatternLine(o, 0, tall) = a * h + 0
      BY <1>4, <1>5, <2>2
    <2>5. (a * h + line) \div h = a /\ (a * h + 0) \div h = a
      BY <1>1, <2>3, TallRow
    <2> QED BY <2>4, <2>5, Zenon
  <1>8. ASSUME NEW px \in 0..(TileSize - 1)
        PROVE  PatternBit(fx, o.x - TileSize + px) = PatternBit(o, o.x - 1 - px)
    <2>1. PatternBit(fx, o.x - TileSize + px) = (x - TileSize + px) - (x - TileSize)
      BY <1>2 DEF PatternBit
    <2>2. PatternBit(o, o.x - 1 - px) = TileSize - 1 - ((x - 1 - px) - (x - TileSize))
      BY <1>2 DEF PatternBit
    <2> QED BY <1>1, <2>1, <2>2
  <1> QED BY <1>6, <1>7, <1>8

----------------------------------------------------------------------------
(* The damage of the OAM bug.                                               *)

Oams == [OamRows -> [Columns -> BOOLEAN]]

(* Row r of d is made of the words of oam that the scan at row can reach. *)
Near(oam, d, row) ==
    /\ d \in Oams
    /\ d[0] = oam[0]
    /\ \A r \in OamRows \ Reach(row) : d[r] = oam[r]
    /\ \A w \in 1..3, r \in Reach(row) : \E near \in Reach(row) : d[r][w] = oam[near][w]
    /\ \A b \in BOOLEAN :
        (\A r \in Reach(row), w \in Columns : oam[r][w] = b) =>
            \A r \in Reach(row), w \in Columns : d[r][w] = b

LEMMA NearContained ==
    ASSUME NEW oam \in Oams, NEW row \in OamRows, NEW d, Near(oam, d, row)
    PROVE  Contained(oam, d, row)
  <1>1. ASSUME NEW b \in BOOLEAN, \A r \in Reach(row), w \in Columns : oam[r][w] = b
        PROVE  d = oam
    <2>1. ASSUME NEW r \in OamRows PROVE d[r] = oam[r]
      <3>1. CASE r \in Reach(row)
        <4>1. d[r] \in [Columns -> BOOLEAN] /\ oam[r] \in [Columns -> BOOLEAN]
          BY DEF Near, Oams
        <4>2. \A w \in Columns : d[r][w] = b /\ oam[r][w] = b
          BY <1>1, <3>1, Zenon DEF Near
        <4> QED BY <4>1, <4>2
      <3>2. CASE r \notin Reach(row)
        BY <3>2 DEF Near
      <3> QED BY <3>1, <3>2
    <2>2. d \in Oams
      BY DEF Near
    <2> QED BY <2>1, <2>2 DEF Oams
  <1> QED BY <1>1, Zenon DEF Contained, Near

LEMMA NearSame ==
    ASSUME NEW oam \in Oams, NEW row \in OamRows
    PROVE  Near(oam, oam, row)
  BY Zenon DEF Near

(* The row before is copied, but for its first word. *)
LEMMA CorruptNear ==
    ASSUME NEW oam \in Oams, NEW row \in OamRows, row # 0, NEW first \in BOOLEAN,
           \A b \in BOOLEAN :
             oam[row][0] = b /\ oam[row - 1][0] = b /\ oam[row - 1][2] = b => first = b
    PROVE  Near(oam, corrupt_row(oam, row, first), row)
  <1> DEFINE new == [w \in Columns |-> IF w = 0 THEN first ELSE oam[row - 1][w]]
             d == corrupt_row(oam, row, first)
  <1>1. /\ row \in Reach(row) /\ row - 1 \in Reach(row) /\ row - 1 \in OamRows
        /\ 0 \in OamRows /\ {0, 2} \subseteq Columns /\ 1..3 \subseteq Columns
        /\ Reach(row) \subseteq OamRows
    BY OamBugAssumption DEF Reach, OamRows, Columns
  <1>2. new \in [Columns -> BOOLEAN]
    <2>1. \A w \in Columns : oam[row - 1][w] \in BOOLEAN
      BY <1>1 DEF Oams
    <2> QED BY <2>1
  <1>3. d = [oam EXCEPT ![row] = new]
    BY DEF corrupt_row
  <1>4. \A w \in 1..3 : new[w] = oam[row - 1][w]
    BY <1>1
  <1>5. new[0] = first
    BY <1>1
  <1> HIDE DEF new, d
  <1>6. d \in Oams /\ d[row] = new /\ \A r \in OamRows : r # row => d[r] = oam[r]
    BY <1>2, <1>3 DEF Oams
  <1>7. \A w \in 1..3, r \in Reach(row) : \E near \in Reach(row) : d[r][w] = oam[near][w]
    <2> SUFFICES ASSUME NEW w \in 1..3, NEW r \in Reach(row)
                 PROVE  \E near \in Reach(row) : d[r][w] = oam[near][w]
      OBVIOUS
    <2>1. CASE r = row
      BY <1>1, <1>4, <1>6, <2>1, Zenon
    <2>2. CASE r # row
      BY <1>1, <1>6, <2>2, Zenon
    <2> QED BY <2>1, <2>2
  <1>8. ASSUME NEW b \in BOOLEAN, \A r \in Reach(row), w \in Columns : oam[r][w] = b
        PROVE  \A r \in Reach(row), w \in Columns : d[r][w] = b
    <2> SUFFICES ASSUME NEW r \in Reach(row), NEW w \in Columns PROVE d[r][w] = b
      OBVIOUS
    <2>1. first = b
      BY <1>1, <1>8, Zenon
    <2>2. CASE r = row /\ w = 0
      BY <1>5, <1>6, <2>1, <2>2, Zenon
    <2>3. CASE r = row /\ w # 0
      <3>1. w \in 1..3
        BY <2>3 DEF Columns
      <3> QED BY <1>1, <1>4, <1>6, <1>8, <2>3, <3>1, Zenon
    <2>4. CASE r # row
      BY <1>1, <1>6, <1>8, <2>4, Zenon
    <2> QED BY <2>2, <2>3, <2>4
  <1>9. d[0] = oam[0] /\ \A r \in OamRows \ Reach(row) : d[r] = oam[r]
    BY <1>1, <1>6
  <1> QED BY <1>6, <1>7, <1>8, <1>9, Zenon DEF Near, d

LEMMA WriteNear ==
    ASSUME NEW oam \in Oams, NEW row \in OamRows
    PROVE  Near(oam, oam_bug_write(oam, row), row)
  <1>1. CASE row = 0
    BY <1>1, NearSame DEF oam_bug_write
  <1>2. CASE row # 0
    <2> DEFINE a == oam[row][0]
               b == oam[row - 1][0]
               c == oam[row - 1][2]
               first == ((a # c) /\ (b # c)) # c
    <2>1. first \in BOOLEAN
      BY Zenon
    <2>2. \A v \in BOOLEAN : a = v /\ b = v /\ c = v => first = v
      BY Zenon
    <2>3. oam_bug_write(oam, row) = corrupt_row(oam, row, first)
      BY <1>2 DEF oam_bug_write
    <2> HIDE DEF first
    <2> QED BY <1>2, <2>1, <2>2, <2>3, CorruptNear
  <1> QED BY <1>1, <1>2

LEMMA ReadNear ==
    ASSUME NEW oam \in Oams, NEW row \in OamRows
    PROVE  Near(oam, oam_bug_read(oam, row), row)
  <1>1. CASE row = 0
    BY <1>1, NearSame DEF oam_bug_read
  <1>2. CASE row # 0
    <2> DEFINE a == oam[row][0]
               b == oam[row - 1][0]
               c == oam[row - 1][2]
               first == b \/ (a /\ c)
    <2>1. first \in BOOLEAN
      BY Zenon
    <2>2. \A v \in BOOLEAN : a = v /\ b = v /\ c = v => first = v
      BY Zenon
    <2>3. oam_bug_read(oam, row) = corrupt_row(oam, row, first)
      BY <1>2 DEF oam_bug_read
    <2> HIDE DEF first
    <2> QED BY <1>2, <2>1, <2>2, <2>3, CorruptNear
  <1> QED BY <1>1, <1>2

LEMMA SpreadNear ==
    ASSUME NEW oam \in Oams, NEW row \in OamRows, row >= FirstDeep
    PROVE  Near(oam, Spread(oam, row), row)
  <1> DEFINE a == oam[row - 2][0]
             b == oam[row - 1][0]
             c == oam[row][0]
             d == oam[row - 1][2]
             first == (b /\ (a \/ c \/ d)) \/ (a /\ c /\ d)
             mixed == [oam[row - 1] EXCEPT ![0] = first]
             s == Spread(oam, row)
  <1>1. /\ row - 2 \in Reach(row) /\ row - 1 \in Reach(row) /\ row \in Reach(row)
        /\ Reach(row) = (row - 2)..row /\ Reach(row) \subseteq OamRows
        /\ 0 \in OamRows /\ 0 \notin Reach(row)
        /\ {0, 2} \subseteq Columns /\ 1..3 \subseteq Columns
    BY OamBugAssumption DEF Reach, OamRows, Columns
  <1>2. first \in BOOLEAN
    BY Zenon
  <1>3. \A v \in BOOLEAN : a = v /\ b = v /\ c = v /\ d = v => first = v
    BY Zenon
  <1>4. s = [r \in OamRows |-> IF r \in (row - 2)..row THEN mixed ELSE oam[r]]
    BY DEF Spread
  <1> HIDE DEF first, s
  <1>5. oam[row - 1] \in [Columns -> BOOLEAN]
    BY <1>1 DEF Oams
  <1>6. /\ mixed \in [Columns -> BOOLEAN] /\ mixed[0] = first
        /\ \A w \in 1..3 : mixed[w] = oam[row - 1][w]
    <2>1. mixed \in [Columns -> BOOLEAN] /\ mixed[0] = first
      BY <1>1, <1>2, <1>5
    <2>2. \A w \in 1..3 : w \in Columns /\ w # 0
      BY <1>1
    <2>3. \A w \in Columns : w # 0 => mixed[w] = oam[row - 1][w]
      BY <1>5
    <2> QED BY <2>1, <2>2, <2>3
  <1> HIDE DEF mixed
  <1>7. /\ \A r \in Reach(row) : s[r] = mixed
        /\ \A r \in OamRows \ Reach(row) : s[r] = oam[r]
    BY <1>1, <1>4
  <1>8. s \in Oams
    BY <1>4, <1>6 DEF Oams
  <1>9. \A w \in 1..3, r \in Reach(row) : \E near \in Reach(row) : s[r][w] = oam[near][w]
    BY <1>1, <1>6, <1>7, Zenon
  <1>10. ASSUME NEW v \in BOOLEAN, \A r \in Reach(row), w \in Columns : oam[r][w] = v
         PROVE  \A r \in Reach(row), w \in Columns : s[r][w] = v
    <2> SUFFICES ASSUME NEW w \in Columns PROVE mixed[w] = v
      BY <1>7, Zenon
    <2>1. first = v
      BY <1>1, <1>3, <1>10, Zenon
    <2>2. CASE w = 0
      BY <1>6, <2>1, <2>2, Zenon
    <2>3. CASE w # 0
      <3>1. w \in 1..3
        BY <2>3 DEF Columns
      <3> QED BY <1>1, <1>6, <1>10, <3>1, Zenon
    <2> QED BY <2>2, <2>3
  <1>11. s[0] = oam[0]
    BY <1>1, <1>7
  <1> QED BY <1>7, <1>8, <1>9, <1>10, <1>11, Zenon DEF Near, s

(* One damage after another reaches no further than both. *)
LEMMA NearTwice ==
    ASSUME NEW oam \in Oams, NEW row \in OamRows, NEW d, NEW e,
           Near(oam, d, row), Near(d, e, row)
    PROVE  Near(oam, e, row)
  <1>1. e \in Oams /\ e[0] = oam[0] /\ \A r \in OamRows \ Reach(row) : e[r] = oam[r]
    BY Zenon DEF Near
  <1>2. ASSUME NEW w \in 1..3, NEW r \in Reach(row)
        PROVE  \E near \in Reach(row) : e[r][w] = oam[near][w]
    <2>1. PICK m \in Reach(row) : e[r][w] = d[m][w]
      BY Zenon DEF Near
    <2>2. PICK n \in Reach(row) : d[m][w] = oam[n][w]
      BY Zenon DEF Near
    <2> QED BY <2>1, <2>2
  <1>3. ASSUME NEW b \in BOOLEAN, \A r \in Reach(row), w \in Columns : oam[r][w] = b
        PROVE  \A r \in Reach(row), w \in Columns : e[r][w] = b
    BY <1>3, Zenon DEF Near
  <1> QED BY <1>1, <1>2, <1>3, Zenon DEF Near

(* An access to OAM during the scan damages the rows next to the scan and    *)
(* nothing else, the first row never (Ppu::corrupt_row and what calls it).   *)
THEOREM DamageIsContained == DamageContained
  <1> SUFFICES ASSUME NEW row \in OamRows, NEW oam \in OamsAt(row)
               PROVE  /\ Contained(oam, oam_bug_write(oam, row), row)
                      /\ Contained(oam, oam_bug_read(oam, row), row)
                      /\ Contained(oam, oam_bug_read_write(oam, row), row)
    BY DEF DamageContained
  <1>1. oam \in Oams
    <2>1. PICK near \in [Reach(row) -> [Columns -> BOOLEAN]] :
            oam = [r \in OamRows |-> IF r \in Reach(row) THEN near[r]
                                     ELSE [w \in Columns |-> FALSE]]
      BY Zenon DEF OamsAt
    <2>2. [w \in Columns |-> FALSE] \in [Columns -> BOOLEAN]
      BY Zenon
    <2> QED BY <2>1, <2>2 DEF Oams
  <1>2. Near(oam, oam_bug_read_write(oam, row), row)
    <2>1. CASE row >= FirstDeep /\ row # LastRow
      <3>1. Near(oam, Spread(oam, row), row)
        BY <1>1, <2>1, SpreadNear
      <3>2. Near(Spread(oam, row), oam_bug_read(Spread(oam, row), row), row)
        BY <3>1, ReadNear DEF Near
      <3> QED BY <1>1, <2>1, <3>1, <3>2, NearTwice DEF oam_bug_read_write
    <2>2. CASE ~(row >= FirstDeep /\ row # LastRow)
      BY <1>1, <2>2, ReadNear DEF oam_bug_read_write
    <2> QED BY <2>1, <2>2
  <1> QED BY <1>1, <1>2, WriteNear, ReadNear, NearContained

----------------------------------------------------------------------------
(* The objects that are drawn over one another.                             *)

(* The greatest of numbers up to n. *)
LEMMA MaxIs ==
    ASSUME NEW n \in Nat, NEW s \in SUBSET (1..n), s # {}
    PROVE  /\ Max(s) \in s /\ \A k \in s : k <= Max(s)
           /\ \A y \in s : (\A k \in s : k <= y) => Max(s) = y
  <1> DEFINE T == {d \in 0..n : n - d \in s}
  <1>1. PICK d \in T : \A e \in T : d <= e
    <2>1. PICK k \in s : TRUE
      OBVIOUS
    <2>2. n - k \in 0..n /\ n - (n - k) = k
      OBVIOUS
    <2>3. n - k \in T
      BY <2>2
    <2>4. T \in SUBSET Nat
      OBVIOUS
    <2> HIDE DEF T
    <2> QED BY <2>3, <2>4, Least
  <1> DEFINE m == n - d
  <1>2. m \in s /\ \A k \in s : m >= k
    <2>1. ASSUME NEW k \in s PROVE m >= k
      <3>1. n - k \in 0..n /\ n - (n - k) = k
        OBVIOUS
      <3>2. n - k \in T
        BY <3>1
      <3> QED BY <1>1, <3>2
    <2> QED BY <2>1
  <1> HIDE DEF m, T
  <1>3. Max(s) \in s /\ \A k \in s : Max(s) >= k
    <2>1. \E x \in s : \A y \in s : x >= y
      BY <1>2
    <2> QED BY <2>1 DEF Max
  <1>4. \A k \in s : k \in Int
    OBVIOUS
  <1> DEFINE x == Max(s)
  <1> HIDE DEF x
  <1>5. x \in s /\ x \in Int /\ \A k \in s : k <= x
    BY <1>3, <1>4 DEF x
  <1>6. \A y \in s : (\A k \in s : k <= y) => x = y
    BY <1>4, <1>5
  <1> QED BY <1>5, <1>6 DEF x

(* The last of the places s whose object, by q, is in D: what remains of     *)
(* drawing them in turn.                                                     *)
Hits(q, D, s) == {k \in s : q[k] \in D}
Remains(q, D, s) == IF Hits(q, D, s) = {} THEN {} ELSE {q[Max(Hits(q, D, s))]}

LEMMA RemainsNext ==
    ASSUME NEW n \in Nat, NEW q, NEW D, NEW s \in SUBSET (1..n), s # {}
    PROVE  Remains(q, D, s) = IF q[Max(s)] \in D THEN {q[Max(s)]}
                              ELSE Remains(q, D, s \ {Max(s)})
  <1> DEFINE x == Max(s)
             H == Hits(q, D, s)
  <1>1. x \in s /\ \A k \in s : k <= x
    BY MaxIs
  <1> HIDE DEF x
  <1>2. H \in SUBSET (1..n)
    BY DEF Hits
  <1>3. CASE q[x] \in D
    <2>1. x \in H /\ H # {} /\ \A k \in H : k <= x
      BY <1>1, <1>3 DEF Hits
    <2> HIDE DEF H
    <2>2. Max(H) = x
      BY <1>2, <2>1, MaxIs
    <2> QED BY <1>3, <2>1, <2>2 DEF Remains, H, x
  <1>4. CASE q[x] \notin D
    <2>1. Hits(q, D, s \ {x}) = H
      BY <1>4 DEF Hits
    <2> QED BY <1>4, <2>1 DEF Remains, x
  <1> QED BY <1>3, <1>4

(* FoldLeft is a function of which this is so. *)
Folds1(q, D, n, iter) ==
    [s \in SUBSET (1..n) |->
        IF s = {} THEN {}
        ELSE IF q[Max(s)] \in D THEN {q[Max(s)]} ELSE iter[s \ {Max(s)}]]

LEMMA FoldsAre ==
    ASSUME NEW n \in Nat, NEW q, NEW D, NEW iter, iter = Folds1(q, D, n, iter)
    PROVE  iter[1..n] = Remains(q, D, 1..n)
  <1> DEFINE Wrong == {m \in 0..n : \E s \in SUBSET (1..m) : iter[s] # Remains(q, D, s)}
  <1> SUFFICES ASSUME Wrong # {} PROVE FALSE
    <2>1. n \in 0..n /\ 1..n \in SUBSET (1..n)
      OBVIOUS
    <2> QED BY <2>1
  <1>1. PICK m \in Wrong : \A k \in Wrong : m <= k
    <2>1. Wrong \in SUBSET Nat
      OBVIOUS
    <2> HIDE DEF Wrong
    <2> QED BY <2>1, Least
  <1>2. m \in 0..n /\ 1..m \subseteq 1..n
    OBVIOUS
  <1>3. PICK s \in SUBSET (1..m) : iter[s] # Remains(q, D, s)
    OBVIOUS
  <1>4. s \in SUBSET (1..n)
    BY <1>2
  <1>5. iter[s] = IF s = {} THEN {}
                  ELSE IF q[Max(s)] \in D THEN {q[Max(s)]} ELSE iter[s \ {Max(s)}]
    BY <1>4 DEF Folds1
  <1>6. s # {}
    <2> SUFFICES ASSUME s = {} PROVE FALSE
      OBVIOUS
    <2>1. Remains(q, D, s) = {}
      BY DEF Remains, Hits
    <2> QED BY <1>3, <1>5, <2>1
  <1> DEFINE x == Max(s)
             rest == s \ {x}
  <1>7. x \in s /\ \A k \in s : k <= x
    BY <1>4, <1>6, MaxIs
  <1> HIDE DEF x
  <1>8. m - 1 \in 0..n /\ ~(m <= m - 1) /\ rest \in SUBSET (1..(m - 1))
    <2>1. x \in 1..m
      BY <1>7
    <2>2. m >= 1 /\ x <= m /\ x \in Int
      BY <1>2, <2>1
    <2>3. \A k \in rest : k \in 1..m /\ k <= x /\ k # x
      BY <1>7
    <2>4. \A k \in rest : k \in 1..(m - 1)
      BY <1>2, <2>2, <2>3
    <2> QED BY <1>2, <2>2, <2>4
  <1>9. iter[rest] = Remains(q, D, rest)
    <2>1. m - 1 \notin Wrong
      BY <1>1, <1>8
    <2> QED BY <1>8, <2>1
  <1>10. iter[s] = Remains(q, D, s)
    <2>1. Remains(q, D, s) = IF q[Max(s)] \in D THEN {q[Max(s)]}
                             ELSE Remains(q, D, s \ {Max(s)})
      BY <1>4, <1>6, RemainsNext
    <2> QED BY <1>5, <1>6, <1>9, <2>1, Zenon DEF x
  <1> QED BY <1>3, <1>10

LEMMA FoldsExist ==
    ASSUME NEW n \in Nat, NEW q, NEW D
    PROVE  \E iter : iter = Folds1(q, D, n, iter)
  <1> DEFINE iter == [s \in SUBSET (1..n) |-> Remains(q, D, s)]
             Next1(s) == IF s = {} THEN {}
                         ELSE IF q[Max(s)] \in D THEN {q[Max(s)]} ELSE iter[s \ {Max(s)}]
  <1>1. ASSUME NEW s \in SUBSET (1..n) PROVE Remains(q, D, s) = Next1(s)
    <2>1. CASE s = {}
      BY <2>1 DEF Remains, Hits
    <2>2. CASE s # {}
      <3>1. s \ {Max(s)} \in SUBSET (1..n)
        OBVIOUS
      <3>2. iter[s \ {Max(s)}] = Remains(q, D, s \ {Max(s)})
        BY <3>1
      <3> HIDE DEF iter
      <3>3. Remains(q, D, s) = IF q[Max(s)] \in D THEN {q[Max(s)]}
                               ELSE Remains(q, D, s \ {Max(s)})
        BY <1>1, <2>2, RemainsNext
      <3> QED BY <2>2, <3>2, <3>3, Zenon
    <2> QED BY <2>1, <2>2
  <1>2. iter = [s \in SUBSET (1..n) |-> Next1(s)]
    <2> HIDE DEF Next1
    <2> QED BY <1>1
  <1>3. iter = Folds1(q, D, n, iter)
    BY <1>2 DEF Folds1
  <1> QED BY <1>3

LEMMA FoldRemains ==
    ASSUME NEW n \in Nat, NEW q, DOMAIN q = 1..n, NEW D
    PROVE  FoldLeft(LAMBDA seen, i : IF i \in D THEN {i} ELSE seen, {}, q)
              = Remains(q, D, 1..n)
  <1> DEFINE iter == CHOOSE f : f = Folds1(q, D, n, f)
  <1>1. FoldLeft(LAMBDA seen, i : IF i \in D THEN {i} ELSE seen, {}, q) = iter[1..n]
    BY Zenon DEF FoldLeft, MapThenFoldSet, Folds1
  <1>2. iter = Folds1(q, D, n, iter)
    <2>1. \E f : f = Folds1(q, D, n, f)
      BY FoldsExist
    <2> QED BY <2>1
  <1> HIDE DEF iter
  <1> QED BY <1>1, <1>2, FoldsAre

----------------------------------------------------------------------------
(* The order in which they are drawn.                                       *)

Pictures == [0..LineObjects -> Objects]

LEMMA ObjectX ==
    ASSUME NEW oam \in Pictures, NEW i \in 0..LineObjects
    PROVE  oam[i].x \in Nat /\ i \in Nat
  <1>1. oam[i] \in Objects
    BY DEF Pictures
  <1>2. oam[i].x \in 1..(Width + 1)
    BY <1>1 DEF Objects
  <1> QED BY <1>2, Sizes

(* Of any objects one is in front of the others. *)
LEMMA FrontmostIs ==
    ASSUME NEW oam \in Pictures, NEW S \in SUBSET (0..LineObjects), S # {}
    PROVE  \E f \in S : \A j \in S \ {f} : FurtherBack(oam, j, f)
  <1> DEFINE X == {oam[i].x : i \in S}
  <1>1. PICK a \in X : \A b \in X : a <= b
    <2>1. X \in SUBSET Nat /\ X # {}
      BY ObjectX
    <2> HIDE DEF X
    <2> QED BY <2>1, Least
  <1> DEFINE Firsts == {i \in S : oam[i].x = a}
  <1>2. PICK f \in Firsts : \A j \in Firsts : f <= j
    <2>1. Firsts \in SUBSET Nat /\ Firsts # {}
      BY <1>1, ObjectX
    <2> HIDE DEF Firsts
    <2> QED BY <2>1, Least
  <1>3. f \in S /\ oam[f].x = a /\ f \in Nat /\ a \in Nat
    BY <1>2, ObjectX
  <1>4. ASSUME NEW j \in S \ {f} PROVE FurtherBack(oam, j, f)
    <2>1. oam[j].x \in X /\ oam[j].x \in Nat /\ j \in Nat
      BY <1>4, ObjectX
    <2>2. a <= oam[j].x
      BY <1>1, <2>1
    <2>3. oam[j].x = a => f <= j
      BY <1>2, <1>4
    <2>4. j # f
      BY <1>4
    <2> HIDE DEF X, Firsts
    <2>5. oam[j].x > a \/ (oam[j].x = a /\ j > f)
      BY <1>3, <2>1, <2>2, <2>3, <2>4
    <2> QED BY <1>3, <2>5 DEF FurtherBack
  <1> QED BY <1>3, <1>4

Sorted(oam, S, order) ==
    /\ order \in [1..Cardinality(S) -> S]
    /\ \A m, n \in DOMAIN order : m < n => FurtherBack(oam, order[m], order[n])

(* Any objects can be put in their order: the frontmost last. *)
LEMMA OrderExists ==
    ASSUME NEW oam \in Pictures, NEW S \in SUBSET (0..LineObjects)
    PROVE  IsFiniteSet(S) /\ Cardinality(S) \in Nat /\ \E order : Sorted(oam, S, order)
  <1>0. \A s \in SUBSET (0..LineObjects) : IsFiniteSet(s) /\ Cardinality(s) \in Nat
    <2>1. IsFiniteSet(0..LineObjects)
      BY Sizes, FS_Interval
    <2>2. \A s \in SUBSET (0..LineObjects) : IsFiniteSet(s)
      BY <2>1, FS_Subset
    <2> QED BY <2>2, FS_CardinalityType
  <1> DEFINE Bad(s) == \A order : ~Sorted(oam, s, order)
             Wrong == {c \in Nat : \E s \in SUBSET (0..LineObjects) : Cardinality(s) = c /\ Bad(s)}
  <1> HIDE DEF Bad
  <1> SUFFICES ASSUME Wrong # {} PROVE FALSE
    <2>1. ~Bad(S)
      BY <1>0
    <2> QED BY <1>0, <2>1 DEF Bad
  <1>1. PICK c \in Wrong : \A k \in Wrong : c <= k
    <2>1. Wrong \in SUBSET Nat
      OBVIOUS
    <2> HIDE DEF Wrong
    <2> QED BY <2>1, Least
  <1>2. c \in Nat
    OBVIOUS
  <1>3. PICK s \in SUBSET (0..LineObjects) : Cardinality(s) = c /\ Bad(s)
    OBVIOUS
  <1>4. s # {}
    <2> SUFFICES ASSUME s = {} PROVE FALSE
      OBVIOUS
    <2>1. Cardinality(s) = 0
      BY FS_EmptySet
    <2>2. 1..0 = {}
      OBVIOUS
    <2>3. Sorted(oam, s, [k \in 1..0 |-> k])
      BY <2>1, <2>2 DEF Sorted
    <2> QED BY <1>3, <2>3 DEF Bad
  <1>5. PICK f \in s : \A j \in s \ {f} : FurtherBack(oam, j, f)
    BY <1>4, FrontmostIs
  <1> DEFINE rest == s \ {f}
  <1>6. Cardinality(rest) = c - 1 /\ rest \in SUBSET (0..LineObjects) /\ c - 1 \in Nat
    <2>1. IsFiniteSet(s) /\ IsFiniteSet(rest) /\ Cardinality(rest) \in Nat
      BY <1>0
    <2>2. Cardinality(rest) = c - 1
      BY <1>3, <2>1, FS_RemoveElement
    <2> QED BY <2>1, <2>2
  <1>7. ~Bad(rest)
    <2>1. c - 1 \notin Wrong
      BY <1>1, <1>2, <1>6
    <2> QED BY <1>6, <2>1
  <1>8. PICK last : Sorted(oam, rest, last)
    BY <1>7 DEF Bad
  <1> DEFINE order == [k \in 1..c |-> IF k = c THEN f ELSE last[k]]
  <1> HIDE DEF rest
  <1>9. /\ last \in [1..(c - 1) -> rest]
        /\ \A m, n \in 1..(c - 1) : m < n => FurtherBack(oam, last[m], last[n])
    BY <1>6, <1>8 DEF Sorted
  <1>10. \A k \in 1..c : k # c => k \in 1..(c - 1)
    BY <1>2
  <1>11. order \in [1..c -> s]
    BY <1>9, <1>10 DEF rest
  <1>12. ASSUME NEW m \in 1..c, NEW n \in 1..c, m < n
         PROVE  FurtherBack(oam, order[m], order[n])
    <2>1. m # c /\ m \in 1..(c - 1)
      BY <1>2, <1>12
    <2>2. order[m] = last[m] /\ last[m] \in rest
      BY <1>9, <2>1
    <2>3. CASE n = c
      BY <1>5, <2>2, <2>3 DEF rest
    <2>4. CASE n # c
      <3>1. n \in 1..(c - 1) /\ order[n] = last[n]
        BY <1>10, <2>4
      <3> QED BY <1>9, <1>12, <2>1, <2>2, <3>1
    <2> QED BY <2>3, <2>4
  <1> HIDE DEF order
  <1>13. Sorted(oam, s, order)
    BY <1>3, <1>11, <1>12 DEF Sorted
  <1> QED BY <1>3, <1>13 DEF Bad

(* None is further back than itself, nor two than each other. *)
LEMMA OneOrder ==
    ASSUME NEW oam \in Pictures, NEW i \in 0..LineObjects, NEW j \in 0..LineObjects,
           FurtherBack(oam, i, j)
    PROVE  i # j /\ ~FurtherBack(oam, j, i)
  BY ObjectX DEF FurtherBack

(* The order is of all of them. *)
LEMMA OrderIsOf ==
    ASSUME NEW oam \in Pictures, NEW S \in SUBSET (0..LineObjects)
    PROVE  LET order == BackToFront(oam, S)
               n == Cardinality(S)
           IN  /\ n \in Nat /\ order \in [1..n -> S]
               /\ \A k, m \in 1..n : k < m => FurtherBack(oam, order[k], order[m])
               /\ \A i \in S : \E k \in 1..n : order[k] = i
  <1> DEFINE order == BackToFront(oam, S)
             n == Cardinality(S)
  <1>1. IsFiniteSet(S) /\ n \in Nat /\ \E o : Sorted(oam, S, o)
    BY OrderExists
  <1>2. Sorted(oam, S, order)
    BY <1>1 DEF Sorted, BackToFront
  <1> HIDE DEF order
  <1>3. /\ order \in [1..n -> S]
        /\ \A k, m \in 1..n : k < m => FurtherBack(oam, order[k], order[m])
    BY <1>2 DEF Sorted
  <1>4. \A k, m \in 1..n : k # m => order[k] # order[m]
    <2> SUFFICES ASSUME NEW k \in 1..n, NEW m \in 1..n, k < m
                 PROVE  order[k] # order[m]
      BY <1>1
    <2> QED BY <1>3, OneOrder
  <1>5. ASSUME NEW i \in S, \A k \in 1..n : order[k] # i
        PROVE  FALSE
    <2>1. order \in [1..n -> S \ {i}]
      BY <1>3, <1>5
    <2>2. IsFiniteSet(S \ {i}) /\ Cardinality(S \ {i}) = n - 1
      BY <1>1, FS_RemoveElement
    <2>3. IsFiniteSet(1..n) /\ Cardinality(1..n) = n
      BY <1>1, FS_Interval
    <2>4. Cardinality(S \ {i}) < Cardinality(1..n)
      BY <1>1, <2>2, <2>3
    <2> HIDE DEF n
    <2> DEFINE P == 1..n
               T == S \ {i}
    <2>5. /\ IsFiniteSet(P) /\ IsFiniteSet(T) /\ Cardinality(T) < Cardinality(P)
          /\ order \in [P -> T]
      BY <2>1, <2>2, <2>3, <2>4
    <2> HIDE DEF P, T
    <2>6. \E k, m \in P : k # m /\ order[k] = order[m]
      BY <2>5, FS_PigeonHole, Zenon
    <2> QED BY <1>4, <2>6 DEF P
  <1> HIDE DEF n
  <1> QED BY <1>1, <1>3, <1>5 DEF order, n

(* What is left of drawing the objects S in turn is the frontmost of those   *)
(* of them in D.                                                             *)
LEMMA LastIsFrontmost ==
    ASSUME NEW oam \in Pictures, NEW S \in SUBSET (0..LineObjects), NEW D
    PROVE  FoldLeft(LAMBDA seen, i : IF i \in D THEN {i} ELSE seen, {}, BackToFront(oam, S))
              = {i \in S \cap D : \A j \in (S \cap D) \ {i} : FurtherBack(oam, j, i)}
  <1> DEFINE q == BackToFront(oam, S)
             n == Cardinality(S)
             H == Hits(q, D, 1..n)
             Foremost == {i \in S \cap D : \A j \in (S \cap D) \ {i} : FurtherBack(oam, j, i)}
  <1>1. /\ n \in Nat /\ q \in [1..n -> S]
        /\ \A k, m \in 1..n : k < m => FurtherBack(oam, q[k], q[m])
        /\ \A i \in S : \E k \in 1..n : q[k] = i
    BY OrderIsOf
  <1> HIDE DEF q, n
  <1>2. FoldLeft(LAMBDA seen, i : IF i \in D THEN {i} ELSE seen, {}, q)
          = Remains(q, D, 1..n)
    <2>1. DOMAIN q = 1..n
      BY <1>1
    <2> QED BY <1>1, <2>1, FoldRemains
  <1>3. H = {k \in 1..n : q[k] \in D}
    BY DEF Hits
  <1>4. CASE H = {}
    <2>1. S \cap D = {}
      BY <1>1, <1>3, <1>4
    <2>2. Foremost = {}
      BY <2>1
    <2>3. Remains(q, D, 1..n) = {}
      BY <1>4 DEF Remains
    <2> QED BY <1>2, <2>2, <2>3 DEF q
  <1>5. CASE H # {}
    <2> DEFINE x == Max(H)
    <2>1. Remains(q, D, 1..n) = {q[x]}
      BY <1>5 DEF Remains
    <2>2. x \in H /\ \A k \in H : k <= x
      BY <1>1, <1>3, <1>5, MaxIs
    <2> HIDE DEF x
    <2>3. x \in 1..n /\ q[x] \in S \cap D
      BY <1>1, <1>3, <2>2
    <2>4. ASSUME NEW j \in (S \cap D) \ {q[x]} PROVE FurtherBack(oam, j, q[x])
      <3>1. PICK k \in 1..n : q[k] = j
        BY <1>1, <2>4
      <3>2. k \in H /\ k # x
        BY <1>3, <2>4, <3>1
      <3>3. k < x
        BY <2>2, <2>3, <3>1, <3>2
      <3> QED BY <1>1, <2>3, <3>1, <3>3
    <2>5. q[x] \in Foremost
      BY <2>3, <2>4
    <2>6. \A i \in Foremost : i = q[x]
      <3> SUFFICES ASSUME NEW i \in Foremost, i # q[x] PROVE FALSE
        OBVIOUS
      <3>1. i \in (S \cap D) \ {q[x]} /\ q[x] \in (S \cap D) \ {i}
        BY <2>3
      <3>2. FurtherBack(oam, i, q[x]) /\ FurtherBack(oam, q[x], i)
        BY <2>4, <3>1
      <3>3. i \in 0..LineObjects /\ q[x] \in 0..LineObjects
        BY <3>1
      <3> QED BY <3>2, <3>3, OneOrder
    <2>7. Foremost = {q[x]}
      BY <2>5, <2>6
    <2> QED BY <1>2, <2>1, <2>7 DEF q
  <1> QED BY <1>4, <1>5

(* The object seen is the frontmost of those with a color there, though they *)
(* are drawn back to front over one another (render_scanline's sort and its  *)
(* loop over the sprites).                                                   *)
THEOREM FrontmostIsSeen == FrontmostSeen
  <1> SUFFICES ASSUME NEW oam \in Pictures, NEW x \in Xs, NEW bg \in {{}, Xs}
               PROVE  LET Visible(i) == /\ i \in LineSprites(oam, 0, FALSE)
                                        /\ Covers(oam[i], x)
                                        /\ <<PatternLine(oam[i], 0, FALSE),
                                             PatternBit(oam[i], x)>> \in Opaque
                                        /\ ~(oam[i].behind /\ x \in bg)
                          Before(i, j) == oam[i].x < oam[j].x
                                            \/ (oam[i].x = oam[j].x /\ i < j)
                      IN  DrawnAt(oam, 0, FALSE, bg, x) =
                            {i \in DOMAIN oam : Visible(i) /\ \A j \in DOMAIN oam \ {i} :
                                                    Visible(j) => Before(i, j)}
    BY DEF FrontmostSeen, Pictures
  <1> DEFINE S == LineSprites(oam, 0, FALSE)
             Colored(i) == /\ Covers(oam[i], x)
                           /\ <<PatternLine(oam[i], 0, FALSE), PatternBit(oam[i], x)>> \in Opaque
                           /\ ~(oam[i].behind /\ x \in bg)
             D == {i \in DOMAIN oam : Colored(i)}
             Before(i, j) == oam[i].x < oam[j].x \/ (oam[i].x = oam[j].x /\ i < j)
  <1>1. DOMAIN oam = 0..LineObjects
    BY DEF Pictures
  <1>2. S \in SUBSET (0..LineObjects)
    BY <1>1 DEF LineSprites
  <1>3. DrawnAt(oam, 0, FALSE, bg, x)
          = FoldLeft(LAMBDA seen, i : IF i \in D THEN {i} ELSE seen, {}, BackToFront(oam, S))
    BY Zenon DEF DrawnAt
  <1> HIDE DEF S, Colored
  <1>4. DrawnAt(oam, 0, FALSE, bg, x)
          = {i \in S \cap D : \A j \in (S \cap D) \ {i} : FurtherBack(oam, j, i)}
    BY <1>2, <1>3, LastIsFrontmost, ZenonT(60)
  <1>5. \A i, j \in 0..LineObjects : FurtherBack(oam, j, i) = Before(i, j)
    BY ObjectX DEF FurtherBack
  <1> HIDE DEF Before
  <1>6. DrawnAt(oam, 0, FALSE, bg, x)
          = {i \in DOMAIN oam : (i \in S /\ Colored(i)) /\ \A j \in DOMAIN oam \ {i} :
                                    (j \in S /\ Colored(j)) => Before(i, j)}
    BY <1>1, <1>2, <1>4, <1>5
  <1> QED BY <1>6, Zenon DEF S, Colored, Before

(* Whenever a line is drawn it is drawn as it should be, for every width,    *)
(* size of the map and number of objects.                                    *)
THEOREM LineIsRightHolds == Spec => []LineIsRight
  <1>1. \A law \in LineLaws : law
    BY TilesAreRight, TilesAreShared, FrontmostIsSeen, FlipsMirror, DamageIsContained, Zenon
       DEF LineLaws
  <1>2. LineIsRight
    BY <1>1, Zenon DEF LineIsRight
  <1> QED BY <1>2, PTL
=============================================================================
