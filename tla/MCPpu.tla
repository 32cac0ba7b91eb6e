------------------------------- MODULE MCPpu -------------------------------
(***************************************************************************)
(* A frame of four short lines, two of them visible.  Drawing can take     *)
(* three lengths, so a stale one differs from the next.  What is drawn on  *)
(* a line, which shares no state with that, is checked beside it: lines of *)
(* four pixels, tiles of two, two objects of three.                        *)
(***************************************************************************)
EXTENDS Ppu, Scanline

MCLycValues == {0, 2, Lines}

\* Of the first tile the left half, of the second all.
MCOpaque == {<<0, 1>>, <<1, 1>>, <<2, 0>>, <<2, 1>>, <<3, 0>>, <<3, 1>>}

\* Whenever a line is drawn, it is drawn as it should be, for all values of the
\* registers and all objects; and an access to OAM during the scan damages no more
\* than it does (Ppu::render_scanline, Ppu::corrupt_row).
LineIsRight == mode = "drawing" => \A law \in LineLaws : law
============================================================================
