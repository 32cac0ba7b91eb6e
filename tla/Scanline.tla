------------------------------ MODULE Scanline ------------------------------
(***************************************************************************)
(* What Ppu::render_scanline draws (core/ppu/ppu.cpp), and what it should. *)
(*                                                                         *)
(* The contents of VRAM are left out: a pixel of the background or the     *)
(* window is the place its color comes from, so that two places are never  *)
(* taken for one another.  Of the objects only what decides who is seen is *)
(* here; shades are not.                                                   *)
(***************************************************************************)
EXTENDS OamBug, FiniteSets, SequencesExt

CONSTANTS
    Width,          \* kScreenWidth: 160
    TileSize,       \* 8
    MapSize,        \* tiles on a side of a map: 32
    LineObjects,    \* kMaxSpritesPerLine: 10
    Opaque          \* <<line of a pattern, bit>> of what is not transparent

ASSUME ScanlineAssumption ==
    /\ {Width, TileSize, MapSize, LineObjects} \subseteq Nat \ {0}
    /\ Width + TileSize <= MapSize * TileSize  \* the window never wraps
    /\ Opaque \subseteq Nat \X (0..(TileSize - 1))

Xs == 0..(Width - 1)

----------------------------------------------------------------------------
(* The background and the window, of the registers r.                      *)

\* WX is where the window begins and TileSize - 1 more.
WindowEnabled(r) ==
    r.window_on /\ r.bg_on /\ r.line >= r.wy /\ r.wx < Width + TileSize - 1

InWindow(r, x) == WindowEnabled(r) /\ x + TileSize - 1 >= r.wx

FineX(r, x) ==
    IF InWindow(r, x) THEN (x + TileSize - 1 - r.wx) % TileSize ELSE (r.scx + x) % TileSize

\* The map fetch: which row of which tile is drawn from x on.
Fetch(r, x) ==
    IF InWindow(r, x)
    THEN [window |-> TRUE,
          tx |-> ((x + TileSize - 1 - r.wx) \div TileSize) % MapSize,
          ty |-> r.window_line \div TileSize,
          fine_y |-> r.window_line % TileSize]
    ELSE [window |-> FALSE,
          tx |-> ((r.scx + x) \div TileSize) % MapSize,
          ty |-> ((r.scy + r.line) \div TileSize) % MapSize,
          fine_y |-> (r.scy + r.line) % TileSize]

\* A bug the checks must notice: every eighth pixel is one of the screen.
KeepsTileOfScreen(r, s, x) ==
    s.have_tile /\ InWindow(r, x) = s.cached_window /\ x % TileSize # 0

\* "The tile row only changes every eighth pixel", or where the window begins.
KeepsTile(r, s, x) ==
    s.have_tile /\ InWindow(r, x) = s.cached_window /\ FineX(r, x) # 0

\* The loop over x, which keeps the tile it fetched; with the background off there
\* is nothing to fetch.
RenderState(r) ==
    LET at[x \in -1..(Width - 1)] ==
            IF x = -1
            THEN [have_tile |-> FALSE, cached_window |-> FALSE, tile |-> Fetch(r, 0)]
            ELSE LET s == at[x - 1]
                 IN  IF ~r.bg_on \/ KeepsTile(r, s, x) THEN s
                     ELSE [have_tile |-> TRUE, cached_window |-> InWindow(r, x),
                           tile |-> Fetch(r, x)]
    IN  [x \in Xs |-> at[x]]

\* Where in its map, in pixels, the pixel at x comes from, if anywhere.
Rendered(r) ==
    LET states == RenderState(r)
    IN  [x \in Xs |->
            LET tile == states[x].tile
            IN  IF ~r.bg_on THEN {}
                ELSE {[window |-> tile.window,
                       px |-> tile.tx * TileSize + FineX(r, x),
                       py |-> tile.ty * TileSize + tile.fine_y]}]

\* window_drawn: the window's line count moves on.
WindowDrawn(r) ==
    \E x \in Xs : RenderState(r)[x].have_tile /\ RenderState(r)[x].tile.window

\* The six dots that mode3_dots adds for the window.
WindowStalls(r) == WindowEnabled(r)

\* The pattern of tile t, in either way of addressing.
PatternAddress(signed, t) ==
    IF signed THEN 34816 + ((t + 128) % 256) * 16 ELSE 32768 + t * 16

----------------------------------------------------------------------------
(* The objects, as OAM has them.                                           *)

Height(tall) == IF tall THEN 2 * TileSize ELSE TileSize

OnLine(o, line, tall) == o.y - 2 * TileSize <= line /\ line < o.y - 2 * TileSize + Height(tall)

\* The first objects of OAM that are on the line, so many at most.
LineSprites(oam, line, tall) ==
    LET hit == {i \in DOMAIN oam : OnLine(oam[i], line, tall)}
    IN  {i \in hit : Cardinality({j \in hit : j < i}) < LineObjects}

\* The line of the pattern, and its bit, that object o draws at x.
PatternLine(o, line, tall) ==
    LET row == line - (o.y - 2 * TileSize)
        tile == IF tall THEN o.tile - (o.tile % 2) ELSE o.tile
    IN  tile * TileSize + (IF o.flip_y THEN Height(tall) - 1 - row ELSE row)

PatternBit(o, x) ==
    LET px == x - (o.x - TileSize)
    IN  IF o.flip_x THEN px ELSE TileSize - 1 - px

Covers(o, x) == x - (o.x - TileSize) \in 0..(TileSize - 1)

\* Of two objects, whether i is drawn before j.
FurtherBack(oam, i, j) == oam[i].x > oam[j].x \/ (oam[i].x = oam[j].x /\ i > j)

\* "Drawing back to front means the winner is written last."
BackToFront(oam, sprites) ==
    CHOOSE order \in [1..Cardinality(sprites) -> sprites] :
        \A m, n \in DOMAIN order : m < n => FurtherBack(oam, order[m], order[n])

\* What the objects, drawn one after another, leave at x: the object seen there,
\* or none.  bg is where the background has a color.
DrawnAt(oam, line, tall, bg, x) ==
    LET drawn == {i \in DOMAIN oam :
                    /\ Covers(oam[i], x)
                    /\ <<PatternLine(oam[i], line, tall), PatternBit(oam[i], x)>> \in Opaque
                    /\ ~(oam[i].behind /\ x \in bg)}
    IN  FoldLeft(LAMBDA seen, i : IF i \in drawn THEN {i} ELSE seen, {},
                 BackToFront(oam, LineSprites(oam, line, tall)))

----------------------------------------------------------------------------
(* What should be seen.                                                    *)

Registers ==
    [bg_on: BOOLEAN, window_on: BOOLEAN,
     scx: 0..(TileSize * MapSize - 1), scy: 0..(TileSize * MapSize - 1),
     wx: 0..(Width + TileSize), wy: 0..1, line: 0..1, window_line: 0..TileSize]

\* The map is a torus behind the screen, and the window lies before it from its
\* left edge on, showing its own lines one after another; nothing is shown of either
\* while the background is off.
Shown(r, x) ==
    IF ~r.bg_on THEN {}
    ELSE IF /\ r.window_on
            /\ r.wy <= r.line
            /\ r.wx - (TileSize - 1) <= x /\ r.wx - (TileSize - 1) < Width
    THEN {[window |-> TRUE, px |-> x - (r.wx - (TileSize - 1)), py |-> r.window_line]}
    ELSE {[window |-> FALSE,
           px |-> (r.scx + x) % (TileSize * MapSize),
           py |-> (r.scy + r.line) % (TileSize * MapSize)]}

\* The tile kept from pixel to pixel is never that of another place, wherever the
\* screen lies on the map and the window on the screen; and the window's lines,
\* and the time they take, are counted exactly where there is a window.
TilesFetched ==
    \A r \in Registers :
        /\ Rendered(r) = [x \in Xs |-> Shown(r, x)]
        /\ WindowDrawn(r) <=> WindowStalls(r)

\* The tiles 128 to 255 are the same in both ways of addressing, and the others
\* lie before them in one and after them in the other.
TilesShared ==
    \A t \in 0..255 :
        /\ t >= 128 => PatternAddress(TRUE, t) = PatternAddress(FALSE, t)
        /\ t < 128 => PatternAddress(TRUE, t) = PatternAddress(FALSE, t + 256)

Objects ==
    [y: {0, 2 * TileSize}, x: 1..(Width + 1), tile: 0..1, behind: BOOLEAN,
     flip_x: {FALSE}, flip_y: {FALSE}]

\* The object that is seen is, of the first ones on the line, the leftmost of those
\* that have a color there and are not behind one, and the first in OAM of two at
\* one place.
FrontmostSeen ==
    \A oam \in [0..LineObjects -> Objects], x \in Xs, bg \in {{}, Xs} :
        LET Visible(i) == /\ i \in LineSprites(oam, 0, FALSE)
                          /\ Covers(oam[i], x)
                          /\ <<PatternLine(oam[i], 0, FALSE), PatternBit(oam[i], x)>> \in Opaque
                          /\ ~(oam[i].behind /\ x \in bg)
            Before(i, j) == oam[i].x < oam[j].x \/ (oam[i].x = oam[j].x /\ i < j)
        IN  DrawnAt(oam, 0, FALSE, bg, x) =
                {i \in DOMAIN oam : Visible(i) /\ \A j \in DOMAIN oam \ {i} :
                                        Visible(j) => Before(i, j)}

\* An object flipped is its own mirror image, a tall one as a whole.
Mirrored ==
    \A x \in 1..Width, tile \in 0..3, line \in 0..(2 * TileSize - 1), tall \in BOOLEAN :
        LET o == [y |-> 2 * TileSize, x |-> x, tile |-> tile, behind |-> FALSE,
                  flip_x |-> FALSE, flip_y |-> FALSE]
            bottom == Height(tall) - 1
        IN  OnLine(o, line, tall) =>
                /\ PatternLine([o EXCEPT !.flip_y = TRUE], line, tall)
                        = PatternLine(o, bottom - line, tall)
                /\ PatternLine(o, line, tall) \div Height(tall)
                        = PatternLine(o, 0, tall) \div Height(tall)
                /\ \A px \in 0..(TileSize - 1) :
                        PatternBit([o EXCEPT !.flip_x = TRUE], o.x - TileSize + px)
                            = PatternBit(o, o.x - 1 - px)

\* A line is drawn as it should be, and an access to OAM during the scan damages
\* no more than it does.
LineLaws == {TilesFetched, TilesShared, FrontmostSeen, Mirrored, DamageContained}
=============================================================================
