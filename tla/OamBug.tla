------------------------------- MODULE OamBug -------------------------------
(***************************************************************************)
(* What the OAM bug does to the rows of OAM (core/ppu/ppu.cpp).  A row is  *)
(* four words; the bits of a word meet the bits of the same place only, so *)
(* a word here is one of them.                                             *)
(***************************************************************************)
EXTENDS Integers

CONSTANTS
    FirstDeep,      \* the first row of which an access in a pulse reaches two back: 4
    LastRow         \* 19

ASSUME OamBugAssumption ==
    /\ FirstDeep \in Nat /\ FirstDeep >= 3
    /\ LastRow \in Nat /\ LastRow > FirstDeep

OamRows == 0..LastRow
Columns == 0..3

corrupt_row(oam, row, first) ==
    [oam EXCEPT ![row] = [w \in Columns |-> IF w = 0 THEN first ELSE oam[row - 1][w]]]

\* "Objects 0 and 1 sit in the first row and are wired past the bug."
oam_bug_write(oam, row) ==
    LET a == oam[row][0]
        b == oam[row - 1][0]
        c == oam[row - 1][2]
    IN  IF row = 0 THEN oam
        ELSE corrupt_row(oam, row, ((a # c) /\ (b # c)) # c)

oam_bug_read(oam, row) ==
    IF row = 0 THEN oam
    ELSE corrupt_row(oam, row, oam[row - 1][0] \/ (oam[row][0] /\ oam[row - 1][2]))

\* The row before, whose first word is mixed, is copied to both its neighbours.
Spread(oam, row) ==
    LET a == oam[row - 2][0]
        b == oam[row - 1][0]
        c == oam[row][0]
        d == oam[row - 1][2]
        mixed == [oam[row - 1] EXCEPT ![0] = (b /\ (a \/ c \/ d)) \/ (a /\ c /\ d)]
    IN  [r \in OamRows |-> IF r \in (row - 2)..row THEN mixed ELSE oam[r]]

oam_bug_read_write(oam, row) ==
    oam_bug_read(IF row >= FirstDeep /\ row # LastRow THEN Spread(oam, row) ELSE oam, row)

----------------------------------------------------------------------------

\* The rows that the bug reaches at row, and OAMs that differ in those.
Reach(row) == OamRows \cap ((row - 2)..row)

OamsAt(row) ==
    {[r \in OamRows |-> IF r \in Reach(row) THEN near[r] ELSE [w \in Columns |-> FALSE]] :
        near \in [Reach(row) -> [Columns -> BOOLEAN]]}

\* The bug damages what is near the scan and nothing else: the first row never,
\* no row more than two back, and no bit on which the words it meets agree.
Contained(oam, damaged, row) ==
    /\ damaged[0] = oam[0]
    /\ \A r \in OamRows \ Reach(row) : damaged[r] = oam[r]
    /\ \A b \in BOOLEAN :
        (\A r \in Reach(row), w \in Columns : oam[r][w] = b) => damaged = oam
    /\ \A w \in 1..3, r \in Reach(row) :
        \E near \in Reach(row) : damaged[r][w] = oam[near][w]

DamageContained ==
    \A row \in OamRows : \A oam \in OamsAt(row) :
        /\ Contained(oam, oam_bug_write(oam, row), row)
        /\ Contained(oam, oam_bug_read(oam, row), row)
        /\ Contained(oam, oam_bug_read_write(oam, row), row)
=============================================================================
