---------------------------- MODULE MCClockTree ----------------------------
(***************************************************************************)
(* ClockTree with a small divider.  The bits keep the order they have in   *)
(* the code: TAC 1 selects the lowest, then the bit that calls the APU     *)
(* comes between TAC 1 and the others, and the sequencer's is the highest. *)
(***************************************************************************)
EXTENDS ClockTree

MCSelectHalf == [s \in 0..3 |-> IF s = 0 THEN 32 ELSE IF s = 1 THEN 4 ELSE 16]
============================================================================
