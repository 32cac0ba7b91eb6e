------------------------------ MODULE History ------------------------------
(***************************************************************************)
(* What rewinding promises: a stack of snapshots that never holds more     *)
(* than its limit.  One that does not fit pushes out the oldest, and going *)
(* back takes the newest.                                                  *)
(*                                                                         *)
(* Machine, which models core/state/rewind.cpp, is shown to implement it.  *)
(***************************************************************************)
EXTENDS Integers, Sequences

CONSTANTS
    Snapshots,
    Limits

VARIABLES stack, limit

vars == <<stack, limit>>

Init == stack = <<>> /\ limit \in Limits

\* The newest n of a sequence.
Youngest(s, n) == SubSeq(s, IF Len(s) > n THEN Len(s) - n + 1 ELSE 1, Len(s))

\* Any snapshot may be the new one; with a limit of 0 none is kept.
Push ==
    /\ stack' # <<>>
    /\ LET new == stack'[Len(stack')]
       IN  /\ new \in Snapshots
           /\ stack' = Youngest(Append(stack, new), limit)
    /\ UNCHANGED limit

Pop ==
    /\ stack # <<>>
    /\ stack' = SubSeq(stack, 1, Len(stack) - 1)
    /\ UNCHANGED limit

\* All that is kept is dropped when the limit changes.
Clear ==
    /\ stack' = <<>>
    /\ limit' \in Limits

Next == Push \/ Pop \/ Clear

Spec == Init /\ [][Next]_vars
============================================================================
