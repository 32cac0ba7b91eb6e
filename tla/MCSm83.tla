------------------------------- MODULE MCSm83 -------------------------------
(***************************************************************************)
(* Three interrupt lines, five addresses (0 for a cancelled dispatch, the  *)
(* vectors and one more) and a stack space in which IF and IE are not      *)
(* neighbours, so that one dispatch can hit at most one of them.  The      *)
(* arithmetic, which shares no state with that, is checked beside it.      *)
(***************************************************************************)
EXTENDS Sm83Observer, Alu

MCVector == [l \in 0..2 |-> l + 1]

\* In whatever state an instruction executes: what programs count on when they
\* chain byte operations into decimal and 16-bit arithmetic, shifts of several
\* bytes, comparisons and bit tests (cpu/opcodes.inl).
Arithmetic == stage = "exec" => \A law \in Laws : law
============================================================================
