---------------------------- MODULE Sm83Observer ----------------------------
(***************************************************************************)
(* Sm83 with history variables that change nothing in it: they remember    *)
(* what a dispatch started from, how long ago EI was executed and whether  *)
(* a locked opcode was, which is what the properties below talk about.     *)
(***************************************************************************)
EXTENDS Sm83

VARIABLES
    steady,    \* lines pending when the dispatch began and ever since
    overrun,   \* the high byte of the dispatch went to IF or IE
    ei_age,    \* instructions run since an EI that found IME clear: 0, 1; or 2
    hung       \* a locked opcode is what the CPU reads

vars == <<cpuVars, steady, overrun, ei_age, hung>>

ObserveDispatch ==
    \/ /\ BeginDispatch
       /\ steady' = Pending
       /\ UNCHANGED <<overrun, ei_age, hung>>
    \/ /\ PushHigh
       /\ steady' = steady \cap Pending'
       /\ overrun' = (Down(sp) \in {IfAddr, IeAddr})
       /\ ei_age' = 2
       /\ UNCHANGED hung
    \/ /\ PushLow
       /\ UNCHANGED <<steady, overrun, ei_age, hung>>
    \/ /\ EndDispatch
       /\ steady' = {}
       /\ overrun' = FALSE
       /\ hung' = FALSE
       /\ UNCHANGED ei_age

ObserveExec ==
    /\ Exec
    /\ ei_age' = IF op = "ei" /\ ~ime THEN 0 ELSE IF ei_age = 0 THEN 1 ELSE 2
    /\ UNCHANGED <<steady, overrun, hung>>

\* A hung CPU writes nothing, so it reads the same byte again.  (After the HALT
\* bug the byte before the opcode is a HALT: that is not the hang.)
ObserveFetch ==
    /\ Fetch
    /\ hung => op' = "locked"
    /\ hung' = (op' = "locked" /\ ~halt_bug)
    /\ UNCHANGED <<steady, overrun, ei_age>>

ObserveIdle ==
    /\ Idle
    /\ UNCHANGED <<steady, overrun, ei_age, hung>>

ObservedNext == ObserveDispatch \/ ObserveExec \/ ObserveFetch \/ ObserveIdle

ObservedInit ==
    /\ Init
    /\ steady = {}
    /\ overrun = FALSE
    /\ ei_age = 2
    /\ hung = FALSE

ObservedSpec == ObservedInit /\ [][ObservedNext]_vars

----------------------------------------------------------------------------

\* A dispatch never passes over a line for one of lower priority: whatever
\* arrives or goes while it pushes PC, it ends at the vector of the first of
\* the lines that were pending all along, or of one that comes before it.
NoOvertaking ==
    stage = "jump" /\ steady # {} =>
        \E l \in Lines : pc = Vector[l] /\ \A m \in steady : l <= m

\* A dispatch is called off (PC goes to 0 and no line is cleared) only when
\* its own high byte was pushed over IE or IF.  (sm83.cpp: "a stack that runs
\* over IE at 0xFFFF can retarget or cancel the dispatch".)
CancelledByStackOnly == stage = "jump" /\ sampled = {} => overrun

\* A request goes away only by being dispatched to its own vector, or by the
\* program writing IF, by instruction or by stack; no other request goes with
\* it, and none is lost while the CPU halts, wakes or enables interrupts.
NoRequestLost ==
    [][\A l \in requested \ requested' :
          \/ stage = "low" /\ pc' = Vector[l]
          \/ stage \in {"high", "low"} /\ sp' = IfAddr
          \/ stage = "exec" /\ op = "write_if"]_vars

\* EI lets exactly one more instruction run: no dispatch comes before it, and
\* after it IME is set, unless that instruction was DI.  (sm83.cpp: "EI takes
\* effect only once the instruction after it has run".)
EiDelay ==
    /\ stage = "high" => ei_age # 0
    /\ stage = "fetch" /\ ei_age = 1 => ime \/ op = "di"

\* Where opcodes.inl says of a locked opcode "the part hangs here forever".
LockedHangs == hung => stage \in {"fetch", "exec"}
============================================================================
