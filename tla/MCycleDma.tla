----------------------------- MODULE MCycleDma -----------------------------
(***************************************************************************)
(* What OAM DMA promises the CPU, which sees it once per M-cycle.  A write *)
(* to FF46 is followed by two M-cycles in which nothing has changed for    *)
(* the CPU: the buses are free, or the transfer before still has them.  In *)
(* the third the new transfer takes over with its first byte, and then it  *)
(* copies one byte in every M-cycle, Size of them in all.                  *)
(*                                                                         *)
(* OamDma, which models core/bus.cpp one T-cycle at a time, is shown to    *)
(* implement this.                                                         *)
(***************************************************************************)
EXTENDS Integers

CONSTANTS Pages, Size

VARIABLES
    pending,    \* the page asked for last
    wait,       \* M-cycles until its transfer takes over, 0 when none is due
    page,       \* the page of the transfer that has or last had the bus
    copied,     \* bytes it has copied
    active,     \* it has the bus
    ready       \* the CPU may access the bus before the next M-cycle

vars == <<pending, wait, page, copied, active, ready>>

Init ==
    /\ pending \in Pages
    /\ page = pending
    /\ wait = 0
    /\ copied = 0
    /\ active = FALSE
    /\ ready = FALSE

Copy(n) ==
    /\ copied' = n + 1
    /\ active' = (n + 1 < Size)

\* An M-cycle in which no transfer takes over: the running one goes on.
Continue ==
    /\ ~ready
    /\ wait # 1
    /\ wait' = IF wait = 0 THEN 0 ELSE wait - 1
    /\ IF active THEN Copy(copied) ELSE UNCHANGED <<copied, active>>
    /\ ready' \in BOOLEAN
    /\ UNCHANGED <<pending, page>>

\* The M-cycle of a takeover is the first of the new transfer, not another of
\* the old one.
TakeOver ==
    /\ ~ready
    /\ wait = 1
    /\ wait' = 0
    /\ page' = pending
    /\ Copy(0)
    /\ ready' \in BOOLEAN
    /\ UNCHANGED pending

\* A write to FF46: the one before it is forgotten if it has not taken over.
Request ==
    /\ ready
    /\ ready' = FALSE
    /\ pending' \in Pages
    /\ wait' = 3
    /\ UNCHANGED <<page, copied, active>>

Pass ==
    /\ ready
    /\ ready' = FALSE
    /\ UNCHANGED <<pending, wait, page, copied, active>>

Next == Continue \/ TakeOver \/ Request \/ Pass

Spec == Init /\ [][Next]_vars
============================================================================
