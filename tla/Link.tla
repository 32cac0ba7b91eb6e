-------------------------------- MODULE Link --------------------------------
(***************************************************************************)
(* What the serial port promises: a transfer takes its time exactly, then  *)
(* delivers, once, the byte the register held when it began, and asks for  *)
(* an interrupt; one that is begun again or given up, which time alone     *)
(* never does, delivers nothing.                                           *)
(***************************************************************************)
EXTENDS Integers

CONSTANTS
    Duration,       \* T-cycles of a transfer
    TickLengths,    \* of a tick of the bus
    SerialBytes

VARIABLES
    left,           \* T-cycles left of the transfer under way, 0 for none
    register,       \* what the program reads
    byte,           \* what is being sent
    sent,           \* what the last step delivered, as a set
    irq,            \* the interrupt is asked for
    time            \* T-cycles of the call of the frontend, counted anew for each

linkVars == <<left, register, byte, sent, irq, time>>

Timeless == time' <= time

Idle == left' = 0 /\ sent' = {} /\ register' \in SerialBytes /\ byte' \in SerialBytes

Init ==
    /\ left = 0
    /\ register \in SerialBytes
    /\ byte \in SerialBytes
    /\ sent = {}
    /\ ~irq
    /\ time = 0

Tick ==
    /\ \E n \in TickLengths :
            /\ time' = time + n
            /\ left' = IF left > n THEN left - n ELSE 0
            /\ sent' = IF left \in 1..n THEN {byte} ELSE {}
            /\ irq' <=> (irq \/ left \in 1..n)
    /\ register' \in SerialBytes
    /\ UNCHANGED byte

Begin ==
    /\ left' = Duration
    /\ byte' = register
    /\ sent' = {}
    /\ UNCHANGED <<register, irq>>
    /\ Timeless

\* The transfer is given up, or waits for a clock that never comes.
GiveUp == Idle /\ (irq' => irq) /\ Timeless

\* The program writes the register, or the interrupt is taken or asked for
\* otherwise.
Write ==
    /\ register' \in SerialBytes
    /\ sent' = {}
    /\ irq' \in BOOLEAN
    /\ UNCHANGED <<left, byte>>
    /\ Timeless

Spec == Init /\ [][Tick \/ Begin \/ GiveUp \/ Write]_linkVars
=============================================================================
