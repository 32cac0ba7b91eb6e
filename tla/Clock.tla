------------------------------- MODULE Clock -------------------------------
(***************************************************************************)
(* What the clock of an MBC3 cartridge promises: it counts seconds, starts *)
(* again after its last day and remembers that it did, and stands still    *)
(* while it is stopped.                                                    *)
(***************************************************************************)
EXTENDS Integers

CONSTANTS
    Total,          \* seconds of all its days
    Minute,         \* seconds of a minute
    SecondLength,   \* T-cycles of a second
    TickLengths     \* of a tick of the bus

VARIABLES
    total,      \* the seconds counted
    overflow,   \* it has started again
    stopped,
    sub         \* T-cycles of the second under way

clockVars == <<total, overflow, stopped, sub>>

Init ==
    /\ total = 0
    /\ overflow = FALSE
    /\ stopped \in BOOLEAN
    /\ sub = 0

\* Time passes, and with it at most a second.
Run ==
    /\ ~stopped
    /\ \E n \in TickLengths :
        LET full == sub + n >= SecondLength
        IN  /\ sub' = IF full THEN sub + n - SecondLength ELSE sub + n
            /\ total' = IF full THEN (total + 1) % Total ELSE total
            /\ overflow' = (overflow \/ (full /\ total + 1 = Total))
    /\ UNCHANGED stopped

\* The program sets the seconds, and a second begins.
SetSeconds ==
    /\ total' \in 0..(Total - 1)
    /\ total' \div Minute = total \div Minute
    /\ sub' = 0
    /\ UNCHANGED <<overflow, stopped>>

\* The program sets something else, and the second under way goes on.
SetRest ==
    /\ total' \in 0..(Total - 1)
    /\ total' % Minute = total % Minute
    /\ overflow' \in BOOLEAN
    /\ stopped' \in BOOLEAN
    /\ UNCHANGED sub

Spec == Init /\ [][Run \/ SetSeconds \/ SetRest]_clockVars
============================================================================
