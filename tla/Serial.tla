------------------------------- MODULE Serial -------------------------------
(***************************************************************************)
(* The serial port with nothing at the other end (core/serial.cpp): a      *)
(* transfer shifts ones into SB at the machine's own clock, or waits for   *)
(* the clock of a peer that is not there.                                  *)
(***************************************************************************)
EXTENDS Integers

CONSTANTS
    Bits,           \* 8
    SerialBytes,    \* what the register holds
    BitPeriod,      \* kBitPeriod: 512
    TickLengths     \* of a tick of the bus, in T-cycles

ASSUME SerialAssumption ==
    /\ Bits \in Nat \ {0}
    /\ BitPeriod \in Nat \ {0}
    /\ SerialBytes = 0..(2^Bits - 1)
    /\ 2^Bits \in Nat \ {0}    \* said because the provers know nothing of powers
    \* No tick is longer than a bit, so a tick shifts at most once.
    /\ TickLengths \subseteq 1..BitPeriod

VARIABLES
    sb,
    sc_start,       \* SC bit 7
    sc_internal,    \* SC bit 0
    bits_left,
    out_byte,
    shift_timer,
    sent            \* what the last step gave to the sink, as a set

serialVars == <<sb, sc_start, sc_internal, bits_left, out_byte, shift_timer, sent>>

SerialTypeOK ==
    /\ sb \in SerialBytes
    /\ out_byte \in SerialBytes
    /\ sc_start \in BOOLEAN
    /\ sc_internal \in BOOLEAN
    /\ bits_left \in 0..Bits
    /\ shift_timer \in 0..(BitPeriod - 1)
    /\ sent \subseteq SerialBytes

SerialInit ==
    /\ sb = 0
    /\ sc_start = FALSE
    /\ sc_internal = FALSE
    /\ bits_left = 0
    /\ out_byte = 0
    /\ shift_timer = 0
    /\ sent = {}

SerialReset ==
    /\ sb' = 0
    /\ sc_start' = FALSE
    /\ sc_internal' = FALSE
    /\ bits_left' = 0
    /\ out_byte' = 0
    /\ shift_timer' = 0
    /\ sent' = {}

Shifting == bits_left > 0 /\ sc_start /\ sc_internal

\* The last bit of the transfer leaves within n T-cycles.
Completes(n) == Shifting /\ bits_left = 1 /\ shift_timer + n >= BitPeriod

\* Serial::tick.  On the last bit it returns at once, whatever is left of n.
SerialTick(n) ==
    LET shifts == Shifting /\ shift_timer + n >= BitPeriod
    IN  /\ sb' = IF shifts THEN (2 * sb + 1) % (2^Bits) ELSE sb
        /\ bits_left' = IF shifts THEN bits_left - 1 ELSE bits_left
        /\ shift_timer' = CASE ~Shifting -> shift_timer
                            [] Shifting /\ ~shifts -> shift_timer + n
                            [] Completes(n) -> 0
                            [] OTHER -> shift_timer + n - BitPeriod
        /\ sc_start' = (sc_start /\ ~Completes(n))
        /\ sent' = IF Completes(n) THEN {out_byte} ELSE {}
        /\ UNCHANGED <<sc_internal, out_byte>>

WriteSb(v) ==
    /\ sb' = v
    /\ sent' = {}
    /\ UNCHANGED <<sc_start, sc_internal, bits_left, out_byte, shift_timer>>

\* A bug the checks must notice: a transfer begun again goes on with the bit that
\* was on its way.
WriteScKeepsTimer(start, internal) ==
    /\ sc_start' = start
    /\ sc_internal' = internal
    /\ bits_left' = IF start THEN Bits ELSE 0
    /\ out_byte' = IF start THEN sb ELSE out_byte
    /\ sent' = {}
    /\ UNCHANGED <<sb, shift_timer>>

WriteSc(start, internal) ==
    /\ sc_start' = start
    /\ sc_internal' = internal
    /\ bits_left' = IF start THEN Bits ELSE 0
    /\ out_byte' = IF start THEN sb ELSE out_byte
    /\ shift_timer' = IF start THEN 0 ELSE shift_timer
    /\ sent' = {}
    /\ UNCHANGED sb

SerialQuiet ==
    /\ sent' = {}
    /\ UNCHANGED <<sb, sc_start, sc_internal, bits_left, out_byte, shift_timer>>
=============================================================================
