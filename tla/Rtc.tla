-------------------------------- MODULE Rtc --------------------------------
(***************************************************************************)
(* The registers of the MBC3 clock (core/cart/mbc.cpp), as operators on    *)
(* their record.  The day's nine bits, which two registers share, are one  *)
(* number here.                                                            *)
(***************************************************************************)
EXTENDS Integers

CONSTANTS
    Minute, Hour, Day,              \* 60, 60, 24
    Seconds, Minutes, Hours,        \* what the registers can hold: 64, 64, 32
    DayLow                          \* values of the day's low byte: 256

ASSUME RtcAssumption ==
    /\ {Minute, Hour, Day, Seconds, Minutes, Hours, DayLow} \subseteq Nat \ {0}
    /\ Minute <= Seconds
    /\ Hour <= Minutes
    /\ Day <= Hours

\* The numbers that select the registers.
ClockRegs == 8..12

RtcRegs == [seconds: 0..(Seconds - 1), minutes: 0..(Minutes - 1), hours: 0..(Hours - 1),
            day: 0..(2 * DayLow - 1), halt: BOOLEAN, carry: BOOLEAN]

RtcZero == [seconds |-> 0, minutes |-> 0, hours |-> 0,
            day |-> 0, halt |-> FALSE, carry |-> FALSE]

rtc_read(r, sel) ==
    CASE sel = 8 -> r.seconds
      [] sel = 9 -> r.minutes
      [] sel = 10 -> r.hours
      [] sel = 11 -> r.day % DayLow
      [] sel = 12 -> <<r.day \div DayLow, r.halt, r.carry>>

\* The day's high bit shares its register with the halt and the carry.
HighWritten(r, b) ==
    [r EXCEPT !.day = (r.day % DayLow) + DayLow * b.day, !.halt = b.halt, !.carry = b.carry]

\* What writes to register sel, of any byte, can make of the registers.
Written(r, sel) ==
    CASE sel = 8 -> {[r EXCEPT !.seconds = v] : v \in 0..(Seconds - 1)}
      [] sel = 9 -> {[r EXCEPT !.minutes = v] : v \in 0..(Minutes - 1)}
      [] sel = 10 -> {[r EXCEPT !.hours = v] : v \in 0..(Hours - 1)}
      [] sel = 11 -> {[r EXCEPT !.day = (r.day \div DayLow) * DayLow + v] : v \in 0..(DayLow - 1)}
      [] sel = 12 -> {HighWritten(r, b) : b \in [day: {0, 1}, halt: BOOLEAN, carry: BOOLEAN]}

\* advance_second.  A register set past its last legal value turns over with the
\* next count.
AdvanceSecond(r) ==
    LET minute == r.seconds + 1 >= Minute
        hour == minute /\ r.minutes + 1 >= Hour
        day == hour /\ r.hours + 1 >= Day
        wraps == day /\ r.day = 2 * DayLow - 1
    IN  [seconds |-> IF minute THEN 0 ELSE r.seconds + 1,
         minutes |-> IF hour THEN 0 ELSE IF minute THEN r.minutes + 1 ELSE r.minutes,
         hours |-> IF day THEN 0 ELSE IF hour THEN r.hours + 1 ELSE r.hours,
         day |-> IF wraps THEN 0 ELSE IF day THEN r.day + 1 ELSE r.day,
         halt |-> r.halt,
         carry |-> r.carry \/ wraps]
============================================================================
