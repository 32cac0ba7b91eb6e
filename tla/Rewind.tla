------------------------------- MODULE Rewind -------------------------------
(***************************************************************************)
(* The rewind ring (core/state/rewind.cpp): slots for save states, written *)
(* every so many frames, the oldest first to go.                           *)
(*                                                                         *)
(* These are the operations; Machine calls them.                           *)
(***************************************************************************)
EXTENDS Integers

CONSTANTS
    Capacities,     \* numbers of slots
    Intervals,      \* frames between snapshots, as asked for
    Empty           \* a slot with nothing in it

ASSUME RewindAssumption == Capacities \subseteq Nat /\ Intervals \subseteq Nat

VARIABLES
    slots,          \* slots_, from 0
    capacity,       \* their number
    interval, head, size, counter

ringVars == <<slots, capacity, interval, head, size, counter>>

Blank(n) == [i \in 0..(n - 1) |-> Empty]

AtLeastOne(n) == IF n < 1 THEN 1 ELSE n

RewindInit ==
    /\ capacity \in Capacities
    /\ interval \in {AtLeastOne(n) : n \in Intervals}
    /\ slots = Blank(capacity)
    /\ head = 0
    /\ size = 0
    /\ counter = 0

\* capture, which is called once a frame.
Capture(blob) ==
    \/ capacity = 0 /\ UNCHANGED ringVars
    \/ /\ capacity > 0
       /\ counter' = (counter + 1) % interval
       /\ \/ counter # 0 /\ UNCHANGED <<slots, head, size>>
          \/ /\ counter = 0
             /\ slots' = [slots EXCEPT ![head] = blob]
             /\ head' = (head + 1) % capacity
             /\ size' = IF size < capacity THEN size + 1 ELSE size
       /\ UNCHANGED <<capacity, interval>>

NewestSlot == (head + capacity - 1) % capacity

\* A bug the checks must notice: the frame gone back to is counted again.
DropNewestRecounts ==
    /\ size > 0
    /\ head' = NewestSlot
    /\ size' = size - 1
    /\ counter' = 0
    /\ UNCHANGED <<slots, capacity, interval>>

\* Another: the slot is given back at the wrong end.
DropNewestKeepsHead ==
    /\ size > 0
    /\ size' = size - 1
    /\ counter' = 1 % interval
    /\ UNCHANGED <<slots, head, capacity, interval>>

\* What step_back does to the ring.  The slot keeps what it has.
DropNewest ==
    /\ size > 0
    /\ head' = NewestSlot
    /\ size' = size - 1
    /\ counter' = 1 % interval
    /\ UNCHANGED <<slots, capacity, interval>>

Clear ==
    /\ slots' = Blank(capacity')
    /\ head' = 0
    /\ size' = 0
    /\ counter' = 0

SetInterval ==
    /\ interval' \in {AtLeastOne(n) : n \in Intervals}
    /\ UNCHANGED capacity
    /\ Clear

SetCapacity ==
    /\ capacity' \in Capacities
    /\ UNCHANGED interval
    /\ Clear

ClearAlone ==
    /\ UNCHANGED <<capacity, interval>>
    /\ Clear
============================================================================
