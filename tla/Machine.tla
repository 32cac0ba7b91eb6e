------------------------------ MODULE Machine ------------------------------
(***************************************************************************)
(* The machine as a whole (core/gb.cpp): cartridges, frames, save states,  *)
(* and the rewind ring.                                                    *)
(*                                                                         *)
(* What a component holds is abstracted to where it is from: which part of *)
(* which cartridge's machine it is, and how many runs that machine had     *)
(* behind it.  A save state is a header and the parts in their order, with *)
(* no lengths and no marks between them, as the archives write it.         *)
(***************************************************************************)
EXTENDS Rewind, Sequences

CONSTANTS
    Carts,
    NoCart,         \* one of them: no cartridge
    Header,         \* cart_tag and cart_rom_size of each
    Layout,         \* the parts of the payload of each, in their order
    ConsoleParts,   \* how many of these are in every machine: CPU and bus
    MaxAge          \* bound on the runs of a machine

Headers == [mapper : STRING, rom : Nat]

Part == [of : STRING, cart : Carts, age : 0..MaxAge]

States == [header : Headers, body : Seq(Part)]      \* save states

ASSUME MachineAssumption ==
    /\ NoCart \in Carts
    /\ ConsoleParts \in Nat \ {0}
    /\ Header \in [Carts -> Headers]
    /\ Layout \in [Carts -> Seq(STRING)]
    /\ \A c \in Carts : /\ Len(Layout[c]) >= ConsoleParts
                        /\ \A i \in 1..Len(Layout[c]) : Layout[c][i] # "zeros"
                        /\ Header[c] # Empty.header     \* read_header fails on nothing
    /\ MaxAge \in Nat
    /\ Empty \in States

VARIABLES
    cart, body,
    rewind_on,
    linear          \* history: since the ring was last empty, the machine has
                    \* moved by frames with rewind on and by stepping back only

vars == <<cart, body, rewind_on, linear, ringVars>>

\* The parts of a machine with cartridge c after n runs.
Fresh(c, n) == [i \in 1..Len(Layout[c]) |-> [of |-> Layout[c][i], cart |-> c, age |-> n]]

\* What an archive reads past its end.
Zeros == [of |-> "zeros", cart |-> NoCart, age |-> 0]

Age == body[1].age

Init ==
    /\ cart = NoCart
    /\ body = Fresh(NoCart, 0)
    /\ rewind_on = FALSE
    /\ RewindInit
    /\ linear = TRUE

----------------------------------------------------------------------------

\* write_state.
Blob(c, b) == [header |-> Header[c], body |-> b]

ReadHeader(c, blob) == blob.header = Header[c]

\* apply_payload: every part takes what the archive has next.
ApplyPayload(from) ==
    [i \in DOMAIN body |-> IF i <= Len(from) THEN from[i] ELSE Zeros]

\* A bug the checks must notice: a payload that was short is left in place.
LoadStateNoUndo(blob) ==
    body' = IF ReadHeader(cart, blob) THEN ApplyPayload(blob.body) ELSE body

\* load_state.  A payload that is short is undone by the copy made before.
LoadState(blob) ==
    LET rollback == Blob(cart, body)
        payload == IF Len(blob.body) < Len(body) THEN rollback.body ELSE blob.body
    IN  body' = IF ReadHeader(cart, blob) THEN ApplyPayload(payload) ELSE body

----------------------------------------------------------------------------

\* The machine moved as linear describes, or otherwise.
Onward == linear' = (linear \/ size' = 0)
Elsewhere == linear' = (size' = 0)

Run == Age < MaxAge /\ body' = Fresh(cart, Age + 1)

RunFrame ==
    /\ Run
    /\ \/ rewind_on /\ Capture(Blob(cart, body')) /\ Onward
       \/ ~rewind_on /\ UNCHANGED ringVars /\ Elsewhere
    /\ UNCHANGED <<cart, rewind_on>>

\* run_cycles and step_instruction.
RunCycles ==
    /\ Run
    /\ UNCHANGED <<cart, rewind_on, ringVars>>
    /\ Elsewhere

\* load_rom.  The ring is as it was.
LoadRom ==
    /\ cart' \in Carts \ {NoCart}
    /\ body' = Fresh(cart', 0)
    /\ UNCHANGED <<rewind_on, ringVars>>
    /\ Elsewhere

\* reset.  The cartridge is as it was, its bank registers included.
Reset ==
    /\ body' = [i \in DOMAIN body |-> IF i <= ConsoleParts THEN Fresh(cart, 0)[i] ELSE body[i]]
    /\ UNCHANGED <<cart, rewind_on, ringVars>>
    /\ Elsewhere

\* The first n parts of a save state of any machine: one that was cut short, or
\* all of it.  (With zeros added, as libretro.cpp does, it loads no differently.)
Cut(c, age, n) == Blob(c, SubSeq(Fresh(c, age), 1, n))

LoadSaved ==
    /\ \E c \in Carts, age \in 0..MaxAge :
           \E n \in 0..Len(Layout[c]) : LoadState(Cut(c, age, n))
    /\ UNCHANGED <<cart, rewind_on, ringVars>>
    /\ Elsewhere

\* rewind_step_back.  A snapshot of another machine is dropped all the same.
StepBack ==
    /\ DropNewest
    /\ LoadState(slots[NewestSlot])
    /\ UNCHANGED <<cart, rewind_on>>
    /\ Onward

SetRewindEnabled ==
    /\ rewind_on' = ~rewind_on
    /\ UNCHANGED <<cart, body, linear, ringVars>>

SetRing ==
    /\ SetInterval \/ SetCapacity \/ ClearAlone
    /\ UNCHANGED <<cart, body, rewind_on>>
    /\ linear' = TRUE

Next ==
    \/ RunFrame \/ RunCycles
    \/ LoadRom \/ Reset
    \/ LoadSaved \/ StepBack
    \/ SetRewindEnabled \/ SetRing

Spec == Init /\ [][Next]_vars

----------------------------------------------------------------------------

TypeOK ==
    /\ cart \in Carts
    /\ body \in [1..Len(Layout[cart]) -> Part]
    /\ rewind_on \in BOOLEAN
    /\ linear \in BOOLEAN
    /\ capacity \in Capacities
    /\ slots \in [0..(capacity - 1) -> States]
    /\ interval \in Nat \ {0}
    /\ size \in 0..capacity
    /\ head \in IF capacity = 0 THEN {0} ELSE 0..(capacity - 1)
    /\ counter \in 0..(interval - 1)

SameMoment(p, q) == p.cart = q.cart /\ p.age = q.age

\* The parts are of one moment, or the console has been reset since the
\* cartridge's moment.
OfOnePiece(b) ==
    /\ \A i \in DOMAIN b : b[i].of # "zeros"
    /\ \A i, j \in 1..ConsoleParts : SameMoment(b[i], b[j])
    /\ \A i, j \in DOMAIN b \ (1..ConsoleParts) : SameMoment(b[i], b[j])
    /\ \A i \in DOMAIN b : SameMoment(b[1], b[i]) \/ b[1].age = 0

\* A machine is of one piece: however states are cut short or come from other
\* cartridges, it is never half one state and half another, and nothing is
\* made of bytes that were not there.  Only a reset leaves the cartridge what
\* it was.  (gb.h: "Leaves the machine untouched when the state is rejected or
\* truncated".)
Coherent == OfOnePiece(body)

\* What rewinding can bring back, oldest first.
Stack == [i \in 1..size |-> slots[(head + capacity - size + i - 1) % capacity]]

\* While the machine only runs and steps back, its snapshots are in the order
\* of time, a whole number of intervals from each other and from the next one
\* due, and none is taken again of a frame that was gone back to.  (rewind.cpp:
\* "count that frame as already spent rather than snapshotting the same point
\* twice".)
OnGrid ==
    linear =>
        LET at(i) == Stack[i].body[1].age
        IN  /\ \A i \in 1..size :
                   /\ at(i) <= Age
                   /\ (Age - at(i)) % interval = (counter + interval - 1) % interval
            /\ \A i \in 1..(size - 1) : at(i) < at(i + 1)

\* The ring is the stack of History.
Abstract == INSTANCE History WITH
    Snapshots <- States,
    Limits <- Capacities,
    stack <- Stack,
    limit <- capacity

ImplementsHistory == Abstract!Spec

\* Every part of the machine holds what is its own: a state is of a machine with
\* the same cartridge, as far as the layout of its payload goes.
SameConfiguration == \A i \in DOMAIN body : body[i].of = Layout[cart][i]
============================================================================
