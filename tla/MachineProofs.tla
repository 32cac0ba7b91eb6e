---------------------------- MODULE MachineProofs ----------------------------
(***************************************************************************)
(* The machine and its rewind ring for every set of cartridges, every      *)
(* number of slots and every interval: a machine is always of one piece,   *)
(* the ring is a bounded stack, and its snapshots keep to the grid.  Last, *)
(* the loop of run_frame for every length of the lines and of the frame.   *)
(***************************************************************************)
EXTENDS Machine, FrameLoop, SequenceTheorems, TLAPS

(* Quotient and remainder of c by h exist, within their bounds. *)
LEMMA DivMod ==
    ASSUME NEW c \in Nat, NEW h \in Nat \ {0}
    PROVE  /\ c \div h \in Nat
           /\ c % h \in 0..(h - 1)
           /\ c = (h * (c \div h)) + (c % h)
  OBVIOUS

(* They are the only ones. *)
LEMMA DivModUnique ==
    ASSUME NEW c \in Nat, NEW h \in Nat \ {0},
           NEW q \in Nat, NEW r \in 0..(h - 1), c = (h * q) + r
    PROVE  c \div h = q /\ c % h = r
  OBVIOUS

(* Indices into the ring go at most once around it. *)
LEMMA Wrapped ==
    ASSUME NEW n \in Nat \ {0}, NEW x \in 0..(2 * n - 1)
    PROVE  x % n = IF x < n THEN x ELSE x - n
  <1>1. CASE x < n
    <2>1. x = n * 0 + x /\ x \in 0..(n - 1)
      BY <1>1
    <2> QED BY <1>1, <2>1, DivModUnique
  <1>2. CASE x >= n
    <2>1. x = n * 1 + (x - n) /\ x - n \in 0..(n - 1)
      BY <1>2
    <2> QED BY <1>2, <2>1, DivModUnique
  <1> QED BY <1>1, <1>2

(* What the assumptions say of one cartridge. *)
LEMMA Cartridge ==
    ASSUME NEW c \in Carts
    PROVE  /\ Layout[c] \in Seq(STRING)
           /\ Len(Layout[c]) \in Nat
           /\ Len(Layout[c]) >= ConsoleParts
           /\ ConsoleParts \in Nat \ {0}
           /\ Header[c] \in Headers
           /\ Header[c] # Empty.header
           /\ \A i \in 1..Len(Layout[c]) : Layout[c][i] \in STRING /\ Layout[c][i] # "zeros"
  <1>1. Layout[c] \in Seq(STRING) /\ Header[c] \in Headers
    BY MachineAssumption
  <1>2. Len(Layout[c]) \in Nat /\ \A i \in 1..Len(Layout[c]) : Layout[c][i] \in STRING
    BY <1>1, LenProperties, ElementOfSeq
  <1> QED BY <1>1, <1>2, MachineAssumption

LEMMA FreshType ==
    ASSUME NEW c \in Carts, NEW n \in 0..MaxAge
    PROVE  /\ Fresh(c, n) \in [1..Len(Layout[c]) -> Part]
           /\ OfOnePiece(Fresh(c, n))
           /\ Fresh(c, n)[1].age = n
           /\ Blob(c, Fresh(c, n)) \in States
  <1> DEFINE b == Fresh(c, n)
             len == Len(Layout[c])
  <1>1. \A i \in 1..len : /\ b[i] = [of |-> Layout[c][i], cart |-> c, age |-> n]
                          /\ b[i] \in Part
                          /\ b[i].of # "zeros" /\ b[i].cart = c /\ b[i].age = n
    BY Cartridge DEF Fresh, Part
  <1>2. DOMAIN b = 1..len
    BY DEF Fresh
  <1>3. b \in [1..len -> Part]
    BY <1>1 DEF Fresh
  <1>4. len \in Nat /\ ConsoleParts \in Nat \ {0} /\ len >= ConsoleParts
    BY Cartridge
  <1>5. \A i \in 1..ConsoleParts : i \in 1..len
    BY <1>4
  <1>6. 1 \in 1..len
    BY <1>4
  <1> HIDE DEF b
  <1>7. OfOnePiece(b)
    BY <1>1, <1>2, <1>5, <1>6 DEF OfOnePiece, SameMoment
  <1>8. b \in Seq(Part)
    BY <1>3, <1>4, SeqDef
  <1>9. Blob(c, b) \in States
    BY <1>8, Cartridge DEF Blob, States
  <1> QED BY <1>1, <1>3, <1>6, <1>7, <1>9 DEF b

----------------------------------------------------------------------------

(* What the ring holds is of one piece too. *)
Keepable(b) == OfOnePiece(b.body) /\ Len(b.body) >= ConsoleParts

SlotsWhole == \A k \in 0..(capacity - 1) : slots[k] = Empty \/ Keepable(slots[k])

MachineInv == TypeOK /\ Coherent /\ SlotsWhole

(* Loading a state that is whole, short, or of another machine. *)
LEMMA LoadKeeps ==
    ASSUME TypeOK, Coherent, NEW blob \in States, LoadState(blob),
           \/ OfOnePiece(blob.body)
           \/ Len(blob.body) < ConsoleParts
           \/ blob = Empty
    PROVE  body' \in [1..Len(Layout[cart]) -> Part] /\ OfOnePiece(body')
  <1> DEFINE len == Len(Layout[cart])
             from == IF Len(blob.body) < Len(body) THEN body ELSE blob.body
  <1>1. /\ cart \in Carts /\ body \in [1..len -> Part] /\ OfOnePiece(body)
        /\ len \in Nat /\ ConsoleParts \in Nat \ {0} /\ len >= ConsoleParts
    BY Cartridge DEF TypeOK, Coherent
  <1>2. CASE ~ReadHeader(cart, blob)
    <2>1. body' = body
      BY <1>2 DEF LoadState
    <2> QED BY <1>1, <2>1
  <1>3. CASE ReadHeader(cart, blob)
    <2>1. blob # Empty
      BY <1>1, <1>3, Cartridge DEF ReadHeader
    <2>2. body \in Seq(Part) /\ blob.body \in Seq(Part)
      BY <1>1, SeqDef DEF States
    <2>3. Len(body) = len /\ Len(blob.body) \in Nat /\ DOMAIN blob.body = 1..Len(blob.body)
      BY <1>1, <2>2, LenProperties
    <2>4. from \in Seq(Part) /\ Len(from) >= len /\ Len(from) \in Nat
      BY <1>1, <2>2, <2>3
    <2>5. OfOnePiece(from)
      <3>1. CASE Len(blob.body) < Len(body)
        BY <1>1, <3>1
      <3>2. CASE ~(Len(blob.body) < Len(body))
        BY <1>1, <2>1, <2>3, <3>2
      <3> QED BY <3>1, <3>2
    <2>6. body' = [i \in 1..len |-> IF i <= Len(from) THEN from[i] ELSE Zeros]
      BY <1>1, <1>3 DEF LoadState, ApplyPayload, Blob
    <2> HIDE DEF from
    <2>7. \A i \in 1..len : body'[i] = from[i] /\ from[i] \in Part /\ i \in DOMAIN from
      BY <1>1, <2>4, <2>6, LenProperties, ElementOfSeq
    <2>8. DOMAIN body' = 1..len
      BY <2>6
    <2>9. body' \in [1..len -> Part]
      BY <2>6, <2>7, <2>8
    <2>10. 1..ConsoleParts \subseteq 1..len /\ 1 \in 1..len
      BY <1>1
    <2> HIDE DEF len
    <2>11. OfOnePiece(body')
      <3>1. \A i \in 1..len : body'[i].of # "zeros"
        BY <2>5, <2>7 DEF OfOnePiece
      <3>2. \A i, j \in 1..ConsoleParts : SameMoment(body'[i], body'[j])
        BY <2>5, <2>7, <2>10 DEF OfOnePiece
      <3>3. \A i, j \in (1..len) \ (1..ConsoleParts) : SameMoment(body'[i], body'[j])
        BY <2>5, <2>7 DEF OfOnePiece
      <3>4. \A i \in 1..len : SameMoment(body'[1], body'[i]) \/ body'[1].age = 0
        BY <2>5, <2>7, <2>10 DEF OfOnePiece
      <3> QED BY <2>8, <3>1, <3>2, <3>3, <3>4 DEF OfOnePiece
    <2> QED BY <2>9, <2>11 DEF len
  <1> QED BY <1>2, <1>3

(* A state cut short is of one piece as far as it goes. *)
LEMMA CutWhole ==
    ASSUME NEW c \in Carts, NEW age \in 0..MaxAge, NEW n \in 0..Len(Layout[c])
    PROVE  /\ Cut(c, age, n) \in States
           /\ \/ OfOnePiece(Cut(c, age, n).body)
              \/ Len(Cut(c, age, n).body) < ConsoleParts
  <1> DEFINE b == Fresh(c, age)
             cut == SubSeq(b, 1, n)
             blob == Cut(c, age, n)
             len == Len(Layout[c])
  <1>1. /\ b \in [1..len -> Part] /\ OfOnePiece(b) /\ len \in Nat /\ n \in Nat /\ n <= len
        /\ ConsoleParts \in Nat \ {0} /\ Header[c] \in Headers
    BY FreshType, Cartridge
  <1> HIDE DEF b
  <1>2. \A i \in 1..n : b[i] \in Part
    BY <1>1
  <1>3. /\ cut \in Seq(Part)
        /\ Len(cut) = IF 1 <= n THEN n - 1 + 1 ELSE 0
        /\ \A i \in 1..(n - 1 + 1) : cut[i] = b[1 + i - 1]
    BY ONLY <1>1, <1>2, SubSeqProperties
  <1>4. Len(cut) = n /\ DOMAIN cut = 1..n /\ \A i \in 1..n : cut[i] = b[i]
    BY <1>1, <1>3, LenProperties
  <1> HIDE DEF cut
  <1>5. blob = [header |-> Header[c], body |-> cut]
    BY DEF Cut, Blob, cut, b
  <1>6. blob \in States
    BY <1>1, <1>3, <1>5 DEF States
  <1>7. n >= ConsoleParts => OfOnePiece(cut)
    <2> SUFFICES ASSUME n >= ConsoleParts PROVE OfOnePiece(cut)
      OBVIOUS
    <2>1. 1..ConsoleParts \subseteq 1..n /\ 1 \in 1..n /\ 1..n \subseteq DOMAIN b
      BY <1>1
    <2> HIDE DEF len
    <2> QED BY <1>1, <1>4, <2>1 DEF OfOnePiece
  <1>8. blob.body = cut
    BY <1>5
  <1> QED BY <1>1, <1>4, <1>6, <1>7, <1>8

----------------------------------------------------------------------------

RingType ==
    /\ capacity \in Capacities
    /\ slots \in [0..(capacity - 1) -> States]
    /\ interval \in Nat \ {0}
    /\ size \in 0..capacity
    /\ head \in IF capacity = 0 THEN {0} ELSE 0..(capacity - 1)
    /\ counter \in 0..(interval - 1)

LEMMA CaptureKeeps ==
    ASSUME RingType, SlotsWhole, NEW blob \in States, Keepable(blob), Capture(blob)
    PROVE  RingType' /\ SlotsWhole'
  <1>1. CASE capacity = 0 /\ UNCHANGED ringVars
    BY <1>1 DEF RingType, SlotsWhole, ringVars
  <1>2. ASSUME capacity > 0, counter' = (counter + 1) % interval,
               counter # 0, UNCHANGED <<slots, head, size>>, UNCHANGED <<capacity, interval>>
        PROVE  RingType' /\ SlotsWhole'
    <2>1. counter' \in 0..(interval - 1)
      BY <1>2, DivMod DEF RingType
    <2> QED BY <1>2, <2>1 DEF RingType, SlotsWhole
  <1>3. ASSUME capacity > 0, counter' = (counter + 1) % interval,
               counter = 0, slots' = [slots EXCEPT ![head] = blob],
               head' = (head + 1) % capacity,
               size' = IF size < capacity THEN size + 1 ELSE size,
               UNCHANGED <<capacity, interval>>
        PROVE  RingType' /\ SlotsWhole'
    <2>1. counter' \in 0..(interval - 1)
      BY <1>3, DivMod DEF RingType
    <2>2. capacity \in Nat \ {0} /\ head \in 0..(capacity - 1) /\ size \in 0..capacity
      BY <1>3, RewindAssumption DEF RingType
    <2>3. head' \in 0..(capacity - 1)
      BY <1>3, <2>2, DivMod
    <2>4. size' \in 0..capacity
      BY <1>3, <2>2
    <2>5. slots' \in [0..(capacity - 1) -> States]
      BY <1>3 DEF RingType
    <2>6. RingType'
      BY <1>3, <2>1, <2>2, <2>3, <2>4, <2>5 DEF RingType
    <2>7. SlotsWhole'
      BY <1>3, <2>2 DEF RingType, SlotsWhole, Keepable, OfOnePiece, SameMoment
    <2> QED BY <2>6, <2>7
  <1> QED BY <1>1, <1>2, <1>3 DEF Capture

LEMMA DropNewestKeeps ==
    ASSUME RingType, SlotsWhole, DropNewest
    PROVE  /\ RingType' /\ SlotsWhole'
           /\ capacity \in Nat \ {0} /\ NewestSlot \in 0..(capacity - 1)
           /\ slots[NewestSlot] \in States
           /\ slots[NewestSlot] = Empty \/ Keepable(slots[NewestSlot])
  <1>1. capacity \in Nat \ {0} /\ head \in 0..(capacity - 1) /\ size \in 1..capacity
    BY RewindAssumption DEF RingType, DropNewest
  <1>2. NewestSlot \in 0..(capacity - 1)
    BY <1>1, DivMod DEF NewestSlot
  <1>3. counter' \in 0..(interval - 1)
    BY DivMod DEF RingType, DropNewest
  <1>4. RingType' /\ SlotsWhole'
    BY <1>1, <1>2, <1>3 DEF RingType, SlotsWhole, DropNewest
  <1> QED BY <1>1, <1>2, <1>4 DEF RingType, SlotsWhole

LEMMA ZeroFits ==
    /\ \A n \in Nat : 0 \in 0..n
    /\ \A n \in Nat \ {0} : 0 \in 0..(n - 1)
  OBVIOUS

LEMMA ClearKeeps ==
    ASSUME RingType, Clear, capacity' \in Capacities, interval' \in Nat \ {0}
    PROVE  RingType' /\ SlotsWhole'
  <1>1. capacity' \in Nat
    BY RewindAssumption
  <1>2. slots' \in [0..(capacity' - 1) -> States] /\ \A k \in 0..(capacity' - 1) : slots'[k] = Empty
    BY MachineAssumption DEF Clear, Blank
  <1>0. head' = 0 /\ size' = 0 /\ counter' = 0
    BY DEF Clear
  <1>3. size' \in 0..capacity' /\ counter' \in 0..(interval' - 1)
    BY <1>0, <1>1, ZeroFits
  <1>4. head' \in IF capacity' = 0 THEN {0} ELSE 0..(capacity' - 1)
    BY <1>0, <1>1, ZeroFits
  <1> QED BY <1>2, <1>3, <1>4 DEF RingType, SlotsWhole

LEMMA AskedInterval ==
    ASSUME NEW n \in Intervals
    PROVE  AtLeastOne(n) \in Nat \ {0}
  BY RewindAssumption DEF AtLeastOne

LEMMA InitMachineInv == Init => MachineInv
  <1> SUFFICES ASSUME Init PROVE MachineInv
    OBVIOUS
  <1>1. /\ cart \in Carts /\ body \in [1..Len(Layout[cart]) -> Part] /\ Coherent
    BY FreshType, MachineAssumption DEF Init, Coherent
  <1>2. capacity \in Capacities /\ capacity \in Nat /\ interval \in Nat \ {0}
    BY AskedInterval, RewindAssumption DEF Init, RewindInit
  <1>3. slots \in [0..(capacity - 1) -> States] /\ SlotsWhole
    BY MachineAssumption DEF Init, RewindInit, Blank, SlotsWhole
  <1>4. /\ head = 0 /\ size = 0 /\ counter = 0
        /\ rewind_on \in BOOLEAN /\ linear \in BOOLEAN
    BY DEF Init, RewindInit
  <1>5. /\ size \in 0..capacity /\ counter \in 0..(interval - 1)
        /\ head \in IF capacity = 0 THEN {0} ELSE 0..(capacity - 1)
    BY <1>2, <1>4
  <1> QED BY <1>1, <1>2, <1>3, <1>4, <1>5 DEF MachineInv, TypeOK

(* The machine after a step, and the ring. *)
BodyInv == cart \in Carts /\ body \in [1..Len(Layout[cart]) -> Part] /\ Coherent

LEMMA Split == MachineInv <=> /\ BodyInv /\ RingType /\ SlotsWhole
                             /\ rewind_on \in BOOLEAN /\ linear \in BOOLEAN
  BY DEF MachineInv, TypeOK, BodyInv, RingType

LEMMA Linear ==
    ASSUME linear \in BOOLEAN, Onward \/ Elsewhere
    PROVE  linear' \in BOOLEAN
  BY DEF Onward, Elsewhere

LEMMA RunMakes ==
    ASSUME MachineInv, Run, UNCHANGED cart
    PROVE  BodyInv' /\ Blob(cart, body') \in States /\ Keepable(Blob(cart, body'))
           /\ Age \in Nat /\ body'[1].age = Age + 1
  <1>1. cart \in Carts /\ body \in [1..Len(Layout[cart]) -> Part]
    BY DEF MachineInv, TypeOK
  <1>2. 1 \in 1..Len(Layout[cart])
    BY <1>1, Cartridge
  <1>3. Age \in 0..MaxAge
    BY <1>1, <1>2 DEF Age, Part
  <1>4. Age + 1 \in 0..MaxAge
    BY <1>3, MachineAssumption DEF Run
  <1>5. /\ body' \in [1..Len(Layout[cart]) -> Part] /\ OfOnePiece(body')
        /\ body'[1].age = Age + 1 /\ Blob(cart, body') \in States
    BY <1>1, <1>4, FreshType DEF Run
  <1>6. Len(body') = Len(Layout[cart])
    <2>1. body' \in Seq(Part) /\ DOMAIN body' = 1..Len(Layout[cart]) /\ Len(Layout[cart]) \in Nat
      BY <1>1, <1>5, Cartridge, SeqDef
    <2> QED BY <2>1, LenProperties
  <1>7. Keepable(Blob(cart, body'))
    BY <1>1, <1>5, <1>6, Cartridge DEF Keepable, Blob
  <1>8. BodyInv'
    BY <1>1, <1>5 DEF BodyInv, Coherent
  <1> QED BY <1>3, <1>5, <1>7, <1>8

LEMMA ResetMakes ==
    ASSUME MachineInv, Reset
    PROVE  BodyInv'
  <1> DEFINE len == Len(Layout[cart])
             f == Fresh(cart, 0)
  <1>1. /\ cart \in Carts /\ body \in [1..len -> Part] /\ OfOnePiece(body)
        /\ len \in Nat /\ ConsoleParts \in Nat \ {0} /\ len >= ConsoleParts
    BY Cartridge DEF MachineInv, TypeOK, Coherent
  <1>2. 0 \in 0..MaxAge
    BY MachineAssumption
  <1>3. f \in [1..len -> Part] /\ OfOnePiece(f) /\ f[1].age = 0
    BY <1>1, <1>2, FreshType
  <1>4. /\ cart' = cart
        /\ body' = [i \in 1..len |-> IF i <= ConsoleParts THEN f[i] ELSE body[i]]
    BY <1>1 DEF Reset
  <1> HIDE DEF f
  <1>5. body' \in [1..len -> Part] /\ DOMAIN body' = 1..len
    BY <1>1, <1>3, <1>4
  <1>6. /\ \A i \in 1..ConsoleParts : i \in 1..len /\ body'[i] = f[i]
        /\ \A i \in (1..len) \ (1..ConsoleParts) : body'[i] = body[i]
        /\ 1 \in 1..ConsoleParts /\ body'[1].age = 0
    BY <1>1, <1>3, <1>4
  <1>7. DOMAIN body = 1..len /\ DOMAIN f = 1..len
    BY <1>1, <1>3
  <1>8. \A i \in 1..len : body'[i].of # "zeros"
    <2> SUFFICES ASSUME NEW i \in 1..len PROVE body'[i].of # "zeros"
      OBVIOUS
    <2>1. CASE i \in 1..ConsoleParts
      BY <1>3, <1>6, <1>7, <2>1 DEF OfOnePiece
    <2>2. CASE i \notin 1..ConsoleParts
      BY <1>1, <1>6, <1>7, <2>2 DEF OfOnePiece
    <2> QED BY <2>1, <2>2
  <1>9. \A i, j \in 1..ConsoleParts : SameMoment(body'[i], body'[j])
    BY <1>3, <1>6 DEF OfOnePiece
  <1>10. \A i, j \in (1..len) \ (1..ConsoleParts) : SameMoment(body'[i], body'[j])
    BY <1>1, <1>6, <1>7 DEF OfOnePiece
  <1> HIDE DEF len
  <1>11. OfOnePiece(body')
    BY <1>5, <1>6, <1>8, <1>9, <1>10 DEF OfOnePiece
  <1> QED BY <1>1, <1>4, <1>5, <1>11 DEF BodyInv, Coherent, len

LEMMA StepMachineInv == MachineInv /\ [Next]_vars => MachineInv'
  <1> SUFFICES ASSUME MachineInv, [Next]_vars PROVE MachineInv'
    OBVIOUS
  <1>0. BodyInv /\ RingType /\ SlotsWhole /\ rewind_on \in BOOLEAN /\ linear \in BOOLEAN
    BY Split
  <1> DEFINE Kept == BodyInv' /\ RingType' /\ SlotsWhole' /\ rewind_on' \in BOOLEAN
                     /\ linear' \in BOOLEAN
  <1>1. SUFFICES Kept
    BY DEF MachineInv, TypeOK, BodyInv, RingType
  <1>2. ASSUME UNCHANGED ringVars PROVE RingType' /\ SlotsWhole'
    BY <1>0, <1>2 DEF RingType, SlotsWhole, ringVars
  <1>3. ASSUME UNCHANGED <<cart, body>> PROVE BodyInv'
    BY <1>0, <1>3 DEF BodyInv, Coherent
  <1>4. CASE RunFrame
    <2>1. /\ Run /\ UNCHANGED <<cart, rewind_on>>
          /\ Capture(Blob(cart, body')) \/ UNCHANGED ringVars
          /\ Onward \/ Elsewhere
      BY <1>4 DEF RunFrame
    <2>2. BodyInv' /\ Blob(cart, body') \in States /\ Keepable(Blob(cart, body'))
      BY <2>1, RunMakes
    <2>3. RingType' /\ SlotsWhole'
      BY <1>0, <1>2, <2>1, <2>2, CaptureKeeps
    <2>4. linear' \in BOOLEAN
      BY <1>0, <2>1, Linear
    <2>5. rewind_on' \in BOOLEAN
      BY <1>0, <2>1
    <2> QED BY <2>2, <2>3, <2>4, <2>5
  <1>5. CASE RunCycles
    <2>1. Run /\ UNCHANGED <<cart, rewind_on>> /\ UNCHANGED ringVars /\ Elsewhere
      BY <1>5 DEF RunCycles
    <2>2. BodyInv'
      BY <2>1, RunMakes
    <2>3. linear' \in BOOLEAN /\ rewind_on' \in BOOLEAN
      BY <1>0, <2>1, Linear
    <2> QED BY <1>2, <2>1, <2>2, <2>3
  <1>6. CASE LoadRom
    <2>1. /\ cart' \in Carts /\ body' = Fresh(cart', 0)
          /\ UNCHANGED rewind_on /\ UNCHANGED ringVars /\ Elsewhere
      BY <1>6 DEF LoadRom
    <2>2. 0 \in 0..MaxAge
      BY MachineAssumption
    <2>3. body' \in [1..Len(Layout[cart']) -> Part] /\ OfOnePiece(body')
      BY <2>1, <2>2, FreshType
    <2>4. BodyInv'
      BY <2>1, <2>3 DEF BodyInv, Coherent
    <2>5. linear' \in BOOLEAN /\ rewind_on' \in BOOLEAN
      BY <1>0, <2>1, Linear
    <2> QED BY <1>2, <2>1, <2>4, <2>5
  <1>7. CASE Reset
    <2>1. UNCHANGED rewind_on /\ UNCHANGED ringVars /\ Elsewhere
      BY <1>7 DEF Reset
    <2>2. BodyInv'
      BY <1>7, ResetMakes
    <2>3. linear' \in BOOLEAN /\ rewind_on' \in BOOLEAN
      BY <1>0, <2>1, Linear
    <2> QED BY <1>2, <2>1, <2>2, <2>3
  <1>8. CASE LoadSaved
    <2>1. PICK c \in Carts, age \in 0..MaxAge : \E n \in 0..Len(Layout[c]) : LoadState(Cut(c, age, n))
      BY <1>8 DEF LoadSaved
    <2>2. PICK n \in 0..Len(Layout[c]) : LoadState(Cut(c, age, n))
      BY <2>1
    <2>3. UNCHANGED <<cart, rewind_on>> /\ UNCHANGED ringVars /\ Elsewhere
      BY <1>8 DEF LoadSaved
    <2>4. /\ Cut(c, age, n) \in States
          /\ OfOnePiece(Cut(c, age, n).body) \/ Len(Cut(c, age, n).body) < ConsoleParts
      BY CutWhole
    <2>5. body' \in [1..Len(Layout[cart]) -> Part] /\ OfOnePiece(body')
      BY <2>2, <2>4, LoadKeeps DEF MachineInv
    <2>6. BodyInv'
      BY <1>0, <2>3, <2>5 DEF BodyInv, Coherent
    <2>7. linear' \in BOOLEAN /\ rewind_on' \in BOOLEAN
      BY <1>0, <2>3, Linear
    <2> QED BY <1>2, <2>3, <2>6, <2>7
  <1>9. CASE StepBack
    <2>1. DropNewest /\ LoadState(slots[NewestSlot]) /\ UNCHANGED <<cart, rewind_on>> /\ Onward
      BY <1>9 DEF StepBack
    <2>2. /\ RingType' /\ SlotsWhole'
          /\ slots[NewestSlot] \in States
          /\ slots[NewestSlot] = Empty \/ Keepable(slots[NewestSlot])
      BY <1>0, <2>1, DropNewestKeeps
    <2>3. body' \in [1..Len(Layout[cart]) -> Part] /\ OfOnePiece(body')
      BY <2>1, <2>2, LoadKeeps DEF MachineInv, Keepable
    <2>4. BodyInv'
      BY <1>0, <2>1, <2>3 DEF BodyInv, Coherent
    <2>5. linear' \in BOOLEAN /\ rewind_on' \in BOOLEAN
      BY <1>0, <2>1, Linear
    <2> QED BY <2>2, <2>4, <2>5
  <1>10. CASE SetRewindEnabled
    BY <1>0, <1>2, <1>3, <1>10 DEF SetRewindEnabled
  <1>11. CASE SetRing
    <2>1. UNCHANGED <<cart, body>> /\ UNCHANGED rewind_on /\ linear' = TRUE
      BY <1>11 DEF SetRing
    <2>2. Clear /\ capacity' \in Capacities /\ interval' \in Nat \ {0}
      BY <1>0, <1>11, AskedInterval
      DEF SetRing, SetInterval, SetCapacity, ClearAlone, RingType
    <2>3. RingType' /\ SlotsWhole'
      BY <1>0, <2>2, ClearKeeps
    <2> QED BY <1>0, <1>3, <2>1, <2>3
  <1>12. CASE UNCHANGED vars
    <2>1. UNCHANGED <<cart, body>> /\ UNCHANGED ringVars /\ UNCHANGED <<rewind_on, linear>>
      BY <1>12 DEF vars
    <2> QED BY <1>0, <1>2, <1>3, <2>1
  <1> QED BY <1>4, <1>5, <1>6, <1>7, <1>8, <1>9, <1>10, <1>11, <1>12 DEF Next

(* The inductive invariant of the machine: its types, that it is of one     *)
(* piece, and that every snapshot in the ring is.                           *)
THEOREM MachineInvariant == Spec => []MachineInv
  BY InitMachineInv, StepMachineInv, PTL DEF Spec

(* Every part of the machine, and the ring, stay within their types.        *)
THEOREM TypeCorrect == Spec => []TypeOK
  <1>1. MachineInv => TypeOK
    BY DEF MachineInv
  <1> QED BY <1>1, MachineInvariant, PTL

(* However states are cut short, and whatever cartridge they come from, the *)
(* machine is never half one and half another (gb.cpp, load_state).         *)
THEOREM CoherentHolds == Spec => []Coherent
  <1>1. MachineInv => Coherent
    BY DEF MachineInv
  <1> QED BY <1>1, MachineInvariant, PTL

----------------------------------------------------------------------------

(* The stack that n snapshots before place h make in a ring of c slots. *)
Ring(s, c, h, n) == [i \in 1..n |-> s[(h + c - n + i - 1) % c]]

Place(c, h, n, i) == (h + c - n + i - 1) % c

LEMMA PlaceIs ==
    ASSUME NEW c \in Nat \ {0}, NEW h \in 0..(c - 1), NEW n \in 0..c, NEW i \in 1..n
    PROVE  /\ Place(c, h, n, i) = IF h - n + i - 1 < 0 THEN h + c - n + i - 1 ELSE h - n + i - 1
           /\ Place(c, h, n, i) \in 0..(c - 1)
  <1>1. h + c - n + i - 1 \in 0..(2 * c - 1)
    OBVIOUS
  <1>2. Place(c, h, n, i) = IF h + c - n + i - 1 < c THEN h + c - n + i - 1
                                                     ELSE h + c - n + i - 1 - c
    BY <1>1, Wrapped DEF Place
  <1> QED BY <1>1, <1>2

LEMMA NextPlace ==
    ASSUME NEW c \in Nat \ {0}, NEW h \in 0..(c - 1)
    PROVE  (h + 1) % c = IF h = c - 1 THEN 0 ELSE h + 1
  <1> DEFINE x == h + 1
  <1>1. x \in 0..(2 * c - 1)
    OBVIOUS
  <1> HIDE DEF x
  <1>2. x % c = IF x < c THEN x ELSE x - c
    BY <1>1, Wrapped
  <1> QED BY <1>2 DEF x

(* What a lemma below says of a ring is named, so that it can be cited whole. *)
IsRing(r, s, c, h, n) ==
    /\ r \in Seq(States)
    /\ Len(r) = n
    /\ \A i \in 1..n : r[i] = s[Place(c, h, n, i)]

Pushed(r, old, c, n, m, blob) ==
    /\ r = Abstract!Youngest(Append(old, blob), c)
    /\ Len(r) = m /\ m >= 1
    /\ r[m] = blob
    /\ \A i \in 1..(m - 1) : r[i] = old[i + (n + 1 - m)]

Popped(r, old, n, newest) ==
    /\ old # <<>>
    /\ old[n] = newest
    /\ r = SubSeq(old, 1, Len(old) - 1)
    /\ \A i \in 1..(n - 1) : r[i] = old[i]

LEMMA RingIsSeq ==
    ASSUME NEW c \in Nat \ {0}, NEW h \in 0..(c - 1), NEW n \in 0..c,
           NEW s \in [0..(c - 1) -> States]
    PROVE  IsRing(Ring(s, c, h, n), s, c, h, n)
  <1> DEFINE r == Ring(s, c, h, n)
  <1>1. \A i \in 1..n : Place(c, h, n, i) \in 0..(c - 1)
    BY PlaceIs
  <1>2. r = [i \in 1..n |-> s[Place(c, h, n, i)]]
    BY DEF Ring, Place
  <1>3. r \in [1..n -> States] /\ n \in Nat /\ DOMAIN r = 1..n
    BY <1>1, <1>2
  <1>4. r \in Seq(States)
    BY <1>3, SeqDef
  <1>5. Len(r) = n
    BY <1>3, <1>4, LenProperties
  <1> QED BY <1>2, <1>4, <1>5 DEF IsRing

(* Writing the slot at the head pushes onto the stack. *)
LEMMA RingPush ==
    ASSUME NEW c \in Nat \ {0}, NEW h \in 0..(c - 1), NEW n \in 0..c,
           NEW s \in [0..(c - 1) -> States], NEW blob \in States
    PROVE  LET t == [s EXCEPT ![h] = blob]
               m == IF n < c THEN n + 1 ELSE n
               r == Ring(t, c, (h + 1) % c, m)
           IN  Pushed(r, Ring(s, c, h, n), c, n, m, blob)
  <1> DEFINE t == [s EXCEPT ![h] = blob]
             g == (h + 1) % c
             m == IF n < c THEN n + 1 ELSE n
             r == Ring(t, c, g, m)
             old == Ring(s, c, h, n)
             a == Append(old, blob)
             k == IF Len(a) > c THEN Len(a) - c + 1 ELSE 1
             y == SubSeq(a, k, Len(a))
  <1>1. g = (IF h = c - 1 THEN 0 ELSE h + 1) /\ g \in 0..(c - 1)
    BY NextPlace
  <1>2. m \in 1..c /\ m \in 0..c
    OBVIOUS
  <1>3. t \in [0..(c - 1) -> States] /\ t[h] = blob /\ \A x \in 0..(c - 1) : x # h => t[x] = s[x]
    OBVIOUS
  <1>4. /\ old \in Seq(States) /\ Len(old) = n
        /\ \A i \in 1..n : old[i] = s[Place(c, h, n, i)]
    <2>1. s \in [0..(c - 1) -> States] /\ h \in 0..(c - 1) /\ n \in 0..c
      OBVIOUS
    <2>2. IsRing(old, s, c, h, n)
      BY ONLY <2>1, RingIsSeq, c \in Nat \ {0}
    <2> QED BY ONLY <2>2 DEF IsRing
  <1> HIDE DEF g, m, t, old
  <1>5. /\ r \in Seq(States) /\ Len(r) = m
        /\ \A i \in 1..m : r[i] = t[Place(c, g, m, i)]
    <2>1. t \in [0..(c - 1) -> States] /\ g \in 0..(c - 1) /\ m \in 0..c
      BY <1>1, <1>2, <1>3
    <2>2. IsRing(r, t, c, g, m)
      BY ONLY <2>1, RingIsSeq, c \in Nat \ {0}
    <2> QED BY ONLY <2>2 DEF IsRing
  <1>6. /\ a \in Seq(States) /\ Len(a) = n + 1
        /\ \A i \in 1..n : a[i] = old[i]
        /\ a[n + 1] = blob
    BY <1>4, AppendProperties
  <1> HIDE DEF r, a
  <1>7. k = (IF n = c THEN 2 ELSE 1) /\ k \in Int
    BY <1>6
  <1>8. \A i \in k..(n + 1) : a[i] \in States
    <2>1. \A i \in k..(n + 1) : i \in 1..(n + 1)
      BY <1>7
    <2> QED BY <1>6, <2>1, ElementOfSeq
  <1> HIDE DEF k
  <1>9. /\ y \in Seq(States)
        /\ Len(y) = IF k <= n + 1 THEN n + 1 - k + 1 ELSE 0
        /\ \A i \in 1..(n + 1 - k + 1) : y[i] = a[k + i - 1]
    <2>1. n + 1 \in Int
      OBVIOUS
    <2>2. /\ SubSeq(a, k, n + 1) \in Seq(States)
          /\ Len(SubSeq(a, k, n + 1)) = IF k <= n + 1 THEN n + 1 - k + 1 ELSE 0
          /\ \A i \in 1..(n + 1 - k + 1) : SubSeq(a, k, n + 1)[i] = a[k + i - 1]
      BY ONLY <1>7, <1>8, <2>1, SubSeqProperties
    <2> QED BY <1>6, <2>2
  <1>10. m = n + 1 - k + 1 /\ k <= n + 1
    BY <1>7 DEF m
  <1>11. Len(y) = m
    BY <1>9, <1>10
  <1>17. Place(c, g, m, m) = h
    <2>1. m \in 1..m
      BY <1>2
    <2>2. Place(c, g, m, m) = IF g - m + m - 1 < 0 THEN g + c - m + m - 1 ELSE g - m + m - 1
      BY <1>1, <1>2, <2>1, PlaceIs
    <2> QED BY <1>1, <1>2, <2>2
  <1>12. ASSUME NEW i \in 1..m PROVE r[i] = y[i]
    <2>1. y[i] = a[k + i - 1]
      BY <1>9, <1>10
    <2>2. r[i] = t[Place(c, g, m, i)]
      BY <1>5
    <2>3. CASE i = m
      <3>1. k + i - 1 = n + 1
        BY <1>7, <1>10, <2>3
      <3>2. Place(c, g, m, i) = h
        BY <2>3, <1>17
      <3> QED BY <1>3, <1>6, <2>1, <2>2, <3>1, <3>2
    <2>4. CASE i # m
      <3>1. k + i - 1 \in 1..n
        BY <1>2, <1>7, <1>10, <2>4
      <3>2. y[i] = s[Place(c, h, n, k + i - 1)]
        BY <1>4, <1>6, <2>1, <3>1
      <3>3. /\ Place(c, h, n, k + i - 1) \in 0..(c - 1)
            /\ Place(c, h, n, k + i - 1) = IF h - n + (k + i - 1) - 1 < 0
                                           THEN h + c - n + (k + i - 1) - 1
                                           ELSE h - n + (k + i - 1) - 1
        BY <3>1, PlaceIs
      <3>4. Place(c, g, m, i) = IF g - m + i - 1 < 0 THEN g + c - m + i - 1 ELSE g - m + i - 1
        BY <1>1, <1>2, PlaceIs
      <3>5. Place(c, g, m, i) = Place(c, h, n, k + i - 1) /\ Place(c, g, m, i) # h
        <4>1. CASE n < c
          <5>1. m = n + 1 /\ k = 1
            BY <1>7, <4>1 DEF m
          <5> QED BY <1>1, <2>4, <3>3, <3>4, <4>1, <5>1
        <4>2. CASE n = c
          <5>1. m = c /\ k = 2
            BY <1>7, <4>2 DEF m
          <5> QED BY <1>1, <2>4, <3>3, <3>4, <4>2, <5>1
        <4> QED BY <4>1, <4>2
      <3> QED BY <1>3, <2>2, <3>2, <3>3, <3>5
    <2> QED BY <2>3, <2>4
  <1>13. r = y
    BY <1>5, <1>9, <1>11, <1>12, SeqEqual
  <1>14. r[m] = blob
    BY <1>2, <1>3, <1>5, <1>17
  <1>15. Abstract!Youngest(a, c) = y
    BY DEF Abstract!Youngest, k
  <1>16. m >= 1
    BY <1>2
  <1>18. \A i \in 1..(m - 1) : r[i] = old[i + (n + 1 - m)]
    <2> SUFFICES ASSUME NEW i \in 1..(m - 1) PROVE r[i] = old[i + (n + 1 - m)]
      OBVIOUS
    <2>1. i \in 1..m /\ k + i - 1 \in 1..n /\ k + i - 1 = i + (n + 1 - m)
      BY <1>2, <1>7, <1>10
    <2>2. r[i] = y[i] /\ y[i] = a[k + i - 1]
      BY <1>9, <1>10, <1>12, <2>1
    <2> QED BY <1>6, <2>1, <2>2
  <1> QED BY <1>5, <1>13, <1>14, <1>15, <1>16, <1>18 DEF Pushed, r, a, t, g, m, old

(* Setting the head back pops. *)
LEMMA RingPop ==
    ASSUME NEW c \in Nat \ {0}, NEW h \in 0..(c - 1), NEW n \in 0..c, n # 0,
           NEW s \in [0..(c - 1) -> States]
    PROVE  LET g == (h + c - 1) % c
               old == Ring(s, c, h, n)
           IN  Popped(Ring(s, c, g, n - 1), old, n, s[g])
  <1> DEFINE g == (h + c - 1) % c
             old == Ring(s, c, h, n)
             p == n - 1
             r == Ring(s, c, g, p)
             y == SubSeq(old, 1, p)
  <1>1. h + c - 1 \in 0..(2 * c - 1)
    OBVIOUS
  <1>2. g = (IF h = 0 THEN c - 1 ELSE h - 1) /\ g \in 0..(c - 1)
    <2> DEFINE x == h + c - 1
    <2> HIDE DEF x
    <2>1. x % c = IF x < c THEN x ELSE x - c
      BY <1>1, Wrapped DEF x
    <2> QED BY <2>1 DEF x
  <1> HIDE DEF g
  <1>3. p \in 0..c /\ p \in Int /\ p + 1 = n /\ p >= 0
    OBVIOUS
  <1>4. /\ old \in Seq(States) /\ Len(old) = n
        /\ \A i \in 1..n : old[i] = s[Place(c, h, n, i)]
    <2>1. s \in [0..(c - 1) -> States] /\ h \in 0..(c - 1) /\ n \in 0..c
      OBVIOUS
    <2>2. IsRing(old, s, c, h, n)
      BY ONLY <2>1, RingIsSeq, c \in Nat \ {0}
    <2> QED BY ONLY <2>2 DEF IsRing
  <1> HIDE DEF old, p
  <1>5. /\ r \in Seq(States) /\ Len(r) = p
        /\ \A i \in 1..p : r[i] = s[Place(c, g, p, i)]
    <2>1. s \in [0..(c - 1) -> States] /\ g \in 0..(c - 1) /\ p \in 0..c
      BY <1>2, <1>3
    <2>2. IsRing(r, s, c, g, p)
      BY ONLY <2>1, RingIsSeq, c \in Nat \ {0}
    <2> QED BY ONLY <2>2 DEF IsRing
  <1> HIDE DEF r
  <1>6. \A i \in 1..p : old[i] \in States
    <2>1. \A i \in 1..p : i \in 1..n
      BY <1>3
    <2> QED BY <1>4, <2>1, ElementOfSeq
  <1>7. /\ y \in Seq(States)
        /\ Len(y) = IF 1 <= p THEN p - 1 + 1 ELSE 0
        /\ \A i \in 1..(p - 1 + 1) : y[i] = old[1 + i - 1]
    BY ONLY <1>3, <1>6, SubSeqProperties
  <1>8. Len(y) = p /\ \A i \in 1..p : y[i] = old[i]
    BY <1>3, <1>7
  <1>9. ASSUME NEW i \in 1..p PROVE r[i] = old[i]
    <2>1. i \in 1..n
      BY <1>3
    <2>2. Place(c, h, n, i) = IF h - n + i - 1 < 0 THEN h + c - n + i - 1 ELSE h - n + i - 1
      BY <2>1, PlaceIs
    <2>3. Place(c, g, p, i) = IF g - p + i - 1 < 0 THEN g + c - p + i - 1 ELSE g - p + i - 1
      BY <1>2, <1>3, PlaceIs, ZenonT(60)
    <2>4. Place(c, h, n, i) = Place(c, g, p, i)
      BY <1>2, <1>3, <2>2, <2>3
    <2> QED BY <1>4, <1>5, <2>1, <2>4
  <1>10. r = y
    BY <1>5, <1>7, <1>8, <1>9, SeqEqual
  <1>11. old[n] = s[g]
    <2>1. n \in 1..n
      OBVIOUS
    <2>2. Place(c, h, n, n) = IF h - n + n - 1 < 0 THEN h + c - n + n - 1 ELSE h - n + n - 1
      BY <2>1, PlaceIs
    <2>3. Place(c, h, n, n) = g
      BY <1>2, <2>2
    <2> QED BY <1>4, <2>1, <2>3
  <1>12. old # <<>>
    BY <1>4, EmptySeq
  <1>13. y = SubSeq(old, 1, Len(old) - 1)
    BY <1>4 DEF p
  <1> QED BY <1>9, <1>10, <1>11, <1>12, <1>13 DEF Popped, old, r, g, p

LEMMA StackIsRing ==
    /\ Stack = Ring(slots, capacity, head, size)
    /\ Stack' = Ring(slots', capacity', head', size')
  BY DEF Stack, Ring

(* A snapshot pushes. *)
LEMMA SnapshotPushes ==
    ASSUME RingType, NEW blob \in States, Capture(blob), capacity > 0, counter = 0
    PROVE  /\ Stack' = Abstract!Youngest(Append(Stack, blob), capacity)
           /\ Len(Stack') = size' /\ size' >= 1
           /\ size' = size + 1 \/ size' = size
           /\ Stack'[size'] = blob
           /\ \A i \in 1..(size' - 1) : Stack'[i] = Stack[i + (size + 1 - size')]
  <1> DEFINE t == [slots EXCEPT ![head] = blob]
             m == IF size < capacity THEN size + 1 ELSE size
             old == Ring(slots, capacity, head, size)
             new == Ring(t, capacity, (head + 1) % capacity, m)
  <1>1. /\ capacity \in Nat \ {0} /\ head \in 0..(capacity - 1) /\ size \in 0..capacity
        /\ slots \in [0..(capacity - 1) -> States]
    BY RewindAssumption DEF RingType
  <1>2. /\ slots' = t /\ head' = (head + 1) % capacity /\ size' = m /\ capacity' = capacity
    BY DEF Capture
  <1>3. Pushed(new, old, capacity, size, m, blob)
    BY ONLY <1>1, RingPush, blob \in States
  <1>4. Stack = old /\ Stack' = new
    BY <1>2, StackIsRing
  <1>5. m = size + 1 \/ m = size
    OBVIOUS
  <1> HIDE DEF old, new, m
  <1> QED BY ONLY <1>2, <1>3, <1>4, <1>5 DEF Pushed

(* Unless it snapshots, a frame leaves the stack alone; if it does, it pushes. *)
LEMMA CapturePushes ==
    ASSUME RingType, NEW blob \in States, Capture(blob)
    PROVE  Abstract!Push \/ UNCHANGED <<Stack, capacity>>
  <1>1. CASE UNCHANGED ringVars
    BY <1>1 DEF Stack, ringVars
  <1>2. CASE UNCHANGED <<slots, head, size>> /\ UNCHANGED <<capacity, interval>>
    BY <1>2 DEF Stack
  <1>3. CASE capacity > 0 /\ counter = 0 /\ UNCHANGED capacity
    <2>1. /\ Stack' = Abstract!Youngest(Append(Stack, blob), capacity)
          /\ Len(Stack') = size' /\ size' >= 1 /\ Stack'[size'] = blob
      BY <1>3, SnapshotPushes
    <2>2. Stack' # <<>>
      BY <2>1, EmptySeq
    <2>3. Stack'[Len(Stack')] = blob
      BY <2>1
    <2> HIDE DEF Stack
    <2> QED BY <1>3, <2>1, <2>2, <2>3 DEF Abstract!Push
  <1> QED BY <1>1, <1>2, <1>3 DEF Capture

LEMMA DropNewestPops ==
    ASSUME RingType, DropNewest
    PROVE  /\ Abstract!Pop
           /\ size # 0 /\ Stack[size] = slots[NewestSlot]
           /\ \A i \in 1..(size - 1) : Stack'[i] = Stack[i]
  <1>1. /\ capacity \in Nat \ {0} /\ head \in 0..(capacity - 1) /\ size \in 0..capacity
        /\ size # 0 /\ slots \in [0..(capacity - 1) -> States]
    BY RewindAssumption DEF RingType, DropNewest
  <1>2. /\ head' = (head + capacity - 1) % capacity /\ size' = size - 1
        /\ UNCHANGED <<slots, capacity>>
    BY DEF DropNewest, NewestSlot
  <1>3. /\ Stack # <<>> /\ Stack[size] = slots[(head + capacity - 1) % capacity]
        /\ Stack' = SubSeq(Stack, 1, Len(Stack) - 1)
        /\ \A i \in 1..(size - 1) : Stack'[i] = Stack[i]
    <2> DEFINE g == (head + capacity - 1) % capacity
               old == Ring(slots, capacity, head, size)
               new == Ring(slots, capacity, g, size - 1)
    <2>1. Popped(new, old, size, slots[g])
      BY ONLY <1>1, RingPop
    <2>2. Stack = old /\ Stack' = new
      BY <1>2, StackIsRing
    <2> HIDE DEF g, old, new
    <2>3. Stack # <<>> /\ Stack[size] = slots[g] /\ Stack' = SubSeq(Stack, 1, Len(Stack) - 1)
      BY <2>1, <2>2 DEF Popped
    <2>4. \A i \in 1..(size - 1) : Stack'[i] = Stack[i]
      BY ONLY <2>1, <2>2 DEF Popped
    <2> QED BY <2>3, <2>4 DEF g
  <1>4. Abstract!Pop
    BY <1>2, <1>3 DEF Abstract!Pop
  <1> QED BY <1>1, <1>3, <1>4 DEF NewestSlot

LEMMA ClearClears ==
    ASSUME Clear, capacity' \in Capacities
    PROVE  Abstract!Clear
  <1>1. size' = 0
    BY DEF Clear
  <1>2. Stack' = <<>>
    BY <1>1 DEF Stack
  <1> QED BY <1>2 DEF Abstract!Clear

LEMMA InitRefines == Init => Abstract!Init
  <1> SUFFICES ASSUME Init PROVE Abstract!Init
    OBVIOUS
  <1>1. size = 0 /\ capacity \in Capacities
    BY DEF Init, RewindInit
  <1>2. Stack = <<>>
    BY <1>1 DEF Stack
  <1> QED BY <1>1, <1>2 DEF Abstract!Init

LEMMA StepRefines == MachineInv /\ [Next]_vars => [Abstract!Next]_(Abstract!vars)
  <1> SUFFICES ASSUME MachineInv, [Next]_vars
               PROVE  Abstract!Next \/ UNCHANGED <<Stack, capacity>>
    BY DEF Abstract!vars
  <1>0. RingType
    BY Split
  <1>1. ASSUME UNCHANGED ringVars PROVE UNCHANGED <<Stack, capacity>>
    BY <1>1 DEF ringVars, Stack
  <1>2. CASE RunFrame
    <2>1. Run /\ UNCHANGED cart /\ (Capture(Blob(cart, body')) \/ UNCHANGED ringVars)
      BY <1>2 DEF RunFrame
    <2>2. Blob(cart, body') \in States
      BY <2>1, RunMakes
    <2>3. Abstract!Push \/ UNCHANGED <<Stack, capacity>>
      BY <1>0, <1>1, <2>1, <2>2, CapturePushes
    <2> QED BY <2>3 DEF Abstract!Next
  <1>3. CASE RunCycles \/ LoadRom \/ Reset \/ LoadSaved \/ SetRewindEnabled \/ UNCHANGED vars
    <2>1. UNCHANGED ringVars
      BY <1>3 DEF RunCycles, LoadRom, Reset, LoadSaved, SetRewindEnabled, vars
    <2> QED BY <1>1, <2>1
  <1>4. CASE StepBack
    BY <1>0, <1>4, DropNewestPops DEF StepBack, Abstract!Next
  <1>5. CASE SetRing
    <2>1. Clear /\ capacity' \in Capacities
      BY <1>0, <1>5 DEF SetRing, SetInterval, SetCapacity, ClearAlone, RingType
    <2> QED BY <2>1, ClearClears DEF Abstract!Next
  <1> QED BY <1>2, <1>3, <1>4, <1>5 DEF Next

(* The ring of rewind.cpp is a stack that drops its oldest when it is full, *)
(* for every number of slots and every interval.                            *)
THEOREM Refinement == Spec => ImplementsHistory
  <1>1. Init => Abstract!Init
    BY InitRefines
  <1>2. MachineInv /\ [Next]_vars => [Abstract!Next]_(Abstract!vars)
    BY StepRefines
  <1> QED BY <1>1, <1>2, MachineInvariant, PTL DEF Spec, ImplementsHistory, Abstract!Spec

----------------------------------------------------------------------------
(* The snapshots and the frames between them.                               *)

(* The age of a snapshot, from the oldest. *)
At(i) == Stack[i].body[1].age

(* What the distance of a snapshot from now is, by the counter. *)
Phase(c, n) == (c + n - 1) % n

OwnSnapshot(s) == s.header = Header[cart] /\ Len(s.body) = Len(Layout[cart])

(* While the machine moves as linear says, its snapshots are its own, each   *)
(* is a whole number of intervals from where the counter says the last was,  *)
(* and they are in the order of time.                                        *)
GridInv ==
    linear =>
        /\ \A i \in 1..size : OwnSnapshot(Stack[i])
        /\ \A i \in 1..size : At(i) <= Age /\ (Age - At(i)) % interval = Phase(counter, interval)
        /\ \A i, j \in 1..size : i < j => At(i) < At(j)

(* A place that is not the last is one of the others. *)
LEMMA Below ==
    ASSUME NEW n \in Nat, NEW i \in 1..n, NEW j \in 1..n, i < j \/ i # n
    PROVE  i \in 1..(n - 1)
  OBVIOUS

(* The remainder of the next number. *)
LEMMA NextRemainder ==
    ASSUME NEW n \in Nat \ {0}, NEW x \in Nat
    PROVE  (x + 1) % n = IF x % n = n - 1 THEN 0 ELSE (x % n) + 1
  <1> DEFINE q == x \div n
             r == x % n
  <1>1. q \in Nat /\ r \in 0..(n - 1) /\ x = (n * q) + r
    BY DivMod
  <1> HIDE DEF q, r
  <1>2. CASE r = n - 1
    <2>1. x + 1 = (n * (q + 1)) + 0 /\ q + 1 \in Nat /\ 0 \in 0..(n - 1) /\ x + 1 \in Nat
      BY <1>1, <1>2
    <2>2. (x + 1) % n = 0
      BY <2>1, DivModUnique
    <2> QED BY <1>2, <2>2 DEF r
  <1>3. CASE r # n - 1
    <2>1. x + 1 = (n * q) + (r + 1) /\ r + 1 \in 0..(n - 1) /\ x + 1 \in Nat
      BY <1>1, <1>3
    <2>2. (x + 1) % n = r + 1
      BY <1>1, <2>1, DivModUnique
    <2> QED BY <1>3, <2>2 DEF r
  <1> QED BY <1>2, <1>3

(* Numbers with the same remainder are a whole number of n apart. *)
LEMMA SameRemainder ==
    ASSUME NEW n \in Nat \ {0}, NEW x \in Nat, NEW y \in Nat, y <= x, x % n = y % n
    PROVE  (x - y) % n = 0
  <1> DEFINE q == x \div n
             p == y \div n
             r == x % n
  <1>1. q \in Nat /\ r \in 0..(n - 1) /\ x = (n * q) + r
    BY DivMod
  <1>2. p \in Nat /\ y = (n * p) + r
    BY DivMod
  <1> HIDE DEF p, q, r
  <1>3. p <= q
    <2> SUFFICES ASSUME q + 1 <= p PROVE FALSE
      BY <1>1, <1>2
    <2>1. p - (q + 1) \in Nat
      BY <1>1, <1>2
    <2>2. n * p = n * q + n + n * (p - (q + 1))
      BY <1>1, <1>2
    <2>3. n * (p - (q + 1)) \in Nat /\ n * q \in Nat
      BY <1>1, <2>1
    <2> QED BY <1>1, <1>2, <2>2, <2>3
  <1>4. q - p \in Nat /\ x - y \in Nat
    BY <1>1, <1>2, <1>3
  <1>5. x - y = (n * (q - p)) + 0 /\ 0 \in 0..(n - 1)
    BY <1>1, <1>2
  <1> QED BY <1>4, <1>5, DivModUnique

(* The phase of each value of the counter, and what a frame makes of both. *)
LEMMA PhaseIs ==
    ASSUME NEW n \in Nat \ {0}, NEW c \in 0..(n - 1)
    PROVE  /\ Phase(c, n) = IF c = 0 THEN n - 1 ELSE c - 1
           /\ Phase((c + 1) % n, n) = c
           /\ Phase(1 % n, n) = 0
           /\ (c + 1) % n \in 0..(n - 1)
  <1>1. ASSUME NEW d \in 0..(n - 1) PROVE Phase(d, n) = IF d = 0 THEN n - 1 ELSE d - 1
    <2> DEFINE x == d + n - 1
    <2>1. x \in 0..(2 * n - 1)
      OBVIOUS
    <2>2. x < n <=> d = 0
      OBVIOUS
    <2> HIDE DEF x
    <2>3. x % n = IF x < n THEN x ELSE x - n
      BY <2>1, Wrapped
    <2> QED BY <2>2, <2>3 DEF x, Phase
  <1>2. (c + 1) % n = IF c = n - 1 THEN 0 ELSE c + 1
    BY NextPlace
  <1>3. 0 \in 0..(n - 1) /\ 1 % n = IF n = 1 THEN 0 ELSE 1
    <2>1. 0 \in 0..(n - 1)
      OBVIOUS
    <2>2. (0 + 1) % n = IF 0 = n - 1 THEN 0 ELSE 0 + 1
      BY <2>1, NextPlace
    <2> QED BY <2>1, <2>2
  <1>4. (c + 1) % n \in 0..(n - 1) /\ 1 % n \in 0..(n - 1)
    BY <1>2, <1>3
  <1> HIDE DEF Phase
  <1>5. Phase((c + 1) % n, n) = c
    <2> DEFINE d == (c + 1) % n
    <2>1. d \in 0..(n - 1) /\ d = IF c = n - 1 THEN 0 ELSE c + 1
      BY <1>2, <1>4
    <2> HIDE DEF d
    <2>2. Phase(d, n) = IF d = 0 THEN n - 1 ELSE d - 1
      BY <1>1, <2>1
    <2>3. Phase(d, n) = c
      BY <2>1, <2>2
    <2> QED BY <2>3 DEF d
  <1>6. Phase(1 % n, n) = 0
    <2> DEFINE d == 1 % n
    <2>1. d \in 0..(n - 1) /\ d = IF n = 1 THEN 0 ELSE 1
      BY <1>3, <1>4
    <2> HIDE DEF d
    <2>2. Phase(d, n) = IF d = 0 THEN n - 1 ELSE d - 1
      BY <1>1, <2>1
    <2>3. Phase(d, n) = 0
      BY <2>1, <2>2
    <2> QED BY <2>3 DEF d
  <1> QED BY <1>1, <1>4, <1>5, <1>6

(* A snapshot in the ring is a save state, its age a number. *)
LEMMA StackType ==
    ASSUME MachineInv, NEW i \in 1..size
    PROVE  /\ Stack[i] \in States
           /\ OwnSnapshot(Stack[i]) => At(i) \in Nat
  <1>1. /\ capacity \in Nat /\ size \in 0..capacity /\ cart \in Carts
        /\ head \in IF capacity = 0 THEN {0} ELSE 0..(capacity - 1)
        /\ slots \in [0..(capacity - 1) -> States]
    BY RewindAssumption DEF MachineInv, TypeOK
  <1>2. capacity \in Nat \ {0} /\ head \in 0..(capacity - 1)
    BY <1>1
  <1>3. Place(capacity, head, size, i) \in 0..(capacity - 1)
    BY <1>1, <1>2, PlaceIs
  <1>4. Stack[i] = slots[Place(capacity, head, size, i)]
    BY DEF Stack, Place
  <1>5. Stack[i] \in States
    BY <1>1, <1>3, <1>4
  <1> HIDE DEF Stack
  <1>6. ASSUME OwnSnapshot(Stack[i]) PROVE At(i) \in Nat
    <2>1. Stack[i].body \in Seq(Part)
      BY <1>5 DEF States
    <2>2. 1 \in 1..Len(Stack[i].body)
      BY <1>1, <1>6, Cartridge DEF OwnSnapshot
    <2>3. Stack[i].body[1] \in Part
      BY <2>1, <2>2, ElementOfSeq
    <2> QED BY <2>3 DEF Part, At
  <1> QED BY <1>5, <1>6

LEMMA AgeType ==
    ASSUME MachineInv
    PROVE  /\ Age \in Nat /\ cart \in Carts /\ Len(body) = Len(Layout[cart])
           /\ size \in Nat /\ interval \in Nat \ {0} /\ counter \in 0..(interval - 1)
           /\ capacity \in Nat
  <1>1. /\ cart \in Carts /\ body \in [1..Len(Layout[cart]) -> Part]
        /\ capacity \in Nat /\ size \in 0..capacity
        /\ interval \in Nat \ {0} /\ counter \in 0..(interval - 1)
    BY RewindAssumption DEF MachineInv, TypeOK
  <1>2. Len(Layout[cart]) \in Nat /\ 1 \in 1..Len(Layout[cart])
    BY <1>1, Cartridge
  <1>3. Age \in Nat
    BY <1>1, <1>2 DEF Age, Part
  <1>4. body \in Seq(Part) /\ DOMAIN body = 1..Len(Layout[cart])
    BY <1>1, <1>2, SeqDef
  <1>5. Len(body) = Len(Layout[cart])
    BY <1>2, <1>4, LenProperties
  <1> QED BY <1>1, <1>3, <1>5

(* A frame that takes no snapshot brings every one of them one frame further *)
(* away.                                                                     *)
LEMMA GridFrame ==
    ASSUME MachineInv, GridInv, linear, Run, UNCHANGED cart,
           counter # 0, counter' = (counter + 1) % interval,
           UNCHANGED <<slots, head, size, capacity, interval>>
    PROVE  GridInv'
  <1>0. /\ Age \in Nat /\ interval \in Nat \ {0} /\ counter \in 0..(interval - 1)
        /\ Age' = Age + 1
    BY AgeType, RunMakes DEF Age
  <1>1. Stack' = Stack /\ \A i \in 1..size : At(i)' = At(i)
    BY DEF Stack, At
  <1>2. Phase(counter', interval') = counter /\ Phase(counter, interval) = counter - 1
    BY <1>0, PhaseIs
  <1>3. ASSUME NEW i \in 1..size
        PROVE  /\ OwnSnapshot(Stack[i])
               /\ At(i) <= Age' /\ (Age' - At(i)) % interval = counter
    <2>1. At(i) \in Nat /\ At(i) <= Age /\ (Age - At(i)) % interval = Phase(counter, interval)
          /\ OwnSnapshot(Stack[i])
      BY StackType DEF GridInv
    <2> DEFINE x == Age - At(i)
    <2>2. x \in Nat /\ Age' - At(i) = x + 1 /\ x % interval = counter - 1 /\ At(i) <= Age'
      BY <1>0, <1>2, <2>1
    <2> HIDE DEF x
    <2>3. (x + 1) % interval = IF x % interval = interval - 1 THEN 0 ELSE (x % interval) + 1
      BY <1>0, <2>2, NextRemainder
    <2>4. (x + 1) % interval = counter
      BY <1>0, <2>2, <2>3
    <2> QED BY <2>1, <2>2, <2>4
  <1>4. \A i, j \in 1..size : i < j => At(i) < At(j)
    BY DEF GridInv
  <1>5. \A i \in 1..size : OwnSnapshot(Stack[i])'
    BY <1>1, <1>3 DEF OwnSnapshot
  <1>6. size' = size /\ interval' = interval
    OBVIOUS
  <1> HIDE DEF Stack, At, Age
  <1> QED BY <1>1, <1>2, <1>3, <1>4, <1>5, <1>6 DEF GridInv

(* One that does puts it on top. *)
LEMMA GridSnapshot ==
    ASSUME MachineInv, GridInv, linear, Run, UNCHANGED cart,
           counter = 0, capacity > 0, Capture(Blob(cart, body'))
    PROVE  GridInv'
  <1> DEFINE blob == Blob(cart, body')
             k == size + 1 - size'
  <1>0. /\ Age \in Nat /\ interval \in Nat \ {0} /\ counter \in 0..(interval - 1)
        /\ Age' = Age + 1 /\ size \in Nat
    BY AgeType, RunMakes DEF Age
  <1>1. counter' = (counter + 1) % interval /\ interval' = interval
    BY DEF Capture
  <1>2. Phase(counter', interval') = 0 /\ Phase(counter, interval) = interval - 1
    BY <1>0, <1>1, PhaseIs
  <1>3. blob \in States /\ RingType
    BY RunMakes, Split
  <1> HIDE DEF blob
  <1>4. /\ size' >= 1 /\ (size' = size + 1 \/ size' = size)
        /\ Stack'[size'] = blob
        /\ \A i \in 1..(size' - 1) : Stack'[i] = Stack[i + k]
    BY <1>3, SnapshotPushes DEF blob
  <1>5. size' \in Nat /\ k \in {0, 1} /\ \A i \in 1..(size' - 1) : i + k \in 1..size
    BY <1>0, <1>4
  <1> HIDE DEF k, Stack, Age
  <1>n. size' \in Nat
    BY <1>5
  <1>6. /\ OwnSnapshot(Stack[size])' /\ At(size)' = Age'
    <2>1. blob.header = Header[cart] /\ blob.body = body'
      BY DEF blob, Blob
    <2>2. Len(body') = Len(Layout[cart'])
      <3>1. cart \in Carts /\ body' = Fresh(cart, Age + 1) /\ cart' = cart
        BY AgeType DEF Run
      <3>2. Len(Layout[cart]) \in Nat
        BY <3>1, Cartridge
      <3>3. body' \in Seq(Part)
        BY <1>3, <2>1 DEF States
      <3>4. DOMAIN body' = 1..Len(Layout[cart])
        BY <3>1 DEF Fresh
      <3> QED BY <3>1, <3>2, <3>3, <3>4, LenProperties
    <2> QED BY <1>4, <2>1, <2>2 DEF OwnSnapshot, At, Age
  <1>7. ASSUME NEW i \in 1..(size' - 1)
        PROVE  /\ OwnSnapshot(Stack[i])' /\ At(i)' = At(i + k)
               /\ At(i + k) \in Nat /\ At(i + k) <= Age
               /\ (Age' - At(i + k)) % interval = 0
    <2>1. Stack'[i] = Stack[i + k] /\ i + k \in 1..size
      BY <1>4, <1>5
    <2>2. /\ OwnSnapshot(Stack[i + k]) /\ At(i + k) \in Nat /\ At(i + k) <= Age
          /\ (Age - At(i + k)) % interval = interval - 1
      BY <1>2, <2>1, StackType DEF GridInv
    <2>3. OwnSnapshot(Stack[i])' /\ At(i)' = At(i + k)
      BY <2>1, <2>2 DEF OwnSnapshot, At
    <2> DEFINE x == Age - At(i + k)
    <2>4. x \in Nat /\ Age' - At(i + k) = x + 1 /\ x % interval = interval - 1
      BY <1>0, <2>2
    <2> HIDE DEF x
    <2>5. (x + 1) % interval = 0
      BY <1>0, <2>4, NextRemainder
    <2> QED BY <2>2, <2>3, <2>4, <2>5
  <1>8. ASSUME NEW i \in 1..size'
        PROVE  /\ OwnSnapshot(Stack[i])' /\ At(i)' <= Age'
               /\ (Age' - At(i)') % interval = 0
    <2>1. CASE i = size'
      <3>1. (Age' - Age') = 0 /\ 0 = interval * 0 + 0 /\ 0 \in 0..(interval - 1) /\ Age' \in Nat
        BY <1>0
      <3>2. 0 % interval = 0
        BY <1>0, <3>1, DivModUnique
      <3> QED BY <1>6, <2>1, <3>1, <3>2
    <2>2. CASE i # size'
      <3>1. i \in 1..(size' - 1)
        BY <1>n, <2>2, Below
      <3>2. /\ OwnSnapshot(Stack[i])' /\ At(i)' = At(i + k)
            /\ At(i + k) \in Nat /\ At(i + k) <= Age
            /\ (Age' - At(i + k)) % interval = 0
        BY <1>7, <3>1
      <3> QED BY <1>0, <3>2
    <2> QED BY <2>1, <2>2
  <1>9. ASSUME NEW i \in 1..size', NEW j \in 1..size', i < j
        PROVE  At(i)' < At(j)'
    <2>1. i \in 1..(size' - 1) /\ At(i)' = At(i + k)
      <3>1. i \in 1..(size' - 1)
        BY <1>n, <1>9, Below
      <3> QED BY <1>7, <3>1
    <2>2. CASE j = size'
      <3>1. At(i + k) \in Nat /\ At(i + k) <= Age
        BY <1>7, <2>1
      <3>2. At(j)' = Age'
        BY <1>6, <2>2 DEF At
      <3> QED BY <1>0, <2>1, <3>1, <3>2
    <2>3. CASE j # size'
      <3>1. j \in 1..(size' - 1)
        BY <1>n, <2>3, Below
      <3>2. /\ i + k < j + k /\ i + k \in 1..size /\ j + k \in 1..size
            /\ At(j)' = At(j + k)
        <4>1. i + k \in 1..size /\ j + k \in 1..size
          BY <1>5, <2>1, <3>1
        <4>2. At(j)' = At(j + k)
          BY <1>7, <3>1
        <4>3. i + k < j + k
          BY <1>5, <1>n, <1>9
        <4> QED BY <4>1, <4>2, <4>3
      <3>3. At(i + k) < At(j + k)
        BY <3>2 DEF GridInv
      <3> QED BY <2>1, <3>2, <3>3
    <2> QED BY <2>2, <2>3
  <1>10. Phase(counter, interval)' = 0 /\ interval' = interval
    BY <1>1, <1>2 DEF Phase
  <1> QED BY <1>8, <1>9, <1>10 DEF GridInv

(* Going back takes the machine to the newest, and the others are a whole   *)
(* number of intervals from there.                                           *)
LEMMA GridStepBack ==
    ASSUME MachineInv, GridInv, linear, StepBack
    PROVE  GridInv'
  <1>0. /\ Age \in Nat /\ interval \in Nat \ {0} /\ counter \in 0..(interval - 1)
        /\ size \in Nat /\ cart \in Carts /\ Len(body) = Len(Layout[cart])
    BY AgeType
  <1>1. /\ UNCHANGED <<cart, interval>> /\ counter' = 1 % interval
        /\ size > 0 /\ size' = size - 1 /\ LoadState(slots[NewestSlot])
    BY DEF StepBack, DropNewest
  <1>2. Stack[size] = slots[NewestSlot] /\ \A i \in 1..(size - 1) : Stack'[i] = Stack[i]
    BY DropNewestPops, Split DEF StepBack
  <1> HIDE DEF Stack
  <1>3. size \in 1..size /\ OwnSnapshot(Stack[size]) /\ At(size) \in Nat
    BY <1>0, <1>1, StackType DEF GridInv
  <1>4. Age' = At(size)
    <2> DEFINE blob == Stack[size]
    <2>1. LoadState(blob) /\ ReadHeader(cart, blob) /\ Len(blob.body) = Len(body)
      BY <1>0, <1>1, <1>2, <1>3 DEF OwnSnapshot, ReadHeader
    <2>2. Len(body) \in Nat /\ 1 <= Len(body)
      BY <1>0, Cartridge
    <2> HIDE DEF blob
    <2>3. ~(Len(blob.body) < Len(body))
      BY <2>1, <2>2
    <2>4. body' = ApplyPayload(blob.body)
      BY <2>1, <2>3 DEF LoadState
    <2>5. 1 \in DOMAIN body
      <3>1. body \in [1..Len(Layout[cart]) -> Part]
        BY DEF MachineInv, TypeOK
      <3> QED BY <1>0, <2>2, <3>1
    <2>6. body'[1] = blob.body[1]
      BY <2>1, <2>2, <2>4, <2>5 DEF ApplyPayload
    <2> QED BY <2>6 DEF Age, At, blob
  <1>5. ASSUME NEW i \in 1..(size - 1)
        PROVE  /\ OwnSnapshot(Stack[i])' /\ At(i)' = At(i)
               /\ At(i) < Age' /\ (Age' - At(i)) % interval = 0
    <2>1. i \in 1..size /\ i < size /\ Stack'[i] = Stack[i]
      BY <1>0, <1>2
    <2>2. /\ OwnSnapshot(Stack[i]) /\ At(i) \in Nat /\ At(i) <= Age /\ At(i) < At(size)
          /\ (Age - At(i)) % interval = Phase(counter, interval)
          /\ At(size) <= Age /\ (Age - At(size)) % interval = Phase(counter, interval)
      BY <1>3, <2>1, StackType DEF GridInv
    <2>3. OwnSnapshot(Stack[i])' /\ At(i)' = At(i)
      BY <1>1, <2>1, <2>2 DEF OwnSnapshot, At
    <2> DEFINE x == Age - At(i)
               y == Age - At(size)
    <2> HIDE DEF At, Age, Phase
    <2>4. /\ x \in Nat /\ y \in Nat /\ y <= x
          /\ x % interval = y % interval
          /\ x - y = Age' - At(i)
      <3>1. x \in Nat /\ y \in Nat /\ y <= x /\ x - y = At(size) - At(i)
        <4> DEFINE a == At(i)
                   b == At(size)
        <4>1. a \in Nat /\ b \in Nat /\ a <= Age /\ b <= Age /\ a < b /\ Age \in Nat
          BY <1>0, <1>3, <2>2
        <4> HIDE DEF a, b
        <4>2. Age - a \in Nat /\ Age - b \in Nat /\ Age - b <= Age - a
              /\ (Age - a) - (Age - b) = b - a
          BY <4>1
        <4> QED BY <4>2 DEF a, b
      <3>2. x % interval = y % interval
        BY <2>2
      <3> QED BY <1>4, <3>1, <3>2
    <2> HIDE DEF x, y
    <2>5. (x - y) % interval = 0
      BY <1>0, <2>4, SameRemainder
    <2> QED BY <1>4, <2>2, <2>3, <2>4, <2>5
  <1>6. Phase(counter, interval)' = 0
    BY <1>0, <1>1, PhaseIs DEF Phase
  <1>7. ASSUME NEW i \in 1..(size - 1), NEW j \in 1..(size - 1), i < j
        PROVE  At(i) < At(j)
    <2>1. i \in 1..size /\ j \in 1..size
      BY <1>0
    <2> QED BY <1>7, <2>1 DEF GridInv
  <1>8. size' = size - 1 /\ interval' = interval
    BY <1>1
  <1>9. \A i \in 1..(size - 1) : At(i)' <= Age' /\ (Age' - At(i)') % interval = 0
    BY <1>3, <1>4, <1>5, StackType DEF GridInv
  <1>10. \A i, j \in 1..(size - 1) : i < j => At(i)' < At(j)'
    BY <1>5, <1>7
  <1>n. \A i \in 1..(size - 1) : OwnSnapshot(Stack[i])'
    BY <1>5
  <1> HIDE DEF Age, At
  <1> QED BY <1>6, <1>8, <1>9, <1>10, <1>n DEF GridInv

LEMMA GridEmpty ==
    ASSUME size' = 0
    PROVE  GridInv'
  BY DEF GridInv

LEMMA GridKept ==
    ASSUME MachineInv, GridInv, [Next]_vars
    PROVE  GridInv'
  <1>1. ASSUME Elsewhere PROVE GridInv'
    BY <1>1, GridEmpty DEF Elsewhere, GridInv
  <1>2. ASSUME Onward, ~linear PROVE GridInv'
    BY <1>2, GridEmpty DEF Onward, GridInv
  <1>3. ASSUME UNCHANGED <<cart, body, linear>>, UNCHANGED ringVars PROVE GridInv'
    <2>1. Stack' = Stack /\ Age' = Age /\ UNCHANGED <<size, counter, interval, cart, linear>>
      BY <1>3 DEF Stack, Age, ringVars
    <2>2. \A i \in 1..size : At(i)' = At(i) /\ (OwnSnapshot(Stack[i])' <=> OwnSnapshot(Stack[i]))
      BY <2>1 DEF At, OwnSnapshot
    <2> HIDE DEF Stack, Age, At
    <2> QED BY <2>1, <2>2 DEF GridInv, Phase
  <1>4. CASE RunFrame
    <2>1. Run /\ UNCHANGED cart
      BY <1>4 DEF RunFrame
    <2>2. CASE Capture(Blob(cart, body')) /\ Onward /\ linear
      <3>1. CASE capacity = 0
        <4>1. size' = 0
          BY <2>2, <3>1 DEF Capture, ringVars, MachineInv, TypeOK
        <4> QED BY <4>1, GridEmpty
      <3>2. CASE capacity > 0 /\ counter = 0
        BY <2>1, <2>2, <3>2, GridSnapshot
      <3>3. CASE capacity > 0 /\ counter # 0
        <4>1. /\ counter' = (counter + 1) % interval
              /\ UNCHANGED <<slots, head, size, capacity, interval>>
          BY <2>2, <3>3 DEF Capture
        <4> QED BY <2>1, <2>2, <3>3, <4>1, GridFrame
      <3> QED BY <3>1, <3>2, <3>3, AgeType
    <2> QED BY <1>1, <1>2, <1>4, <2>2 DEF RunFrame
  <1>5. CASE RunCycles \/ LoadRom \/ Reset \/ LoadSaved
    BY <1>1, <1>5 DEF RunCycles, LoadRom, Reset, LoadSaved
  <1>6. CASE StepBack
    BY <1>2, <1>6, GridStepBack DEF StepBack
  <1>7. CASE SetRewindEnabled \/ UNCHANGED vars
    BY <1>3, <1>7 DEF SetRewindEnabled, vars
  <1>8. CASE SetRing
    <2>1. size' = 0
      BY <1>8 DEF SetRing, SetInterval, SetCapacity, ClearAlone, Clear
    <2> QED BY <2>1, GridEmpty
  <1> QED BY <1>4, <1>5, <1>6, <1>7, <1>8 DEF Next

(* While the machine only runs and steps back, its snapshots are in the      *)
(* order of time and a whole number of intervals apart, and the frame gone   *)
(* back to counts as spent: rewind.cpp's rule, for every interval.           *)
THEOREM OnGridHolds == Spec => []OnGrid
  <1>1. Init => GridInv
    BY DEF Init, RewindInit, GridInv
  <1>2. MachineInv /\ GridInv /\ [Next]_vars => GridInv'
    BY GridKept
  <1>3. MachineInv /\ GridInv => OnGrid
    <2> SUFFICES ASSUME MachineInv, GridInv, linear
                 PROVE  /\ \A i \in 1..size : At(i) <= Age
                              /\ (Age - At(i)) % interval = Phase(counter, interval)
                        /\ \A i \in 1..(size - 1) : At(i) < At(i + 1)
      BY DEF OnGrid, At, Phase
    <2>1. \A i, j \in 1..size : i < j => At(i) < At(j)
      BY DEF GridInv
    <2>2. \A i \in 1..(size - 1) : i \in 1..size /\ i + 1 \in 1..size /\ i < i + 1
      BY AgeType
    <2>3. \A i \in 1..(size - 1) : At(i) < At(i + 1)
      BY <2>1, <2>2
    <2> QED BY <2>3 DEF GridInv
  <1> QED BY <1>1, <1>2, <1>3, MachineInvariant, PTL DEF Spec

----------------------------------------------------------------------------
(* The loops of gb.cpp that run the CPU (FrameLoop), for every geometry of  *)
(* the frame and every length of a CPU step that FrameLoopAssumption        *)
(* allows.                                                                  *)

(* Dots of the lines that are seen. *)
SeenTime == VisibleLines * LineDots

(* Dots that the CPU's step has yet to take. *)
StepRest == IF pc = "dots" THEN 4 * (step - 1) + dots
            ELSE IF pc = "access" THEN 4 * (step - 1) ELSE 0

(* Dots until the next frame is complete. *)
ToGo == IF beam < SeenTime THEN SeenTime - beam ELSE SeenTime + FrameTime - beam

LoopTypeInv ==
    /\ LoopTypeOK
    /\ pc \in {"dots", "access"} => step >= 1
    /\ mode = "vblank" => on /\ beam >= SeenTime
    /\ on /\ beam >= SeenTime => mode = "vblank"

(* With the LCD on, the time spent and the time to go make up a frame, until *)
(* the frame is there and there is only the rest of the step to run.         *)
OnTimeInv ==
    pc # "idle" /\ call = "frame" /\ ~dark =>
        /\ on
        /\ Cap - left + StepRest <= FrameTime + 4 * MaxStep
        /\ ~frame => Cap - left + ToGo <= FrameTime

(* A frame that waits was completed in this very step, which ends before the *)
(* next line could be drawn.                                                 *)
PictureInv ==
    /\ call = "cycles" => stepped
    /\ ~stepped /\ pc = "idle" => ~frame
    /\ ~stepped /\ frame => /\ ~partial
                            /\ \/ ~on
                               \/ beam >= SeenTime /\ beam + StepRest < FrameTime
                               \/ beam + StepRest < ScanDots + MinDraw

LoopInv == LoopTypeInv /\ OnTimeInv /\ PictureInv

LEMMA Geometry ==
    ASSUME FrameLoopAssumption
    PROVE  /\ LineDots \in Nat \ {0} /\ ScanDots \in Nat \ {0} /\ MinDraw \in Nat \ {0}
           /\ VisibleLines \in Nat \ {0} /\ Lines \in Nat \ {0} /\ MaxStep \in Nat \ {0}
           /\ HeadStart \in Nat /\ HeadStart + 4 * MaxStep < ScanDots + MinDraw
           /\ SeenTime \in Nat /\ FrameTime \in Nat
           /\ Cap = FrameTime * 2
           /\ SeenTime + 4 * MaxStep < FrameTime
           /\ ScanDots + MinDraw <= LineDots /\ LineDots <= SeenTime
  <1>1. /\ LineDots \in Nat \ {0} /\ ScanDots \in Nat \ {0} /\ MinDraw \in Nat \ {0}
        /\ VisibleLines \in Nat \ {0} /\ Lines \in Nat \ {0} /\ MaxStep \in Nat \ {0}
        /\ HeadStart \in Nat /\ HeadStart + 4 * MaxStep < ScanDots + MinDraw
        /\ ScanDots + MinDraw <= LineDots
        /\ VisibleLines < Lines
        /\ 4 * MaxStep < (Lines - VisibleLines) * LineDots
    BY DEF FrameLoopAssumption
  <1>2. (Lines - VisibleLines) * LineDots = Lines * LineDots - VisibleLines * LineDots
    BY <1>1
  <1>3. VisibleLines * LineDots \in Nat /\ Lines * LineDots \in Nat
    BY <1>1
  <1>4. LineDots <= VisibleLines * LineDots
    <2>1. VisibleLines * LineDots = (VisibleLines - 1) * LineDots + LineDots
      BY <1>1
    <2>2. (VisibleLines - 1) * LineDots \in Nat
      <3>1. VisibleLines - 1 \in Nat
        BY <1>1
      <3> QED BY <1>1, <3>1
    <2> QED BY <1>1, <2>1, <2>2
  <1> QED BY <1>1, <1>2, <1>3, <1>4 DEF SeenTime, FrameTime, Cap

(* Where a dot of the beam is. *)
LEMMA BeamLine ==
    ASSUME FrameLoopAssumption, NEW b \in Nat
    PROVE  /\ b < SeenTime => b \div LineDots < VisibleLines
           /\ b >= SeenTime => b \div LineDots >= VisibleLines
           /\ b < LineDots => b % LineDots = b
  <1> DEFINE q == b \div LineDots
             r == b % LineDots
  <1>0. LineDots \in Nat \ {0} /\ VisibleLines \in Nat /\ SeenTime = VisibleLines * LineDots
    BY Geometry DEF SeenTime
  <1>1. q \in Nat /\ r \in 0..(LineDots - 1) /\ b = (LineDots * q) + r
    BY <1>0, DivMod
  <1> HIDE DEF q, r
  <1>2. q >= VisibleLines => b >= SeenTime
    <2> SUFFICES ASSUME q >= VisibleLines PROVE b >= SeenTime
      OBVIOUS
    <2>1. q - VisibleLines \in Nat
      BY <1>0, <1>1
    <2>2. LineDots * q = VisibleLines * LineDots + LineDots * (q - VisibleLines)
      BY <1>0, <1>1
    <2>3. LineDots * (q - VisibleLines) \in Nat /\ VisibleLines * LineDots \in Nat
      BY <1>0, <2>1
    <2> QED BY <1>0, <1>1, <2>2, <2>3
  <1>3. q < VisibleLines => b < SeenTime
    <2> SUFFICES ASSUME q < VisibleLines PROVE b < SeenTime
      OBVIOUS
    <2>1. VisibleLines - 1 - q \in Nat
      BY <1>0, <1>1
    <2>2. VisibleLines * LineDots = LineDots * q + LineDots + LineDots * (VisibleLines - 1 - q)
      BY <1>0, <1>1
    <2>3. LineDots * (VisibleLines - 1 - q) \in Nat /\ LineDots * q \in Nat
      BY <1>0, <1>1, <2>1
    <2> QED BY <1>0, <1>1, <2>2, <2>3
  <1>4. ASSUME b < LineDots PROVE b % LineDots = b
    <2>1. b = (LineDots * 0) + b /\ b \in 0..(LineDots - 1) /\ 0 \in Nat
      BY <1>0, <1>4
    <2> QED BY <1>0, <2>1, DivModUnique
  <1> QED BY <1>0, <1>1, <1>2, <1>3, <1>4 DEF q

(* One dot of the beam. *)
LEMMA BeamMoves ==
    ASSUME FrameLoopAssumption, LoopTypeOK, Screen!Move
    PROVE  /\ beam' = IF beam + 1 = FrameTime THEN 0 ELSE beam + 1
           /\ beam' \in 0..(FrameTime - 1)
           /\ frame' = (frame \/ beam' = SeenTime) /\ vblank' \in BOOLEAN /\ on' = on
           /\ mode' \in {"scan", "drawing", "hblank", "vblank"}
           /\ beam' >= SeenTime => mode' = "vblank"
           /\ beam' < SeenTime /\ mode' = "vblank" => mode = "vblank" /\ beam' # 0
           /\ beam' < ScanDots + MinDraw /\ mode' # mode => mode' # "hblank"
  <1>0. /\ beam \in 0..(FrameTime - 1) /\ FrameTime \in Nat /\ FrameTime # 0
        /\ mode \in {"scan", "drawing", "hblank", "vblank"}
    BY Geometry DEF LoopTypeOK
  <1>1. /\ beam' = (beam + 1) % FrameTime
        /\ frame' = (frame \/ beam' = SeenTime)
        /\ vblank' = (vblank \/ beam' = SeenTime) /\ on' = on
        /\ mode' \in IF beam' \div LineDots < VisibleLines
                     THEN Screen!ModesAt(beam' % LineDots, mode) ELSE {"vblank"}
    BY DEF Screen!Move, FrameTime, SeenTime
  <1>2. beam' = IF beam + 1 = FrameTime THEN 0 ELSE beam + 1
    <2>1. CASE beam + 1 = FrameTime
      <3>1. beam + 1 = (FrameTime * 1) + 0 /\ 0 \in 0..(FrameTime - 1)
        BY <1>0, <2>1
      <3>2. beam + 1 \in Nat /\ FrameTime \in Nat \ {0}
        BY <1>0
      <3> QED BY <1>1, <2>1, <3>1, <3>2, DivModUnique
    <2>2. CASE beam + 1 # FrameTime
      <3>1. beam + 1 = (FrameTime * 0) + (beam + 1) /\ beam + 1 \in 0..(FrameTime - 1)
        BY <1>0, <2>2
      <3>2. beam + 1 \in Nat /\ FrameTime \in Nat \ {0}
        BY <1>0
      <3> QED BY <1>1, <2>2, <3>1, <3>2, DivModUnique
    <2> QED BY <2>1, <2>2
  <1>3. beam' \in 0..(FrameTime - 1) /\ beam' \in Nat
    BY <1>0, <1>2
  <1>4. beam' >= SeenTime => mode' = "vblank"
    BY <1>1, <1>3, BeamLine, Geometry
  <1>5. beam' < SeenTime => mode' \in Screen!ModesAt(beam' % LineDots, mode)
    BY <1>1, <1>3, BeamLine
  <1>6. ASSUME NEW d \in Nat
        PROVE  /\ Screen!ModesAt(d, mode) \subseteq {"scan", "drawing", "hblank", mode}
               /\ d = 0 => Screen!ModesAt(d, mode) = {"scan"}
               /\ d \in 1..(ScanDots - 1) => Screen!ModesAt(d, mode) = {mode}
               /\ d \in ScanDots..(ScanDots + MinDraw - 1) => Screen!ModesAt(d, mode) = {"drawing"}
    BY Geometry DEF Screen!ModesAt
  <1>7. beam' < LineDots => beam' % LineDots = beam'
    BY <1>3, BeamLine
  <1>8. beam' % LineDots \in Nat
    <2>1. LineDots \in Nat \ {0}
      BY Geometry
    <2>2. beam' % LineDots \in 0..(LineDots - 1)
      BY <1>3, <2>1, DivMod
    <2> QED BY <2>1, <2>2
  <1>9. beam' < SeenTime => /\ mode' \in {"scan", "drawing", "hblank", mode}
                            /\ beam' = 0 => mode' = "scan"
    BY <1>5, <1>6, <1>7, <1>8, Geometry
  <1>10. beam' < ScanDots + MinDraw =>
             \/ beam' = 0 /\ mode' = "scan"
             \/ mode' = mode
             \/ mode' = "drawing"
    <2> SUFFICES ASSUME beam' < ScanDots + MinDraw
                 PROVE  \/ beam' = 0 /\ mode' = "scan"
                        \/ mode' = mode
                        \/ mode' = "drawing"
      OBVIOUS
    <2>1. beam' % LineDots = beam' /\ mode' \in Screen!ModesAt(beam', mode)
      BY <1>3, <1>5, <1>7, Geometry
    <2>2. \/ beam' = 0 \/ beam' \in 1..(ScanDots - 1)
          \/ beam' \in ScanDots..(ScanDots + MinDraw - 1)
      BY <1>3, Geometry
    <2> QED BY <1>3, <1>6, <2>1, <2>2
  <1>11. vblank' \in BOOLEAN
    BY <1>1 DEF LoopTypeOK
  <1>12. mode' \in {"scan", "drawing", "hblank", "vblank"}
    BY <1>0, <1>3, <1>4, <1>9, Geometry
  <1>13. beam' < SeenTime /\ mode' = "vblank" => mode = "vblank" /\ beam' # 0
    BY <1>9
  <1>14. beam' < ScanDots + MinDraw /\ mode' # mode => mode' # "hblank"
    BY <1>10
  <1> QED BY <1>1, <1>2, <1>3, <1>4, <1>11, <1>12, <1>13, <1>14

LEMMA LeftTypes ==
    ASSUME FrameLoopAssumption
    PROVE  LET Left == 0..Cap \union UNION {0..n : n \in Targets}
           IN  /\ Left \subseteq Nat /\ 0 \in Left /\ Cap \in Left /\ Targets \subseteq Left
               /\ \A n \in Left : n > 0 => n - 1 \in Left
  <1> DEFINE Left == 0..Cap \union UNION {0..n : n \in Targets}
  <1>0. Cap \in Nat /\ Targets \subseteq Nat
    BY Geometry DEF FrameLoopAssumption
  <1>1. Left \subseteq Nat /\ 0 \in Left /\ Cap \in Left
    BY <1>0
  <1>2. ASSUME NEW n \in Targets PROVE n \in Left
    BY <1>0, <1>2
  <1>3. ASSUME NEW n \in Left, n > 0 PROVE n - 1 \in Left
    <2>1. CASE n \in 0..Cap
      BY <1>0, <1>3, <2>1
    <2>2. CASE n \in UNION {0..m : m \in Targets}
      <3>1. PICK m \in Targets : n \in 0..m
        BY <2>2
      <3>2. n - 1 \in 0..m
        BY <1>0, <1>3, <3>1
      <3> QED BY <3>2
    <2> QED BY <1>3, <2>1, <2>2
  <1> HIDE DEF Left
  <1>4. \A n \in Left : n > 0 => n - 1 \in Left
    BY <1>3
  <1>5. Targets \subseteq Left
    BY <1>2
  <1> QED BY <1>1, <1>4, <1>5 DEF Left

LEMMA LoopDotKeeps ==
    ASSUME FrameLoopAssumption, LoopInv, RunDot
    PROVE  LoopInv'
  <1>1. /\ on \in BOOLEAN /\ frame \in BOOLEAN /\ vblank \in BOOLEAN
        /\ dark \in BOOLEAN /\ partial \in BOOLEAN /\ stepped \in BOOLEAN
        /\ beam \in 0..(FrameTime - 1) /\ call \in {"frame", "cycles"}
        /\ mode \in {"scan", "drawing", "hblank", "vblank"}
        /\ step \in 1..MaxStep /\ dots \in 1..4 /\ pc = "dots" /\ left \in Nat
    BY LeftTypes DEF LoopInv, LoopTypeInv, LoopTypeOK, RunDot
  <1>2. /\ left' = (IF left > 0 THEN left - 1 ELSE 0)
        /\ dots' = dots - 1 /\ pc' = (IF dots = 1 THEN "access" ELSE "dots")
        /\ UNCHANGED <<call, step, dark, stepped>>
    BY DEF RunDot
  <1>3. on => Screen!Move
    BY DEF RunDot
  <1>4. ~on => UNCHANGED <<on, beam, mode, frame, vblank>>
    BY DEF RunDot, screenVars
  <1>5. partial' = CASE mode = "drawing" /\ mode' = "hblank" -> TRUE
                     [] mode # "vblank" /\ mode' = "vblank" -> FALSE
                     [] OTHER -> partial
    BY DEF RunDot
  <1>6. /\ partial' \in BOOLEAN
        /\ ~partial /\ ~(mode = "drawing" /\ mode' = "hblank") => ~partial'
        /\ mode # "vblank" /\ mode' = "vblank" => ~partial'
    <2>1. CASE mode = "drawing" /\ mode' = "hblank"
      <3>1. ~(mode # "vblank" /\ mode' = "vblank")
        BY <2>1
      <3>2. partial' = TRUE
        BY <1>5, <2>1, <3>1, Zenon
      <3> QED BY <2>1, <3>1, <3>2
    <2>2. CASE mode # "vblank" /\ mode' = "vblank"
      <3>1. ~(mode = "drawing" /\ mode' = "hblank")
        BY <2>2
      <3>2. partial' = FALSE
        BY <1>5, <2>2, <3>1, Zenon
      <3> QED BY <2>2, <3>1, <3>2
    <2>3. CASE ~(mode = "drawing" /\ mode' = "hblank") /\ ~(mode # "vblank" /\ mode' = "vblank")
      <3>1. partial' = partial
        BY <1>5, <2>3, Zenon
      <3> QED BY <1>1, <2>3, <3>1, Zenon
    <2> QED BY <2>1, <2>2, <2>3
  <1>7. LoopTypeOK
    BY DEF LoopInv, LoopTypeInv
  <1>8. CASE on
    <2>1. /\ beam' = (IF beam + 1 = FrameTime THEN 0 ELSE beam + 1)
          /\ beam' \in 0..(FrameTime - 1)
          /\ frame' = (frame \/ beam' = SeenTime) /\ vblank' \in BOOLEAN /\ on' = on
          /\ mode' \in {"scan", "drawing", "hblank", "vblank"}
          /\ beam' >= SeenTime => mode' = "vblank"
          /\ beam' < SeenTime /\ mode' = "vblank" => mode = "vblank" /\ beam' # 0
          /\ beam' < ScanDots + MinDraw /\ mode' # mode => mode' # "hblank"
      BY <1>3, <1>7, <1>8, BeamMoves
    <2>2. mode' = "vblank" => beam' >= SeenTime
      BY <1>1, <2>1, Geometry DEF LoopInv, LoopTypeInv
    <2>3. LoopTypeInv'
      <3>1. left' \in 0..Cap \union UNION {0..n : n \in Targets}
        BY <1>2, LeftTypes DEF LoopInv, LoopTypeInv, LoopTypeOK
      <3>2. frame' \in BOOLEAN /\ on' \in BOOLEAN
        BY <1>1, <2>1
      <3>3. pc' = "dots" <=> dots' # 0
        BY <1>1, <1>2
      <3>4. LoopTypeOK'
        BY <1>1, <1>2, <1>6, <2>1, <3>1, <3>2, <3>3 DEF LoopTypeOK
      <3> QED BY <1>1, <1>2, <1>8, <2>1, <2>2, <3>4 DEF LoopTypeInv
    <2>4. StepRest = StepRest' + 1 /\ StepRest' \in Nat /\ StepRest' < 4 * MaxStep
      BY <1>1, <1>2, Geometry DEF StepRest
    <2>5. OnTimeInv'
      <3> SUFFICES ASSUME call = "frame", ~dark
                   PROVE  /\ Cap - left' + StepRest' <= FrameTime + 4 * MaxStep
                          /\ ~frame' => Cap - left' + ToGo' <= FrameTime
        BY <1>2, <1>8, <2>1 DEF OnTimeInv
      <3>1. /\ Cap - left + StepRest <= FrameTime + 4 * MaxStep
            /\ ~frame => Cap - left + ToGo <= FrameTime
        BY <1>1 DEF LoopInv, OnTimeInv
      <3>2. left > 0 /\ left' = left - 1
        BY <1>1, <1>2, <2>4, <3>1, Geometry
      <3>3. ~frame' => ~frame /\ beam' # SeenTime
        BY <1>1, <2>1
      <3>4. beam' # SeenTime => ToGo' = ToGo - 1
        BY <1>1, <2>1, Geometry DEF ToGo
      <3>5. Cap - left' = Cap - left + 1 /\ Cap \in Nat /\ FrameTime \in Nat
        BY <1>1, <3>2, Geometry
      <3>6. ToGo \in Nat
        BY <1>1, Geometry DEF ToGo
      <3> QED BY <1>1, <2>4, <3>1, <3>3, <3>4, <3>5, <3>6, Geometry
    <2>6. PictureInv'
      <3>1. call' = "cycles" => stepped'
        BY <1>2 DEF LoopInv, PictureInv
      <3>2. pc' # "idle"
        BY <1>2
      <3>3. ASSUME ~stepped, frame'
            PROVE  /\ ~partial'
                   /\ \/ beam' >= SeenTime /\ beam' + StepRest' < FrameTime
                      \/ beam' + StepRest' < ScanDots + MinDraw
        <4>1. CASE ~frame
          <5>1. beam' = SeenTime /\ mode' = "vblank"
            BY <1>1, <2>1, <3>3, <4>1, Geometry
          <5>2. beam < SeenTime
            BY <1>1, <2>1, <5>1, Geometry
          <5>3. mode # "vblank"
            BY <1>1, <5>2, Geometry DEF LoopInv, LoopTypeInv
          <5> QED BY <1>6, <2>4, <5>1, <5>3, Geometry
        <4>2. CASE frame /\ beam >= SeenTime /\ beam + StepRest < FrameTime
          <5>1. ~partial /\ mode = "vblank"
            BY <1>8, <3>3, <4>2 DEF LoopInv, LoopTypeInv, PictureInv
          <5>2. beam' = beam + 1
            BY <1>1, <2>1, <2>4, <4>2, Geometry
          <5>3. ~partial'
            BY <1>6, <5>1
          <5> QED BY <1>1, <2>4, <4>2, <5>2, <5>3, Geometry
        <4>3. CASE frame /\ beam + StepRest < ScanDots + MinDraw
          <5>1. ~partial
            BY <3>3, <4>3 DEF LoopInv, PictureInv
          <5>2. beam' = beam + 1
            BY <1>1, <2>1, <2>4, <4>3, Geometry
          <5>3. beam' < ScanDots + MinDraw /\ beam' + StepRest' < ScanDots + MinDraw
            BY <1>1, <2>4, <4>3, <5>2, Geometry
          <5>4. ~partial'
            BY <1>6, <2>1, <5>1, <5>3
          <5> QED BY <5>3, <5>4
        <4> QED BY <1>8, <3>3, <4>1, <4>2, <4>3 DEF LoopInv, PictureInv
      <3> QED BY <1>2, <3>1, <3>2, <3>3 DEF PictureInv
    <2> QED BY <2>3, <2>5, <2>6 DEF LoopInv
  <1>9. CASE ~on
    <2>1. UNCHANGED <<on, beam, mode, frame, vblank>>
      BY <1>4, <1>9
    <2>2. LoopTypeInv'
      <3>1. left' \in 0..Cap \union UNION {0..n : n \in Targets}
        BY <1>2, LeftTypes DEF LoopInv, LoopTypeInv, LoopTypeOK
      <3>2. pc' = "dots" <=> dots' # 0
        BY <1>1, <1>2
      <3>3. LoopTypeOK'
        BY <1>1, <1>2, <1>6, <2>1, <3>1, <3>2 DEF LoopTypeOK
      <3> QED BY <1>1, <1>2, <2>1, <3>3 DEF LoopInv, LoopTypeInv, SeenTime
    <2>3. OnTimeInv'
      BY <1>1, <1>2, <1>9, <2>1 DEF LoopInv, OnTimeInv
    <2>4. PictureInv'
      <3>1. partial' => partial
        BY <1>1, <1>6, <2>1
      <3> QED BY <1>2, <1>9, <2>1, <3>1 DEF LoopInv, PictureInv
    <2> QED BY <2>2, <2>3, <2>4 DEF LoopInv
  <1> QED BY <1>8, <1>9

LEMMA LoopAccessKeeps ==
    ASSUME FrameLoopAssumption, LoopInv, Access
    PROVE  LoopInv'
  <1>1. /\ on \in BOOLEAN /\ frame \in BOOLEAN /\ vblank \in BOOLEAN
        /\ dark \in BOOLEAN /\ partial \in BOOLEAN /\ stepped \in BOOLEAN
        /\ beam \in 0..(FrameTime - 1) /\ call \in {"frame", "cycles"}
        /\ mode \in {"scan", "drawing", "hblank", "vblank"}
        /\ step \in 1..MaxStep /\ dots = 0 /\ pc = "access" /\ left \in Nat
        /\ left \in 0..Cap \union UNION {0..n : n \in Targets}
    BY LeftTypes DEF LoopInv, LoopTypeInv, LoopTypeOK, Access
  <1>2. /\ step' = step - 1
        /\ dots' = (IF step = 1 THEN 0 ELSE 4) /\ pc' = (IF step = 1 THEN "check" ELSE "dots")
        /\ UNCHANGED <<call, left, partial, stepped>>
        /\ dark' = (dark \/ ~on')
    BY DEF Access
  <1>3. \/ UNCHANGED <<on, beam, mode, frame>> /\ vblank' \in BOOLEAN
        \/ /\ on' = FALSE /\ beam' = 0 /\ mode' = "hblank" /\ UNCHANGED <<frame, vblank>>
        \/ /\ ~on /\ on' = TRUE /\ beam' = HeadStart /\ UNCHANGED <<mode, frame, vblank>>
    BY <1>1 DEF Access, screenVars, Screen!TurnOff, Screen!TurnOn,
                Screen!Take
  <1>4. /\ on' \in BOOLEAN /\ frame' = frame /\ vblank' \in BOOLEAN
        /\ beam' \in 0..(FrameTime - 1)
        /\ mode' \in {"scan", "drawing", "hblank", "vblank"}
    <2>1. on' \in BOOLEAN
      BY <1>1, <1>3
    <2>2. frame' = frame /\ vblank' \in BOOLEAN
      BY <1>1, <1>3
    <2>3. 0 \in 0..(FrameTime - 1) /\ HeadStart \in 0..(FrameTime - 1)
      BY Geometry
    <2>4. beam' \in 0..(FrameTime - 1)
      BY <1>1, <1>3, <2>3
    <2>5. mode' \in {"scan", "drawing", "hblank", "vblank"}
      BY <1>1, <1>3
    <2> QED BY <2>1, <2>2, <2>4, <2>5
  <1>5. StepRest' = StepRest /\ StepRest \in 0..(4 * MaxStep)
    BY <1>1, <1>2, Geometry DEF StepRest
  <1>6. LoopTypeInv'
    <2>1. dark' \in BOOLEAN
      BY <1>1, <1>2
    <2>2. pc' = "dots" <=> dots' # 0
      BY <1>2
    <2>3. LoopTypeOK'
      BY <1>1, <1>2, <1>4, <2>1, <2>2 DEF LoopTypeOK
    <2>4. /\ mode' = "vblank" => on' /\ beam' >= SeenTime
          /\ on' /\ beam' >= SeenTime => mode' = "vblank"
      BY <1>1, <1>3, Geometry DEF LoopInv, LoopTypeInv
    <2>5. SeenTime' = SeenTime
      BY DEF SeenTime
    <2> QED BY <1>1, <1>2, <2>3, <2>4, <2>5 DEF LoopTypeInv
  <1>7. OnTimeInv'
    <2> SUFFICES ASSUME call = "frame", ~dark'
                 PROVE  /\ on'
                        /\ Cap - left + StepRest <= FrameTime + 4 * MaxStep
                        /\ ~frame => Cap - left + ToGo' <= FrameTime
      BY <1>2, <1>4, <1>5 DEF OnTimeInv
    <2>1. ~dark /\ on'
      BY <1>1, <1>2, <1>4
    <2>2. /\ on /\ Cap - left + StepRest <= FrameTime + 4 * MaxStep
          /\ ~frame => Cap - left + ToGo <= FrameTime
      BY <1>1, <2>1 DEF LoopInv, OnTimeInv
    <2>3. beam' = beam
      BY <1>3, <2>1, <2>2
    <2> QED BY <2>1, <2>2, <2>3 DEF ToGo, SeenTime
  <1>8. PictureInv'
    <2>1. call' = "cycles" => stepped'
      BY <1>2 DEF LoopInv, PictureInv
    <2>2. ASSUME ~stepped, frame
          PROVE  /\ ~partial
                 /\ \/ ~on'
                    \/ beam' >= SeenTime /\ beam' + StepRest < FrameTime
                    \/ beam' + StepRest < ScanDots + MinDraw
      <3>1. /\ ~partial
            /\ \/ ~on
               \/ beam >= SeenTime /\ beam + StepRest < FrameTime
               \/ beam + StepRest < ScanDots + MinDraw
        BY <2>2 DEF LoopInv, PictureInv
      <3>2. HeadStart + StepRest < ScanDots + MinDraw
        BY <1>5, Geometry
      <3> QED BY <1>3, <3>1, <3>2
    <2>3. SeenTime' = SeenTime /\ pc' # "idle"
      BY <1>2 DEF SeenTime
    <2> QED BY <1>2, <1>4, <1>5, <2>1, <2>2, <2>3 DEF PictureInv
  <1> QED BY <1>6, <1>7, <1>8 DEF LoopInv

(* The turns of the loops, and their beginnings and ends. *)
LEMMA LoopCallsKeep ==
    ASSUME FrameLoopAssumption, LoopInv,
           \/ BeginRunFrame \/ BeginRunCycles \/ CheckFrame \/ CheckCycles
           \/ UNCHANGED loopVars
    PROVE  LoopInv'
  <1>1. /\ on \in BOOLEAN /\ frame \in BOOLEAN /\ vblank \in BOOLEAN
        /\ dark \in BOOLEAN /\ partial \in BOOLEAN /\ stepped \in BOOLEAN
        /\ beam \in 0..(FrameTime - 1) /\ call \in {"frame", "cycles"}
        /\ mode \in {"scan", "drawing", "hblank", "vblank"}
        /\ pc \in {"idle", "dots", "access", "check"}
        /\ step \in 0..MaxStep /\ dots \in 0..4 /\ left \in Nat
        /\ left \in 0..Cap \union UNION {0..n : n \in Targets}
        /\ pc = "dots" <=> dots # 0
    BY LeftTypes DEF LoopInv, LoopTypeInv, LoopTypeOK
  <1>2. SeenTime' = SeenTime
    BY DEF SeenTime
  <1>3. ASSUME step' \in 1..MaxStep, dots' = 4, pc' = "dots"
        PROVE  StepRest' \in 0..(4 * MaxStep)
    <2>1. StepRest' = 4 * (step' - 1) + 4
      BY <1>3 DEF StepRest
    <2>2. MaxStep \in Nat
      BY Geometry
    <2>3. ASSUME NEW s \in 1..MaxStep PROVE 4 * (s - 1) + 4 \in 0..(4 * MaxStep)
      BY <2>2
    <2> QED BY <1>3, <2>1, <2>3
  <1>4. CASE BeginRunFrame
    <2>1. /\ pc = "idle" /\ call' = "frame" /\ left' = Cap
          /\ dark' = ~on /\ UNCHANGED <<on, beam, mode, frame, vblank, partial, stepped>>
          /\ step' \in 1..MaxStep /\ dots' = 4 /\ pc' = "dots"
      BY <1>4 DEF BeginRunFrame, BeginStep, screenVars
    <2>2. dark' \in BOOLEAN /\ (~dark' => on)
      BY <1>1, <2>1
    <2>3. LoopTypeOK'
      BY <1>1, <2>1, <2>2, LeftTypes DEF LoopTypeOK
    <2>4. LoopTypeInv'
      BY <1>2, <2>1, <2>3 DEF LoopInv, LoopTypeInv
    <2>5. OnTimeInv'
      <3>1. ToGo' \in 0..FrameTime
        BY <1>1, <2>1, Geometry DEF ToGo
      <3> QED BY <1>3, <2>1, <2>2, <3>1, Geometry DEF OnTimeInv
    <2>6. PictureInv'
      BY <2>1 DEF LoopInv, PictureInv
    <2> QED BY <2>4, <2>5, <2>6 DEF LoopInv
  <1>5. CASE BeginRunCycles
    <2>1. /\ pc = "idle" /\ call' = "cycles" /\ left' \in Targets /\ stepped' = TRUE
          /\ dark' = ~on /\ UNCHANGED <<on, beam, mode, frame, vblank, partial>>
          /\ step' \in 1..MaxStep /\ dots' = 4 /\ pc' = "dots"
      BY <1>5 DEF BeginRunCycles, BeginStep, screenVars
    <2>2. dark' \in BOOLEAN
      BY <1>1, <2>1
    <2>3. LoopTypeOK'
      BY <1>1, <2>1, <2>2, LeftTypes DEF LoopTypeOK
    <2>4. LoopTypeInv'
      BY <1>2, <2>1, <2>3 DEF LoopInv, LoopTypeInv
    <2> QED BY <2>1, <2>4 DEF LoopInv, OnTimeInv, PictureInv
  <1>6. CASE CheckFrame
    <2>1. /\ pc = "check" /\ call = "frame" /\ frame' = FALSE
          /\ UNCHANGED <<on, beam, mode, vblank, call, left, dark, partial>>
          /\ \/ pc' = "idle" /\ stepped' = FALSE /\ UNCHANGED <<step, dots>>
             \/ /\ ~frame /\ left > 0 /\ step' \in 1..MaxStep /\ dots' = 4 /\ pc' = "dots"
                /\ UNCHANGED stepped
      BY <1>6 DEF CheckFrame, TakeFrame, BeginStep
    <2>2. LoopTypeOK'
      <3>1. pc' = "dots" <=> dots' # 0
        BY <1>1, <2>1
      <3>2. step' \in 0..MaxStep /\ dots' \in 0..4 /\ pc' \in {"idle", "dots"}
        BY <1>1, <2>1, Geometry
      <3>3. stepped' \in BOOLEAN
        BY <1>1, <2>1, Zenon
      <3> QED BY <1>1, <2>1, <3>1, <3>2, <3>3 DEF LoopTypeOK
    <2>3. LoopTypeInv'
      BY <1>2, <2>1, <2>2 DEF LoopInv, LoopTypeInv
    <2>4. OnTimeInv'
      <3> SUFFICES ASSUME pc' # "idle", ~dark
                   PROVE  /\ on
                          /\ Cap - left + StepRest' <= FrameTime + 4 * MaxStep
                          /\ Cap - left + ToGo' <= FrameTime
        BY <2>1 DEF OnTimeInv
      <3>1. on /\ Cap - left + ToGo <= FrameTime
        BY <2>1 DEF LoopInv, OnTimeInv
      <3>2. ToGo' = ToGo /\ ToGo \in Nat
        BY <1>1, <2>1, Geometry DEF ToGo, SeenTime
      <3>3. StepRest' \in 0..(4 * MaxStep)
        BY <1>3, <2>1
      <3> QED BY <1>1, <3>1, <3>2, <3>3, Geometry
    <2>5. PictureInv'
      BY <2>1 DEF LoopInv, PictureInv
    <2> QED BY <2>3, <2>4, <2>5 DEF LoopInv
  <1>7. CASE CheckCycles
    <2>1. /\ pc = "check" /\ call = "cycles"
          /\ UNCHANGED <<on, beam, mode, frame, vblank, call, left, dark, partial, stepped>>
          /\ \/ pc' = "idle" /\ UNCHANGED <<step, dots>>
             \/ step' \in 1..MaxStep /\ dots' = 4 /\ pc' = "dots"
      BY <1>7 DEF CheckCycles, BeginStep, screenVars
    <2>2. LoopTypeOK'
      <3>1. pc' = "dots" <=> dots' # 0
        BY <1>1, <2>1
      <3>2. step' \in 0..MaxStep /\ dots' \in 0..4 /\ pc' \in {"idle", "dots"}
        BY <1>1, <2>1
      <3> QED BY <1>1, <2>1, <3>1, <3>2 DEF LoopTypeOK
    <2>3. LoopTypeInv'
      BY <1>2, <2>1, <2>2 DEF LoopInv, LoopTypeInv
    <2> QED BY <2>1, <2>3 DEF LoopInv, OnTimeInv, PictureInv
  <1>8. CASE UNCHANGED loopVars
    <2>1. UNCHANGED <<on, beam, mode, frame, vblank, pc, call, left, step, dots, dark, partial, stepped>>
      BY <1>8 DEF loopVars, screenVars, callVars
    <2>2. StepRest' = StepRest /\ ToGo' = ToGo
      BY <1>2, <2>1 DEF StepRest, ToGo
    <2>3. LoopTypeOK'
      BY <1>1, <2>1 DEF LoopTypeOK
    <2> QED BY <1>2, <2>1, <2>2, <2>3 DEF LoopInv, LoopTypeInv, OnTimeInv, PictureInv
  <1> QED BY <1>4, <1>5, <1>6, <1>7, <1>8

LEMMA LoopInitKeeps ==
    ASSUME FrameLoopAssumption, LoopInit
    PROVE  LoopInv
  <1>1. /\ on = TRUE /\ beam = 0 /\ mode = "scan" /\ frame = FALSE /\ vblank = TRUE
        /\ pc = "idle" /\ call = "frame" /\ left = 0 /\ step = 0 /\ dots = 0
        /\ dark = FALSE /\ partial = FALSE /\ stepped = FALSE
    BY DEF LoopInit, Screen!Init
  <1>2. LoopTypeOK
    <2>1. pc = "dots" <=> dots # 0
      BY <1>1
    <2>2. beam \in 0..(FrameTime - 1) /\ step \in 0..MaxStep /\ dots \in 0..4
      BY <1>1, Geometry
    <2>3. left \in 0..Cap \union UNION {0..n : n \in Targets}
      BY <1>1, LeftTypes
    <2> QED BY <1>1, <2>1, <2>2, <2>3 DEF LoopTypeOK
  <1>3. LoopTypeInv
    BY <1>1, <1>2, Geometry DEF LoopTypeInv
  <1> QED BY <1>1, <1>3 DEF LoopInv, OnTimeInv, PictureInv

(* The loops of the machine keep their invariant, whatever the geometry of   *)
(* the frame, and whatever the program does to the LCD.                      *)
THEOREM LoopInvariant == LoopSpec => []LoopInv
  <1>1. LoopInit => LoopInv
    BY LoopInitKeeps, FrameLoopAssumption
  <1>2. LoopInv /\ [LoopNext]_loopVars => LoopInv'
    BY LoopDotKeeps, LoopAccessKeeps, LoopCallsKeep, FrameLoopAssumption DEF LoopNext, InCall
  <1> QED BY <1>1, <1>2, PTL DEF LoopSpec

(* While the LCD stays on, run_frame returns with a frame and no later than  *)
(* a frame's time and the step that goes beyond it: gb.h's "cycle cap" is    *)
(* for an LCD that is off.                                                   *)
THEOREM OnTimeHolds == LoopSpec => []OnTime
  <1>1. ASSUME FrameLoopAssumption PROVE LoopInv => OnTime
    <2> SUFFICES ASSUME LoopInv, Returning, ~dark
                 PROVE  frame /\ left + FrameTime + 4 * MaxStep >= Cap
      BY DEF OnTime
    <2>1. pc = "check" /\ call = "frame" /\ (frame \/ left = 0) /\ left \in Nat
      BY <1>1, LeftTypes DEF Returning, LoopInv, LoopTypeInv, LoopTypeOK
    <2>2. Cap - left <= FrameTime + 4 * MaxStep
      <3>1. Cap - left + StepRest <= FrameTime + 4 * MaxStep
        BY <2>1 DEF LoopInv, OnTimeInv
      <3>2. StepRest = 0
        BY <2>1 DEF StepRest
      <3> QED BY <1>1, <2>1, <3>1, <3>2, Geometry
    <2>3. left # 0
      BY <1>1, <2>1, <2>2, Geometry
    <2> QED BY <1>1, <2>1, <2>2, <2>3, Geometry
  <1>2. LoopInv => OnTime
    BY <1>1, FrameLoopAssumption
  <1> QED BY <1>2, LoopInvariant, PTL

(* When run_frame returns with a frame, nothing of the next is drawn over    *)
(* it, if only run_frame has run the CPU.                                    *)
THEOREM WholePictureHolds == LoopSpec => []WholePicture
  <1>1. LoopInv => WholePicture
    BY DEF LoopInv, PictureInv, WholePicture
  <1> QED BY <1>1, LoopInvariant, PTL

----------------------------------------------------------------------------
(* That a call comes to its end.                                            *)

(* Within a turn of the loops: the places that take no time. *)
Turn == IF pc = "access" THEN 2 ELSE IF pc = "check" THEN 1 ELSE 0

(* Steps that a call whose time is up has yet to make, or more: those of the *)
(* CPU's step.                                                               *)
LastRest == 2 * StepRest + (IF pc = "access" THEN 1 ELSE 0)

(* And for any call: with time left, the longest last step and, for each     *)
(* T-cycle, the T-cycle and the places between it and the next.              *)
CallRest == IF left > 0 THEN 8 * MaxStep + 2 + 3 * left + Turn ELSE LastRest

CallEnds == [][pc # "idle" => pc' = "idle" \/ CallRest' < CallRest]_loopVars

LEMMA RestTypes ==
    ASSUME FrameLoopAssumption, LoopTypeInv
    PROVE  /\ left \in Nat /\ MaxStep \in Nat \ {0}
           /\ Turn \in 0..2
           /\ StepRest \in 0..(4 * MaxStep)
           /\ LastRest \in 0..(8 * MaxStep + 1)
           /\ CallRest \in Nat
           /\ left > 0 => CallRest = 8 * MaxStep + 2 + 3 * left + Turn
           /\ left = 0 => CallRest = LastRest
  <1>1. left \in Nat /\ MaxStep \in Nat \ {0}
    BY LeftTypes, Geometry DEF LoopTypeInv, LoopTypeOK
  <1>2. /\ step \in 0..MaxStep /\ dots \in 0..4
        /\ pc \in {"dots", "access"} => step >= 1
    BY DEF LoopTypeInv, LoopTypeOK
  <1>3. Turn \in 0..2
    BY DEF Turn
  <1>4. StepRest \in 0..(4 * MaxStep)
    BY <1>1, <1>2 DEF StepRest
  <1>5. LastRest \in 0..(8 * MaxStep + 1)
    BY <1>1, <1>4 DEF LastRest
  <1> QED BY <1>1, <1>3, <1>4, <1>5 DEF CallRest

(* One step of a call. *)
LEMMA CallFalls ==
    ASSUME FrameLoopAssumption, LoopTypeInv, LoopTypeInv', InCall
    PROVE  pc' = "idle" \/ CallRest' < CallRest
  <1>0. /\ left \in Nat /\ MaxStep \in Nat \ {0}
        /\ Turn \in 0..2
        /\ StepRest \in 0..(4 * MaxStep)
        /\ left > 0 => CallRest = 8 * MaxStep + 2 + 3 * left + Turn
        /\ left = 0 => CallRest = LastRest
    BY RestTypes
  <1>1. /\ left' \in Nat
        /\ Turn' \in 0..2
        /\ StepRest' \in 0..(4 * MaxStep)
        /\ left' > 0 => CallRest' = 8 * MaxStep + 2 + 3 * left' + Turn'
        /\ left' = 0 => CallRest' = LastRest'
        /\ LastRest' \in 0..(8 * MaxStep + 1)
        /\ LastRest' \in {2 * StepRest', 2 * StepRest' + 1}
        /\ pc' # "access" => LastRest' = 2 * StepRest'
    <2>1. left' \in Nat
      BY LeftTypes DEF LoopTypeInv, LoopTypeOK
    <2>2. step' \in 0..MaxStep /\ dots' \in 0..4 /\ (pc' \in {"dots", "access"} => step' >= 1)
      BY DEF LoopTypeInv, LoopTypeOK
    <2>3. Turn' \in 0..2
      BY DEF Turn
    <2>4. StepRest' \in 0..(4 * MaxStep)
      <3>1. ASSUME NEW s \in 1..MaxStep, NEW d \in 0..4
            PROVE  4 * (s - 1) + d \in 0..(4 * MaxStep) /\ 4 * (s - 1) \in 0..(4 * MaxStep)
        BY <1>0
      <3>2. pc' \in {"dots", "access"} => step' \in 1..MaxStep
        BY <2>2
      <3>3. \/ StepRest' = 4 * (step' - 1) + dots' /\ pc' = "dots"
            \/ StepRest' = 4 * (step' - 1) /\ pc' = "access"
            \/ StepRest' = 0
        BY Zenon DEF StepRest
      <3>4. 0 \in 0..(4 * MaxStep)
        BY <1>0
      <3> QED BY <2>2, <3>1, <3>2, <3>3, <3>4, Zenon
    <2>5. /\ LastRest' \in {2 * StepRest', 2 * StepRest' + 1}
          /\ pc' # "access" => LastRest' = 2 * StepRest'
      <3>1. LastRest' = 2 * StepRest' + 1 \/ LastRest' = 2 * StepRest' + 0
        BY Zenon DEF LastRest
      <3>2. pc' # "access" => LastRest' = 2 * StepRest' + 0
        BY Zenon DEF LastRest
      <3> QED BY <2>4, <3>1, <3>2
    <2>6. LastRest' \in 0..(8 * MaxStep + 1)
      <3>1. ASSUME NEW r \in 0..(4 * MaxStep)
            PROVE  2 * r \in 0..(8 * MaxStep + 1) /\ 2 * r + 1 \in 0..(8 * MaxStep + 1)
        BY <1>0
      <3> QED BY <2>4, <2>5, <3>1, Zenon
    <2>7. /\ left' > 0 => CallRest' = 8 * MaxStep + 2 + 3 * left' + Turn'
          /\ ~(left' > 0) => CallRest' = LastRest'
      BY Zenon DEF CallRest
    <2>8. left' = 0 => ~(left' > 0)
      BY <2>1
    <2> QED BY <2>1, <2>3, <2>4, <2>5, <2>6, <2>7, <2>8, Zenon
  <1>2. CASE RunDot
    <2>1. /\ pc = "dots" /\ step \in 1..MaxStep /\ dots \in 1..4
          /\ left' = (IF left > 0 THEN left - 1 ELSE 0)
          /\ dots' = dots - 1 /\ pc' = (IF dots = 1 THEN "access" ELSE "dots")
          /\ step' = step
      BY <1>2 DEF RunDot, LoopTypeInv, LoopTypeOK
    <2>2. Turn = 0
      BY <2>1 DEF Turn
    <2>3. StepRest = StepRest' + 1
      BY <1>0, <2>1 DEF StepRest
    <2>4. CASE left > 0
      BY <1>0, <1>1, <2>1, <2>2, <2>4
    <2>5. CASE left = 0
      <3>1. LastRest = 2 * StepRest
        BY <1>0, <2>1 DEF LastRest
      <3>2. CallRest = 2 * StepRest /\ left' = 0
        BY <1>0, <2>1, <2>5, <3>1
      <3>3. CallRest' \in {2 * StepRest', 2 * StepRest' + 1}
        BY <1>1, <3>2
      <3>4. ASSUME NEW r \in Int, NEW x \in {2 * r, 2 * r + 1} PROVE x < 2 * (r + 1)
        OBVIOUS
      <3>5. StepRest' \in Int
        BY <1>0, <1>1
      <3>6. CallRest' < 2 * (StepRest' + 1)
        BY <3>3, <3>4, <3>5, Zenon
      <3> QED BY <2>3, <3>2, <3>6, Zenon
    <2> QED BY <1>0, <2>4, <2>5
  <1>3. CASE Access
    <2>1. /\ pc = "access" /\ step \in 1..MaxStep /\ dots = 0
          /\ left' = left /\ step' = step - 1
          /\ dots' = (IF step = 1 THEN 0 ELSE 4) /\ pc' = (IF step = 1 THEN "check" ELSE "dots")
      BY <1>3 DEF Access, LoopTypeInv, LoopTypeOK
    <2>2. Turn = 2 /\ Turn' < 2
      BY <2>1 DEF Turn
    <2>3. StepRest = StepRest'
      BY <1>0, <2>1 DEF StepRest
    <2>4. LastRest = 2 * StepRest + 1
      BY <2>1 DEF LastRest
    <2>5. LastRest' = 2 * StepRest'
      BY <1>1, <2>1
    <2> QED BY <1>0, <1>1, <2>1, <2>2, <2>3, <2>4, <2>5
  <1>4. CASE CheckFrame \/ CheckCycles
    <2>1. /\ pc = "check" /\ left' = left
          /\ pc' = "idle" \/ (left > 0 /\ pc' = "dots")
      BY <1>4 DEF CheckFrame, CheckCycles, BeginStep
    <2>2. Turn = 1
      BY <2>1 DEF Turn
    <2>3. pc' = "dots" => Turn' = 0
      BY DEF Turn
    <2> QED BY <1>0, <1>1, <2>1, <2>2, <2>3
  <1> QED BY <1>2, <1>3, <1>4 DEF InCall

(* What there is of Returns without fairness, for every geometry, every     *)
(* length of a CPU step and every time asked for: each step of run_frame and *)
(* of run_cycles ends the call or leaves less of it, and there is always     *)
(* only a finite amount of it left.                                          *)
THEOREM CallEndsHolds == LoopSpec => [](CallRest \in Nat) /\ CallEnds
  <1>1. LoopInv => CallRest \in Nat
    BY RestTypes, FrameLoopAssumption DEF LoopInv
  <1>2. ASSUME LoopInv, LoopInv', [LoopNext]_loopVars
        PROVE  [pc # "idle" => pc' = "idle" \/ CallRest' < CallRest]_loopVars
    <2>1. CASE InCall
      BY <1>2, <2>1, CallFalls, FrameLoopAssumption DEF LoopInv
    <2>2. CASE BeginRunFrame \/ BeginRunCycles
      BY <2>2 DEF BeginRunFrame, BeginRunCycles
    <2>3. CASE UNCHANGED loopVars
      BY <2>3
    <2> QED BY <1>2, <2>1, <2>2, <2>3 DEF LoopNext
  <1> QED BY <1>1, <1>2, LoopInvariant, PTL DEF LoopSpec, CallEnds
=============================================================================
