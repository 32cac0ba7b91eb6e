--------------------------- MODULE ClockTreeProofs ---------------------------
(***************************************************************************)
(* The invariants of ClockTree for every size of the divider, of TIMA and  *)
(* of the four periods.  ClockInv is inductive: it remembers that accesses *)
(* meet the divider on M-cycle boundaries (Aligned), where a pending       *)
(* reload lies relative to them (WindowInv), and that the APU's copy of    *)
(* its bit is behind only in the tick after a reset of DIV (SequencerInv). *)
(***************************************************************************)
EXTENDS ClockTree, TLAPS

----------------------------------------------------------------------------
(* \div and % with a divisor that is not a literal, which the provers do   *)
(* not know, and what they say of the bits of a counter: a bit of weight h *)
(* is (c \div h) % 2.                                                      *)

(* Quotient and remainder of c by h exist, within their bounds. *)
LEMMA DivMod ==
    ASSUME NEW c \in Nat, NEW h \in Nat \ {0}
    PROVE  /\ c \div h \in Nat
           /\ c % h \in 0..(h - 1)
           /\ c = (h * (c \div h)) + (c % h)
  OBVIOUS

(* They are the only ones. *)
LEMMA DivModUnique ==
    ASSUME NEW c \in Nat, NEW h \in Nat \ {0},
           NEW q \in Nat, NEW r \in 0..(h - 1), c = (h * q) + r
    PROVE  c \div h = q /\ c % h = r
  OBVIOUS

LEMMA TimesAssoc ==
    ASSUME NEW a \in Nat, NEW b \in Nat, NEW k \in Nat
    PROVE  (k * b) * a = k * (b * a)
  OBVIOUS

(* Divisibility is transitive. *)
LEMMA Divides ==
    ASSUME NEW c \in Nat, NEW h \in Nat \ {0}, NEW k \in Nat \ {0},
           c % h = 0, h % k = 0
    PROVE  c % k = 0
  <1> DEFINE a == c \div h
             b == h \div k
  <1>1. c = h * a /\ a \in Nat
    BY DivMod
  <1>2. h = k * b /\ b \in Nat
    BY DivMod
  <1>3. c = k * (b * a)
    BY <1>1, <1>2, TimesAssoc, SMTT(40)
  <1>4. b * a \in Nat
    BY <1>1, <1>2
  <1> HIDE DEF a, b
  <1>5. c = (k * (b * a)) + 0
    BY <1>3, <1>4
  <1> QED BY <1>4, <1>5, DivModUnique

(* The same with the M-cycle and its double as divisors: the provers read %  *)
(* by a literal in another way than % by a term.                            *)
LEMMA DividesFour ==
    ASSUME NEW c \in Nat, NEW h \in Nat \ {0}, c % h = 0, h % 4 = 0
    PROVE  c % 4 = 0
  <1> DEFINE a == c \div h
             b == h \div 4
  <1>1. c = h * a /\ a \in Nat
    BY DivMod
  <1>2. h = 4 * b /\ b \in Nat
    OBVIOUS
  <1> HIDE DEF a, b
  <1>3. c = 4 * (b * a) /\ b * a \in Nat
    BY <1>1, <1>2
  <1> QED BY <1>3

LEMMA DividesEight ==
    ASSUME NEW c \in Nat, NEW h \in Nat \ {0}, c % h = 0, h % 8 = 0
    PROVE  c % 8 = 0
  <1> DEFINE a == c \div h
             b == h \div 8
  <1>1. c = h * a /\ a \in Nat
    BY DivMod
  <1>2. h = 8 * b /\ b \in Nat
    OBVIOUS
  <1> HIDE DEF a, b
  <1>3. c = 8 * (b * a) /\ b * a \in Nat
    BY <1>1, <1>2
  <1> QED BY <1>3

(* The quotient moves exactly when the divisor is reached. *)
LEMMA DivStep ==
    ASSUME NEW c \in Nat, NEW h \in Nat \ {0}
    PROVE  /\ (c + 1) % h = 0 => (c + 1) \div h = (c \div h) + 1
           /\ (c + 1) % h # 0 => (c + 1) \div h = c \div h
  <1> DEFINE q == c \div h
             r == c % h
  <1>1. q \in Nat /\ r \in 0..(h - 1) /\ c = (h * q) + r
    BY DivMod
  <1> HIDE DEF q, r
  <1>2. CASE r = h - 1
    <2>1. c + 1 = (h * (q + 1)) + 0
      BY <1>1, <1>2
    <2>2. (c + 1) \div h = q + 1 /\ (c + 1) % h = 0
      BY <1>1, <2>1, DivModUnique
    <2> QED BY <2>2 DEF q
  <1>3. CASE r # h - 1
    <2>1. c + 1 = (h * q) + (r + 1) /\ r + 1 \in 0..(h - 1) /\ r + 1 # 0
      BY <1>1, <1>3
    <2>2. (c + 1) \div h = q /\ (c + 1) % h = r + 1
      BY <1>1, <2>1, DivModUnique
    <2> QED BY <2>1, <2>2 DEF q
  <1> QED BY <1>2, <1>3

(* A bit of weight h falls only at a multiple of 2 * h... *)
LEMMA FallAtMultiple ==
    ASSUME NEW c \in Nat, NEW h \in Nat \ {0},
           (c \div h) % 2 = 1, ((c + 1) \div h) % 2 # 1
    PROVE  (c + 1) % (2 * h) = 0
  <1> DEFINE q == c \div h
  <1>1. q \in Nat
    BY DivMod
  <1>2. (c + 1) % h = 0 /\ (c + 1) \div h = q + 1
    BY <1>1, DivStep
  <1>3. c + 1 = h * (q + 1)
    <2>1. c + 1 \in Nat
      OBVIOUS
    <2>2. c + 1 = (h * (q + 1)) + 0 /\ q + 1 \in Nat
      BY <1>1, <1>2, <2>1, DivMod
    <2>3. h * (q + 1) \in Nat
      BY <2>2
    <2> QED BY <2>2, <2>3
  <1>4. PICK m \in Nat : q + 1 = 2 * m
    <2>1. (q + 1) \div 2 \in Nat /\ q + 1 = 2 * ((q + 1) \div 2)
      BY <1>1
    <2> QED BY <2>1
  <1> HIDE DEF q
  <1>5. h * (2 * m) = (2 * h) * m
    OBVIOUS
  <1>6. c + 1 = ((2 * h) * m) + 0
    BY <1>3, <1>4, <1>5
  <1> QED BY <1>6, DivModUnique

(* ...and does fall at each of them. *)
LEMMA FallsAtMultiple ==
    ASSUME NEW c \in Nat, NEW h \in Nat \ {0}, (c + 1) % (2 * h) = 0
    PROVE  (c \div h) % 2 = 1 /\ ((c + 1) \div h) % 2 = 0
  <1> DEFINE d == 2 * h
             m == (c + 1) \div d
  <1>0. c + 1 \in Nat /\ d \in Nat \ {0} /\ (c + 1) % d = 0
    OBVIOUS
  <1>1. m \in Nat /\ c + 1 = (2 * h) * m
    <2> HIDE DEF d
    <2>1. m \in Nat /\ c + 1 = (d * m) + 0
      BY <1>0, DivMod
    <2>2. d * m \in Nat
      BY <1>0, <2>1
    <2> QED BY <2>1, <2>2 DEF d
  <1> HIDE DEF m
  <1>2. (2 * h) * m = h * (2 * m)
    BY <1>1
  <1>3. c + 1 = (h * (2 * m)) + 0 /\ 2 * m \in Nat
    BY <1>1, <1>2
  <1>4. (c + 1) \div h = 2 * m /\ (c + 1) % h = 0
    BY <1>3, DivModUnique
  <1>5. 2 * m = (c \div h) + 1
    BY <1>4, DivStep
  <1>6. c \div h \in Nat
    BY DivMod
  <1> QED BY <1>1, <1>4, <1>5, <1>6

(* Away from M-cycle boundaries, a bit of a whole number of M-cycles is still. *)
LEMMA BitStable ==
    ASSUME NEW c \in Nat, NEW h \in Nat \ {0}, h % 4 = 0, (c + 1) % 4 # 0
    PROVE  (c + 1) \div h = c \div h
  <1>1. c + 1 \in Nat
    OBVIOUS
  <1>2. (c + 1) % h # 0
    BY <1>1, DividesFour
  <1> QED BY <1>2, DivStep

----------------------------------------------------------------------------

(* The constants, in the form the arithmetic below needs. *)
LEMMA Constants ==
    /\ CounterMod \in Nat \ {0} /\ CounterMod % 8 = 0
    /\ TimaMod \in Nat \ {0}
    /\ \A t \in 0..7 : /\ SelectHalf[t % 4] \in Nat \ {0}
                       /\ SelectHalf[t % 4] % 4 = 0
                       /\ (2 * SelectHalf[t % 4]) % 8 = 0
  <1>1. ASSUME NEW s \in 0..3
        PROVE  /\ SelectHalf[s] \in Nat \ {0}
               /\ SelectHalf[s] % 4 = 0
               /\ (2 * SelectHalf[s]) % 8 = 0
               /\ CounterMod % (2 * SelectHalf[s]) = 0
    BY <1>1, TimerAssumption
  <1>2. \A t \in 0..7 : t % 4 \in 0..3
    OBVIOUS
  <1>3. CounterMod % 8 = 0
    <2> DEFINE d == 2 * SelectHalf[0]
    <2>1. d \in Nat \ {0} /\ d % 8 = 0 /\ CounterMod % d = 0 /\ CounterMod \in Nat
      BY <1>1, TimerAssumption
    <2> HIDE DEF d
    <2> QED BY <2>1, DividesEight
  <1> QED BY <1>1, <1>2, <1>3, TimerAssumption

LEMMA TimaRange ==
    ASSUME NEW v \in 0..(TimaMod - 1)
    PROVE  (v + 1) % TimaMod \in 0..(TimaMod - 1)
  <1>1. v + 1 \in Nat /\ TimaMod \in Nat \ {0}
    BY Constants
  <1> QED BY <1>1, DivMod

(* The divider after one T-cycle. *)
Succ(c) == (c + 1) % CounterMod

LEMMA SuccValue ==
    ASSUME NEW c \in 0..(CounterMod - 1)
    PROVE  /\ Succ(c) = IF c + 1 = CounterMod THEN 0 ELSE c + 1
           /\ Succ(c) \in 0..(CounterMod - 1)
  <1>1. CounterMod \in Nat \ {0} /\ c \in Nat
    BY Constants
  <1>2. CASE c + 1 = CounterMod
    <2>1. c + 1 = (CounterMod * 1) + 0 /\ c + 1 \in Nat /\ 0 \in 0..(CounterMod - 1)
      BY <1>1, <1>2
    <2>2. (c + 1) % CounterMod = 0
      BY <1>1, <2>1, DivModUnique
    <2> QED BY <1>1, <1>2, <2>2 DEF Succ
  <1>3. CASE c + 1 # CounterMod
    <2>1. c + 1 = (CounterMod * 0) + (c + 1) /\ c + 1 \in Nat /\ c + 1 \in 0..(CounterMod - 1)
      BY <1>1, <1>3
    <2>2. (c + 1) % CounterMod = c + 1
      BY <1>1, <2>1, DivModUnique
    <2> QED BY <1>1, <1>3, <2>1, <2>2 DEF Succ
  <1> QED BY <1>2, <1>3

(* Zero has no bits. *)
LEMMA ZeroBit ==
    ASSUME NEW h \in Nat \ {0}
    PROVE  ~Bit(0, h)
  <1>1. 0 = (h * 0) + 0 /\ 0 \in 0..(h - 1)
    OBVIOUS
  <1>2. 0 \div h = 0
    BY <1>1, DivModUnique
  <1> QED BY <1>2 DEF Bit

(* The input of TIMA does not change in the middle of an M-cycle... *)
LEMMA InputStable ==
    ASSUME NEW c \in 0..(CounterMod - 1), NEW t \in 0..7, Succ(c) % 4 # 0
    PROVE  EdgeInput(Succ(c), t) = EdgeInput(c, t)
  <1> DEFINE h == SelectHalf[t % 4]
  <1>1. h \in Nat \ {0} /\ h % 4 = 0 /\ c \in Nat
    BY Constants
  <1>2. Succ(c) = c + 1 /\ (c + 1) % 4 # 0
    BY SuccValue
  <1>3. Succ(c) \div h = c \div h
    <2> HIDE DEF h
    <2> QED BY <1>1, <1>2, BitStable
  <1> QED BY <1>3 DEF EdgeInput, Bit

(* ...and falls by itself only at every second boundary. *)
LEMMA InputFall ==
    ASSUME NEW c \in 0..(CounterMod - 1), NEW t \in 0..7,
           EdgeInput(c, t), ~EdgeInput(Succ(c), t)
    PROVE  Succ(c) % 8 = 0
  <1> DEFINE h == SelectHalf[t % 4]
  <1>1. h \in Nat \ {0} /\ (2 * h) % 8 = 0 /\ c \in Nat
    BY Constants
  <1>2. CASE c + 1 = CounterMod
    BY <1>2, SuccValue
  <1>3. CASE c + 1 # CounterMod
    <2>1. Succ(c) = c + 1
      BY <1>3, SuccValue
    <2>2. (c \div h) % 2 = 1 /\ ((c + 1) \div h) % 2 # 1
      BY <2>1 DEF EdgeInput, Bit
    <2> HIDE DEF h
    <2>3. (c + 1) % (2 * h) = 0
      BY <1>1, <2>2, FallAtMultiple
    <2>4. c + 1 \in Nat /\ 2 * h \in Nat \ {0}
      BY <1>1
    <2>5. (c + 1) % 8 = 0
      BY <1>1, <2>3, <2>4, DividesEight
    <2> QED BY <2>1, <2>5
  <1> QED BY <1>2, <1>3

(* Whenever the divider's own movement changes the sequencer's bit, the    *)
(* bit that makes the timer call the APU falls in the same T-cycle.        *)
LEMMA SequencerCall ==
    ASSUME NEW c \in 0..(CounterMod - 1), SequencerBit(Succ(c)) # SequencerBit(c)
    PROVE  Bit(c, CallHalf) /\ ~Bit(Succ(c), CallHalf)
  <1>1. /\ CallHalf \in Nat \ {0} /\ SequencerHalf \in Nat \ {0} /\ c \in Nat
        /\ 2 * CallHalf \in Nat \ {0} /\ 2 * SequencerHalf \in Nat \ {0}
        /\ SequencerHalf % (2 * CallHalf) = 0
        /\ CounterMod \in Nat \ {0} /\ CounterMod % (2 * SequencerHalf) = 0
    BY ClockTreeAssumption, SequencerAssumption, Constants
  <1>2. (c + 1) % (2 * CallHalf) = 0
    <2>1. c + 1 \in Nat
      BY <1>1
    <2>2. CASE c + 1 = CounterMod
      <3>1. 2 * SequencerHalf = (SequencerHalf * 2) + 0
        BY <1>1
      <3>2. (2 * SequencerHalf) % SequencerHalf = 0
        BY <1>1, <3>1, DivModUnique
      <3>3. (c + 1) % SequencerHalf = 0
        BY <1>1, <2>1, <2>2, <3>2, Divides
      <3> QED BY <1>1, <2>1, <3>3, Divides
    <2>3. CASE c + 1 # CounterMod
      <3>1. Succ(c) = c + 1
        BY <2>3, SuccValue
      <3>2. (c + 1) \div SequencerHalf # c \div SequencerHalf
        BY <3>1 DEF SequencerBit
      <3>3. (c + 1) % SequencerHalf = 0
        BY <1>1, <3>2, DivStep
      <3> QED BY <1>1, <2>1, <3>3, Divides
    <2> QED BY <2>2, <2>3
  <1>3. Bit(c, CallHalf) /\ ~Bit(c + 1, CallHalf)
    BY <1>1, <1>2, FallsAtMultiple DEF Bit
  <1> QED BY <1>1, <1>3, SuccValue, ZeroBit

----------------------------------------------------------------------------

LEMMA InitClockInv == Init => ClockInv
  <1> SUFFICES ASSUME Init PROVE ClockInv
    OBVIOUS
  <1>1. /\ CounterReset \in 0..(CounterMod - 1) /\ CounterReset % 4 = 0
        /\ ~SequencerBit(CounterReset) /\ CounterMod \in Nat \ {0} /\ TimaMod \in Nat \ {0}
    BY TimerAssumption, ClockTreeAssumption
  <1>2. TypeOK
    <2>1. /\ reloaded \in BOOLEAN /\ timer_irq \in BOOLEAN
          /\ apu_on \in BOOLEAN /\ div_bit \in BOOLEAN
      BY Init, Zenon DEF Init, TimerInit, SequencerInit
    <2>2. /\ counter \in 0..(CounterMod - 1) /\ tima \in 0..(TimaMod - 1)
          /\ tma \in 0..(TimaMod - 1) /\ tac \in 0..7 /\ reload_delay \in 0..4
          /\ frame_step \in 0..7 /\ left \in 0..8 /\ owed \in Int
          /\ pc \in {"tick", "apu", "access", "between"}
      BY <1>1 DEF Init, TimerInit, SequencerInit
    <2> QED BY <2>1, <2>2 DEF TypeOK, TimerTypeOK, SequencerTypeOK
  <1>3. Aligned
    BY <1>1 DEF Init, TimerInit, Aligned
  <1>4. WindowInv /\ ReloadIsTma
    BY DEF Init, TimerInit, WindowInv, ReloadIsTma
  <1>5. SequencerInv
    BY <1>1 DEF Init, TimerInit, SequencerInit, SequencerInv, SeesFall
  <1> QED BY <1>2, <1>3, <1>4, <1>5 DEF ClockInv

(* The timer's half of a T-cycle keeps the window of a pending reload. *)
LEMMA TickKeepsWindow ==
    ASSUME ClockInv, TimerTick
    PROVE  TimerTypeOK' /\ Aligned' /\ WindowInv' /\ ReloadIsTma'
  <1> DEFINE c == Succ(counter)
             fell == EdgeInput(counter, tac) /\ ~EdgeInput(c, tac)
             due == reload_delay = 1
             v == IF due THEN tma ELSE tima
             d == IF reload_delay = 0 THEN 0 ELSE reload_delay - 1
             next == (v + 1) % TimaMod
  <1>1. /\ counter \in 0..(CounterMod - 1) /\ tima \in 0..(TimaMod - 1)
        /\ tma \in 0..(TimaMod - 1) /\ tac \in 0..7 /\ reload_delay \in 0..4
        /\ left \in 1..8 /\ pc = "tick"
        /\ (counter + left) % 4 = 0
        /\ timer_irq \in BOOLEAN
    BY DEF TimerTick, ClockInv, TypeOK, TimerTypeOK, Aligned
  <1>2. /\ counter' = c /\ tac' = tac /\ tma' = tma
        /\ tima' = (IF fell THEN next ELSE v)
        /\ reload_delay' = (IF fell /\ next = 0 THEN 4 ELSE d)
        /\ reloaded' = due /\ timer_irq' = (timer_irq \/ due)
        /\ left' = left - 1 /\ pc' = (IF left' = 0 THEN "apu" ELSE "tick")
    BY DEF TimerTick, StepOne, SetCounter, DetectEdge, Succ
  <1>3. /\ CounterMod \in Nat \ {0} /\ CounterMod % 8 = 0 /\ TimaMod \in Nat \ {0}
        /\ c \in 0..(CounterMod - 1)
        /\ c = IF counter + 1 = CounterMod THEN 0 ELSE counter + 1
    BY <1>1, Constants, SuccValue
  <1>4. next \in 0..(TimaMod - 1)
    BY <1>1, TimaRange
  <1>5. fell => c % 8 = 0
    BY <1>1, InputFall
  <1>6. (c + left') % 4 = 0
    <2> HIDE DEF c
    <2> QED BY <1>1, <1>2, <1>3
  <1>7. c % 4 # 0 => EdgeInput(c, tac) = EdgeInput(counter, tac)
    BY <1>1, InputStable
  <1> HIDE DEF c, next
  <1>8. TimerTypeOK'
    BY <1>1, <1>2, <1>3, <1>4 DEF TimerTypeOK
  <1>9. Aligned'
    BY <1>1, <1>2, <1>6 DEF Aligned
  <1>10. reload_delay # 0 => /\ tima = 0
                             /\ (counter + reload_delay) % 4 = 0
                             /\ EdgeInput(counter, tac) => (counter + reload_delay) % 8 = 4
    BY DEF ClockInv, WindowInv
  <1>11. CASE reload_delay = 0
    <2>1. ~reloaded'
      <3>1. ~due
        BY <1>11
      <3> QED BY <1>2, <3>1, Zenon
    <2>2. WindowInv'
      BY <1>1, <1>2, <1>3, <1>5, <1>11, <2>1 DEF WindowInv
    <2>3. ReloadIsTma'
      BY <2>1 DEF ReloadIsTma
    <2> QED BY <1>8, <1>9, <2>2, <2>3
  <1>12. CASE reload_delay = 1
    <2>1. ~fell
      BY <1>1, <1>3, <1>5, <1>10, <1>12
    <2>2. WindowInv' /\ ReloadIsTma'
      BY <1>2, <1>12, <2>1 DEF WindowInv, ReloadIsTma
    <2> QED BY <1>8, <1>9, <2>2
  <1>13. CASE reload_delay \in 2..4
    <2>1. /\ d \in 1..3 /\ (c + d) % 4 = 0
          /\ EdgeInput(counter, tac) => (c + d) % 8 = 4
      BY <1>1, <1>3, <1>10, <1>13
    <2>2. c % 4 # 0
      BY <1>3, <2>1
    <2>3. ~fell /\ EdgeInput(c, tac) = EdgeInput(counter, tac)
      BY <1>7, <2>2
    <2>4. ~due /\ reload_delay' = d /\ tima' = 0
      BY <1>2, <1>10, <1>13, <2>3
    <2>7. ~reloaded'
      BY <1>2, <2>4, Zenon
    <2>5. left' # 0
      BY <1>3, <1>6, <2>2
    <2>6. WindowInv' /\ ReloadIsTma'
      BY <1>2, <2>1, <2>3, <2>4, <2>5, <2>7 DEF WindowInv, ReloadIsTma
    <2> QED BY <1>8, <1>9, <2>6
  <1> QED BY <1>1, <1>11, <1>12, <1>13

(* A divider value with the sequencer's bit set is out of reach of one tick *)
(* that starts from zero.                                                   *)
LEMMA SequencerBitIsFar ==
    ASSUME NEW c \in Nat, SequencerBit(c)
    PROVE  c > 8
  <1>1. SequencerHalf \in Nat \ {0} /\ SequencerHalf > 8
    BY SequencerAssumption, ClockTreeAssumption
  <1>2. CASE c < SequencerHalf
    <2>1. c = (SequencerHalf * 0) + c /\ c \in 0..(SequencerHalf - 1)
      BY <1>1, <1>2
    <2>2. c \div SequencerHalf = 0
      BY <1>1, <2>1, DivModUnique
    <2> QED BY <2>2 DEF SequencerBit
  <1> QED BY <1>1, <1>2

(* What a synchronisation does to the copy of the bit and to the account:   *)
(* afterwards nothing is owed.                                              *)
LEMMA SyncSettles ==
    ASSUME SequencerTypeOK, SequencerInv,
           NEW c \in Nat, SyncFrameSequencer(c), Account(c),
           SequencerBit(c) /\ ~SequencerBit(counter) => owed = 0
    PROVE  div_bit' = SequencerBit(c) /\ owed' = 0 /\ SequencerTypeOK'
  <1>1. div_bit' = SequencerBit(c)
    BY DEF SyncFrameSequencer
  <1>2. div_bit \in BOOLEAN /\ apu_on \in BOOLEAN /\ frame_step \in 0..7
    BY DEF SequencerTypeOK
  <1>3. SequencerTypeOK'
    <2>1. div_bit' \in BOOLEAN /\ apu_on' \in BOOLEAN
      BY <1>2, Zenon DEF SyncFrameSequencer, SequencerBit
    <2>2. frame_step' \in 0..7
      BY <1>2 DEF SyncFrameSequencer
    <2> QED BY <2>1, <2>2 DEF SequencerTypeOK
  <1>4. CASE SequencerBit(c)
    <2>1. ~Clocked(c) /\ owed = 0
      BY <1>4 DEF Clocked, SeesFall, SequencerInv
    <2> QED BY <1>1, <1>3, <1>4, <2>1 DEF Account
  <1>5. CASE ~SequencerBit(c) /\ div_bit
    <2>1. Clocked(c)
      BY <1>1, <1>2, <1>5, Zenon DEF Clocked, SeesFall
    <2>2. owed = IF SequencerBit(counter) THEN 0 ELSE 1
      BY <1>5 DEF SequencerInv, SeesFall
    <2> QED BY <1>1, <1>3, <1>5, <2>1, <2>2 DEF Account
  <1>6. CASE ~SequencerBit(c) /\ ~div_bit
    <2>1. ~Clocked(c) /\ owed = 0 /\ ~SequencerBit(counter)
      BY <1>6, Zenon DEF SequencerInv, SeesFall, Clocked
    <2> QED BY <1>1, <1>3, <1>6, <2>1 DEF Account
  <1> QED BY <1>4, <1>5, <1>6

(* The sequencer's half of a T-cycle. *)
LEMMA TickKeepsSequencer ==
    ASSUME ClockInv, TimerTick
    PROVE  SequencerTypeOK' /\ SequencerInv'
  <1> DEFINE c == Succ(counter)
  <1>1. /\ counter \in 0..(CounterMod - 1) /\ left \in 1..8 /\ pc = "tick"
        /\ SequencerTypeOK /\ SequencerInv
    BY DEF TimerTick, ClockInv, TypeOK, TimerTypeOK, Aligned
  <1>2. /\ counter' = c /\ DivEdge(c) /\ Account(c)
        /\ left' = left - 1 /\ pc' = (IF left' = 0 THEN "apu" ELSE "tick")
    BY DEF TimerTick, StepOne, SetCounter, Succ
  <1>3. /\ c \in Nat /\ counter \in Nat
        /\ c = IF counter + 1 = CounterMod THEN 0 ELSE counter + 1
    BY <1>1, Constants, SuccValue
  <1>4. SequencerBit(c) # SequencerBit(counter) => SyncFrameSequencer(c)
    BY <1>1, <1>2, SequencerCall DEF DivEdge
  <1> HIDE DEF c
  <1>5. pc' \notin {"access", "between"}
    BY <1>2
  <1>6. CASE SyncFrameSequencer(c)
    <2>1. SequencerBit(c) /\ ~SequencerBit(counter) => owed = 0
      <3> SUFFICES ASSUME SequencerBit(c) PROVE owed # 1
        BY <1>1 DEF SequencerInv
      <3>1. c > 8
        BY <1>3, SequencerBitIsFar
      <3> QED BY <1>1, <1>3, <3>1 DEF SequencerInv
    <2>2. div_bit' = SequencerBit(c) /\ owed' = 0 /\ SequencerTypeOK'
      BY <1>1, <1>2, <1>3, <1>6, <2>1, SyncSettles
    <2>3. (SequencerBit(counter) => div_bit)' /\ ~SeesFall(counter)'
      BY <1>2, <2>2 DEF SequencerBit, SeesFall
    <2> QED BY <1>5, <2>2, <2>3 DEF SequencerInv
  <1>7. CASE ~SyncFrameSequencer(c)
    <2>1. UNCHANGED sequencerVars /\ (SequencerBit(c) <=> SequencerBit(counter))
      BY <1>2, <1>4, <1>7 DEF DivEdge
    <2>2. UNCHANGED <<apu_on, frame_step, div_bit>>
      BY <2>1 DEF sequencerVars
    <2>3. owed' = owed
      BY <1>1, <1>2, <2>1, <2>2 DEF Account, Clocked, SequencerInv
    <2>4. SequencerTypeOK'
      BY <1>1, <2>2 DEF SequencerTypeOK
    <2>5. (SequencerBit(counter) => div_bit)' /\ (SeesFall(counter)' <=> SeesFall(counter))
      BY <1>1, <1>2, <2>1, <2>2 DEF SequencerInv, SequencerBit, SeesFall
    <2>6. owed = 1 => c + left' <= 8
      BY <1>1, <1>2, <1>3 DEF SequencerInv
    <2> QED BY <1>1, <1>2, <1>5, <2>3, <2>4, <2>5, <2>6 DEF SequencerInv
  <1> QED BY <1>6, <1>7

(* What the steps of the CPU change, besides the timer's registers: the     *)
(* part of ClockInv about the window needs only the numbers below.          *)
LEMMA AccessDivKeeps ==
    ASSUME ClockInv, AccessDiv
    PROVE  ClockInv'
  <1>1. /\ counter \in 0..(CounterMod - 1) /\ tima \in 0..(TimaMod - 1)
        /\ tma \in 0..(TimaMod - 1) /\ tac \in 0..7 /\ reload_delay \in 0..4
        /\ reloaded \in BOOLEAN /\ timer_irq \in BOOLEAN
        /\ pc = "access" /\ left = 0 /\ SequencerTypeOK /\ SequencerInv
        /\ reload_delay # 0 => tima = 0 /\ ~EdgeInput(counter, tac)
                               /\ (counter + reload_delay) % 4 = 0
        /\ counter % 4 = 0
    BY DEF AccessDiv, Access, ClockInv, TypeOK, TimerTypeOK, Aligned, WindowInv
  <1> DEFINE fell == EdgeInput(counter, tac) /\ ~EdgeInput(0, tac)
             next == (tima + 1) % TimaMod
  <1>2. /\ counter' = 0 /\ tac' = tac /\ tma' = tma /\ pc' = "between" /\ left' = 0
        /\ tima' = (IF fell THEN next ELSE tima)
        /\ reload_delay' = (IF fell /\ next = 0 THEN 4 ELSE reload_delay)
        /\ reloaded' = reloaded /\ timer_irq' = timer_irq
        /\ DivEdge(0) /\ Account(0)
    BY <1>1 DEF AccessDiv, Access, WriteDiv, SetCounter, DetectEdge
  <1>3. next \in 0..(TimaMod - 1) /\ CounterMod \in Nat \ {0}
    BY <1>1, Constants, TimaRange
  <1>4. ~EdgeInput(0, tac)
    BY <1>1, Constants, ZeroBit DEF EdgeInput
  <1>5. ~SequencerBit(0) /\ 0 \in Nat
    BY SequencerAssumption, ZeroBit DEF SequencerBit, Bit
  <1> HIDE DEF next
  <1>6. TimerTypeOK'
    BY <1>1, <1>2, <1>3 DEF TimerTypeOK
  <1>7. Aligned' /\ ReloadIsTma'
    BY <1>2 DEF Aligned, ReloadIsTma
  <1>8. WindowInv'
    BY <1>1, <1>2, <1>4 DEF WindowInv
  <1>9. owed = 0
    BY <1>1 DEF SequencerInv
  <1>10. SequencerTypeOK' /\ SequencerInv' /\ owed' \in Int
    <2>1. CASE SyncFrameSequencer(0)
      <3>1. div_bit' = SequencerBit(0) /\ owed' = 0 /\ SequencerTypeOK'
        BY <1>1, <1>2, <1>5, <1>9, <2>1, SyncSettles
      <3>2. ~SeesFall(counter)' /\ ~SequencerBit(counter)'
        BY <1>2, <1>5, <3>1 DEF SeesFall, SequencerBit
      <3> QED BY <1>2, <3>1, <3>2 DEF SequencerInv
    <2>2. CASE ~SyncFrameSequencer(0)
      <3>1. UNCHANGED <<apu_on, frame_step, div_bit>>
        BY <1>2, <2>2 DEF DivEdge, sequencerVars
      <3>2. owed' = IF SequencerBit(counter) THEN 1 ELSE 0
        BY <1>2, <1>5, <1>9, <3>1 DEF Account, Clocked
      <3>3. SequencerBit(counter) <=> div_bit
        BY <1>9, <1>1 DEF SequencerInv, SeesFall
      <3>4. ~SequencerBit(counter)' /\ (SeesFall(counter)' <=> div_bit)
        BY <1>2, <1>5, <3>1 DEF SeesFall, SequencerBit
      <3>5. SequencerTypeOK'
        BY <1>1, <3>1 DEF SequencerTypeOK
      <3> QED BY <1>2, <3>2, <3>3, <3>4, <3>5 DEF SequencerInv
    <2> QED BY <2>1, <2>2
  <1> QED BY <1>2, <1>6, <1>7, <1>8, <1>10 DEF ClockInv, TypeOK

LEMMA AccessTimerKeeps ==
    ASSUME ClockInv, AccessTimer
    PROVE  ClockInv'
  <1>1. /\ counter \in 0..(CounterMod - 1) /\ tima \in 0..(TimaMod - 1)
        /\ tma \in 0..(TimaMod - 1) /\ tac \in 0..7 /\ reload_delay \in 0..4
        /\ reloaded \in BOOLEAN /\ timer_irq \in BOOLEAN
        /\ pc = "access" /\ left = 0 /\ SequencerTypeOK /\ SequencerInv
        /\ reload_delay # 0 => /\ tima = 0 /\ ~EdgeInput(counter, tac)
                               /\ (counter + reload_delay) % 4 = 0
                               /\ (counter + reload_delay) % 8 = 4
        /\ counter % 4 = 0
    BY DEF AccessTimer, Access, ClockInv, TypeOK, TimerTypeOK, Aligned, WindowInv
  <1>2. /\ pc' = "between" /\ left' = 0 /\ UNCHANGED <<apu_on, frame_step, div_bit, owed>>
        /\ counter' = counter /\ reloaded' = reloaded /\ timer_irq' = timer_irq
    BY <1>1 DEF AccessTimer, Access, WriteTima, WriteTma, WriteTac, sequencerVars
  <1>3. Aligned' /\ ReloadIsTma'
    BY <1>1, <1>2 DEF Aligned, ReloadIsTma
  <1>4. SequencerTypeOK' /\ SequencerInv' /\ owed' \in Int
    <2>1. owed = 0
      BY <1>1 DEF SequencerInv
    <2>2. SequencerTypeOK'
      BY <1>1, <1>2 DEF SequencerTypeOK
    <2>3. /\ SequencerBit(counter)' <=> SequencerBit(counter)
          /\ SeesFall(counter)' <=> SeesFall(counter)
      BY <1>2 DEF SequencerBit, SeesFall
    <2> QED BY <1>1, <1>2, <2>1, <2>2, <2>3 DEF SequencerInv
  <1>5. TimerTypeOK' /\ WindowInv'
    <2>1. ASSUME NEW v \in 0..(TimaMod - 1), WriteTima(v)
          PROVE  TimerTypeOK' /\ WindowInv'
      <3>1. /\ tac' = tac /\ tma' = tma
            /\ \/ tima' = tima /\ reload_delay' = reload_delay
               \/ tima' = v /\ reload_delay' = 0
        BY <2>1 DEF WriteTima
      <3>2. TimerTypeOK'
        BY <1>1, <1>2, <2>1, <3>1 DEF TimerTypeOK
      <3>3. WindowInv'
        BY <1>1, <1>2, <3>1 DEF WindowInv
      <3> QED BY <3>2, <3>3
    <2>2. ASSUME NEW v \in 0..(TimaMod - 1), WriteTma(v)
          PROVE  TimerTypeOK' /\ WindowInv'
      <3>1. /\ tac' = tac /\ tma' = v /\ reload_delay' = reload_delay
            /\ tima' = IF reloaded THEN v ELSE tima
        BY <2>2 DEF WriteTma
      <3>2. reload_delay # 0 => ~reloaded
        BY <1>1 DEF ClockInv, WindowInv
      <3>3. TimerTypeOK'
        BY <1>1, <1>2, <2>2, <3>1 DEF TimerTypeOK
      <3>4. WindowInv'
        BY <1>1, <1>2, <3>1, <3>2 DEF WindowInv
      <3> QED BY <3>3, <3>4
    <2>3. ASSUME NEW t \in 0..7, WriteTac(t)
          PROVE  TimerTypeOK' /\ WindowInv'
      <3> DEFINE fell == EdgeInput(counter, tac) /\ ~EdgeInput(counter, t)
                 next == (tima + 1) % TimaMod
      <3>1. /\ tac' = t /\ tma' = tma
            /\ tima' = (IF fell THEN next ELSE tima)
            /\ reload_delay' = (IF fell /\ next = 0 THEN 4 ELSE reload_delay)
        BY <2>3 DEF WriteTac, DetectEdge
      <3>2. next \in 0..(TimaMod - 1)
        BY <1>1, TimaRange
      <3> HIDE DEF next
      <3>3. TimerTypeOK'
        BY <1>1, <1>2, <2>3, <3>1, <3>2 DEF TimerTypeOK
      <3>4. WindowInv'
        BY <1>1, <1>2, <3>1 DEF WindowInv
      <3> QED BY <3>3, <3>4
    <2> QED BY <2>1, <2>2, <2>3 DEF AccessTimer
  <1> QED BY <1>1, <1>2, <1>3, <1>4, <1>5 DEF ClockInv, TypeOK

(* The steps that leave the timer and the account alone, or only move the   *)
(* point where the CPU stands.                                              *)
LEMMA OtherStepsKeep ==
    ASSUME ClockInv,
           \/ BusTick(4) \/ BusTick(8) \/ AccessPower \/ AccessIf
           \/ DispatchTimerIrq \/ UNCHANGED vars
    PROVE  ClockInv'
  <1>1. /\ TimerTypeOK /\ SequencerTypeOK /\ left \in 0..8 /\ owed \in Int
        /\ pc \in {"tick", "apu", "access", "between"}
        /\ Aligned /\ WindowInv /\ ReloadIsTma /\ SequencerInv
    BY DEF ClockInv, TypeOK
  <1>2. /\ UNCHANGED <<counter, tima, tma, tac, reload_delay, reloaded, div_bit, owed>>
        /\ timer_irq' \in BOOLEAN /\ SequencerTypeOK'
    <2>1. CASE BusTick(4) \/ BusTick(8)
      BY <1>1, <2>1 DEF BusTick, timerVars, sequencerVars, TimerTypeOK, SequencerTypeOK
    <2>2. CASE AccessPower
      <3>1. PICK on \in BOOLEAN : WritePower(on)
        BY <2>2 DEF AccessPower
      <3>2. apu_on' \in BOOLEAN /\ div_bit' \in BOOLEAN
        BY <1>1, <3>1, Zenon DEF WritePower, SequencerTypeOK
      <3>3. frame_step' \in 0..7
        BY <1>1, <3>1 DEF WritePower, SequencerTypeOK
      <3> QED BY <1>1, <2>2, <3>1, <3>2, <3>3
             DEF AccessPower, WritePower, timerVars, TimerTypeOK, SequencerTypeOK
    <2>3. CASE AccessIf
      BY <1>1, <2>3 DEF AccessIf, SetTimerIrq, sequencerVars, SequencerTypeOK
    <2>4. CASE DispatchTimerIrq
      BY <1>1, <2>4 DEF DispatchTimerIrq, SetTimerIrq, sequencerVars, SequencerTypeOK
    <2>5. CASE UNCHANGED vars
      BY <1>1, <2>5 DEF vars, timerVars, sequencerVars, TimerTypeOK, SequencerTypeOK
    <2> QED BY <2>1, <2>2, <2>3, <2>4, <2>5
  <1>3. /\ EdgeInput(counter, tac)' <=> EdgeInput(counter, tac)
        /\ SequencerBit(counter)' <=> SequencerBit(counter)
        /\ SeesFall(counter)' <=> SeesFall(counter)
    BY <1>2 DEF EdgeInput, Bit, SequencerBit, SeesFall
  <1>4. TimerTypeOK'
    BY <1>1, <1>2 DEF TimerTypeOK
  <1>5. CASE BusTick(4) \/ BusTick(8)
    <2>1. pc \in {"access", "between"} /\ pc' = "tick" /\ left' \in {4, 8} /\ left = 0
      BY <1>1, <1>5 DEF BusTick, Aligned
    <2>2. Aligned'
      <3>1. counter \in Nat
        BY <1>1, Constants DEF TimerTypeOK
      <3>2. counter % 4 = 0
        BY <1>1, <2>1, <3>1 DEF Aligned
      <3>3. (counter + left') % 4 = 0 /\ counter' = counter
        <4>1. left' = 4 \/ left' = 8
          BY <2>1
        <4>2. (counter + 4) % 4 = 0 /\ (counter + 8) % 4 = 0
          BY <3>1, <3>2
        <4> QED BY <1>2, <4>1, <4>2
      <3> QED BY <2>1, <3>3 DEF Aligned
    <2>3. WindowInv' /\ ReloadIsTma'
      BY <1>1, <1>2, <1>3, <2>1 DEF WindowInv, ReloadIsTma
    <2>4. SequencerInv'
      <3>1. owed = 1 => counter = 0
        BY <1>1, <2>1 DEF SequencerInv
      <3> QED BY <1>1, <1>2, <1>3, <2>1, <3>1 DEF SequencerInv
    <2> QED BY <1>2, <1>4, <2>1, <2>2, <2>3, <2>4 DEF ClockInv, TypeOK
  <1>6. CASE AccessPower \/ AccessIf \/ DispatchTimerIrq
    <2>1. pc \in {"access", "between"} /\ pc' = "between" /\ left' = left
      BY <1>6 DEF AccessPower, AccessIf, DispatchTimerIrq, Access
    <2>2. Aligned' /\ WindowInv' /\ ReloadIsTma' /\ SequencerInv'
      BY <1>1, <1>2, <1>3, <2>1 DEF Aligned, WindowInv, ReloadIsTma, SequencerInv
    <2> QED BY <1>1, <1>2, <1>4, <2>1, <2>2 DEF ClockInv, TypeOK
  <1>7. CASE UNCHANGED vars
    <2>1. pc' = pc /\ left' = left
      BY <1>7 DEF vars
    <2>2. Aligned' /\ WindowInv' /\ ReloadIsTma' /\ SequencerInv'
      BY <1>1, <1>2, <1>3, <2>1 DEF Aligned, WindowInv, ReloadIsTma, SequencerInv
    <2> QED BY <1>1, <1>2, <1>4, <2>1, <2>2 DEF ClockInv, TypeOK
  <1> QED BY <1>5, <1>6, <1>7

LEMMA ApuTickKeeps ==
    ASSUME ClockInv, ApuTick
    PROVE  ClockInv'
  <1>1. /\ TimerTypeOK /\ SequencerTypeOK /\ left \in 0..8 /\ counter \in Nat
        /\ Aligned /\ WindowInv /\ ReloadIsTma /\ SequencerInv
    BY Constants DEF ClockInv, TypeOK, TimerTypeOK
  <1>2. /\ UNCHANGED <<counter, tima, tma, tac, reload_delay, reloaded, timer_irq, left>>
        /\ pc = "apu" /\ pc' = "access" /\ SyncFrameSequencer(counter) /\ Account(counter)
    BY DEF ApuTick, timerVars
  <1>3. div_bit' = SequencerBit(counter) /\ owed' = 0 /\ SequencerTypeOK'
    BY <1>1, <1>2, SyncSettles
  <1>4. TimerTypeOK'
    BY <1>1, <1>2 DEF TimerTypeOK
  <1>5. Aligned' /\ WindowInv' /\ ReloadIsTma'
    BY <1>1, <1>2 DEF Aligned, WindowInv, ReloadIsTma, EdgeInput, Bit
  <1>6. SequencerInv'
    <2>1. (SequencerBit(counter) => div_bit)' /\ ~SeesFall(counter)'
      BY <1>2, <1>3 DEF SeesFall, SequencerBit
    <2> QED BY <1>3, <2>1 DEF SequencerInv
  <1> QED BY <1>1, <1>2, <1>3, <1>4, <1>5, <1>6 DEF ClockInv, TypeOK

LEMMA TimerTickKeeps ==
    ASSUME ClockInv, TimerTick
    PROVE  ClockInv'
  <1>1. left' \in 0..8 /\ pc' \in {"tick", "apu", "access", "between"}
    BY DEF TimerTick, ClockInv, TypeOK, Aligned
  <1>2. owed' \in Int
    <2>1. SequencerInv'
      BY TickKeepsSequencer
    <2> QED BY <2>1 DEF SequencerInv
  <1> QED BY <1>1, <1>2, TickKeepsWindow, TickKeepsSequencer DEF ClockInv, TypeOK

----------------------------------------------------------------------------

(* ClockInv holds in every reachable state of the clock, whatever the size  *)
(* of the divider and of TIMA and whichever bits TAC selects.               *)
THEOREM ClockInvariant == Spec => []ClockInv
  <1>1. Init => ClockInv
    BY InitClockInv
  <1>2. ClockInv /\ [Next]_vars => ClockInv'
    <2> SUFFICES ASSUME ClockInv, [Next]_vars
                 PROVE  ClockInv'
      OBVIOUS
    <2>1. CASE TimerTick
      BY <2>1, TimerTickKeeps
    <2>2. CASE ApuTick
      BY <2>2, ApuTickKeeps
    <2>3. CASE AccessDiv
      BY <2>3, AccessDivKeeps
    <2>4. CASE AccessTimer
      BY <2>4, AccessTimerKeeps
    <2>5. CASE \/ BusTick(4) \/ BusTick(8) \/ AccessPower \/ AccessIf
               \/ DispatchTimerIrq \/ UNCHANGED vars
      BY <2>5, OtherStepsKeep
    <2> QED BY <2>1, <2>2, <2>3, <2>4, <2>5 DEF Next
  <1> QED BY <1>1, <1>2, PTL DEF Spec

(* Every variable of the clock stays within its type.                       *)
THEOREM TypeCorrect == Spec => []TypeOK
  <1>1. ClockInv => TypeOK
    BY DEF ClockInv
  <1> QED BY <1>1, ClockInvariant, PTL

(* TIMA reads 0 while a reload is pending, and an access meets the window   *)
(* only at its first cycle: timer.h's account of the reload.                *)
THEOREM ReloadWindowHolds == Spec => []ReloadWindow
  <1>1. ClockInv => ReloadWindow
    <2> SUFFICES ASSUME ClockInv PROVE ReloadWindow
      OBVIOUS
    <2>1. /\ counter \in Nat /\ reload_delay \in 0..4 /\ WindowInv
          /\ pc # "tick" => counter % 4 = 0
      BY Constants DEF ClockInv, TypeOK, TimerTypeOK, Aligned
    <2> QED BY <2>1 DEF WindowInv, ReloadWindow
  <1> QED BY <1>1, ClockInvariant, PTL

(* The cycle that copies TMA never also counts an edge.                     *)
THEOREM ReloadIsTmaHolds == Spec => []ReloadIsTma
  <1>1. ClockInv => ReloadIsTma
    BY DEF ClockInv
  <1> QED BY <1>1, ClockInvariant, PTL

(* The frame sequencer is clocked exactly once for each fall of its bit,    *)
(* late by at most the tick that follows a write to DIV.                    *)
THEOREM SequencerLockedHolds == Spec => []SequencerLocked
  <1>1. ClockInv => SequencerLocked
    <2> SUFFICES ASSUME ClockInv PROVE SequencerLocked
      OBVIOUS
    <2>1. SequencerInv /\ SequencerTypeOK
      BY DEF ClockInv, TypeOK
    <2>2. owed \in {0, 1} /\ (pc = "access" => owed = 0)
      BY <2>1 DEF SequencerInv
    <2>3. owed = 1 => div_bit /\ ~SequencerBit(counter)
      BY <2>1 DEF SequencerInv, SeesFall
    <2>4. owed = 0 => (div_bit <=> SequencerBit(counter))
      BY <2>1 DEF SequencerInv, SeesFall
    <2>5. owed = 0 => div_bit = SequencerBit(counter)
      BY <2>1, <2>4, Zenon DEF SequencerTypeOK, SequencerBit
    <2> QED BY <2>2, <2>3, <2>5 DEF SequencerLocked
  <1> QED BY <1>1, ClockInvariant, PTL
----------------------------------------------------------------------------
(* The refinement: to the CPU the timer moves one M-cycle at a time.  The   *)
(* T-cycle that brings the divider to a multiple of four is the M-cycle's   *)
(* step, and the others are stutters or end the cycle of the reload.        *)

(* The T-cycle that copied TMA is the last of its M-cycle. *)
MarkAtBoundary == reloaded => counter % 4 = 0

LEMMA MarkKept ==
    ASSUME ClockInv, MarkAtBoundary, [Next]_vars
    PROVE  MarkAtBoundary'
  <1>0. /\ counter \in 0..(CounterMod - 1) /\ reload_delay \in 0..4
        /\ CounterMod \in Nat \ {0} /\ CounterMod % 8 = 0
    BY Constants DEF ClockInv, TypeOK, TimerTypeOK
  <1>1. CASE TimerTick
    <2>1. counter' = Succ(counter) /\ reloaded' = (reload_delay = 1)
      BY <1>1 DEF TimerTick, StepOne, SetCounter, Succ
    <2>2. Succ(counter) = IF counter + 1 = CounterMod THEN 0 ELSE counter + 1
      BY <1>0, SuccValue
    <2>3. reload_delay = 1 => (counter + 1) % 4 = 0
      BY DEF ClockInv, WindowInv
    <2>4. reload_delay = 1 => Succ(counter) % 4 = 0
      BY <1>0, <2>2, <2>3
    <2> QED BY <2>1, <2>4 DEF MarkAtBoundary
  <1>2. CASE AccessDiv
    <2>1. counter' = 0
      BY <1>2 DEF AccessDiv, WriteDiv, SetCounter
    <2> QED BY <2>1 DEF MarkAtBoundary
  <1>3. CASE ~TimerTick /\ ~AccessDiv
    <2>1. UNCHANGED <<counter, reloaded>>
      BY <1>3 DEF Next, vars, BusTick, ApuTick, AccessTimer, AccessPower, AccessIf,
                  DispatchTimerIrq, WriteTima, WriteTma, WriteTac, SetTimerIrq, timerVars
    <2> QED BY <2>1 DEF MarkAtBoundary
  <1> QED BY <1>1, <1>2, <1>3

(* Dividing by a whole number of M-cycles at once, or M-cycles first. *)
LEMMA DivByFour ==
    ASSUME NEW c \in Nat, NEW h \in Nat \ {0}, h % 4 = 0
    PROVE  (c \div 4) \div (h \div 4) = c \div h
  <1> DEFINE k == h \div 4
             q == c \div h
             r == c % h
  <1>1. k \in Nat \ {0} /\ h = 4 * k
    OBVIOUS
  <1>2. q \in Nat /\ r \in 0..(h - 1) /\ c = (h * q) + r
    BY DivMod
  <1> HIDE DEF k, q, r
  <1>3. h * q = 4 * (k * q) /\ k * q \in Nat
    BY <1>1, <1>2, TimesAssoc
  <1>4. c \div 4 = (k * q) + (r \div 4) /\ r \div 4 \in 0..(k - 1)
    <2> DEFINE x == k * q
    <2>1. x \in Nat /\ c = 4 * x + r
      BY <1>2, <1>3
    <2> HIDE DEF x
    <2>2. c \div 4 = x + (r \div 4) /\ r \div 4 \in 0..(k - 1)
      BY <1>1, <1>2, <2>1
    <2> QED BY <2>2 DEF x
  <1>5. c \div 4 \in Nat
    OBVIOUS
  <1>6. (c \div 4) \div k = q
    BY <1>1, <1>2, <1>4, <1>5, DivModUnique
  <1> QED BY <1>6 DEF k, q

(* The input of TIMA, seen by M-cycles. *)
LEMMA InputMapped ==
    ASSUME NEW c \in 0..(CounterMod - 1), NEW t \in 0..7
    PROVE  MCycle!Input(c \div 4, t) = EdgeInput(c, t)
  <1> DEFINE h == SelectHalf[t % 4]
  <1>1. h \in Nat \ {0} /\ h % 4 = 0 /\ c \in Nat /\ t % 4 \in 0..3
    BY Constants
  <1>2. [s \in 0..3 |-> SelectHalf[s] \div 4][t % 4] = h \div 4
    BY <1>1
  <1> HIDE DEF h
  <1>3. (c \div 4) \div (h \div 4) = c \div h
    BY <1>1, DivByFour
  <1> QED BY <1>2, <1>3 DEF MCycle!Input, EdgeInput, Bit, h

(* The divider, seen by M-cycles. *)
LEMMA DividerMapped ==
    ASSUME NEW c \in 0..(CounterMod - 1)
    PROVE  Succ(c) \div 4 = IF Succ(c) % 4 = 0 THEN ((c \div 4) + 1) % (CounterMod \div 4)
                                               ELSE c \div 4
  <1> DEFINE n == CounterMod \div 4
             d == c \div 4
  <1>1. /\ CounterMod \in Nat \ {0} /\ CounterMod = 4 * n /\ n \in Nat \ {0}
        /\ Succ(c) = IF c + 1 = CounterMod THEN 0 ELSE c + 1
        /\ c \in Nat /\ d \in 0..(n - 1)
    <2>1. CounterMod \in Nat \ {0} /\ CounterMod % 8 = 0
      BY Constants
    <2> QED BY <2>1, SuccValue
  <1>2. CASE c + 1 = CounterMod
    <2>1. d + 1 = n /\ Succ(c) = 0
      BY <1>1, <1>2
    <2> HIDE DEF n, d
    <2>2. d + 1 = (n * 1) + 0 /\ d + 1 \in Nat /\ 0 \in 0..(n - 1)
      BY <1>1, <2>1
    <2>3. (d + 1) % n = 0
      BY <1>1, <2>2, DivModUnique
    <2> QED BY <2>1, <2>3 DEF n, d
  <1>3. CASE c + 1 # CounterMod /\ (c + 1) % 4 = 0
    <2>1. d + 1 \in 0..(n - 1) /\ Succ(c) \div 4 = d + 1 /\ Succ(c) % 4 = 0
      BY <1>1, <1>3
    <2> HIDE DEF n, d
    <2>2. d + 1 = (n * 0) + (d + 1) /\ d + 1 \in Nat
      BY <1>1, <2>1
    <2>3. (d + 1) % n = d + 1
      BY <1>1, <2>1, <2>2, DivModUnique
    <2> QED BY <2>1, <2>3 DEF n, d
  <1>4. CASE c + 1 # CounterMod /\ (c + 1) % 4 # 0
    BY <1>1, <1>4
  <1> QED BY <1>2, <1>3, <1>4
(* The M-cycle of the refinement mapping, spelt out. *)
MPhase == IF reload_delay # 0 THEN "overflow" ELSE IF reloaded THEN "reload" ELSE "run"
MReady == pc \in {"apu", "access"}

(* T-cycles inside an M-cycle. *)
LEMMA InnerTickRefines ==
    ASSUME ClockInv, MarkAtBoundary, TimerTick, counter' % 4 # 0
    PROVE  [MCycle!Next]_(MCycle!vars)
  <1>1. /\ counter \in 0..(CounterMod - 1) /\ tac \in 0..7 /\ reload_delay \in 0..4
        /\ reloaded \in BOOLEAN /\ timer_irq \in BOOLEAN
        /\ CounterMod \in Nat \ {0} /\ CounterMod % 8 = 0
        /\ left \in 1..8 /\ (counter + left) % 4 = 0 /\ pc = "tick"
        /\ left' = left - 1 /\ pc' = (IF left' = 0 THEN "apu" ELSE "tick")
    BY Constants DEF ClockInv, TypeOK, TimerTypeOK, Aligned, TimerTick
  <1>2. counter' = Succ(counter)
    BY DEF TimerTick, StepOne, SetCounter, Succ
  <1>3. counter' = counter + 1 /\ (counter + 1) % 4 # 0
    BY <1>1, <1>2, SuccValue
  <1>4. reload_delay # 1
    BY <1>1, <1>3 DEF ClockInv, WindowInv
  <1>5. EdgeInput(counter', tac) = EdgeInput(counter, tac)
    BY <1>1, <1>2, InputStable
  <1>6. /\ tima' = tima /\ tma' = tma /\ tac' = tac
        /\ reload_delay' = IF reload_delay = 0 THEN 0 ELSE reload_delay - 1
    BY <1>4, <1>5 DEF TimerTick, StepOne, SetCounter, DetectEdge
  <1>7. reloaded' = FALSE /\ timer_irq' = timer_irq
    <2>1. reloaded' = (reload_delay = 1) /\ timer_irq' = (timer_irq \/ reload_delay = 1)
      BY Zenon DEF TimerTick, StepOne
    <2> QED BY <1>1, <1>4, <2>1, Zenon
  <1>8. counter' \div 4 = counter \div 4
    BY <1>1, <1>3
  <1>9. pc' = "tick"
    BY <1>1, <1>3
  <1>10. reload_delay' = 0 <=> reload_delay = 0
    BY <1>1, <1>4, <1>6
  <1>11. MReady = FALSE /\ MReady' = FALSE
    BY <1>1, <1>9 DEF MReady
  <1>12. CASE reload_delay = 0 /\ reloaded
    <2>1. MPhase = "reload" /\ MPhase' = "run"
      BY <1>7, <1>10, <1>12 DEF MPhase
    <2>2. MCycle!EndReload
      BY <1>6, <1>7, <1>8, <1>11, <2>1 DEF MCycle!EndReload, MPhase, MReady
    <2> QED BY <2>2 DEF MCycle!Next
  <1>13. CASE ~(reload_delay = 0 /\ reloaded)
    <2>1. MPhase' = MPhase
      BY <1>7, <1>10, <1>13 DEF MPhase
    <2> QED BY <1>6, <1>7, <1>8, <1>11, <2>1 DEF MCycle!vars, MPhase, MReady
  <1> QED BY <1>12, <1>13

(* The last T-cycle of an M-cycle. *)
LEMMA OuterTickRefines ==
    ASSUME ClockInv, MarkAtBoundary, TimerTick, counter' % 4 = 0
    PROVE  MCycle!Next
  <1> DEFINE fell == EdgeInput(counter, tac) /\ ~EdgeInput(Succ(counter), tac)
             next == (tima + 1) % TimaMod
             d == counter \div 4
  <1>1. /\ counter \in 0..(CounterMod - 1) /\ tac \in 0..7 /\ reload_delay \in 0..4
        /\ reloaded \in BOOLEAN /\ timer_irq \in BOOLEAN
        /\ CounterMod \in Nat \ {0} /\ CounterMod % 8 = 0
        /\ pc = "tick" /\ pc' \in {"apu", "tick"}
    BY Constants DEF ClockInv, TypeOK, TimerTypeOK, TimerTick
  <1>2. counter' = Succ(counter) /\ tma' = tma /\ tac' = tac
    BY DEF TimerTick, StepOne, SetCounter, Succ
  <1>3. (counter + 1) % 4 = 0
    BY <1>1, <1>2, SuccValue
  <1>4. reload_delay \in {0, 1} /\ ~reloaded
    <2>1. reload_delay # 0 => (counter + reload_delay) % 4 = 0
      BY DEF ClockInv, WindowInv
    <2>2. reloaded => counter % 4 = 0
      BY DEF MarkAtBoundary
    <2>3. ~reloaded
      BY <1>1, <1>3, <2>2
    <2>4. reload_delay \in {0, 1}
      BY <1>1, <1>3, <2>1
    <2> QED BY <2>3, <2>4
  <1>5. counter' \div 4 = (d + 1) % (CounterMod \div 4)
    BY <1>1, <1>2, DividerMapped
  <1>6. /\ MCycle!Input(counter \div 4, tac) = EdgeInput(counter, tac)
        /\ MCycle!Input(counter' \div 4, tac) = EdgeInput(Succ(counter), tac)
    BY <1>1, <1>2, SuccValue, InputMapped
  <1>7. MReady = FALSE /\ MReady' \in BOOLEAN
    BY <1>1 DEF MReady
  <1>8. CASE reload_delay = 0
    <2>1. /\ tima' = (IF fell THEN next ELSE tima)
          /\ reload_delay' = (IF fell /\ next = 0 THEN 4 ELSE 0)
      BY <1>2, <1>8 DEF TimerTick, StepOne, SetCounter, DetectEdge, Succ
    <2>2. reloaded' = FALSE /\ timer_irq' = timer_irq
      <3>1. reloaded' = (reload_delay = 1) /\ timer_irq' = (timer_irq \/ reload_delay = 1)
        BY Zenon DEF TimerTick, StepOne
      <3>2. reload_delay # 1
        BY <1>8
      <3> QED BY <1>1, <3>1, <3>2, Zenon
    <2>3. MPhase = "run" /\ MPhase' = IF fell /\ tima' = 0 THEN "overflow" ELSE "run"
      BY <1>4, <1>8, <2>1, <2>2 DEF MPhase
    <2> HIDE DEF next
    <2>4. MCycle!Count(fell)
      BY <2>1, <2>3 DEF MCycle!Count, MPhase, next
    <2>5. MCycle!Count(MCycle!Input(counter \div 4, tac) /\ ~MCycle!Input(counter' \div 4, tac))
      BY <1>6, <2>4
    <2>6. MCycle!Run
      BY <1>2, <1>5, <1>7, <2>2, <2>3, <2>5 DEF MCycle!Run, MPhase, MReady
    <2> QED BY <2>6 DEF MCycle!Next
  <1>9. CASE reload_delay = 1
    <2>1. ~fell
      <3>1. fell => Succ(counter) % 8 = 0
        BY <1>1, InputFall
      <3>2. EdgeInput(counter, tac) => (counter + 1) % 8 = 4
        BY <1>9 DEF ClockInv, WindowInv
      <3>3. Succ(counter) = IF counter + 1 = CounterMod THEN 0 ELSE counter + 1
        BY <1>1, SuccValue
      <3> QED BY <1>1, <3>1, <3>2, <3>3
    <2>2. tima' = tma /\ reload_delay' = 0
      BY <1>2, <1>9, <2>1 DEF TimerTick, StepOne, SetCounter, DetectEdge, Succ
    <2>3. reloaded' = TRUE /\ timer_irq' = TRUE
      BY <1>9, Zenon DEF TimerTick, StepOne
    <2>4. MPhase = "overflow" /\ MPhase' = "reload"
      BY <1>9, <2>2, <2>3 DEF MPhase
    <2>5. MCycle!Reload
      BY <1>2, <1>5, <1>7, <2>2, <2>3, <2>4 DEF MCycle!Reload, MPhase, MReady
    <2> QED BY <2>5 DEF MCycle!Next
  <1> QED BY <1>4, <1>8, <1>9

(* A register access is the access of the M-cycle specification. *)
LEMMA DivAccessRefines ==
    ASSUME ClockInv, AccessDiv
    PROVE  MCycle!Next
  <1> DEFINE fell == EdgeInput(counter, tac) /\ ~EdgeInput(0, tac)
             next == (tima + 1) % TimaMod
  <1>1. /\ counter \in 0..(CounterMod - 1) /\ tac \in 0..7 /\ pc = "access"
        /\ 0 \in 0..(CounterMod - 1)
    BY Constants DEF ClockInv, TypeOK, TimerTypeOK, AccessDiv, Access
  <1>2. /\ counter' = 0 /\ tac' = tac /\ tma' = tma /\ pc' = "between"
        /\ tima' = (IF fell THEN next ELSE tima)
        /\ reload_delay' = (IF fell /\ next = 0 THEN 4 ELSE reload_delay)
        /\ reloaded' = reloaded /\ timer_irq' = timer_irq
    BY DEF AccessDiv, Access, WriteDiv, SetCounter, DetectEdge
  <1>3. 0 \div 4 = 0
    OBVIOUS
  <1>4. /\ MCycle!Input(counter \div 4, tac) = EdgeInput(counter, tac)
        /\ MCycle!Input(0, tac) = EdgeInput(0, tac)
    BY <1>1, <1>3, InputMapped
  <1>5. MReady = TRUE /\ MReady' = FALSE
    BY <1>1, <1>2 DEF MReady
  <1>6. MPhase' = IF fell /\ tima' = 0 THEN "overflow" ELSE MPhase
    BY <1>2 DEF MPhase
  <1> HIDE DEF next
  <1>7. MCycle!Count(fell)
    BY <1>2, <1>6 DEF MCycle!Count, MPhase, next
  <1>8. MCycle!Count(MCycle!Input(counter \div 4, tac) /\ ~MCycle!Input(0, tac))
    BY <1>4, <1>7
  <1>9. MCycle!WriteDiv
    BY <1>2, <1>3, <1>5, <1>8 DEF MCycle!WriteDiv, MCycle!Access, MReady
  <1> QED BY <1>9 DEF MCycle!Next

LEMMA TimerAccessRefines ==
    ASSUME ClockInv, AccessTimer
    PROVE  MCycle!Next
  <1>1. /\ counter \in 0..(CounterMod - 1) /\ tac \in 0..7 /\ pc = "access" /\ pc' = "between"
        /\ reload_delay # 0 => ~reloaded
    BY Constants DEF ClockInv, TypeOK, TimerTypeOK, WindowInv, AccessTimer, Access
  <1>2. MReady = TRUE /\ MReady' = FALSE
    BY <1>1 DEF MReady
  <1>3. MPhase = "reload" <=> reloaded
    BY <1>1 DEF MPhase
  <1>4. ASSUME NEW v \in 0..(TimaMod - 1), WriteTima(v)
        PROVE  MCycle!Next
    <2>1. UNCHANGED <<counter, tma, tac, reloaded, timer_irq>>
      BY <1>4 DEF WriteTima
    <2>2. CASE reloaded
      <3>1. UNCHANGED <<tima, reload_delay>>
        BY <1>4, <2>2 DEF WriteTima
      <3>2. MPhase = "reload" /\ MPhase' = MPhase
        BY <1>3, <2>1, <2>2, <3>1 DEF MPhase
      <3>3. MCycle!WriteTima
        BY <1>2, <2>1, <3>1, <3>2 DEF MCycle!WriteTima, MCycle!Access, MPhase, MReady
      <3> QED BY <3>3 DEF MCycle!Next
    <2>3. CASE ~reloaded
      <3>1. tima' = v /\ reload_delay' = 0
        BY <1>4, <2>3 DEF WriteTima
      <3>2. MPhase # "reload" /\ MPhase' = "run"
        BY <1>3, <2>1, <2>3, <3>1 DEF MPhase
      <3>3. MCycle!WriteTima
        BY <1>2, <1>4, <2>1, <3>1, <3>2 DEF MCycle!WriteTima, MCycle!Access, MPhase, MReady
      <3> QED BY <3>3 DEF MCycle!Next
    <2> QED BY <2>2, <2>3
  <1>5. ASSUME NEW v \in 0..(TimaMod - 1), WriteTma(v)
        PROVE  MCycle!Next
    <2>1. /\ UNCHANGED <<counter, tac, reload_delay, reloaded, timer_irq>>
          /\ tma' = v /\ tima' = IF reloaded THEN v ELSE tima
      BY <1>5 DEF WriteTma
    <2>2. MPhase' = MPhase
      BY <2>1 DEF MPhase
    <2>3. tima' = IF MPhase = "reload" THEN tma' ELSE tima
      BY <1>3, <2>1
    <2>4. MCycle!WriteTma
      BY <1>2, <1>5, <2>1, <2>2, <2>3 DEF MCycle!WriteTma, MCycle!Access, MPhase, MReady
    <2> QED BY <2>4 DEF MCycle!Next
  <1>6. ASSUME NEW t \in 0..7, WriteTac(t)
        PROVE  MCycle!Next
    <2> DEFINE fell == EdgeInput(counter, tac) /\ ~EdgeInput(counter, t)
               next == (tima + 1) % TimaMod
    <2>1. /\ UNCHANGED <<counter, tma, reloaded, timer_irq>> /\ tac' = t
          /\ tima' = (IF fell THEN next ELSE tima)
          /\ reload_delay' = (IF fell /\ next = 0 THEN 4 ELSE reload_delay)
      BY <1>6 DEF WriteTac, DetectEdge
    <2>2. /\ MCycle!Input(counter \div 4, tac) = EdgeInput(counter, tac)
          /\ MCycle!Input(counter \div 4, tac') = EdgeInput(counter, t)
      BY <1>1, <1>6, <2>1, InputMapped
    <2>3. MPhase' = IF fell /\ tima' = 0 THEN "overflow" ELSE MPhase
      BY <2>1 DEF MPhase
    <2> HIDE DEF next
    <2>4. MCycle!Count(fell)
      BY <2>1, <2>3 DEF MCycle!Count, MPhase, next
    <2>5. MCycle!Count(MCycle!Input(counter \div 4, tac) /\ ~MCycle!Input(counter \div 4, tac'))
      BY <2>2, <2>4
    <2>6. MCycle!WriteTac
      BY <1>2, <1>6, <2>1, <2>5 DEF MCycle!WriteTac, MCycle!Access, MReady
    <2> QED BY <2>6 DEF MCycle!Next
  <1> QED BY <1>4, <1>5, <1>6 DEF AccessTimer

(* What does not touch the timer's registers. *)
LEMMA OtherStepsRefine ==
    ASSUME ClockInv,
           \/ BusTick(4) \/ BusTick(8) \/ ApuTick \/ AccessPower \/ AccessIf
           \/ DispatchTimerIrq \/ UNCHANGED vars
    PROVE  [MCycle!Next]_(MCycle!vars)
  <1>1. UNCHANGED <<counter, tima, tma, tac, reload_delay, reloaded>>
    BY DEF BusTick, ApuTick, AccessPower, AccessIf, DispatchTimerIrq, SetTimerIrq,
           vars, timerVars
  <1>2. MPhase' = MPhase
    BY <1>1 DEF MPhase
  <1>3. MReady \in BOOLEAN /\ MReady' \in BOOLEAN
    BY DEF MReady
  <1>4. CASE AccessIf \/ DispatchTimerIrq
    <2>1. timer_irq' \in BOOLEAN
      BY <1>4 DEF AccessIf, DispatchTimerIrq, SetTimerIrq
    <2>2. MReady' = FALSE
      <3>1. pc' = "between"
        BY <1>4 DEF AccessIf, Access, DispatchTimerIrq
      <3> QED BY <3>1 DEF MReady
    <2>3. MCycle!WriteIrq
      BY <1>1, <1>2, <2>1, <2>2 DEF MCycle!WriteIrq, MPhase, MReady
    <2> QED BY <2>3 DEF MCycle!Next
  <1>5. CASE BusTick(4) \/ BusTick(8) \/ ApuTick \/ AccessPower \/ UNCHANGED vars
    <2>1. timer_irq' = timer_irq
      BY <1>5 DEF BusTick, ApuTick, AccessPower, vars, timerVars
    <2>2. MReady' = MReady \/ (MReady = TRUE /\ MReady' = FALSE)
      BY <1>5 DEF BusTick, ApuTick, AccessPower, Access, vars, MReady
    <2>3. CASE MReady' = MReady
      BY <1>1, <1>2, <2>1, <2>3 DEF MCycle!vars, MPhase, MReady
    <2>4. CASE MReady = TRUE /\ MReady' = FALSE
      <3>1. MCycle!Pass
        BY <1>1, <1>2, <2>1, <2>4 DEF MCycle!Pass, MPhase, MReady
      <3> QED BY <3>1 DEF MCycle!Next
    <2> QED BY <2>2, <2>3, <2>4
  <1> QED BY <1>4, <1>5

(* To the CPU the timer, T-cycle by T-cycle and with a bus that runs it      *)
(* ahead of the rest, is the timer that moves once an M-cycle: a wrap is     *)
(* followed by one cycle of 0 and by one in which TMA has just been copied   *)
(* in, whatever the CPU writes and whenever.                                 *)
THEOREM Refinement == Spec => ImplementsMCycleTimer
  <1>1. Init => MarkAtBoundary
    BY DEF Init, TimerInit, MarkAtBoundary
  <1>2. ClockInv /\ MarkAtBoundary /\ [Next]_vars => MarkAtBoundary'
    BY MarkKept
  <1>3. Init => MCycle!Init
    BY DEF Init, TimerInit, MCycle!Init
  <1>4. ClockInv /\ MarkAtBoundary /\ [Next]_vars => [MCycle!Next]_(MCycle!vars)
    <2> SUFFICES ASSUME ClockInv, MarkAtBoundary, [Next]_vars
                 PROVE  [MCycle!Next]_(MCycle!vars)
      OBVIOUS
    <2>1. CASE TimerTick
      BY <2>1, InnerTickRefines, OuterTickRefines
    <2>2. CASE AccessDiv
      BY <2>2, DivAccessRefines
    <2>3. CASE AccessTimer
      BY <2>3, TimerAccessRefines
    <2>4. CASE \/ BusTick(4) \/ BusTick(8) \/ ApuTick \/ AccessPower \/ AccessIf
               \/ DispatchTimerIrq \/ UNCHANGED vars
      BY <2>4, OtherStepsRefine
    <2> QED BY <2>1, <2>2, <2>3, <2>4 DEF Next
  <1> QED BY <1>1, <1>2, <1>3, <1>4, ClockInvariant, PTL
         DEF Spec, ImplementsMCycleTimer, MCycle!Spec
============================================================================
