----------------------------- MODULE PortsProofs -----------------------------
(***************************************************************************)
(* The ports for every period of a sample, size of the buffers, length of  *)
(* a bit and number of buttons: libretro takes all the sound of any        *)
(* run_frame, a press interrupts if it can be seen, and the serial port    *)
(* keeps what a link promises.                                             *)
(***************************************************************************)
EXTENDS Ports, TLAPS

----------------------------------------------------------------------------
(* Arithmetic, of numbers that are not constants of the module so that the  *)
(* provers need not look at what else is there.                            *)

LEMMA RemainderFits ==
    ASSUME NEW n \in Nat \ {0}, NEW x \in Nat
    PROVE  x % n \in 0..(n - 1)
  OBVIOUS

LEMMA ProductIsInt == \A s, p \in Int : s * p \in Int
  OBVIOUS

LEMMA OneMore ==
    ASSUME NEW p \in Nat, NEW s \in Int, NEW t \in Int, t <= s + 1
    PROVE  t * p <= s * p + p
  <1>1. (s + 1 - t) * p >= 0
    OBVIOUS
  <1> QED BY <1>1

(* A multiple of p below c + p is at most the quotient of c and one more. *)
LEMMA FitsInQuotient ==
    ASSUME NEW p \in Nat \ {0}, NEW c \in Nat, NEW s \in Nat, s * p < c + p
    PROVE  s <= (c \div p) + 1
  <1> DEFINE q == c \div p
  <1>1. q \in Nat /\ c < q * p + p
    BY SMTT(30)
  <1>2. s * p < q * p + p + p
    BY <1>1, SMTT(30)
  <1> HIDE DEF q
  <1>3. CASE s >= q + 2
    <2>1. (s - (q + 2)) * p >= 0
      BY <1>1, <1>3, SMTT(30)
    <2>2. s * p >= q * p + p + p
      BY <1>1, <2>1, SMTT(30)
    <2> QED BY <1>1, <1>2, <2>2
  <1> QED BY <1>1, <1>3 DEF q

----------------------------------------------------------------------------

LEMMA SerialSizes ==
    /\ Bits \in Nat \ {0}
    /\ BitPeriod \in Nat \ {0}
    /\ 0 \in SerialBytes
    /\ \A n \in TickLengths : n \in 1..BitPeriod
  BY SerialAssumption

LEMMA InitTypeOK == Init => TypeOK
  <1> SUFFICES ASSUME Init PROVE TypeOK
    OBVIOUS
  <1>1. SerialTypeOK
    <2>1. sc_start \in BOOLEAN /\ sc_internal \in BOOLEAN
      BY Zenon DEF Init, SerialInit
    <2>2. sb = 0 /\ out_byte = 0 /\ bits_left = 0 /\ shift_timer = 0 /\ sent = {}
      BY Zenon DEF Init, SerialInit
    <2> QED BY <2>1, <2>2, SerialSizes DEF SerialTypeOK
  <1>2. JoypadTypeOK
    BY DEF Init, JoypadInit, JoypadTypeOK
  <1>3. drains \in BOOLEAN
    BY Zenon DEF Init
  <1> QED BY <1>1, <1>2, <1>3, PortsAssumption DEF Init, TypeOK

(* The types that a tick of the serial port keeps. *)
LEMMA SerialTickType ==
    ASSUME SerialTypeOK, NEW n \in TickLengths, SerialTick(n)
    PROVE  SerialTypeOK'
  <1> DEFINE shifts == Shifting /\ shift_timer + n >= BitPeriod
  <1>1. /\ sb' = IF shifts THEN (2 * sb + 1) % (2^Bits) ELSE sb
        /\ bits_left' = IF shifts THEN bits_left - 1 ELSE bits_left
        /\ shift_timer' = CASE ~Shifting -> shift_timer
                            [] Shifting /\ ~shifts -> shift_timer + n
                            [] Completes(n) -> 0
                            [] OTHER -> shift_timer + n - BitPeriod
        /\ sent' = IF Completes(n) THEN {out_byte} ELSE {}
    BY Zenon DEF SerialTick
  <1>2. /\ sc_start' = (sc_start /\ ~Completes(n))
        /\ sc_internal' = sc_internal /\ out_byte' = out_byte
    BY Zenon DEF SerialTick
  <1>3. n \in 1..BitPeriod /\ BitPeriod \in Nat \ {0} /\ shift_timer \in 0..(BitPeriod - 1)
    BY SerialSizes DEF SerialTypeOK
  <1>4. shifts => bits_left > 0 /\ shift_timer + n >= BitPeriod
    BY DEF Shifting
  <1>5. Shifting /\ ~shifts => shift_timer + n < BitPeriod
    BY <1>3
  <1>6. Completes(n) => shifts
    BY DEF Completes
  <1> HIDE DEF shifts
  <1>7. sb' \in SerialBytes
    <2>1. (2 * sb + 1) % (2^Bits) \in SerialBytes
      <3>1. sb \in Nat
        BY SerialAssumption DEF SerialTypeOK
      <3>2. 2 * sb + 1 \in Nat
        BY <3>1
      <3> QED BY <3>2, RemainderFits, SerialAssumption
    <2> QED BY <1>1, <2>1 DEF SerialTypeOK
  <1>8. bits_left' \in 0..Bits
    BY <1>1, <1>4, SerialSizes DEF SerialTypeOK
  <1>9. shift_timer' \in 0..(BitPeriod - 1)
    <2>1. CASE ~Shifting
      BY <1>1, <1>3, <2>1
    <2>2. CASE Shifting /\ ~shifts
      BY <1>1, <1>3, <1>5, <2>2
    <2>3. CASE Shifting /\ shifts
      <3>1. shift_timer' \in {0, shift_timer + n - BitPeriod}
        BY ONLY <1>1, <2>3
      <3> QED BY <1>3, <1>4, <2>3, <3>1
    <2> QED BY <2>1, <2>2, <2>3
  <1>10. sc_start' \in BOOLEAN /\ sc_internal' \in BOOLEAN
    BY <1>2, Zenon DEF SerialTypeOK
  <1>11. out_byte' \in SerialBytes /\ sent' \subseteq SerialBytes
    <2>1. out_byte' = out_byte
      BY <1>2
    <2> QED BY <1>1, <2>1 DEF SerialTypeOK
  <1> QED BY <1>7, <1>8, <1>9, <1>10, <1>11 DEF SerialTypeOK

LEMMA SerialQuietType == SerialTypeOK /\ SerialQuiet => SerialTypeOK'
  BY DEF SerialTypeOK, SerialQuiet

LEMMA SerialAccessType ==
    ASSUME SerialTypeOK
    PROVE  /\ \A v \in SerialBytes : WriteSb(v) => SerialTypeOK'
           /\ \A start, internal \in BOOLEAN : WriteSc(start, internal) => SerialTypeOK'
           /\ SerialReset => SerialTypeOK'
  <1>1. ASSUME NEW v \in SerialBytes, WriteSb(v) PROVE SerialTypeOK'
    BY <1>1 DEF WriteSb, SerialTypeOK
  <1>2. ASSUME NEW start \in BOOLEAN, NEW internal \in BOOLEAN, WriteSc(start, internal)
        PROVE  SerialTypeOK'
    <2>1. sc_start' \in BOOLEAN /\ sc_internal' \in BOOLEAN
      BY <1>2, Zenon DEF WriteSc
    <2>2. /\ sb' = sb /\ out_byte' \in {sb, out_byte} /\ bits_left' \in {0, Bits}
          /\ shift_timer' \in {0, shift_timer} /\ sent' = {}
      BY <1>2 DEF WriteSc
    <2> QED BY <2>1, <2>2, SerialSizes DEF SerialTypeOK
  <1>3. ASSUME SerialReset PROVE SerialTypeOK'
    <2>1. sc_start' \in BOOLEAN /\ sc_internal' \in BOOLEAN
      BY <1>3, Zenon DEF SerialReset
    <2>2. sb' = 0 /\ out_byte' = 0 /\ bits_left' = 0 /\ shift_timer' = 0 /\ sent' = {}
      BY <1>3, Zenon DEF SerialReset
    <2> QED BY <2>1, <2>2, SerialSizes DEF SerialTypeOK
  <1> QED BY <1>1, <1>2, <1>3

(* What a tick does to the sound. *)
LEMMA SampleType ==
    ASSUME sample_accum \in 0..(Period - 1), samples \in 0..MaxFrames,
           NEW n \in TickLengths, Sample(n)
    PROVE  /\ sample_accum' \in 0..(Period - 1)
           /\ samples' \in 0..MaxFrames
           /\ samples' * Period + sample_accum' <= samples * Period + sample_accum + n
  <1>1. n \in 1..Period /\ Period \in Nat \ {0} /\ MaxFrames \in Nat
    BY SerialAssumption, PortsAssumption
  <1>2. CASE sample_accum + n >= Period
    <2>1. sample_accum' = sample_accum + n - Period
      BY <1>2 DEF Sample
    <2>2. samples' \in {samples, samples + 1} /\ samples' \in 0..MaxFrames
      BY <1>1, <1>2 DEF Sample
    <2>3. samples' \in Int /\ samples \in Int /\ samples' <= samples + 1
      BY <1>1, <2>2
    <2>4. samples' * Period <= samples * Period + Period
      BY <1>1, <2>3, OneMore
    <2>5. samples' * Period \in Int /\ samples * Period \in Int
      BY <1>1, <2>3, ProductIsInt
    <2>6. sample_accum' \in 0..(Period - 1)
      BY <1>1, <1>2, <2>1
    <2>7. samples' * Period + sample_accum' <= samples * Period + sample_accum + n
      <3> DEFINE x == samples * Period
                 y == samples' * Period
      <3>1. x \in Int /\ y \in Int /\ y <= x + Period
        BY <2>4, <2>5
      <3> HIDE DEF x, y
      <3>2. y + (sample_accum + n - Period) <= x + sample_accum + n
        BY <1>1, <3>1
      <3> QED BY <2>1, <3>2 DEF x, y
    <2> QED BY <2>2, <2>6, <2>7
  <1>3. CASE sample_accum + n < Period
    BY <1>1, <1>3 DEF Sample
  <1> QED BY <1>1, <1>2, <1>3

----------------------------------------------------------------------------

(* The sound in the buffer, in T-cycles, is no older than the run_frame that  *)
(* is under way and what was left of a sample before it.                    *)
Backlog ==
    /\ phase = "frontend" => spent = 0
    /\ drains => samples * Period + sample_accum < spent + Period
    /\ NoBacklog

PortsInv == TypeOK /\ Backlog

LEMMA InitPortsInv == Init => PortsInv
  <1> SUFFICES ASSUME Init PROVE PortsInv
    OBVIOUS
  <1>1. samples = 0 /\ sample_accum = 0 /\ spent = 0
    BY Zenon DEF Init
  <1>2. Backlog
    BY <1>1, PortsAssumption DEF Backlog, NoBacklog
  <1> QED BY <1>2, InitTypeOK DEF PortsInv

(* A run_frame never leaves more than libretro takes. *)
LEMMA TakesAll ==
    ASSUME PortsInv, drains
    PROVE  Taken = samples
  <1>1. /\ Period \in Nat \ {0} /\ Cap + LongestStep \in Nat
        /\ (Cap + LongestStep) \div Period + 1 <= AudioFrames
        /\ AudioFrames \in Nat
    BY PortsAssumption
  <1>2. samples * Period < (Cap + LongestStep) + Period
    <2>1. samples * Period + sample_accum < spent + Period
      BY DEF PortsInv, Backlog
    <2>2. sample_accum >= 0 /\ spent <= Cap + LongestStep
          /\ sample_accum \in Int /\ spent \in Int /\ samples * Period \in Int
      BY <1>1, PortsAssumption, ProductIsInt DEF PortsInv, TypeOK
    <2> QED BY <1>1, <2>1, <2>2
  <1>3. samples \in Nat
    BY PortsAssumption DEF PortsInv, TypeOK
  <1>4. samples <= (Cap + LongestStep) \div Period + 1
    BY <1>1, <1>2, <1>3, FitsInQuotient
  <1>5. (Cap + LongestStep) \div Period \in Int
    BY <1>1
  <1>6. samples <= AudioFrames
    BY <1>1, <1>3, <1>4, <1>5
  <1> QED BY <1>1, <1>3, <1>6 DEF Taken

(* The accesses of the program, and set_buttons, leave the sound alone. *)
LEMMA QuietSound ==
    ASSUME PortsInv, UNCHANGED <<drains, spent, samples, sample_accum>>,
           phase' = "running"
    PROVE  Backlog'
  BY DEF PortsInv, Backlog, NoBacklog

LEMMA StepPortsInv == PortsInv /\ [Next]_vars => PortsInv'
  <1> SUFFICES ASSUME PortsInv, [Next]_vars PROVE PortsInv'
    OBVIOUS
  <1> USE DEF PortsInv
  <1>0. /\ {Period, MaxFrames, Cap, LongestStep} \subseteq Nat \ {0}
    BY PortsAssumption
  <1>1. CASE RunFrame
    <2>1. SerialTypeOK'
      BY <1>1, SerialQuietType DEF RunFrame, TypeOK
    <2>2. PICK b \in SUBSET Buttons :
             /\ if_reg' = IF Asks(b) THEN if_reg \cup {"joypad"} ELSE if_reg
             /\ SetButtons(b)
      BY <1>1 DEF RunFrame
    <2>3. JoypadTypeOK' /\ if_reg' \subseteq {"serial", "joypad"}
      BY <2>2 DEF SetButtons, TypeOK, JoypadTypeOK
    <2>4. UNCHANGED <<drains, spent, samples, sample_accum>> /\ phase' = "running"
      BY <1>1 DEF RunFrame
    <2>5. TypeOK'
      BY <2>1, <2>3, <2>4 DEF TypeOK
    <2> QED BY <2>4, <2>5, QuietSound
  <1>2. CASE EmitAudio
    <2>1. /\ phase = "running" /\ phase' = "frontend" /\ spent' = 0
          /\ samples' = IF drains THEN samples - Taken ELSE samples
          /\ SerialQuiet
          /\ UNCHANGED <<pressed, selected, drains, if_reg, sample_accum>>
      BY <1>2 DEF EmitAudio, joypadVars
    <2>2. drains => samples' = 0
      BY <2>1, TakesAll, PortsAssumption DEF TypeOK
    <2>3. samples' \in 0..MaxFrames
      BY <1>0, <2>1, <2>2 DEF TypeOK
    <2>4. SerialTypeOK' /\ JoypadTypeOK'
      BY <2>1, SerialQuietType DEF TypeOK, JoypadTypeOK
    <2>5. TypeOK'
      BY <1>0, <2>1, <2>3, <2>4 DEF TypeOK
    <2>6. Backlog'
      BY <1>0, <2>1, <2>2, <2>5 DEF Backlog, NoBacklog, TypeOK
    <2> QED BY <2>5, <2>6
  <1>3. CASE Reset
    <2>1. /\ SerialReset /\ pressed' = {} /\ selected' = {} /\ if_reg' = {}
          /\ samples' = 0 /\ sample_accum' = 0
          /\ phase = "frontend"
          /\ UNCHANGED <<drains, phase, spent>>
      BY <1>3 DEF Reset, JoypadReset
    <2>2. SerialTypeOK' /\ JoypadTypeOK'
      BY <2>1, SerialAccessType DEF TypeOK, JoypadTypeOK
    <2>3. TypeOK'
      BY <1>0, <2>1, <2>2 DEF TypeOK
    <2>4. Backlog'
      BY <1>0, <2>1 DEF Backlog, NoBacklog, TypeOK
    <2> QED BY <2>3, <2>4
  <1>4. CASE Ticks
    <2>1. PICK n \in TickLengths : Tick(n)
      BY <1>4 DEF Ticks
    <2>2. /\ phase = "running" /\ spent + n <= Cap + LongestStep
          /\ spent' = spent + n
          /\ Sample(n)
          /\ SerialTick(n)
          /\ UNCHANGED <<pressed, selected, drains, phase>>
      BY <2>1 DEF Tick, joypadVars
    <2>3. if_reg' = IF Completes(n) THEN if_reg \cup {"serial"} ELSE if_reg
      BY <2>1 DEF Tick
    <2>4. n \in Nat
      BY SerialSizes
    <2>5. SerialTypeOK' /\ JoypadTypeOK'
      BY <2>2, SerialTickType DEF TypeOK, JoypadTypeOK
    <2>6. /\ sample_accum' \in 0..(Period - 1)
          /\ samples' \in 0..MaxFrames
          /\ samples' * Period + sample_accum' <= samples * Period + sample_accum + n
      BY <2>2, SampleType DEF TypeOK
    <2>7. if_reg' \subseteq {"serial", "joypad"}
      BY <2>3 DEF TypeOK
    <2>8. spent' \in 0..(Cap + LongestStep)
      BY <1>0, <2>2, <2>4 DEF TypeOK
    <2>9. TypeOK'
      BY <2>2, <2>5, <2>6, <2>7, <2>8 DEF TypeOK
    <2>10. drains' => samples' * Period + sample_accum' < spent' + Period
      <3>1. samples * Period \in Int /\ samples' * Period \in Int
        BY <1>0, <2>6, ProductIsInt DEF TypeOK
      <3>2. /\ Period \in Int /\ n \in Int /\ spent \in Int
            /\ sample_accum \in Int /\ sample_accum' \in Int
        BY <1>0, <2>4, <2>6 DEF TypeOK
      <3>3. drains => samples * Period + sample_accum < spent + Period
        BY DEF Backlog
      <3> DEFINE x == samples * Period
                 y == samples' * Period
                 a == sample_accum'
      <3>4. /\ x \in Int /\ y \in Int /\ a \in Int
            /\ y + a <= x + sample_accum + n
            /\ drains => x + sample_accum < spent + Period
        BY <2>6, <3>1, <3>2, <3>3
      <3> HIDE DEF x, y, a
      <3>5. drains => y + a < (spent + n) + Period
        BY <3>2, <3>4
      <3>6. drains' = drains
        BY <2>2
      <3> QED BY <2>2, <3>5, <3>6 DEF x, y, a
    <2>11. Backlog'
      BY <2>2, <2>10 DEF Backlog, NoBacklog
    <2> QED BY <2>9, <2>11
  <1>5. CASE AccessSb \/ AccessSc
    <2>1. UNCHANGED <<pressed, selected, if_reg>> /\ Access
      BY <1>5 DEF AccessSb, AccessSc, joypadVars
    <2>2. UNCHANGED <<drains, spent, samples, sample_accum, phase>> /\ phase' = "running"
      BY <2>1 DEF Access
    <2>3. SerialTypeOK'
      BY <1>5, SerialAccessType DEF AccessSb, AccessSc, TypeOK
    <2>4. TypeOK'
      BY <2>1, <2>2, <2>3 DEF TypeOK, JoypadTypeOK
    <2> QED BY <2>2, <2>4, QuietSound
  <1>6. CASE AccessP1 \/ AccessIf
    <2>1. Access /\ SerialQuiet
      BY <1>6 DEF AccessP1, AccessIf
    <2>2. UNCHANGED <<drains, spent, samples, sample_accum, phase>> /\ phase' = "running"
      BY <2>1 DEF Access
    <2>3. JoypadTypeOK' /\ if_reg' \subseteq {"serial", "joypad"}
      BY <1>6 DEF AccessP1, AccessIf, SelectRows, TypeOK, JoypadTypeOK, joypadVars
    <2>4. TypeOK'
      BY <2>1, <2>2, <2>3, SerialQuietType DEF TypeOK
    <2> QED BY <2>2, <2>4, QuietSound
  <1>7. CASE UNCHANGED vars
    <2>1. UNCHANGED <<sb, sc_start, sc_internal, bits_left, out_byte, shift_timer, sent>>
          /\ UNCHANGED <<pressed, selected>>
          /\ UNCHANGED <<drains, phase, spent, if_reg, samples, sample_accum>>
      BY <1>7 DEF vars, serialVars, joypadVars, portVars
    <2>2. TypeOK'
      BY <2>1 DEF TypeOK, SerialTypeOK, JoypadTypeOK
    <2> QED BY <2>1, <2>2 DEF Backlog, NoBacklog
  <1> QED BY <1>1, <1>2, <1>3, <1>4, <1>5, <1>6, <1>7 DEF Next

(* What is in the buffer took no longer to produce than the run_frame under  *)
(* way, which every tick of the APU keeps and emit_audio makes true again.   *)
THEOREM PortsInvariant == Spec => []PortsInv
  BY InitPortsInv, StepPortsInv, PTL DEF Spec

(* Every state of the ports is of its type: the buffer of samples and the    *)
(* timers stay within their bounds, whatever the program and the frontend do. *)
THEOREM TypeCorrect == Spec => []TypeOK
  <1>1. PortsInv => TypeOK
    BY DEF PortsInv
  <1> QED BY <1>1, PortsInvariant, PTL

(* Libretro takes all the sound of every run_frame, the longest included:   *)
(* emit_audio of libretro.cpp leaves nothing behind.                        *)
THEOREM NoBacklogHolds == Spec => []NoBacklog
  <1>1. PortsInv => NoBacklog
    BY DEF PortsInv, Backlog
  <1> QED BY <1>1, PortsInvariant, PTL

----------------------------------------------------------------------------

LEMMA PressStep ==
    ASSUME [Next]_vars, joypadVars' # joypadVars
    PROVE  /\ (\E b \in SeenPresses : b[2] \notin Low(pressed)) => "joypad" \in if_reg'
           /\ "joypad" \in if_reg' \ if_reg => SeenPresses # {}
  <1>1. RunFrame \/ Reset \/ AccessP1
    BY DEF Next, vars, joypadVars, EmitAudio, Ticks, Tick, AccessSb, AccessSc, AccessIf
  <1>2. CASE RunFrame
    <2>1. if_reg' = IF Asks(pressed') THEN if_reg \cup {"joypad"} ELSE if_reg
      BY <1>2 DEF RunFrame, SetButtons
    <2>2. ASSUME NEW b \in SeenPresses, b[2] \notin Low(pressed)
          PROVE  "joypad" \in if_reg'
      <3>1. b[2] \in Low(pressed')
        BY <2>2 DEF SeenPresses, Low
      <3>2. Asks(pressed')
        BY <2>2, <3>1 DEF Asks
      <3> QED BY <2>1, <3>2
    <2>3. ASSUME "joypad" \in if_reg' \ if_reg
          PROVE  SeenPresses # {}
      <3>1. Asks(pressed')
        BY <2>1, <2>3
      <3>2. PICK l \in Low(pressed') : l \notin Low(pressed)
        BY <3>1 DEF Asks
      <3>3. PICK c \in pressed' : c[1] \in selected /\ l = c[2]
        BY <3>2 DEF Low
      <3>4. c \notin pressed
        BY <3>2, <3>3 DEF Low
      <3>5. c \in SeenPresses
        BY <3>3, <3>4 DEF SeenPresses
      <3> QED BY <3>5
    <2> QED BY <2>2, <2>3
  <1>3. CASE Reset
    <2>1. pressed' = {} /\ if_reg' = {}
      BY <1>3 DEF Reset, JoypadReset
    <2>2. SeenPresses = {}
      BY <2>1 DEF SeenPresses
    <2> QED BY <2>1, <2>2
  <1>4. CASE AccessP1
    <2>1. pressed' = pressed /\ if_reg' = if_reg
      BY <1>4 DEF AccessP1, SelectRows
    <2>2. SeenPresses = {}
      BY <2>1 DEF SeenPresses
    <2> QED BY <2>1, <2>2
  <1> QED BY <1>1, <1>2, <1>3, <1>4

(* However many buttons share lines: set_buttons asks for the interrupt for a *)
(* press that can be seen and is not hidden, and for none that cannot; the  *)
(* selection of a row never does.                                           *)
THEOREM PressInterruptsHolds == Spec => PressInterrupts
  <1>1. [Next]_vars => [joypadVars' # joypadVars =>
            /\ (\E b \in SeenPresses : b[2] \notin Low(pressed)) => "joypad" \in if_reg'
            /\ "joypad" \in if_reg' \ if_reg => SeenPresses # {}]_vars
    BY PressStep
  <1> QED BY <1>1, PTL DEF Spec, PressInterrupts

----------------------------------------------------------------------------
(* The refinement.                                                         *)

(* Bits that are left take longer than what has passed of the first. *)
LEMMA BitsLast ==
    ASSUME NEW p \in Nat \ {0}, NEW b \in Nat \ {0}, NEW t \in 0..(p - 1), NEW n \in 1..p
    PROVE  /\ b * p - t \in Nat /\ b * p - t > 0
           /\ t + n < p => b * p - t > n
           /\ t + n >= p => (b - 1) * p - (t + n - p) = b * p - t - n
           /\ t + n >= p /\ b # 1 => b * p - t > n
           /\ t + n >= p /\ b = 1 => b * p - t <= n
           /\ (b - 1) * p \in Nat
  <1>1. b * p \in Int /\ (b - 1) * p \in Int /\ (b - 1) * p = b * p - p
    OBVIOUS
  <1>2. (b - 1) * p >= 0
    OBVIOUS
  <1>3. b # 1 => (b - 2) * p >= 0
    OBVIOUS
  <1>4. (b - 2) * p = b * p - p - p
    OBVIOUS
  <1>5. b = 1 => b * p = p
    OBVIOUS
  <1> DEFINE x == b * p
             y == (b - 1) * p
             z == (b - 2) * p
  <1>6. x \in Int /\ y \in Int /\ y = x - p /\ y >= 0 /\ z = x - p - p /\ (b # 1 => z >= 0)
        /\ (b = 1 => x = p)
    BY <1>1, <1>2, <1>3, <1>4, <1>5
  <1> HIDE DEF x, y, z
  <1>7. /\ x - t \in Nat /\ x - t > 0
        /\ t + n < p => x - t > n
        /\ t + n >= p => y - (t + n - p) = x - t - n
        /\ t + n >= p /\ b # 1 => x - t > n
        /\ t + n >= p /\ b = 1 => x - t <= n
        /\ y \in Nat
    BY <1>6
  <1> QED BY <1>7 DEF x, y

(* A tick of the code is a tick of the link. *)
LEMMA LeftTick ==
    ASSUME SerialTypeOK, NEW n \in TickLengths, SerialTick(n)
    PROVE  /\ Left' = IF Left > n THEN Left - n ELSE 0
           /\ Left \in 1..n <=> Completes(n)
           /\ Left \in Nat
  <1>1. /\ bits_left' = IF Shifting /\ shift_timer + n >= BitPeriod
                        THEN bits_left - 1 ELSE bits_left
        /\ shift_timer' = CASE ~Shifting -> shift_timer
                            [] Shifting /\ ~(Shifting /\ shift_timer + n >= BitPeriod)
                                   -> shift_timer + n
                            [] Completes(n) -> 0
                            [] OTHER -> shift_timer + n - BitPeriod
    BY Zenon DEF SerialTick
  <1>2. /\ sc_start' <=> sc_start /\ ~Completes(n)
        /\ sc_internal' <=> sc_internal
    BY Zenon DEF SerialTick
  <1>3. /\ n \in 1..BitPeriod /\ BitPeriod \in Nat \ {0} /\ n \in Nat
        /\ shift_timer \in 0..(BitPeriod - 1) /\ bits_left \in Nat
    BY SerialSizes DEF SerialTypeOK
  <1>4. CASE ~Shifting
    <2>1. ~Completes(n) /\ bits_left' = bits_left
      BY <1>1, <1>4 DEF Completes
    <2>2. ~Shifting'
      BY <1>2, <1>4, <2>1 DEF Shifting
    <2>3. Left = 0 /\ Left' = 0
      BY <1>4, <2>2 DEF Left
    <2> QED BY <1>3, <2>1, <2>3
  <1>5. CASE Shifting
    <2>1. bits_left \in Nat \ {0}
      BY <1>3, <1>5 DEF Shifting
    <2>2. Left = bits_left * BitPeriod - shift_timer
      BY <1>5 DEF Left
    <2>3. /\ Left \in Nat /\ Left > 0
          /\ shift_timer + n < BitPeriod => Left > n
          /\ shift_timer + n >= BitPeriod =>
                (bits_left - 1) * BitPeriod - (shift_timer + n - BitPeriod) = Left - n
          /\ shift_timer + n >= BitPeriod /\ bits_left # 1 => Left > n
          /\ shift_timer + n >= BitPeriod /\ bits_left = 1 => Left <= n
      <3> HIDE DEF Left
      <3> QED BY <1>3, <2>1, <2>2, BitsLast
    <2>4. CASE shift_timer + n < BitPeriod
      <3>1. ~Completes(n) /\ bits_left' = bits_left /\ shift_timer' = shift_timer + n
        BY <1>1, <1>3, <1>5, <2>4 DEF Completes
      <3>2. Shifting'
        BY <1>2, <1>5, <3>1 DEF Shifting
      <3>3. Left' = bits_left * BitPeriod - (shift_timer + n)
        BY <3>1, <3>2 DEF Left
      <3>4. bits_left * BitPeriod \in Int
        BY <1>3, ProductIsInt
      <3>5. bits_left * BitPeriod - (shift_timer + n) = Left - n
        BY <1>3, <2>2, <3>4
      <3> HIDE DEF Left
      <3> QED BY <1>3, <2>3, <2>4, <3>1, <3>3, <3>5
    <2>5. CASE shift_timer + n >= BitPeriod /\ bits_left # 1
      <3>1. /\ ~Completes(n) /\ bits_left' = bits_left - 1
            /\ shift_timer' = shift_timer + n - BitPeriod
        BY <1>1, <1>5, <2>5 DEF Completes
      <3>2. Shifting'
        <4>1. bits_left - 1 > 0
          BY <2>1, <2>5
        <4> QED BY <1>2, <1>5, <3>1, <4>1 DEF Shifting
      <3>3. Left' = (bits_left - 1) * BitPeriod - (shift_timer + n - BitPeriod)
        BY <3>1, <3>2 DEF Left
      <3> HIDE DEF Left
      <3> QED BY <1>3, <2>3, <2>5, <3>1, <3>3
    <2>6. CASE shift_timer + n >= BitPeriod /\ bits_left = 1
      <3>1. Completes(n) /\ bits_left' = 0
        BY <1>1, <1>5, <2>6 DEF Completes
      <3>2. ~Shifting'
        BY <3>1 DEF Shifting
      <3>3. Left' = 0
        BY <3>2 DEF Left
      <3> HIDE DEF Left
      <3> QED BY <1>3, <2>3, <2>6, <3>1, <3>3
    <2> QED BY <1>3, <2>4, <2>5, <2>6
  <1> QED BY <1>4, <1>5

LEMMA LinkInit == Init => Promise!Init
  <1> SUFFICES ASSUME Init PROVE Promise!Init
    OBVIOUS
  <1>1. sb = 0 /\ out_byte = 0 /\ sent = {} /\ bits_left = 0 /\ if_reg = {}
    BY Zenon DEF Init, SerialInit
  <1>2. Left = 0
    BY <1>1 DEF Left, Shifting
  <1>3. "serial" \notin if_reg
    BY <1>1
  <1>4. sb \in SerialBytes /\ out_byte \in SerialBytes
    BY <1>1, SerialSizes
  <1>5. spent = 0
    BY Zenon DEF Init
  <1> QED BY <1>1, <1>2, <1>3, <1>4, <1>5, Zenon DEF Promise!Init

(* The step leaves the transfer as it is. *)
LEMMA QuietLink ==
    ASSUME UNCHANGED <<sc_start, sc_internal, bits_left, out_byte, shift_timer>>,
           sb' \in SerialBytes, sent' = {}, spent' <= spent
    PROVE  Promise!Write
  <1>1. Left' = Left
    BY DEF Left, Shifting
  <1>2. ("serial" \in if_reg)' \in BOOLEAN
    OBVIOUS
  <1> QED BY <1>1, <1>2, Zenon DEF Promise!Write, Promise!Timeless

LEMMA LinkStep ==
    ASSUME PortsInv, PortsInv', [Next]_vars
    PROVE  [Promise!Tick \/ Promise!Begin \/ Promise!GiveUp \/ Promise!Write]_(Promise!linkVars)
  <1>1. SerialTypeOK /\ SerialTypeOK' /\ spent \in Nat /\ spent' \in Nat
    BY PortsAssumption DEF PortsInv, TypeOK
  <1>2. CASE Ticks
    <2>1. PICK n \in TickLengths :
             /\ SerialTick(n)
             /\ spent' = spent + n
             /\ if_reg' = IF Completes(n) THEN if_reg \cup {"serial"} ELSE if_reg
      BY <1>2 DEF Ticks, Tick
    <2>2. Left' = (IF Left > n THEN Left - n ELSE 0) /\ (Left \in 1..n <=> Completes(n))
      BY <1>1, <2>1, LeftTick
    <2>3. sent' = IF Left \in 1..n THEN {out_byte} ELSE {}
      <3>1. sent' = IF Completes(n) THEN {out_byte} ELSE {}
        BY <2>1, Zenon DEF SerialTick
      <3> HIDE DEF Left
      <3> QED BY <2>2, <3>1
    <2>4. "serial" \in if_reg' <=> "serial" \in if_reg \/ Left \in 1..n
      <3> HIDE DEF Left
      <3> QED BY <2>1, <2>2
    <2>5. sb' \in SerialBytes /\ out_byte' = out_byte
      BY <1>1, <2>1 DEF SerialTypeOK, SerialTick
    <2>6. Promise!Tick
      BY <2>1, <2>2, <2>3, <2>4, <2>5, Zenon DEF Promise!Tick
    <2> QED BY <2>6
  <1>3. CASE AccessSc
    <2>1. PICK start \in BOOLEAN, internal \in BOOLEAN : WriteSc(start, internal)
      BY <1>3 DEF AccessSc
    <2>2. /\ sc_start' <=> start
          /\ sc_internal' <=> internal
          /\ sent' = {} /\ sb' = sb /\ if_reg' = if_reg /\ spent' = spent
      BY <1>3, <2>1, Zenon DEF WriteSc, AccessSc, Access
    <2>5. spent' <= spent
      BY <1>1, <2>2
    <2>3. CASE start /\ internal
      <3>1. bits_left' = Bits /\ out_byte' = sb /\ shift_timer' = 0
        BY <2>1, <2>3 DEF WriteSc
      <3>2. Shifting'
        BY <2>2, <2>3, <3>1, SerialSizes DEF Shifting
      <3>3. Left' = Bits * BitPeriod - 0
        BY <3>1, <3>2 DEF Left
      <3>4. Bits * BitPeriod - 0 = Bits * BitPeriod
        BY SerialSizes
      <3>5. Promise!Begin
        BY <2>2, <2>5, <3>1, <3>3, <3>4, Zenon DEF Promise!Begin, Promise!Timeless
      <3> QED BY <3>5
    <2>4. CASE ~(start /\ internal)
      <3>1. ~Shifting'
        BY <2>2, <2>4 DEF Shifting
      <3>2. Left' = 0
        BY <3>1 DEF Left
      <3>3. Promise!GiveUp
        BY <1>1, <2>2, <2>5, <3>2, Zenon
           DEF Promise!GiveUp, Promise!Idle, Promise!Timeless, SerialTypeOK
      <3> QED BY <3>3
    <2> QED BY <2>3, <2>4
  <1>4. CASE Reset
    <2>1. bits_left' = 0 /\ sent' = {} /\ if_reg' = {} /\ spent' = spent
      BY <1>4, Zenon DEF Reset, SerialReset
    <2>2. Left' = 0
      BY <2>1 DEF Left, Shifting
    <2>3. "serial" \notin if_reg'
      BY <2>1
    <2>4. spent' <= spent
      BY <1>1, <2>1
    <2>5. Promise!GiveUp
      BY <1>1, <2>1, <2>2, <2>3, <2>4, Zenon
         DEF Promise!GiveUp, Promise!Idle, Promise!Timeless, SerialTypeOK
    <2> QED BY <2>5
  <1>5. CASE AccessSb \/ AccessP1 \/ AccessIf \/ RunFrame \/ EmitAudio
    <2>1. UNCHANGED <<sc_start, sc_internal, bits_left, out_byte, shift_timer>> /\ sent' = {}
      BY <1>5 DEF AccessSb, WriteSb, AccessP1, AccessIf, RunFrame, EmitAudio, SerialQuiet
    <2>2. spent' = spent \/ spent' = 0
      BY <1>5 DEF AccessSb, AccessP1, AccessIf, Access, RunFrame, EmitAudio
    <2>3. spent' <= spent
      BY <1>1, <2>2
    <2> QED BY <1>1, <2>1, <2>3, QuietLink DEF SerialTypeOK
  <1>6. CASE UNCHANGED vars
    <2>1. UNCHANGED <<sb, sc_start, sc_internal, bits_left, out_byte, shift_timer, sent, if_reg,
                      spent>>
      BY <1>6 DEF vars, serialVars, portVars
    <2> QED BY <2>1 DEF Promise!linkVars, Left, Shifting
  <1> QED BY <1>2, <1>3, <1>4, <1>5, <1>6 DEF Next

(* Serial::tick and the writes of SB and SC keep the link's promise: one byte, *)
(* the one the transfer began with, once, after all its bits, or nothing if   *)
(* the program or a reset, and not time, puts an end to it.                  *)
THEOREM ImplementsLinkHolds == Spec => ImplementsLink
  <1>1. Init => Promise!Init
    BY LinkInit
  <1>2. PortsInv /\ PortsInv' /\ [Next]_vars =>
            [Promise!Tick \/ Promise!Begin \/ Promise!GiveUp \/ Promise!Write]_(Promise!linkVars)
    BY LinkStep
  <1> QED BY <1>1, <1>2, PortsInvariant, PTL DEF Spec, ImplementsLink, Promise!Spec
==============================================================================
