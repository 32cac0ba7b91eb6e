------------------------------ MODULE ApuProofs ------------------------------
(***************************************************************************)
(* The channels of the APU for every length of their counters, range of    *)
(* frequencies and volumes, size of wave RAM and width of the noise        *)
(* register: a channel that sounds may, the sweep never lets a frequency   *)
(* sound that is too high, the noise does not stop, and the window on wave *)
(* RAM is open when a byte was just fetched.                               *)
(***************************************************************************)
EXTENDS Apu, NaturalsInduction, WellFoundedInduction, TLAPS

----------------------------------------------------------------------------
(* Arithmetic.                                                             *)

LEMMA Remainder == \A n \in Nat \ {0} : \A x \in Int : x % n \in 0..(n - 1)
  OBVIOUS

(* Below a multiple of l, the l numbers from one multiple to the next stay so. *)
LEMMA RowFits ==
    ASSUME NEW l \in Nat \ {0}, NEW m \in Nat, m % l = 0, NEW x \in 0..(m - 1), NEW r \in 0..(l - 1)
    PROVE  x - (x % l) + r \in 0..(m - 1)
  <1> DEFINE q == m \div l
             k == x \div l
  <1>1. q \in Int /\ k \in Int /\ m = q * l /\ x = k * l + (x % l) /\ x % l \in 0..(l - 1)
    BY SMTT(30)
  <1> HIDE DEF q, k
  <1>2. k >= 0
    <2>1. CASE k <= -1
      <3>1. (-1 - k) * l >= 0
        BY <2>1, <1>1
      <3>2. k * l <= -l
        BY <3>1, <1>1
      <3> QED BY <3>2, <1>1
    <2> QED BY <2>1, <1>1
  <1>3. k <= q - 1
    <2>1. CASE k >= q
      <3>1. (k - q) * l >= 0
        BY <2>1, <1>1
      <3>2. k * l >= q * l
        BY <3>1, <1>1
      <3> QED BY <3>2, <1>1
    <2> QED BY <2>1, <1>1
  <1>4. k * l >= 0 /\ (q - 1 - k) * l >= 0
    BY <1>1, <1>2, <1>3
  <1>5. k * l + l <= q * l
    BY <1>1, <1>4
  <1> QED BY <1>1, <1>4, <1>5

LEMMA HighFits ==
    ASSUME NEW l \in Nat \ {0}, NEW m \in Nat, m % l = 0,
           NEW h \in 0..((m \div l) - 1), NEW r \in 0..(l - 1)
    PROVE  h * l + r \in 0..(m - 1)
  <1> DEFINE q == m \div l
  <1>1. q \in Int /\ m = q * l
    BY SMTT(30)
  <1>2. h \in Nat /\ h <= q - 1
    BY <1>1
  <1> HIDE DEF q
  <1>3. h * l >= 0 /\ (q - 1 - h) * l >= 0
    BY <1>1, <1>2
  <1>4. h * l + l <= q * l
    BY <1>1, <1>2, <1>3
  <1> QED BY <1>1, <1>2, <1>3, <1>4

----------------------------------------------------------------------------
(* Records with some fields changed.                                       *)

Kinds == {SquareChannels, WaveChannels, NoiseChannels}

(* The fields that all channels have. *)
LEMMA CommonFields ==
    ASSUME NEW K \in Kinds, NEW c \in K
    PROVE  c.length \in Nat /\ c.length_on \in BOOLEAN /\ c.enabled \in BOOLEAN /\ c.dac \in BOOLEAN
  <1>1. CASE K = SquareChannels
    BY <1>1 DEF SquareChannels
  <1>2. CASE K = WaveChannels
    BY <1>2 DEF WaveChannels
  <1>3. CASE K = NoiseChannels
    BY <1>3 DEF NoiseChannels
  <1> QED BY <1>1, <1>2, <1>3 DEF Kinds

LEMMA WithLength ==
    ASSUME NEW K \in Kinds, NEW c \in K, NEW l \in Nat, NEW o \in BOOLEAN, NEW e \in BOOLEAN
    PROVE  /\ [c EXCEPT !.length = l, !.enabled = e] \in K
           /\ [c EXCEPT !.length_on = o, !.length = l, !.enabled = e] \in K
           /\ [c EXCEPT !.length = l] \in K
           /\ [c EXCEPT !.dac = o, !.enabled = e] \in K
  <1>1. CASE K = SquareChannels
    BY <1>1 DEF SquareChannels
  <1>2. CASE K = WaveChannels
    BY <1>2 DEF WaveChannels
  <1>3. CASE K = NoiseChannels
    BY <1>3 DEF NoiseChannels
  <1> QED BY <1>1, <1>2, <1>3 DEF Kinds

LEMMA LengthFields ==
    ASSUME NEW K \in Kinds, NEW c \in K, NEW l, NEW o, NEW e
    PROVE  /\ [c EXCEPT !.length = l, !.enabled = e].length = l
           /\ [c EXCEPT !.length = l, !.enabled = e].enabled = e
           /\ [c EXCEPT !.length = l, !.enabled = e].dac = c.dac
           /\ [c EXCEPT !.length = l].length = l
           /\ [c EXCEPT !.length = l].enabled = c.enabled
           /\ [c EXCEPT !.length = l].dac = c.dac
           /\ [c EXCEPT !.length_on = o, !.length = l, !.enabled = e].length = l
           /\ [c EXCEPT !.length_on = o, !.length = l, !.enabled = e].enabled = e
           /\ [c EXCEPT !.length_on = o, !.length = l, !.enabled = e].dac = c.dac
           /\ [c EXCEPT !.dac = o, !.enabled = e].dac = o
           /\ [c EXCEPT !.dac = o, !.enabled = e].enabled = e
           /\ [c EXCEPT !.dac = o, !.enabled = e].length = c.length
  <1>1. CASE K = SquareChannels
    BY <1>1 DEF SquareChannels
  <1>2. CASE K = WaveChannels
    BY <1>2 DEF WaveChannels
  <1>3. CASE K = NoiseChannels
    BY <1>3 DEF NoiseChannels
  <1> QED BY <1>1, <1>2, <1>3 DEF Kinds

----------------------------------------------------------------------------
(* The length counter.                                                     *)

(* The channel may sound, as far as its DAC and its counter go. *)
Fed(c) == c.enabled => c.dac /\ c.length > 0

LEMMA ClockLengthFed ==
    ASSUME NEW K \in Kinds, NEW c \in K
    PROVE  /\ ClockLength(c) \in K
           /\ ClockLength(c).length <= c.length
           /\ Fed(c) => Fed(ClockLength(c))
           /\ ClockLength(c).enabled => c.enabled
  <1> DEFINE e == c.enabled /\ c.length > 1
             l == c.length - 1
  <1>1. /\ c.length \in Nat /\ c.enabled \in BOOLEAN
    BY CommonFields
  <1>2. CASE c.length_on /\ c.length > 0
    <2>1. e \in BOOLEAN /\ l \in Nat
      BY <1>1, <1>2
    <2>2. ClockLength(c) = [c EXCEPT !.length = l, !.enabled = e]
      BY <1>2 DEF ClockLength
    <2> HIDE DEF e
    <2>3. /\ ClockLength(c) \in K
          /\ ClockLength(c).length = l
          /\ ClockLength(c).enabled = e
          /\ ClockLength(c).dac = c.dac
      <3>1. [c EXCEPT !.length = l, !.enabled = e] \in K
        BY <1>1, <2>1, WithLength
      <3>2. /\ [c EXCEPT !.length = l, !.enabled = e].length = l
            /\ [c EXCEPT !.length = l, !.enabled = e].enabled = e
            /\ [c EXCEPT !.length = l, !.enabled = e].dac = c.dac
        BY LengthFields
      <3> QED BY <2>2, <3>1, <3>2
    <2>4. e => c.enabled /\ c.length > 1
      BY DEF e
    <2> QED BY <1>1, <2>3, <2>4 DEF Fed
  <1>3. CASE ~(c.length_on /\ c.length > 0)
    BY <1>1, <1>3 DEF ClockLength
  <1> QED BY <1>2, <1>3

LEMMA WriteControlFed ==
    ASSUME NEW K \in Kinds, NEW c \in K, NEW on \in BOOLEAN, NEW trigger \in BOOLEAN,
           NEW max \in Nat, max > 1, NEW next \in BOOLEAN, c.length <= max
    PROVE  LET d == WriteControl(c, on, trigger, max, next)
           IN  /\ d \in K
               /\ d.length \in 0..max
               /\ Fed(c) => Fed(d)
               /\ d.enabled => c.enabled
               /\ trigger => d.length > 0
               /\ d.dac = c.dac
  <1> DEFINE d == WriteControl(c, on, trigger, max, next)
             steals == ~next /\ ~c.length_on /\ on /\ c.length > 0
             left == IF steals THEN c.length - 1 ELSE c.length
             l == IF trigger /\ left = 0 THEN IF on /\ ~next THEN max - 1 ELSE max ELSE left
             e == c.enabled /\ ~(steals /\ left = 0 /\ ~trigger)
  <1>1. c.length \in Nat /\ c.enabled \in BOOLEAN
    BY CommonFields
  <1>2. d = [c EXCEPT !.length_on = on, !.length = l, !.enabled = e]
    BY DEF WriteControl
  <1>3. steals => c.length > 0
    OBVIOUS
  <1> HIDE DEF steals
  <1>4. left \in Nat /\ left <= c.length /\ (~steals => left = c.length)
    BY <1>1, <1>3
  <1>5. e \in BOOLEAN /\ (e => c.enabled /\ ~(steals /\ left = 0 /\ ~trigger))
    BY Zenon
  <1> HIDE DEF left, e, d
  <1>6. l \in 0..max /\ (trigger => l > 0) /\ (~trigger => l = left)
    BY <1>1, <1>4
  <1> HIDE DEF l
  <1>7. d \in K /\ d.length = l /\ d.enabled = e /\ d.dac = c.dac
    <2>1. l \in Nat
      BY <1>6
    <2>2. [c EXCEPT !.length_on = on, !.length = l, !.enabled = e] \in K
      BY <1>5, <2>1, WithLength
    <2>3. /\ [c EXCEPT !.length_on = on, !.length = l, !.enabled = e].length = l
          /\ [c EXCEPT !.length_on = on, !.length = l, !.enabled = e].enabled = e
          /\ [c EXCEPT !.length_on = on, !.length = l, !.enabled = e].dac = c.dac
      BY LengthFields
    <2> QED BY <1>2, <2>2, <2>3
  <1>8. Fed(c) => Fed(d)
    <2>1. CASE trigger
      BY <1>5, <1>6, <1>7, <2>1 DEF Fed
    <2>2. CASE ~trigger
      BY <1>1, <1>4, <1>5, <1>6, <1>7, <2>2 DEF Fed
    <2> QED BY <2>1, <2>2
  <1>9. d.enabled => c.enabled
    BY <1>5, <1>7
  <1> QED BY <1>6, <1>7, <1>8, <1>9 DEF d

LEMMA SetDacFed ==
    ASSUME NEW K \in Kinds, NEW c \in K, NEW on \in BOOLEAN
    PROVE  /\ SetDac(c, on) \in K
           /\ Fed(c) => Fed(SetDac(c, on))
           /\ SetDac(c, on).enabled => c.enabled
           /\ SetDac(c, on).length = c.length
  <1> DEFINE e == c.enabled /\ on
  <1>1. e \in BOOLEAN /\ (e => c.enabled /\ on)
    BY Zenon
  <1>2. SetDac(c, on) = [c EXCEPT !.dac = on, !.enabled = e]
    BY DEF SetDac
  <1> HIDE DEF e
  <1>3. /\ SetDac(c, on) \in K /\ SetDac(c, on).enabled = e /\ SetDac(c, on).dac = on
        /\ SetDac(c, on).length = c.length
    <2>1. [c EXCEPT !.dac = on, !.enabled = e] \in K
      BY <1>1, WithLength
    <2>2. /\ [c EXCEPT !.dac = on, !.enabled = e].dac = on
          /\ [c EXCEPT !.dac = on, !.enabled = e].enabled = e
          /\ [c EXCEPT !.dac = on, !.enabled = e].length = c.length
      BY LengthFields
    <2> QED BY <1>2, <2>1, <2>2
  <1> QED BY <1>1, <1>3 DEF Fed

(* None of these touches the sweep or the noise register. *)
SameSweep(d, c) ==
    /\ d.shadow = c.shadow /\ d.shift = c.shift
    /\ d.negate = c.negate /\ d.negate_used = c.negate_used

SameNoise(d, c) == d.lfsr = c.lfsr /\ d.width = c.width

LEMMA SameSweepKept ==
    ASSUME NEW c \in SquareChannels
    PROVE  /\ SameSweep(ClockLength(c), c)
           /\ \A dac \in BOOLEAN : SameSweep(SetDac(c, dac), c)
           /\ \A on, trigger, next \in BOOLEAN, max \in Nat :
                SameSweep(WriteControl(c, on, trigger, max, next), c)
  BY DEF SameSweep, ClockLength, SetDac, WriteControl, SquareChannels

LEMMA SameNoiseKept ==
    ASSUME NEW c \in NoiseChannels
    PROVE  /\ SameNoise(ClockLength(c), c)
           /\ \A dac \in BOOLEAN : SameNoise(SetDac(c, dac), c)
           /\ \A on, trigger, next \in BOOLEAN, max \in Nat :
                SameNoise(WriteControl(c, on, trigger, max, next), c)
  BY DEF SameNoise, ClockLength, SetDac, WriteControl, NoiseChannels

----------------------------------------------------------------------------
(* The envelope.                                                           *)

LEMMA ReloadType ==
    ASSUME NEW period \in Periods
    PROVE  Reload(period) \in 1..IdlePeriod
  BY ChannelAssumption DEF Reload, Periods

LEMMA EnvelopeClockType ==
    ASSUME NEW e \in Envelopes
    PROVE  EnvelopeClock(e) \in Envelopes
  <1> DEFINE due == CountDown(e.timer) = 0
             next == e.volume + (IF e.add THEN 1 ELSE -1)
             steps == due /\ e.running /\ e.period # 0
             t == IF due THEN Reload(e.period) ELSE CountDown(e.timer)
             r == e.running /\ (steps => next \in 0..MaxVolume)
             v == IF steps /\ next \in 0..MaxVolume THEN next ELSE e.volume
  <1>1. EnvelopeClock(e) = [e EXCEPT !.timer = t, !.running = r, !.volume = v]
    BY DEF EnvelopeClock
  <1>2. /\ e.timer \in 0..IdlePeriod /\ e.period \in Periods /\ e.volume \in 0..MaxVolume
    BY DEF Envelopes
  <1>3. t \in 0..IdlePeriod
    <2>1. CountDown(e.timer) \in 0..IdlePeriod
      BY <1>2, ChannelAssumption DEF CountDown
    <2>2. Reload(e.period) \in 0..IdlePeriod
      BY <1>2, ReloadType, ChannelAssumption
    <2> QED BY <2>1, <2>2
  <1>4. v \in 0..MaxVolume
    BY <1>2
  <1>5. r \in BOOLEAN
    BY Zenon
  <1> HIDE DEF t, r, v
  <1>6. [e EXCEPT !.timer = t, !.running = r, !.volume = v] \in Envelopes
    BY <1>3, <1>4, <1>5 DEF Envelopes
  <1> QED BY <1>1, <1>6

LEMMA EnvelopeTriggerType ==
    ASSUME NEW e \in Envelopes
    PROVE  EnvelopeTrigger(e) \in Envelopes
  <1>1. Reload(e.period) \in 0..IdlePeriod
    BY ReloadType, ChannelAssumption DEF Envelopes
  <1> DEFINE t == Reload(e.period)
  <1>2. EnvelopeTrigger(e) = [e EXCEPT !.volume = e.initial, !.timer = t, !.running = TRUE]
    BY DEF EnvelopeTrigger
  <1> HIDE DEF t
  <1>3. t \in 0..IdlePeriod
    BY <1>1 DEF t
  <1>4. [e EXCEPT !.volume = e.initial, !.timer = t, !.running = TRUE] \in Envelopes
    BY <1>3 DEF Envelopes
  <1> QED BY <1>2, <1>4

LEMMA EnvelopeResetType == EnvelopeReset \in Envelopes
  BY ChannelAssumption DEF EnvelopeReset, Envelopes, Periods

(* A channel with another envelope is the same channel otherwise. *)
LEMMA WithEnv ==
    ASSUME NEW e \in Envelopes
    PROVE  /\ \A c \in SquareChannels :
                 LET d == [c EXCEPT !.env = e]
                 IN  d \in SquareChannels /\ SameSweep(d, c) /\ d.enabled = c.enabled
                     /\ d.length = c.length /\ d.dac = c.dac
           /\ \A c \in NoiseChannels :
                 LET d == [c EXCEPT !.env = e]
                 IN  d \in NoiseChannels /\ SameNoise(d, c) /\ d.enabled = c.enabled
                     /\ d.length = c.length /\ d.dac = c.dac
  BY DEF SquareChannels, NoiseChannels, SameSweep, SameNoise

EnvKinds == {SquareChannels, NoiseChannels}

(* NRx2: the channel with new settings of its envelope, before its DAC is set. *)
Preset(c, initial, add, period) ==
    [c EXCEPT !.env = [@ EXCEPT !.initial = initial, !.add = add, !.period = period]]

LEMMA PresetIs ==
    ASSUME NEW K \in EnvKinds, NEW c \in K,
           NEW initial \in 0..MaxVolume, NEW add \in BOOLEAN, NEW period \in Periods
    PROVE  WriteEnvelope(c, initial, add, period)
                = SetDac(Preset(c, initial, add, period), initial # 0 \/ add)
  <1>1. CASE K = SquareChannels
    BY <1>1 DEF WriteEnvelope, Preset, SquareChannels, Envelopes
  <1>2. CASE K = NoiseChannels
    BY <1>2 DEF WriteEnvelope, Preset, NoiseChannels, Envelopes
  <1> QED BY <1>1, <1>2 DEF EnvKinds

LEMMA PresetType ==
    ASSUME NEW initial \in 0..MaxVolume, NEW add \in BOOLEAN, NEW period \in Periods,
           NEW e \in Envelopes
    PROVE  [e EXCEPT !.initial = initial, !.add = add, !.period = period] \in Envelopes
  BY DEF Envelopes

LEMMA WriteEnvelopeFed ==
    ASSUME NEW initial \in 0..MaxVolume, NEW add \in BOOLEAN, NEW period \in Periods
    PROVE  /\ \A c \in SquareChannels :
                 LET d == WriteEnvelope(c, initial, add, period)
                 IN  /\ d \in SquareChannels /\ SameSweep(d, c) /\ d.length = c.length
                     /\ (Fed(c) => Fed(d)) /\ (d.enabled => c.enabled)
           /\ \A c \in NoiseChannels :
                 LET d == WriteEnvelope(c, initial, add, period)
                 IN  /\ d \in NoiseChannels /\ SameNoise(d, c) /\ d.length = c.length
                     /\ (Fed(c) => Fed(d)) /\ (d.enabled => c.enabled)
  <1> DEFINE dac == initial # 0 \/ add
  <1>1. dac \in BOOLEAN
    BY Zenon
  <1> HIDE DEF dac
  <1>2. ASSUME NEW c \in SquareChannels
        PROVE  LET d == WriteEnvelope(c, initial, add, period)
               IN  /\ d \in SquareChannels /\ SameSweep(d, c) /\ d.length = c.length
                   /\ (Fed(c) => Fed(d)) /\ (d.enabled => c.enabled)
    <2> DEFINE b == Preset(c, initial, add, period)
               d == SetDac(b, dac)
    <2>1. WriteEnvelope(c, initial, add, period) = d
      BY PresetIs DEF EnvKinds, dac
    <2>2. /\ b \in SquareChannels /\ SameSweep(b, c) /\ b.enabled = c.enabled
          /\ b.length = c.length /\ b.dac = c.dac
      <3>1. [c.env EXCEPT !.initial = initial, !.add = add, !.period = period] \in Envelopes
        BY PresetType DEF SquareChannels
      <3> QED BY <3>1, WithEnv DEF Preset
    <2> HIDE DEF b
    <2>3. /\ d \in SquareChannels /\ (Fed(b) => Fed(d)) /\ (d.enabled => b.enabled)
          /\ d.length = b.length
      BY <1>1, <2>2, SetDacFed DEF Kinds
    <2>4. SameSweep(d, b)
      BY <1>1, <2>2, SameSweepKept
    <2> HIDE DEF d
    <2>5. Fed(c) => Fed(b)
      BY <2>2 DEF Fed
    <2> QED BY <2>1, <2>2, <2>3, <2>4, <2>5 DEF SameSweep
  <1>3. ASSUME NEW c \in NoiseChannels
        PROVE  LET d == WriteEnvelope(c, initial, add, period)
               IN  /\ d \in NoiseChannels /\ SameNoise(d, c) /\ d.length = c.length
                   /\ (Fed(c) => Fed(d)) /\ (d.enabled => c.enabled)
    <2> DEFINE b == Preset(c, initial, add, period)
               d == SetDac(b, dac)
    <2>1. WriteEnvelope(c, initial, add, period) = d
      BY PresetIs DEF EnvKinds, dac
    <2>2. /\ b \in NoiseChannels /\ SameNoise(b, c) /\ b.enabled = c.enabled
          /\ b.length = c.length /\ b.dac = c.dac
      <3>1. [c.env EXCEPT !.initial = initial, !.add = add, !.period = period] \in Envelopes
        BY PresetType DEF NoiseChannels
      <3> QED BY <3>1, WithEnv DEF Preset
    <2> HIDE DEF b
    <2>3. /\ d \in NoiseChannels /\ (Fed(b) => Fed(d)) /\ (d.enabled => b.enabled)
          /\ d.length = b.length
      BY <1>1, <2>2, SetDacFed DEF Kinds
    <2>4. SameNoise(d, b)
      BY <1>1, <2>2, SameNoiseKept
    <2> HIDE DEF d
    <2>5. Fed(c) => Fed(b)
      BY <2>2 DEF Fed
    <2> QED BY <2>1, <2>2, <2>3, <2>4, <2>5 DEF SameNoise
  <1> QED BY <1>2, <1>3

----------------------------------------------------------------------------
(* The sweep.                                                              *)

(* A sweep that has subtracted still subtracts. *)
NegateKept(c) == c.enabled => (c.negate_used => c.negate)

(* The frequency after this one would fit too. *)
NextFits(c) == c.shift = 0 \/ SweepNext(c) <= MaxFreq

LEMMA QuotientBelow ==
    ASSUME NEW x \in Nat, NEW y \in Nat \ {0}
    PROVE  x \div y \in 0..x
  <1>1. x \div y \in Int /\ x \div y >= 0
    BY SMTT(30)
  <1>2. (x \div y) * y <= x
    BY SMTT(30)
  <1> DEFINE q == x \div y
  <1> HIDE DEF q
  <1>3. q \in Nat /\ q * y <= x
    BY <1>1, <1>2 DEF q
  <1>4. q * (y - 1) >= 0
    BY <1>3
  <1>5. q <= x
    BY <1>3, <1>4
  <1> QED BY <1>3, <1>5 DEF q

LEMMA SweepNextType ==
    ASSUME NEW c \in SquareChannels
    PROVE  SweepNext(c) \in Nat
  <1>1. c.shadow \in Nat /\ ShiftScale[c.shift] \in Nat \ {0}
    BY SquareAssumption DEF SquareChannels
  <1>2. c.shadow \div ShiftScale[c.shift] \in 0..c.shadow
    BY <1>1, QuotientBelow
  <1> DEFINE delta == c.shadow \div ShiftScale[c.shift]
  <1>3. SweepNext(c) = IF c.negate THEN c.shadow - delta ELSE c.shadow + delta
    BY DEF SweepNext
  <1> HIDE DEF delta
  <1>4. delta \in 0..c.shadow
    BY <1>2 DEF delta
  <1> QED BY <1>1, <1>3, <1>4

LEMMA SweepCalculateIs ==
    ASSUME NEW c \in SquareChannels
    PROVE  LET d == SweepCalculate(c)
           IN  /\ d \in SquareChannels
               /\ d.shadow = c.shadow /\ d.shift = c.shift /\ d.negate = c.negate
               /\ d.negate_used <=> c.negate_used \/ c.negate
               /\ d.enabled <=> c.enabled /\ SweepNext(c) <= MaxFreq
               /\ d.length = c.length /\ d.dac = c.dac
               /\ SweepNext(d) = SweepNext(c)
  <1> DEFINE d == SweepCalculate(c)
             u == c.negate_used \/ c.negate
             e == c.enabled /\ SweepNext(c) <= MaxFreq
  <1>1. d = [c EXCEPT !.negate_used = u, !.enabled = e]
    BY DEF SweepCalculate
  <1>2. u \in BOOLEAN /\ e \in BOOLEAN
    BY Zenon
  <1> HIDE DEF u, e, d
  <1>3. /\ d \in SquareChannels
        /\ d.shadow = c.shadow /\ d.shift = c.shift /\ d.negate = c.negate
        /\ d.negate_used = u /\ d.enabled = e
        /\ d.length = c.length /\ d.dac = c.dac
    BY <1>1, <1>2 DEF SquareChannels
  <1>4. SweepNext(d) = SweepNext(c)
    BY <1>3 DEF SweepNext
  <1>5. (d.negate_used <=> u) /\ (d.enabled <=> e)
    BY <1>3, Zenon
  <1>6. /\ d.negate_used <=> c.negate_used \/ c.negate
        /\ d.enabled <=> c.enabled /\ SweepNext(c) <= MaxFreq
    BY <1>5, Zenon DEF u, e
  <1> QED BY <1>3, <1>4, <1>6 DEF d

LEMMA SweepClockFed ==
    ASSUME NEW c \in SquareChannels
    PROVE  LET d == SweepClock(c)
           IN  /\ d \in SquareChannels /\ d.length = c.length
               /\ Fed(c) => Fed(d)
               /\ NegateKept(c) => NegateKept(d)
               /\ d.enabled => c.enabled
               /\ d.enabled /\ d.shadow # c.shadow => NextFits(d)
  <1> DEFINE t == IF CountDown(c.sweep_timer) = 0 THEN Reload(c.pace) ELSE CountDown(c.sweep_timer)
             ticked == [c EXCEPT !.sweep_timer = t]
             checked == SweepCalculate(ticked)
             next == SweepNext(c)
             moved == [checked EXCEPT !.shadow = next, !.freq = next]
             d == SweepClock(c)
  <1>1. d \in {ticked, checked} \/ (next <= MaxFreq /\ c.shift # 0 /\ d = SweepCalculate(moved))
    <2>1. CASE CountDown(c.sweep_timer) # 0 \/ ~c.sweep_on \/ c.pace = 0
      BY <2>1 DEF SweepClock
    <2>2. CASE ~(CountDown(c.sweep_timer) # 0 \/ ~c.sweep_on \/ c.pace = 0)
      <3>1. d = IF next > MaxFreq \/ c.shift = 0 THEN checked ELSE SweepCalculate(moved)
        BY <2>2 DEF SweepClock
      <3>2. next \in Int /\ MaxFreq \in Int
        BY SweepNextType, ChannelAssumption
      <3> HIDE DEF next, checked, moved, d
      <3> QED BY <3>1, <3>2
    <2> QED BY <2>1, <2>2
  <1>2. t \in 0..IdlePeriod
    <2>1. CountDown(c.sweep_timer) \in 0..IdlePeriod
      BY ChannelAssumption DEF CountDown, SquareChannels
    <2>2. Reload(c.pace) \in 0..IdlePeriod
      BY ReloadType, ChannelAssumption DEF SquareChannels
    <2> QED BY <2>1, <2>2
  <1> HIDE DEF t, next, d
  <1>3. /\ ticked \in SquareChannels /\ ticked.shadow = c.shadow /\ ticked.shift = c.shift
        /\ ticked.negate = c.negate /\ ticked.negate_used = c.negate_used
        /\ ticked.enabled = c.enabled /\ ticked.length = c.length /\ ticked.dac = c.dac
    BY <1>2 DEF SquareChannels
  <1> HIDE DEF ticked
  <1>4. /\ checked \in SquareChannels
        /\ checked.shadow = ticked.shadow /\ checked.shift = ticked.shift
        /\ checked.negate = ticked.negate
        /\ checked.negate_used <=> ticked.negate_used \/ ticked.negate
        /\ checked.enabled => ticked.enabled
        /\ checked.length = ticked.length /\ checked.dac = ticked.dac
    BY <1>3, SweepCalculateIs
  <1> HIDE DEF checked
  <1>5. /\ Fed(c) => Fed(ticked)
        /\ Fed(c) => Fed(checked)
        /\ NegateKept(c) => NegateKept(ticked)
        /\ NegateKept(c) => NegateKept(checked)
    BY <1>3, <1>4 DEF Fed, NegateKept
  <1>6. CASE d = ticked
    BY <1>3, <1>5, <1>6 DEF d
  <1>7. CASE d = checked
    BY <1>3, <1>4, <1>5, <1>7 DEF d
  <1>8. CASE next <= MaxFreq /\ d = SweepCalculate(moved)
    <2>1. next \in 0..MaxFreq
      BY <1>8, SweepNextType, ChannelAssumption DEF next
    <2>2. /\ moved \in SquareChannels /\ moved.shadow = next /\ moved.shift = checked.shift
          /\ moved.negate = checked.negate /\ moved.negate_used = checked.negate_used
          /\ moved.enabled = checked.enabled
          /\ moved.length = checked.length /\ moved.dac = checked.dac
      BY <1>4, <2>1 DEF SquareChannels
    <2> HIDE DEF moved
    <2>3. /\ d \in SquareChannels /\ d.shift = moved.shift /\ d.negate = moved.negate
          /\ d.negate_used <=> moved.negate_used \/ moved.negate
          /\ d.enabled <=> moved.enabled /\ SweepNext(moved) <= MaxFreq
          /\ d.length = moved.length /\ d.dac = moved.dac
          /\ SweepNext(d) = SweepNext(moved)
      BY <1>8, <2>2, SweepCalculateIs
    <2>4. (Fed(c) => Fed(d)) /\ (NegateKept(c) => NegateKept(d))
      BY <1>3, <1>4, <2>2, <2>3 DEF Fed, NegateKept
    <2>5. d.enabled => NextFits(d) /\ c.enabled
      BY <1>3, <1>4, <2>2, <2>3 DEF NextFits
    <2> QED BY <1>3, <1>4, <2>2, <2>3, <2>4, <2>5 DEF d
  <1> QED BY <1>1, <1>6, <1>7, <1>8 DEF d

LEMMA SquareTriggerFed ==
    ASSUME NEW c \in SquareChannels, NEW with_sweep \in BOOLEAN, c.length > 0
    PROVE  LET d == SquareTrigger(c, with_sweep)
           IN  /\ d \in SquareChannels /\ d.length = c.length
               /\ Fed(d)
               /\ with_sweep => NegateKept(d) /\ (d.enabled => NextFits(d))
  <1> DEFINE env == EnvelopeTrigger(c.env)
             pace == Reload(c.pace)
             on == c.pace # 0 \/ c.shift # 0
             started == [c EXCEPT !.enabled = c.dac, !.env = env]
             swept == [started EXCEPT !.shadow = c.freq, !.sweep_timer = pace,
                                      !.sweep_on = on, !.negate_used = FALSE]
             d == SquareTrigger(c, with_sweep)
  <1>1. /\ ~with_sweep => d = started
        /\ with_sweep => d = IF c.shift # 0 THEN SweepCalculate(swept) ELSE swept
    BY DEF SquareTrigger
  <1>2. env \in Envelopes /\ pace \in 0..IdlePeriod /\ on \in BOOLEAN
    <2>1. c.env \in Envelopes /\ c.pace \in Periods
      BY DEF SquareChannels
    <2>2. on \in BOOLEAN
      BY Zenon
    <2> QED BY <2>1, <2>2, EnvelopeTriggerType, ReloadType, ChannelAssumption
  <1> HIDE DEF env, pace, on, d
  <1>3. /\ started \in SquareChannels /\ started.enabled = c.dac /\ started.dac = c.dac
        /\ started.length = c.length
    BY <1>2 DEF SquareChannels
  <1>4. /\ swept \in SquareChannels /\ swept.enabled = c.dac /\ swept.dac = c.dac
        /\ swept.length = c.length /\ swept.shift = c.shift
        /\ swept.negate_used = FALSE
    BY <1>2 DEF SquareChannels
  <1> HIDE DEF started, swept
  <1>5. CASE ~with_sweep
    BY <1>1, <1>3, <1>5 DEF Fed, d
  <1>6. CASE with_sweep /\ c.shift = 0
    <2>1. d = swept
      BY <1>1, <1>6
    <2> QED BY <1>4, <1>6, <2>1 DEF Fed, NegateKept, NextFits, d
  <1>7. CASE with_sweep /\ c.shift # 0
    <2>1. d = SweepCalculate(swept)
      BY <1>1, <1>7
    <2>2. /\ d \in SquareChannels /\ d.negate = swept.negate
          /\ d.negate_used <=> swept.negate_used \/ swept.negate
          /\ d.enabled <=> swept.enabled /\ SweepNext(swept) <= MaxFreq
          /\ d.length = swept.length /\ d.dac = swept.dac
          /\ SweepNext(d) = SweepNext(swept)
      BY <1>4, <2>1, SweepCalculateIs
    <2>3. Fed(d) /\ NegateKept(d) /\ (d.enabled => NextFits(d))
      BY <1>4, <2>2 DEF Fed, NegateKept, NextFits
    <2> QED BY <1>4, <2>2, <2>3 DEF d
  <1> QED BY <1>5, <1>6, <1>7

LEMMA WriteSweepFed ==
    ASSUME NEW c \in SquareChannels, NEW pace \in Periods, NEW negate \in BOOLEAN,
           NEW shift \in DOMAIN ShiftScale
    PROVE  LET d == WriteSweep(c, pace, negate, shift)
           IN  /\ d \in SquareChannels /\ d.length = c.length
               /\ Fed(c) => Fed(d)
               /\ NegateKept(d)
               /\ d.enabled => c.enabled
               /\ d.shadow = c.shadow
  <1> DEFINE e == c.enabled /\ (c.negate_used => negate)
             d == WriteSweep(c, pace, negate, shift)
  <1>1. d = [c EXCEPT !.pace = pace, !.negate = negate, !.shift = shift, !.enabled = e]
    BY DEF WriteSweep
  <1>2. e \in BOOLEAN
    BY Zenon
  <1>3. e => c.enabled /\ (c.negate_used => negate)
    BY Zenon
  <1> HIDE DEF e, d
  <1>4. /\ d \in SquareChannels /\ d.negate = negate /\ d.negate_used = c.negate_used
        /\ d.enabled = e /\ d.length = c.length /\ d.dac = c.dac /\ d.shadow = c.shadow
    BY <1>1, <1>2 DEF SquareChannels
  <1> QED BY <1>3, <1>4 DEF Fed, NegateKept, d

----------------------------------------------------------------------------
(* The wave channel.                                                       *)

LEMMA WavePeriodType ==
    ASSUME NEW freq \in 0..MaxFreq
    PROVE  WavePeriod(freq) \in 1..WavePeriod(0)
  BY ChannelAssumption DEF WavePeriod

LEMMA WaveStepFed ==
    ASSUME NEW c \in WaveChannels, NEW n \in Nat
    PROVE  LET d == WaveStep(c, n)
           IN  /\ d \in WaveChannels /\ d.length = c.length
               /\ Fed(c) => Fed(d)
  <1> DEFINE p == WavePeriod(c.freq)
             over == n - c.timer
             d == WaveStep(c, n)
             late == p - (over % p)
             position == (c.position + 1 + over \div p) % (2 * WaveBytes)
             latched == (over % p) = 0
  <1>1. d = IF over < 0 THEN [c EXCEPT !.timer = c.timer - n, !.latched = FALSE]
            ELSE [c EXCEPT !.timer = late, !.position = position, !.latched = latched]
    BY DEF WaveStep
  <1>2. /\ c.timer \in 1..WavePeriod(0) /\ c.position \in Positions /\ c.freq \in 0..MaxFreq
        /\ WavePeriod(0) \in Nat
    BY ChannelAssumption DEF WaveChannels, WavePeriod
  <1>3. p \in 1..WavePeriod(0) /\ p \in Nat \ {0}
    BY <1>2, WavePeriodType
  <1>4. over \in Int
    BY <1>2
  <1> HIDE DEF p, over, d
  <1>5. CASE over < 0
    <2>1. c.timer - n \in 1..WavePeriod(0)
      BY <1>2, <1>5 DEF over
    <2>2. [c EXCEPT !.timer = c.timer - n, !.latched = FALSE] \in WaveChannels
      BY <2>1 DEF WaveChannels
    <2>3. d = [c EXCEPT !.timer = c.timer - n, !.latched = FALSE]
      BY <1>1, <1>5
    <2>4. d.length = c.length /\ d.enabled = c.enabled /\ d.dac = c.dac
      BY <2>3 DEF WaveChannels
    <2> QED BY <2>2, <2>3, <2>4 DEF d, Fed
  <1>6. CASE over >= 0
    <2>1. over % p \in 0..(p - 1) /\ over \div p \in Nat
      <3>1. over % p \in 0..(p - 1)
        BY <1>3, <1>4, Remainder
      <3>2. over \div p \in Nat
        BY <1>3, <1>4, <1>6, QuotientBelow
      <3> QED BY <3>1, <3>2
    <2>2. late \in 1..WavePeriod(0)
      BY <1>2, <1>3, <2>1
    <2>3. position \in Positions
      <3>1. 2 * WaveBytes \in Nat \ {0}
        BY WaveAssumption
      <3>2. c.position + 1 + over \div p \in Int
        BY <1>2, <2>1 DEF Positions
      <3> QED BY <3>1, <3>2, Remainder DEF Positions
    <2>4. latched \in BOOLEAN
      BY Zenon
    <2> HIDE DEF late, position, latched
    <2>5. d = [c EXCEPT !.timer = late, !.position = position, !.latched = latched]
      BY <1>1, <1>4, <1>6
    <2>6. d \in WaveChannels /\ d.length = c.length /\ d.enabled = c.enabled /\ d.dac = c.dac
      BY <2>2, <2>3, <2>4, <2>5 DEF WaveChannels
    <2> QED BY <2>6 DEF d, Fed
  <1> QED BY <1>4, <1>5, <1>6

LEMMA WaveTriggerFed ==
    ASSUME NEW c \in WaveChannels, c.length > 0
    PROVE  LET d == WaveTrigger(c)
           IN  d \in WaveChannels /\ d.length = c.length /\ Fed(d)
  <1> DEFINE p == WavePeriod(c.freq)
             d == WaveTrigger(c)
  <1>1. d = [c EXCEPT !.enabled = c.dac, !.position = 0, !.timer = p]
    BY DEF WaveTrigger
  <1>2. p \in 1..WavePeriod(0)
    BY WavePeriodType DEF WaveChannels
  <1>3. 0 \in Positions
    BY WaveAssumption DEF Positions
  <1> HIDE DEF p, d
  <1>4. /\ d \in WaveChannels /\ d.length = c.length /\ d.enabled = c.dac /\ d.dac = c.dac
    BY <1>1, <1>2, <1>3 DEF WaveChannels
  <1> QED BY <1>4 DEF d, Fed

(* Wave RAM keeps its size, whatever reaches it. *)
LEMMA WriteWaveType ==
    ASSUME NEW ram \in [0..(WaveBytes - 1) -> Bytes], NEW c, NEW i, NEW b \in Bytes
    PROVE  WriteWave(ram, c, i, b) \in [0..(WaveBytes - 1) -> Bytes]
  BY DEF WriteWave

LEMMA CorruptWaveType ==
    ASSUME NEW ram \in [0..(WaveBytes - 1) -> Bytes], NEW c \in WaveChannels
    PROVE  CorruptWave(ram, c) \in [0..(WaveBytes - 1) -> Bytes]
  <1> DEFINE next == (c.position + 1) % (2 * WaveBytes)
             i == next \div 2
             base == i - (i % RowBytes)
  <1>1. next \in 0..(2 * WaveBytes - 1)
    <2>1. 2 * WaveBytes \in Nat \ {0} /\ c.position + 1 \in Int
      BY WaveAssumption DEF WaveChannels, Positions
    <2> QED BY <2>1, Remainder
  <1> HIDE DEF next
  <1>2. i \in 0..(WaveBytes - 1)
    BY <1>1, WaveAssumption
  <1> HIDE DEF i
  <1>3. ASSUME NEW j \in 0..(RowBytes - 1)
        PROVE  base + j \in 0..(WaveBytes - 1)
    BY <1>2, RowFits, WaveAssumption
  <1>4. ASSUME NEW j \in 0..(WaveBytes - 1)
        PROVE  (CASE i < RowBytes /\ j = 0 -> ram[i]
                  [] i >= RowBytes /\ j < RowBytes -> ram[base + j]
                  [] OTHER -> ram[j]) \in Bytes
    <2>1. j < RowBytes => j \in 0..(RowBytes - 1)
      BY WaveAssumption
    <2> HIDE DEF base
    <2> QED BY <1>2, <1>3, <2>1
  <1>5. CorruptWave(ram, c)
            = [j \in DOMAIN ram |->
                CASE i < RowBytes /\ j = 0 -> ram[i]
                  [] i >= RowBytes /\ j < RowBytes -> ram[base + j]
                  [] OTHER -> ram[j]]
    BY DEF CorruptWave, i, next
  <1> HIDE DEF base
  <1> QED BY <1>4, <1>5

----------------------------------------------------------------------------
(* The noise channel.                                                      *)

(* Something is left in the part of the register that feeds it. *)
Alive(c) ==
    /\ \E i \in Cells : c.lfsr[i]
    /\ c.width => \E i \in 0..(ShortBits - 1) : c.lfsr[i]

LEMMA NoiseTriggerFed ==
    ASSUME NEW c \in NoiseChannels, c.length > 0
    PROVE  LET d == NoiseTrigger(c)
           IN  d \in NoiseChannels /\ d.length = c.length /\ Fed(d) /\ Alive(d)
  <1> DEFINE env == EnvelopeTrigger(c.env)
             d == NoiseTrigger(c)
  <1>1. d = [c EXCEPT !.enabled = c.dac, !.env = env, !.lfsr = Ones]
    BY DEF NoiseTrigger
  <1>2. env \in Envelopes /\ Ones \in [Cells -> BOOLEAN]
    BY EnvelopeTriggerType DEF NoiseChannels, Ones
  <1> HIDE DEF env, d
  <1>3. /\ d \in NoiseChannels /\ d.length = c.length /\ d.enabled = c.dac /\ d.dac = c.dac
        /\ d.lfsr = Ones
    BY <1>1, <1>2 DEF NoiseChannels
  <1>4. 0 \in Cells /\ 0 \in 0..(ShortBits - 1)
    BY NoiseAssumption DEF Cells
  <1>5. Alive(d)
    BY <1>3, <1>4 DEF Alive, Ones
  <1> QED BY <1>3, <1>5 DEF Fed, d

LEMMA ShiftedAlive ==
    ASSUME NEW c \in NoiseChannels
    PROVE  LET d == [c EXCEPT !.lfsr = Shifted(c)]
           IN  /\ d \in NoiseChannels /\ d.length = c.length
               /\ Fed(c) => Fed(d)
               /\ Alive(c) => Alive(d)
  <1> DEFINE l == Shifted(c)
             d == [c EXCEPT !.lfsr = l]
  <1>1. c.lfsr \in [Cells -> BOOLEAN] /\ c.width \in BOOLEAN
    BY DEF NoiseChannels
  <1>2. LongBits \in Nat /\ ShortBits \in Nat /\ ShortBits >= 2 /\ ShortBits < LongBits
    BY NoiseAssumption
  <1>3. \A i \in Cells :
            /\ i = LongBits - 1 \/ (c.width /\ i = ShortBits - 1)
                    => (l[i] <=> (c.lfsr[0] # c.lfsr[1]))
            /\ ~(i = LongBits - 1 \/ (c.width /\ i = ShortBits - 1)) => l[i] = c.lfsr[i + 1]
    BY DEF Shifted
  <1>4. l \in [Cells -> BOOLEAN]
    <2>1. ASSUME NEW i \in Cells
          PROVE  (IF i = LongBits - 1 \/ (c.width /\ i = ShortBits - 1)
                  THEN c.lfsr[0] # c.lfsr[1] ELSE c.lfsr[i + 1]) \in BOOLEAN
      <3>1. CASE i = LongBits - 1 \/ (c.width /\ i = ShortBits - 1)
        BY <3>1, Zenon
      <3>2. CASE ~(i = LongBits - 1 \/ (c.width /\ i = ShortBits - 1))
        <4>1. i + 1 \in Cells
          BY <1>2, <3>2 DEF Cells
        <4> QED BY <1>1, <3>2, <4>1
      <3> QED BY <3>1, <3>2
    <2> QED BY <2>1 DEF Shifted
  <1> HIDE DEF l
  <1>5. /\ d \in NoiseChannels /\ d.length = c.length /\ d.enabled = c.enabled /\ d.dac = c.dac
        /\ d.lfsr = l /\ d.width = c.width
    BY <1>4 DEF NoiseChannels
  <1> HIDE DEF d
  <1> DEFINE n == IF c.width THEN ShortBits ELSE LongBits
  <1>6. /\ n \in Nat /\ n >= 2 /\ n <= LongBits
        /\ n - 1 = LongBits - 1 \/ (c.width /\ n - 1 = ShortBits - 1)
        /\ \A j \in 0..(n - 2) : ~(j = LongBits - 1 \/ (c.width /\ j = ShortBits - 1))
    BY <1>2
  <1> HIDE DEF n
  <1>7. /\ l[n - 1] <=> (c.lfsr[0] # c.lfsr[1])
        /\ \A j \in 0..(n - 2) : l[j] = c.lfsr[j + 1]
    <2>1. n - 1 \in Cells /\ \A j \in 0..(n - 2) : j \in Cells
      BY <1>2, <1>6 DEF Cells
    <2> QED BY <1>3, <1>6, <2>1
  <1>8. ASSUME \E i \in 0..(n - 1) : c.lfsr[i]
        PROVE  \E i \in 0..(n - 1) : l[i]
    <2>1. PICK i \in 0..(n - 1) : c.lfsr[i]
      BY <1>8
    <2>2. n - 1 \in 0..(n - 1) /\ 0 \in 0..(n - 2) /\ 0 \in 0..(n - 1) /\ 0 + 1 = 1
      BY <1>6
    <2>3. CASE c.lfsr[0] # c.lfsr[1]
      BY <1>7, <2>2, <2>3
    <2>4. CASE c.lfsr[0] = c.lfsr[1] /\ c.lfsr[0]
      <3>1. l[0] = c.lfsr[0 + 1]
        BY <1>7, <2>2
      <3> QED BY <2>2, <2>4, <3>1
    <2>5. CASE c.lfsr[0] = c.lfsr[1] /\ ~c.lfsr[0]
      <3>1. i # 0
        BY <2>1, <2>5
      <3>2. i - 1 \in 0..(n - 2) /\ i - 1 \in 0..(n - 1) /\ i - 1 + 1 = i
        BY <1>6, <3>1
      <3>3. l[i - 1] = c.lfsr[i]
        BY <1>7, <3>2
      <3> QED BY <2>1, <3>2, <3>3
    <2> QED BY <2>3, <2>4, <2>5
  <1>9. ASSUME Alive(c) PROVE Alive(d)
    <2>1. \E i \in 0..(n - 1) : c.lfsr[i]
      BY <1>9 DEF Alive, Cells, n
    <2>2. \E i \in 0..(n - 1) : l[i]
      BY <1>8, <2>1
    <2>3. \E i \in Cells : l[i]
      BY <1>2, <1>6, <2>2 DEF Cells
    <2>4. c.width => \E i \in 0..(ShortBits - 1) : l[i]
      BY <2>2 DEF n
    <2> QED BY <1>5, <2>3, <2>4 DEF Alive
  <1> QED BY <1>5, <1>9 DEF Fed, d, l

----------------------------------------------------------------------------
(* The wave channel a T-cycle at a time and a tick at a time.              *)

(* Sets of naturals have a least member: what stands for induction here.   *)
LEMMA Least ==
    ASSUME NEW T \in SUBSET Nat, T # {}
    PROVE  \E m \in T : \A n \in T : m <= n
  <1> DEFINE R == OpToRel(<, Nat)
  <1>1. IsWellFoundedOn(R, Nat)
    BY NatLessThanWellFounded
  <1>2. PICK m \in T : \A n \in T : ~(<<n, m>> \in R)
    BY <1>1, WFMin
  <1>3. \A n \in T : ~(n < m)
    BY <1>2 DEF OpToRel
  <1> QED BY <1>3

(* Quotient and remainder of c by h exist, within their bounds. *)
LEMMA DivMod ==
    ASSUME NEW c \in Nat, NEW h \in Nat \ {0}
    PROVE  /\ c \div h \in Nat
           /\ c % h \in 0..(h - 1)
           /\ c = (h * (c \div h)) + (c % h)
  OBVIOUS

(* They are the only ones. *)
LEMMA DivModUnique ==
    ASSUME NEW c \in Nat, NEW h \in Nat \ {0},
           NEW q \in Nat, NEW r \in 0..(h - 1), c = (h * q) + r
    PROVE  c \div h = q /\ c % h = r
  OBVIOUS

(* The remainder of the next number. *)
LEMMA NextRemainder ==
    ASSUME NEW n \in Nat \ {0}, NEW x \in Nat
    PROVE  (x + 1) % n = IF x % n = n - 1 THEN 0 ELSE (x % n) + 1
  <1> DEFINE q == x \div n
             r == x % n
  <1>1. q \in Nat /\ r \in 0..(n - 1) /\ x = (n * q) + r
    BY DivMod
  <1> HIDE DEF q, r
  <1>2. CASE r = n - 1
    <2>1. x + 1 = (n * (q + 1)) + 0 /\ q + 1 \in Nat /\ 0 \in 0..(n - 1) /\ x + 1 \in Nat
      BY <1>1, <1>2
    <2>2. (x + 1) % n = 0
      BY <2>1, DivModUnique
    <2> QED BY <1>2, <2>2 DEF r
  <1>3. CASE r # n - 1
    <2>1. x + 1 = (n * q) + (r + 1) /\ r + 1 \in 0..(n - 1) /\ x + 1 \in Nat
      BY <1>1, <1>3
    <2>2. (x + 1) % n = r + 1
      BY <1>1, <2>1, DivModUnique
    <2> QED BY <1>3, <2>2 DEF r
  <1> QED BY <1>2, <1>3

(* The timer and whether it fetched, after k T-cycles. *)
After(c, k) ==
    LET p == WavePeriod(c.freq)
    IN  IF k < c.timer THEN [timer |-> c.timer - k, fetch |-> FALSE]
        ELSE [timer |-> p - ((k - c.timer) % p), fetch |-> (k - c.timer) % p = 0]

(* FetchesLast runs a function r of which this is so. *)
Runs(c, n, r) ==
    [k \in 0..n |->
        IF k = 0 THEN [timer |-> c.timer, fetch |-> FALSE]
        ELSE IF r[k - 1].timer > 1
             THEN [timer |-> r[k - 1].timer - 1, fetch |-> FALSE]
             ELSE [timer |-> WavePeriod(c.freq), fetch |-> TRUE]]

LEMMA AfterNext ==
    ASSUME NEW c \in WaveChannels, NEW k \in Nat
    PROVE  /\ After(c, 0) = [timer |-> c.timer, fetch |-> FALSE]
           /\ After(c, k + 1) = IF After(c, k).timer > 1
                                THEN [timer |-> After(c, k).timer - 1, fetch |-> FALSE]
                                ELSE [timer |-> WavePeriod(c.freq), fetch |-> TRUE]
  <1> DEFINE p == WavePeriod(c.freq)
             t == c.timer
  <1>1. p \in Nat \ {0} /\ t \in Nat \ {0}
    BY WavePeriodType, ChannelAssumption DEF WaveChannels, WavePeriod
  <1>2. \A j \in Nat : After(c, j) = IF j < t THEN [timer |-> t - j, fetch |-> FALSE]
                       ELSE [timer |-> p - ((j - t) % p), fetch |-> (j - t) % p = 0]
    BY DEF After
  <1> HIDE DEF p, t
  <1>3. After(c, 0) = [timer |-> t, fetch |-> FALSE]
    BY <1>1, <1>2
  <1>4. 0 % p = 0
    BY <1>1
  <1>5. CASE k + 1 < t
    <2>1. k < t /\ k + 1 \in Nat /\ t - k > 1 /\ t - (k + 1) = t - k - 1
      BY <1>1, <1>5
    <2>2. After(c, k) = [timer |-> t - k, fetch |-> FALSE]
      BY <1>2, <2>1, Zenon
    <2>3. After(c, k + 1) = [timer |-> t - (k + 1), fetch |-> FALSE]
      BY <1>2, <1>5, <2>1, Zenon
    <2>4. After(c, k).timer = t - k
      BY <2>2
    <2> HIDE DEF After
    <2> QED BY <1>3, <2>1, <2>3, <2>4 DEF p, t
  <1>6. CASE k + 1 = t
    <2>1. After(c, k) = [timer |-> 1, fetch |-> FALSE]
      BY <1>1, <1>2, <1>6
    <2>2. After(c, k + 1) = [timer |-> p, fetch |-> TRUE]
      <3>1. (k + 1) - t = 0 /\ ~(k + 1 < t) /\ k + 1 \in Nat
        BY <1>1, <1>6
      <3>2. After(c, k + 1) = [timer |-> p - (0 % p), fetch |-> 0 % p = 0]
        BY <1>2, <3>1
      <3>3. (0 % p = 0) = TRUE /\ p - (0 % p) = p
        <4>1. p - (0 % p) = p
          BY <1>1, <1>4
        <4> QED BY <1>4, <4>1, Zenon
      <3> QED BY <3>2, <3>3, Zenon
    <2> QED BY <1>3, <2>1, <2>2 DEF p, t
  <1>7. CASE t <= k
    <2> DEFINE x == k - t
               r == x % p
    <2>1. x \in Nat /\ r \in 0..(p - 1) /\ (k + 1) - t = x + 1 /\ ~(k < t) /\ ~(k + 1 < t)
      BY <1>1, <1>7, Remainder
    <2>2. (x + 1) % p = IF r = p - 1 THEN 0 ELSE r + 1
      BY <1>1, <2>1, NextRemainder
    <2> DEFINE s == (x + 1) % p
    <2>3. After(c, k) = [timer |-> p - r, fetch |-> r = 0]
      BY <1>2, <2>1
    <2>4. After(c, k + 1) = [timer |-> p - s, fetch |-> s = 0]
      BY <1>2, <2>1
    <2>5. s = IF r = p - 1 THEN 0 ELSE r + 1
      BY <2>2
    <2> HIDE DEF x, r, s
    <2>6. CASE r = p - 1
      <3>1. After(c, k).timer = 1 /\ s = 0 /\ p - s = p
        BY <1>1, <2>3, <2>5, <2>6
      <3>2. (s = 0) = TRUE
        BY <3>1, Zenon
      <3>3. After(c, k + 1) = [timer |-> p, fetch |-> TRUE]
        BY <2>4, <3>1, <3>2, Zenon
      <3> QED BY <1>3, <3>1, <3>3 DEF p, t
    <2>7. CASE r # p - 1
      <3>1. After(c, k).timer = p - r /\ p - r > 1 /\ s # 0 /\ p - s = p - r - 1
        BY <1>1, <2>1, <2>3, <2>5, <2>7
      <3>2. After(c, k + 1) = [timer |-> p - r - 1, fetch |-> FALSE]
        <4>1. (s = 0) = FALSE
          BY <3>1, Zenon
        <4> QED BY <2>4, <3>1, <4>1, Zenon
      <3> QED BY <1>3, <3>1, <3>2 DEF p, t
    <2> QED BY <2>6, <2>7
  <1> QED BY <1>1, <1>5, <1>6, <1>7

LEMMA RunsAre ==
    ASSUME NEW c \in WaveChannels, NEW n \in Nat, NEW r, r = Runs(c, n, r)
    PROVE  r[n] = After(c, n)
  <1> DEFINE Wrong == {k \in 0..n : r[k] # After(c, k)}
  <1> SUFFICES ASSUME Wrong # {} PROVE FALSE
    BY DEF Wrong
  <1>1. PICK m \in Wrong : \A k \in Wrong : m <= k
    <2>1. Wrong \in SUBSET Nat
      OBVIOUS
    <2> HIDE DEF Wrong
    <2> QED BY <2>1, Least
  <1>2. m \in 0..n /\ r[m] # After(c, m)
    OBVIOUS
  <1>3. r[0] = [timer |-> c.timer, fetch |-> FALSE] /\ 0 \in 0..n
    BY DEF Runs
  <1>4. m # 0
    BY <1>2, <1>3, AfterNext
  <1>5. m - 1 \in 0..n /\ m - 1 \in Nat /\ (m - 1) + 1 = m /\ ~(m <= m - 1)
    BY <1>2, <1>4
  <1>6. r[m - 1] = After(c, m - 1)
    BY <1>1, <1>5
  <1>7. r[m] = IF r[m - 1].timer > 1
               THEN [timer |-> r[m - 1].timer - 1, fetch |-> FALSE]
               ELSE [timer |-> WavePeriod(c.freq), fetch |-> TRUE]
    BY <1>2, <1>4 DEF Runs
  <1>8. r[m] = After(c, m)
    BY <1>5, <1>6, <1>7, AfterNext
  <1> QED BY <1>2, <1>8

LEMMA RunsExist ==
    ASSUME NEW c \in WaveChannels, NEW n \in Nat
    PROVE  \E r : r = Runs(c, n, r)
  <1> DEFINE r == [k \in 0..n |-> After(c, k)]
  <1>1. ASSUME NEW k \in 0..n
        PROVE  After(c, k) = IF k = 0 THEN [timer |-> c.timer, fetch |-> FALSE]
                             ELSE IF r[k - 1].timer > 1
                                  THEN [timer |-> r[k - 1].timer - 1, fetch |-> FALSE]
                                  ELSE [timer |-> WavePeriod(c.freq), fetch |-> TRUE]
    <2>1. CASE k = 0
      BY <2>1, AfterNext
    <2>2. CASE k # 0
      <3>1. k - 1 \in 0..n /\ k - 1 \in Nat /\ (k - 1) + 1 = k
        BY <2>2
      <3>2. r[k - 1] = After(c, k - 1)
        BY <3>1
      <3> HIDE DEF r
      <3> QED BY <2>2, <3>1, <3>2, AfterNext
    <2> QED BY <2>1, <2>2
  <1>2. r = Runs(c, n, r)
    BY <1>1 DEF Runs
  <1> QED BY <1>2

(* A tick of n T-cycles marks the byte exactly if the last of them fetched. *)
LEMMA MarksTheFetch ==
    ASSUME NEW c \in WaveChannels, NEW n \in Nat
    PROVE  WaveStep(c, n).latched = FetchesLast(c, n)
  <1> DEFINE run == CHOOSE r : r = Runs(c, n, r)
  <1>1. FetchesLast(c, n) = run[n].fetch
    BY DEF FetchesLast, Runs
  <1>2. run = Runs(c, n, run)
    <2>1. \E r : r = Runs(c, n, r)
      BY RunsExist
    <2> QED BY <2>1
  <1> HIDE DEF run
  <1>3. run[n] = After(c, n)
    BY <1>2, RunsAre
  <1> DEFINE p == WavePeriod(c.freq)
             t == c.timer
             position == (c.position + 1 + (n - t) \div p) % (2 * WaveBytes)
             late == p - ((n - t) % p)
             mark == (n - t) % p = 0
  <1>4. t \in Nat
    BY ChannelAssumption DEF WaveChannels
  <1>5. WaveStep(c, n) = IF n - t < 0 THEN [c EXCEPT !.timer = c.timer - n, !.latched = FALSE]
            ELSE [c EXCEPT !.timer = late, !.position = position, !.latched = mark]
    BY DEF WaveStep
  <1>6. After(c, n).fetch = IF n < t THEN FALSE ELSE mark
    BY DEF After
  <1> HIDE DEF p, t, position, late, mark
  <1>7. CASE n < t
    <2>1. n - t < 0
      BY <1>4, <1>7
    <2>2. WaveStep(c, n).latched = FALSE
      BY <1>5, <2>1 DEF WaveChannels
    <2> QED BY <1>1, <1>3, <1>6, <1>7, <2>2, Zenon
  <1>8. CASE ~(n < t)
    <2>1. ~(n - t < 0)
      BY <1>4, <1>8
    <2>2. WaveStep(c, n).latched = mark
      BY <1>5, <2>1, Zenon DEF WaveChannels
    <2> QED BY <1>1, <1>3, <1>6, <1>8, <2>2, Zenon
  <1> QED BY <1>7, <1>8

----------------------------------------------------------------------------
(* A channel of any kind.                                                  *)

KindOf(w) ==
    CASE w \in {1, 2} -> SquareChannels
      [] w = 3 -> WaveChannels
      [] w = 4 -> NoiseChannels

(* What holds of channel w, r telling whether its register was made short. *)
Right(w, c, r) ==
    /\ c \in KindOf(w)
    /\ c.length \in 0..MaxLength[w]
    /\ Fed(c)
    /\ w = 1 => NegateKept(c)
    /\ w = 4 /\ ~r => Alive(c)

LEMMA KindsOf ==
    ASSUME NEW w \in 1..4
    PROVE  /\ KindOf(w) \in Kinds
           /\ w \in {1, 2} => KindOf(w) = SquareChannels
           /\ w = 3 => KindOf(w) = WaveChannels
           /\ w = 4 => KindOf(w) = NoiseChannels
  BY DEF KindOf, Kinds

LEMMA MaxLengths ==
    ASSUME NEW w \in 1..4
    PROVE  MaxLength[w] \in Nat /\ MaxLength[w] > 1
  BY ApuAssumption

(* A change of anything that Right does not look at. *)
LEMMA RightKept ==
    ASSUME NEW w \in 1..4, NEW c, NEW d, NEW r \in BOOLEAN, Right(w, c, r),
           d \in KindOf(w), d.length \in 0..MaxLength[w], Fed(d), d.enabled => c.enabled,
           w \in {1, 2} => SameSweep(d, c), w = 4 => SameNoise(d, c)
    PROVE  Right(w, d, r)
  <1>1. w = 1 => NegateKept(d)
    BY DEF Right, NegateKept, SameSweep
  <1>2. w = 4 /\ ~r => Alive(d)
    BY DEF Right, Alive, SameNoise
  <1> QED BY <1>1, <1>2 DEF Right

LEMMA NextFitsKept ==
    ASSUME NEW c, NEW d, SameSweep(d, c), NextFits(c)
    PROVE  NextFits(d)
  BY DEF SameSweep, NextFits, SweepNext

LEMMA ClockLengthRight ==
    ASSUME NEW w \in 1..4, NEW c, NEW r \in BOOLEAN, Right(w, c, r)
    PROVE  LET d == ClockLength(c)
           IN  /\ Right(w, d, r) /\ (d.enabled => c.enabled)
               /\ w \in {1, 2} => SameSweep(d, c)
  <1> DEFINE d == ClockLength(c)
  <1>1. KindOf(w) \in Kinds /\ c \in KindOf(w) /\ c.length \in 0..MaxLength[w] /\ Fed(c)
    BY KindsOf DEF Right
  <1>2. /\ d \in KindOf(w) /\ d.length <= c.length /\ Fed(d) /\ (d.enabled => c.enabled)
    BY <1>1, ClockLengthFed
  <1>3. w \in {1, 2} => SameSweep(d, c)
    BY <1>1, KindsOf, SameSweepKept
  <1>4. w = 4 => SameNoise(d, c)
    BY <1>1, KindsOf, SameNoiseKept
  <1>5. d.length \in Nat
    BY <1>1, <1>2, CommonFields
  <1> HIDE DEF d
  <1>6. d.length \in 0..MaxLength[w]
    BY <1>1, <1>2, <1>5, MaxLengths
  <1>7. Right(w, d, r)
    BY <1>2, <1>3, <1>4, <1>6, RightKept
  <1> QED BY <1>2, <1>3, <1>7 DEF d

LEMMA ClockSweepRight ==
    ASSUME who \in 1..4, NEW c, NEW r \in BOOLEAN, Right(who, c, r), NEW s \in 0..7
    PROVE  LET d == ClockSweep(c, s)
           IN  /\ Right(who, d, r) /\ (d.enabled => c.enabled)
               /\ who = 1 /\ d.enabled /\ d.shadow # c.shadow => NextFits(d)
  <1>1. CASE who = 1 /\ s \in {2, 6}
    <2> DEFINE d == SweepClock(c)
    <2>1. ClockSweep(c, s) = d
      BY <1>1 DEF ClockSweep
    <2>2. c \in SquareChannels /\ Fed(c) /\ NegateKept(c) /\ c.length \in 0..MaxLength[who]
      BY <1>1, KindsOf DEF Right
    <2>3. /\ d \in SquareChannels /\ d.length = c.length /\ Fed(d) /\ NegateKept(d)
          /\ d.enabled => c.enabled
          /\ d.enabled /\ d.shadow # c.shadow => NextFits(d)
      BY <2>2, SweepClockFed
    <2> HIDE DEF d
    <2>4. Right(who, d, r)
      BY <1>1, <2>2, <2>3, KindsOf DEF Right
    <2> QED BY <2>1, <2>3, <2>4
  <1>2. CASE ~(who = 1 /\ s \in {2, 6})
    BY <1>2 DEF ClockSweep
  <1> QED BY <1>1, <1>2

LEMMA ClockEnvelopeRight ==
    ASSUME who \in 1..4, NEW c, NEW r \in BOOLEAN, Right(who, c, r), NEW s \in 0..7
    PROVE  LET d == ClockEnvelope(c, s)
           IN  /\ Right(who, d, r) /\ (d.enabled => c.enabled)
               /\ who \in {1, 2} => SameSweep(d, c)
  <1>1. CASE who \in WithEnvelope /\ s = 7
    <2> DEFINE e == EnvelopeClock(c.env)
               d == [c EXCEPT !.env = e]
    <2>1. ClockEnvelope(c, s) = d
      BY <1>1 DEF ClockEnvelope
    <2>2. who \in {1, 2} \/ who = 4
      BY <1>1, ApuAssumption
    <2>3. c \in KindOf(who) /\ c.length \in 0..MaxLength[who] /\ Fed(c)
      BY DEF Right
    <2>4. e \in Envelopes
      <3>1. c.env \in Envelopes
        <4>1. who \in {1, 2} => c \in SquareChannels
          BY <2>3, KindsOf
        <4>2. who = 4 => c \in NoiseChannels
          BY <2>3, KindsOf
        <4> QED BY <2>2, <4>1, <4>2 DEF SquareChannels, NoiseChannels
      <3> QED BY <3>1, EnvelopeClockType
    <2> HIDE DEF e
    <2>5. /\ d \in KindOf(who) /\ d.enabled = c.enabled /\ d.length = c.length
          /\ d.dac = c.dac
          /\ who \in {1, 2} => SameSweep(d, c)
          /\ who = 4 => SameNoise(d, c)
      <3>1. CASE who \in {1, 2}
        <4>1. c \in SquareChannels /\ KindOf(who) = SquareChannels
          BY <2>3, <3>1, KindsOf
        <4> QED BY <2>4, <3>1, <4>1, WithEnv
      <3>2. CASE who = 4
        <4>1. c \in NoiseChannels /\ KindOf(who) = NoiseChannels
          BY <2>3, <3>2, KindsOf
        <4> QED BY <2>4, <3>2, <4>1, WithEnv
      <3> QED BY <2>2, <3>1, <3>2
    <2> HIDE DEF d
    <2>6. Fed(d)
      BY <2>3, <2>5 DEF Fed
    <2>7. Right(who, d, r)
      BY <2>3, <2>5, <2>6, RightKept
    <2> QED BY <2>1, <2>5, <2>7
  <1>2. CASE ~(who \in WithEnvelope /\ s = 7)
    BY <1>2 DEF ClockEnvelope, SameSweep
  <1> QED BY <1>1, <1>2

LEMMA ClockChannelRight ==
    ASSUME who \in 1..4, NEW c, NEW r \in BOOLEAN, Right(who, c, r), NEW s \in 0..7
    PROVE  LET d == ClockChannel(c, s)
           IN  /\ Right(who, d, r) /\ (d.enabled => c.enabled)
               /\ who = 1 /\ d.enabled /\ d.shadow # c.shadow => NextFits(d)
  <1> DEFINE a == IF s % 2 = 0 THEN ClockLength(c) ELSE c
             b == ClockSweep(a, s)
             d == ClockEnvelope(b, s)
  <1>1. /\ Right(who, a, r) /\ (a.enabled => c.enabled)
        /\ who \in {1, 2} => a.shadow = c.shadow
    BY ClockLengthRight DEF SameSweep
  <1> HIDE DEF a
  <1>2. /\ Right(who, b, r) /\ (b.enabled => a.enabled)
        /\ who = 1 /\ b.enabled /\ b.shadow # a.shadow => NextFits(b)
    BY <1>1, ClockSweepRight
  <1> HIDE DEF b
  <1>3. /\ Right(who, d, r) /\ (d.enabled => b.enabled)
        /\ who \in {1, 2} => SameSweep(d, b)
    BY <1>2, ClockEnvelopeRight
  <1> HIDE DEF d
  <1>4. who = 1 /\ d.enabled /\ d.shadow # c.shadow => NextFits(d)
    <2>1. who = 1 => SameSweep(d, b) /\ d.shadow = b.shadow
      BY <1>3 DEF SameSweep
    <2> QED BY <1>1, <1>2, <1>3, <2>1, NextFitsKept
  <1>5. ClockChannel(c, s) = d
    BY DEF ClockChannel, a, b, d
  <1> QED BY <1>1, <1>2, <1>3, <1>4, <1>5

LEMMA SteppedRight ==
    ASSUME who \in 1..4, NEW c, NEW r \in BOOLEAN, Right(who, c, r), NEW n \in Nat,
           NEW d \in Stepped(c, n)
    PROVE  Right(who, d, r) /\ (who = 1 => d = c)
  <1>1. CASE who \in {1, 2}
    BY <1>1 DEF Stepped
  <1>2. CASE who = 3
    <2>1. d = c \/ d = WaveStep(c, n)
      BY <1>2 DEF Stepped
    <2>2. CASE d = WaveStep(c, n)
      <3>1. c \in WaveChannels /\ c.length \in 0..MaxLength[who] /\ Fed(c)
        BY <1>2, KindsOf DEF Right
      <3>2. d \in WaveChannels /\ d.length = c.length /\ Fed(d)
        BY <2>2, <3>1, WaveStepFed
      <3> QED BY <1>2, <3>1, <3>2, KindsOf DEF Right
    <2> QED BY <1>2, <2>1, <2>2
  <1>3. CASE who = 4
    <2>1. d = c \/ d = [c EXCEPT !.lfsr = Shifted(c)]
      BY <1>3 DEF Stepped
    <2>2. CASE d = [c EXCEPT !.lfsr = Shifted(c)]
      <3>1. /\ c \in NoiseChannels /\ c.length \in 0..MaxLength[who] /\ Fed(c)
            /\ ~r => Alive(c)
        BY <1>3, KindsOf DEF Right
      <3>2. /\ d \in NoiseChannels /\ d.length = c.length /\ Fed(d)
            /\ Alive(c) => Alive(d)
        BY <2>2, <3>1, ShiftedAlive
      <3> QED BY <1>3, <3>1, <3>2, KindsOf DEF Right
    <2> QED BY <1>3, <2>1, <2>2
  <1> QED BY <1>1, <1>2, <1>3

LEMMA ResetRight ==
    ASSUME who \in 1..4, NEW l \in 0..MaxLength[who]
    PROVE  LET d == [ResetChannel EXCEPT !.length = l]
           IN  /\ Right(who, ResetChannel, FALSE) /\ ~ResetChannel.enabled
               /\ Right(who, d, FALSE) /\ ~d.enabled
  <1>1. 0 \in 0..MaxLength[who] /\ l \in Nat
    BY MaxLengths
  <1>2. CASE who \in {1, 2}
    <2>1. ResetChannel = SquareReset /\ KindOf(who) = SquareChannels
      BY <1>2, KindsOf DEF ResetChannel
    <2>2. SquareReset \in SquareChannels
      BY EnvelopeResetType, ChannelAssumption, SquareAssumption
         DEF SquareReset, SquareChannels, Periods
    <2>3. SquareReset.length = 0 /\ ~SquareReset.enabled
      BY DEF SquareReset
    <2> DEFINE d == [SquareReset EXCEPT !.length = l]
    <2>4. d \in SquareChannels /\ d.length = l /\ d.enabled = SquareReset.enabled
      BY <1>1, <2>2 DEF SquareChannels
    <2> HIDE DEF d
    <2>5. Right(who, SquareReset, FALSE) /\ Right(who, d, FALSE) /\ ~d.enabled
      BY <1>1, <1>2, <2>1, <2>2, <2>3, <2>4 DEF Right, Fed, NegateKept
    <2> QED BY <2>1, <2>3, <2>5 DEF d
  <1>3. CASE who = 3
    <2>1. ResetChannel = WaveReset /\ KindOf(who) = WaveChannels
      BY <1>3, KindsOf DEF ResetChannel
    <2>2. WaveReset \in WaveChannels
      <3>1. WavePeriod(0) \in 1..WavePeriod(0) /\ 0 \in Positions /\ 0 \in 0..MaxFreq
        BY WavePeriodType, ChannelAssumption, WaveAssumption DEF Positions
      <3> QED BY <3>1 DEF WaveReset, WaveChannels
    <2>3. WaveReset.length = 0 /\ ~WaveReset.enabled
      BY DEF WaveReset
    <2> DEFINE d == [WaveReset EXCEPT !.length = l]
    <2>4. d \in WaveChannels /\ d.length = l /\ d.enabled = WaveReset.enabled
      BY <1>1, <2>2 DEF WaveChannels
    <2> HIDE DEF d
    <2>5. Right(who, WaveReset, FALSE) /\ Right(who, d, FALSE) /\ ~d.enabled
      BY <1>1, <1>3, <2>1, <2>2, <2>3, <2>4 DEF Right, Fed
    <2> QED BY <2>1, <2>3, <2>5 DEF d
  <1>4. CASE who = 4
    <2>1. ResetChannel = NoiseReset /\ KindOf(who) = NoiseChannels
      BY <1>4, KindsOf DEF ResetChannel
    <2>2. NoiseReset \in NoiseChannels
      BY EnvelopeResetType DEF NoiseReset, NoiseChannels, Ones
    <2>3. NoiseReset.length = 0 /\ ~NoiseReset.enabled
      BY DEF NoiseReset
    <2> DEFINE d == [NoiseReset EXCEPT !.length = l]
    <2>4. d \in NoiseChannels /\ d.length = l /\ d.enabled = NoiseReset.enabled
          /\ SameNoise(d, NoiseReset)
      BY <1>1, <2>2 DEF NoiseChannels, SameNoise
    <2> HIDE DEF d
    <2>5. Alive(NoiseReset)
      BY NoiseAssumption DEF Alive, NoiseReset, Ones, Cells
    <2>6. Alive(d)
      BY <2>4, <2>5 DEF Alive, SameNoise
    <2>7. Right(who, NoiseReset, FALSE) /\ Right(who, d, FALSE) /\ ~d.enabled
      BY <1>1, <1>4, <2>1, <2>2, <2>3, <2>4, <2>5, <2>6 DEF Right, Fed
    <2>8. Right(who, ResetChannel, FALSE) /\ ~ResetChannel.enabled
      BY <2>1, <2>3, <2>7
    <2>9. [ResetChannel EXCEPT !.length = l] = d
      BY <2>1 DEF d
    <2> HIDE DEF d
    <2>10. /\ Right(who, [ResetChannel EXCEPT !.length = l], FALSE)
           /\ ~[ResetChannel EXCEPT !.length = l].enabled
      BY ONLY <2>7, <2>9
    <2> QED BY ONLY <2>8, <2>10
  <1>5. who \in {1, 2} \/ who = 3 \/ who = 4
    OBVIOUS
  <1> DEFINE goal == /\ Right(who, ResetChannel, FALSE) /\ ~ResetChannel.enabled
                     /\ Right(who, [ResetChannel EXCEPT !.length = l], FALSE)
                     /\ ~[ResetChannel EXCEPT !.length = l].enabled
  <1>6. (who \in {1, 2} => goal) /\ (who = 3 => goal) /\ (who = 4 => goal)
    BY <1>2, <1>3, <1>4
  <1> HIDE DEF goal
  <1>7. goal
    BY <1>5, <1>6
  <1> QED BY <1>7 DEF goal

(* The channel with another frequency. *)
LEMMA WithFreq ==
    ASSUME NEW w \in 1..3, NEW c, NEW r \in BOOLEAN, Right(w, c, r), NEW f \in 0..MaxFreq
    PROVE  LET d == [c EXCEPT !.freq = f]
           IN  /\ Right(w, d, r) /\ d.enabled = c.enabled /\ d.length = c.length
               /\ d.dac = c.dac
               /\ w \in {1, 2} => SameSweep(d, c)
  <1> DEFINE d == [c EXCEPT !.freq = f]
  <1>1. c \in KindOf(w) /\ c.length \in 0..MaxLength[w] /\ Fed(c)
    BY DEF Right
  <1>2. /\ d \in KindOf(w) /\ d.enabled = c.enabled /\ d.length = c.length
        /\ d.dac = c.dac
        /\ w \in {1, 2} => SameSweep(d, c)
    <2>1. CASE w \in {1, 2}
      <3>1. c \in SquareChannels /\ KindOf(w) = SquareChannels
        BY <1>1, <2>1, KindsOf
      <3>2. d \in SquareChannels /\ d.enabled = c.enabled /\ d.length = c.length
            /\ d.dac = c.dac
        BY <3>1 DEF SquareChannels
      <3>3. /\ d.shadow = c.shadow /\ d.shift = c.shift
            /\ d.negate = c.negate /\ d.negate_used = c.negate_used
        BY <3>1 DEF SquareChannels
      <3> HIDE DEF d
      <3> QED BY <3>1, <3>2, <3>3 DEF SameSweep
    <2>2. CASE w = 3
      <3>1. c \in WaveChannels /\ KindOf(w) = WaveChannels
        BY <1>1, <2>2, KindsOf
      <3>2. d \in WaveChannels /\ d.enabled = c.enabled /\ d.length = c.length
            /\ d.dac = c.dac
        BY <3>1 DEF WaveChannels
      <3> HIDE DEF d
      <3>3. w \notin {1, 2}
        BY <2>2
      <3> QED BY <3>1, <3>2, <3>3
    <2> QED BY <2>1, <2>2
  <1> HIDE DEF d
  <1>3. Fed(d)
    BY <1>1, <1>2 DEF Fed
  <1>4. Right(w, d, r)
    BY <1>1, <1>2, <1>3, RightKept
  <1> QED BY <1>2, <1>4 DEF d

(* What RightKept asks for. *)
LEMMA ControlKeeps ==
    ASSUME NEW w \in 1..4, NEW c, NEW r \in BOOLEAN, Right(w, c, r),
           NEW on \in BOOLEAN, NEW trigger \in BOOLEAN, NEW next \in BOOLEAN
    PROVE  LET d == WriteControl(c, on, trigger, MaxLength[w], next)
           IN  /\ d \in KindOf(w) /\ d.length \in 0..MaxLength[w] /\ Fed(d)
               /\ (d.enabled => c.enabled) /\ (trigger => d.length > 0)
               /\ w \in {1, 2} => SameSweep(d, c)
               /\ w = 4 => SameNoise(d, c)
  <1> DEFINE d == WriteControl(c, on, trigger, MaxLength[w], next)
  <1>1. KindOf(w) \in Kinds /\ c \in KindOf(w) /\ c.length \in 0..MaxLength[w] /\ Fed(c)
    BY KindsOf DEF Right
  <1>2. MaxLength[w] \in Nat /\ MaxLength[w] > 1 /\ c.length <= MaxLength[w]
    BY <1>1, MaxLengths
  <1>3. /\ d \in KindOf(w) /\ d.length \in 0..MaxLength[w] /\ Fed(d)
        /\ (d.enabled => c.enabled) /\ (trigger => d.length > 0)
    BY <1>1, <1>2, WriteControlFed, ZenonT(60)
  <1>4. w \in {1, 2} => SameSweep(d, c)
    BY <1>1, <1>2, KindsOf, SameSweepKept
  <1>5. w = 4 => SameNoise(d, c)
    BY <1>1, <1>2, KindsOf, SameNoiseKept
  <1> HIDE DEF d
  <1> QED BY <1>3, <1>4, <1>5 DEF d

LEMMA TriggerRight ==
    ASSUME who \in 1..4, NEW c, NEW r \in BOOLEAN, Right(who, c, r), c.length > 0
    PROVE  LET d == TriggerChannel(c)
           IN  Right(who, d, FALSE) /\ (who = 1 /\ d.enabled => NextFits(d))
  <1> DEFINE d == TriggerChannel(c)
  <1>1. c \in KindOf(who) /\ c.length \in 0..MaxLength[who]
    BY DEF Right
  <1>2. CASE who \in {1, 2}
    <2> DEFINE with_sweep == who = 1
    <2>1. c \in SquareChannels /\ KindOf(who) = SquareChannels /\ with_sweep \in BOOLEAN
      BY <1>1, <1>2, KindsOf
    <2>2. d = SquareTrigger(c, with_sweep)
      BY <1>2 DEF TriggerChannel
    <2> HIDE DEF d, with_sweep
    <2>3. /\ d \in SquareChannels /\ d.length = c.length /\ Fed(d)
          /\ with_sweep => NegateKept(d) /\ (d.enabled => NextFits(d))
      BY <2>1, <2>2, SquareTriggerFed
    <2>4. /\ who = 1 => NegateKept(d) /\ (d.enabled => NextFits(d))
          /\ who # 4
      BY <1>2, <2>3 DEF with_sweep
    <2>5. Right(who, d, FALSE)
      BY <1>1, <2>1, <2>3, <2>4 DEF Right
    <2> QED BY <2>4, <2>5 DEF d
  <1>3. CASE who = 3
    <2>1. c \in WaveChannels /\ KindOf(who) = WaveChannels
      BY <1>1, <1>3, KindsOf
    <2>2. d = WaveTrigger(c)
      BY <1>3 DEF TriggerChannel
    <2> HIDE DEF d
    <2>3. d \in WaveChannels /\ d.length = c.length /\ Fed(d)
      BY <2>1, <2>2, WaveTriggerFed
    <2>4. Right(who, d, FALSE)
      BY <1>1, <1>3, <2>1, <2>3 DEF Right
    <2>5. ~(who = 1)
      BY <1>3
    <2> QED BY ONLY <2>4, <2>5 DEF d
  <1>4. CASE who = 4
    <2>1. c \in NoiseChannels /\ KindOf(who) = NoiseChannels
      BY <1>1, <1>4, KindsOf
    <2>2. d = NoiseTrigger(c)
      BY <1>4 DEF TriggerChannel
    <2> HIDE DEF d
    <2>3. d \in NoiseChannels /\ d.length = c.length /\ Fed(d) /\ Alive(d)
      BY <2>1, <2>2, NoiseTriggerFed
    <2>4. Right(who, d, FALSE)
      BY <1>1, <1>4, <2>1, <2>3 DEF Right
    <2>5. ~(who = 1)
      BY <1>4
    <2> QED BY ONLY <2>4, <2>5 DEF d
  <1>5. who \in {1, 2} \/ who = 3 \/ who = 4
    OBVIOUS
  <1> DEFINE goal == Right(who, d, FALSE) /\ (who = 1 /\ d.enabled => NextFits(d))
  <1>6. (who \in {1, 2} => goal) /\ (who = 3 => goal) /\ (who = 4 => goal)
    BY <1>2, <1>3, <1>4
  <1> HIDE DEF goal
  <1>7. goal
    BY <1>5, <1>6
  <1> QED BY <1>7 DEF goal

----------------------------------------------------------------------------
(* The invariant: what is right with the channel, and that only a channel  *)
(* with power sounds.                                                      *)

Waves == [0..(WaveBytes - 1) -> Bytes]

ApuInv ==
    /\ SequencerTypeOK
    /\ who \in Followed
    /\ Right(who, ch, starved)
    /\ ch.enabled => apu_on
    /\ wave \in Waves
    /\ accessed \in BOOLEAN
    /\ fetched \in BOOLEAN
    /\ starved \in BOOLEAN

(* What a step does with the sweep. *)
Swept ==
    who = 1 /\ ch'.enabled /\ (ch'.shadow # ch.shadow \/ ~ch.enabled) => NextFits(ch')

LEMMA Follows == ApuInv => who \in 1..4
  BY ApuAssumption DEF ApuInv

(* A channel that stays as it was swept is. *)
LEMMA SweptBySame ==
    ASSUME who = 1 => ch'.shadow = ch.shadow, ch'.enabled => ch.enabled, ch.enabled \in BOOLEAN
    PROVE  Swept
  BY DEF Swept

LEMMA Synchronised ==
    ASSUME SequencerTypeOK, NEW d, SyncFrameSequencer(d)
    PROVE  SequencerTypeOK' /\ apu_on' = apu_on
  <1>1. apu_on' = apu_on
    BY DEF SyncFrameSequencer
  <1>2. frame_step' \in 0..7
    BY DEF SequencerTypeOK, SyncFrameSequencer
  <1>3. div_bit' \in BOOLEAN
    BY Zenon DEF SyncFrameSequencer, SequencerBit
  <1> QED BY <1>1, <1>2, <1>3 DEF SequencerTypeOK

LEMMA SequencedRight ==
    ASSUME ApuInv, NEW d
    PROVE  LET c == Sequenced(d)
           IN  /\ Right(who, c, starved) /\ (c.enabled => ch.enabled)
               /\ who = 1 /\ c.enabled /\ c.shadow # ch.shadow => NextFits(c)
  <1>1. who \in 1..4 /\ Right(who, ch, starved) /\ starved \in BOOLEAN /\ frame_step \in 0..7
    BY Follows DEF ApuInv, SequencerTypeOK
  <1>2. CASE SeesFall(d) /\ apu_on
    <2> DEFINE c == ClockChannel(ch, frame_step)
    <2>1. Sequenced(d) = c
      BY <1>2 DEF Sequenced
    <2>2. /\ Right(who, c, starved) /\ (c.enabled => ch.enabled)
          /\ who = 1 /\ c.enabled /\ c.shadow # ch.shadow => NextFits(c)
      BY <1>1, ClockChannelRight
    <2> HIDE DEF c
    <2> QED BY <2>1, <2>2
  <1>3. CASE ~(SeesFall(d) /\ apu_on)
    <2>1. Sequenced(d) = ch
      BY <1>3 DEF Sequenced
    <2> QED BY <1>1, <2>1
  <1> QED BY <1>2, <1>3

----------------------------------------------------------------------------
(* What each step does to it.                                              *)

LEMMA InitInv == Init => ApuInv
  <1> SUFFICES ASSUME Init PROVE ApuInv
    OBVIOUS
  <1>1. who \in 1..4 /\ who \in Followed
    BY ApuAssumption DEF Init
  <1>2. Right(who, ResetChannel, FALSE) /\ ~ResetChannel.enabled
    <2>1. 0 \in 0..MaxLength[who]
      BY <1>1, MaxLengths
    <2> QED BY <1>1, <2>1, ResetRight
  <1>3. ch = ResetChannel /\ starved = FALSE /\ wave = Silence
        /\ accessed = TRUE /\ fetched = FALSE
    BY DEF Init
  <1>4. SequencerTypeOK
    <2>1. SequencerInit
      BY DEF Init
    <2>2. 0 \in 0..7
      OBVIOUS
    <2> QED BY <2>1, <2>2, Zenon DEF SequencerInit, SequencerTypeOK
  <1>5. Silence \in Waves
    BY ApuAssumption DEF Silence, Waves
  <1> QED BY <1>1, <1>2, <1>3, <1>4, <1>5 DEF ApuInv

(* A step in three parts: the sequencer, the channel, and the rest. *)
LEMMA Together ==
    ASSUME ApuInv, who' = who, SequencerTypeOK', Right(who, ch', starved'),
           ch'.enabled => apu_on', wave' \in Waves,
           accessed' \in BOOLEAN, fetched' \in BOOLEAN, starved' \in BOOLEAN
    PROVE  ApuInv'
  BY DEF ApuInv

LEMMA TickInv ==
    ASSUME ApuInv, NEW n \in {4, 8}, NEW d \in {0, 1}, Tick(n, d)
    PROVE  ApuInv' /\ Swept
  <1>1. who \in 1..4 /\ starved \in BOOLEAN /\ wave \in Waves /\ SequencerTypeOK
        /\ Right(who, ch, starved) /\ (ch.enabled => apu_on)
    BY Follows DEF ApuInv
  <1>2. SyncFrameSequencer(d) /\ who' = who /\ wave' = wave /\ starved' = starved
        /\ accessed' = FALSE
    BY DEF Tick
  <1>3. fetched' \in BOOLEAN
    BY Zenon DEF Tick
  <1>4. SequencerTypeOK' /\ apu_on' = apu_on
    BY <1>1, <1>2, Synchronised
  <1> DEFINE c == Sequenced(d)
  <1>5. /\ Right(who, c, starved) /\ (c.enabled => ch.enabled)
        /\ who = 1 /\ c.enabled /\ c.shadow # ch.shadow => NextFits(c)
    BY SequencedRight
  <1>6. ch' \in IF apu_on THEN Stepped(c, n) ELSE {ch}
    BY DEF Tick
  <1> HIDE DEF c
  <1>7. CASE apu_on
    <2>1. Right(who, ch', starved) /\ (who = 1 => ch' = c)
      BY <1>1, <1>5, <1>6, <1>7, SteppedRight
    <2>2. ApuInv'
      BY <1>1, <1>2, <1>3, <1>4, <1>7, <2>1, Together
    <2>3. Swept
      BY <1>5, <2>1 DEF Swept
    <2> QED BY <2>2, <2>3
  <1>8. CASE ~apu_on
    <2>1. ch' = ch
      BY <1>6, <1>8
    <2>2. ApuInv'
      BY <1>1, <1>2, <1>3, <1>4, <2>1, Together
    <2> QED BY <2>1, <2>2 DEF Swept
  <1> QED BY <1>7, <1>8

LEMMA AccessDivInv ==
    ASSUME ApuInv, AccessDiv
    PROVE  ApuInv' /\ Swept
  <1> DEFINE c == Sequenced(0)
  <1>1. starved \in BOOLEAN /\ wave \in Waves /\ SequencerTypeOK /\ (ch.enabled => apu_on)
    BY DEF ApuInv
  <1>2. SyncFrameSequencer(0) /\ who' = who /\ wave' = wave /\ starved' = starved
        /\ fetched' = FALSE /\ ch' = c
    BY DEF AccessDiv, Access
  <1>3. accessed' \in BOOLEAN
    BY Zenon DEF AccessDiv, Access
  <1>4. SequencerTypeOK' /\ apu_on' = apu_on
    BY <1>1, <1>2, Synchronised
  <1>5. /\ Right(who, c, starved) /\ (c.enabled => ch.enabled)
        /\ who = 1 /\ c.enabled /\ c.shadow # ch.shadow => NextFits(c)
    BY SequencedRight
  <1> HIDE DEF c
  <1>6. ApuInv'
    BY <1>1, <1>2, <1>3, <1>4, <1>5, Together
  <1>7. Swept
    BY <1>2, <1>5 DEF Swept
  <1> QED BY <1>6, <1>7

LEMMA AccessPowerInv ==
    ASSUME ApuInv, AccessPower
    PROVE  ApuInv' /\ Swept
  <1>1. who \in 1..4 /\ starved \in BOOLEAN /\ wave \in Waves /\ SequencerTypeOK
        /\ Right(who, ch, starved) /\ (ch.enabled => apu_on)
    BY Follows DEF ApuInv
  <1>2. who' = who /\ wave' = wave /\ fetched' = FALSE
    BY DEF AccessPower, Access
  <1>3. accessed' \in BOOLEAN
    BY Zenon DEF AccessPower, Access
  <1>4. CASE PowerOff
    <2>1. ch' = [ResetChannel EXCEPT !.length = ch.length] /\ starved' = FALSE
          /\ WritePower(FALSE)
      BY <1>4 DEF PowerOff
    <2>2. SequencerTypeOK'
      <3>1. apu_on' = FALSE /\ frame_step' = frame_step /\ div_bit' = div_bit
        BY <2>1 DEF WritePower
      <3> QED BY <1>1, <3>1, Zenon DEF SequencerTypeOK
    <2>3. ch.length \in 0..MaxLength[who]
      BY <1>1 DEF Right
    <2>4. Right(who, ch', FALSE) /\ ~ch'.enabled
      BY <1>1, <2>1, <2>3, ResetRight
    <2>5. ApuInv'
      BY <1>2, <1>3, <1>1, <2>1, <2>2, <2>4, Together
    <2> QED BY <2>4, <2>5 DEF Swept
  <1>5. CASE PowerOn
    <2>1. ch' = (IF who = 3 THEN [ch EXCEPT !.position = 0] ELSE ch) /\ starved' = starved
          /\ WritePower(TRUE) /\ ~apu_on
      BY <1>5 DEF PowerOn
    <2>2. SequencerTypeOK' /\ apu_on' = TRUE
      <3>1. apu_on' = TRUE /\ frame_step' = 0 /\ div_bit' = div_bit
        BY <2>1 DEF WritePower
      <3>2. 0 \in 0..7
        OBVIOUS
      <3> QED BY <1>1, <3>1, <3>2, Zenon DEF SequencerTypeOK
    <2>3. Right(who, ch', starved) /\ ch'.enabled = ch.enabled
      <3>1. CASE who = 3
        <4> DEFINE d == [ch EXCEPT !.position = 0]
        <4>1. ch' = d
          BY <2>1, <3>1
        <4>2. ch \in WaveChannels /\ KindOf(who) = WaveChannels
              /\ ch.length \in 0..MaxLength[who] /\ Fed(ch)
          BY <1>1, <3>1, KindsOf DEF Right
        <4>3. d \in WaveChannels /\ d.length = ch.length /\ d.enabled = ch.enabled
              /\ d.dac = ch.dac
          <5>1. 0 \in Positions
            BY WaveAssumption DEF Positions
          <5> QED BY <4>2, <5>1 DEF WaveChannels
        <4> HIDE DEF d
        <4>4. Right(who, d, starved)
          BY <3>1, <4>2, <4>3 DEF Right, Fed
        <4> QED BY <4>1, <4>3, <4>4
      <3>2. CASE who # 3
        BY <1>1, <2>1, <3>2
      <3> QED BY <3>1, <3>2
    <2>4. ~ch'.enabled
      BY <1>1, <2>1, <2>3
    <2>5. ApuInv'
      BY <1>1, <1>2, <1>3, <2>1, <2>2, <2>3, Together
    <2> QED BY <2>4, <2>5 DEF Swept
  <1> QED BY <1>4, <1>5 DEF AccessPower

LEMMA AccessLengthInv ==
    ASSUME ApuInv, AccessLength
    PROVE  ApuInv' /\ Swept
  <1>1. who \in 1..4 /\ starved \in BOOLEAN /\ wave \in Waves /\ SequencerTypeOK
        /\ Right(who, ch, starved) /\ (ch.enabled => apu_on)
    BY Follows DEF ApuInv
  <1>2. who' = who /\ wave' = wave /\ starved' = starved /\ fetched' = FALSE
        /\ apu_on' = apu_on /\ frame_step' = frame_step /\ div_bit' = div_bit
    BY DEF AccessLength, Access, sequencerVars
  <1>3. accessed' \in BOOLEAN
    BY Zenon DEF AccessLength, Access
  <1>4. SequencerTypeOK'
    BY <1>1, <1>2, Zenon DEF SequencerTypeOK
  <1>5. PICK l \in 1..MaxLength[who] : ch' = [ch EXCEPT !.length = l]
    BY DEF AccessLength
  <1>6. l \in Nat /\ l > 0 /\ l \in 0..MaxLength[who]
    BY <1>1, MaxLengths
  <1> DEFINE d == [ch EXCEPT !.length = l]
  <1>7. KindOf(who) \in Kinds /\ ch \in KindOf(who) /\ Fed(ch)
    BY <1>1, KindsOf DEF Right
  <1>8. d \in KindOf(who)
    BY <1>6, <1>7, WithLength
  <1>9. d.length = l /\ d.enabled = ch.enabled /\ d.dac = ch.dac
    BY <1>7, LengthFields
  <1>10. who \in {1, 2} => SameSweep(d, ch)
    BY <1>7, KindsOf DEF SquareChannels, SameSweep
  <1>11. who = 4 => SameNoise(d, ch)
    BY <1>7, KindsOf DEF NoiseChannels, SameNoise
  <1>12. ch' = d
    BY <1>5
  <1> HIDE DEF d
  <1>13. Fed(d)
    BY <1>6, <1>7, <1>9 DEF Fed
  <1>14. Right(who, d, starved)
    BY <1>1, <1>6, <1>8, <1>9, <1>10, <1>11, <1>13, RightKept
  <1>15. ApuInv'
    BY <1>1, <1>2, <1>3, <1>4, <1>9, <1>12, <1>14, Together
  <1>16. Swept
    BY <1>9, <1>10, <1>12 DEF Swept, SameSweep
  <1> QED BY <1>15, <1>16

(* What the accesses to the registers of a channel with power have in common. *)
LEMMA OnAccess ==
    ASSUME ApuInv, AccessOn
    PROVE  /\ who \in 1..4 /\ starved \in BOOLEAN /\ wave \in Waves
           /\ Right(who, ch, starved)
           /\ who' = who /\ fetched' \in BOOLEAN /\ accessed' \in BOOLEAN
           /\ SequencerTypeOK' /\ apu_on'
  <1>1. SequencerTypeOK
    BY DEF ApuInv
  <1>2. apu_on' = apu_on /\ frame_step' = frame_step /\ div_bit' = div_bit
    BY DEF AccessOn, sequencerVars
  <1>3. SequencerTypeOK'
    BY <1>1, <1>2, Zenon DEF SequencerTypeOK
  <1>4. accessed' \in BOOLEAN
    BY Zenon DEF AccessOn, Access
  <1>5. who' = who /\ fetched' = FALSE /\ apu_on
    BY DEF AccessOn, Access
  <1> QED BY <1>2, <1>3, <1>4, <1>5, Follows DEF ApuInv

LEMMA AccessDacInv ==
    ASSUME ApuInv, AccessDac
    PROVE  ApuInv' /\ Swept
  <1>1. /\ who \in 1..4 /\ starved \in BOOLEAN /\ wave \in Waves
        /\ Right(who, ch, starved)
        /\ who' = who /\ fetched' \in BOOLEAN /\ accessed' \in BOOLEAN
        /\ SequencerTypeOK' /\ apu_on'
    BY OnAccess DEF AccessDac
  <1>2. wave' = wave /\ starved' = starved
    BY DEF AccessDac
  <1>3. KindOf(who) \in Kinds /\ ch \in KindOf(who) /\ Fed(ch)
        /\ ch.length \in 0..MaxLength[who] /\ ch.enabled \in BOOLEAN
    BY <1>1, KindsOf, CommonFields DEF Right
  <1>4. /\ ch' \in KindOf(who) /\ ch'.length = ch.length /\ Fed(ch')
        /\ ch'.enabled => ch.enabled
        /\ who \in {1, 2} => SameSweep(ch', ch)
        /\ who = 4 => SameNoise(ch', ch)
    <2>1. CASE who = 3
      <3>1. PICK dac \in BOOLEAN : ch' = SetDac(ch, dac)
        BY <2>1 DEF AccessDac
      <3>2. ch' \in KindOf(who) /\ ch'.length = ch.length /\ Fed(ch')
            /\ (ch'.enabled => ch.enabled)
        BY <1>3, <3>1, SetDacFed
      <3>3. who \notin {1, 2} /\ who # 4
        BY <2>1
      <3> QED BY <3>2, <3>3
    <2>2. CASE who # 3
      <3>1. PICK e \in EnvelopeWrites[who] : ch' = WriteEnvelope(ch, e[1], e[2], e[3])
        BY <2>2 DEF AccessDac
      <3>2. e[1] \in 0..MaxVolume /\ e[2] \in BOOLEAN /\ e[3] \in Periods
        BY <1>1, ApuAssumption
      <3>3. CASE who \in {1, 2}
        <4>1. ch \in SquareChannels /\ KindOf(who) = SquareChannels
          BY <1>3, <3>3, KindsOf, <1>1
        <4> QED BY <1>3, <3>1, <3>2, <3>3, <4>1, WriteEnvelopeFed
      <3>4. CASE who = 4
        <4>1. ch \in NoiseChannels /\ KindOf(who) = NoiseChannels
          BY <1>3, <3>4, KindsOf, <1>1
        <4> QED BY <1>3, <3>1, <3>2, <3>4, <4>1, WriteEnvelopeFed
      <3>5. who \in {1, 2} \/ who = 4
        BY <1>1, <2>2
      <3> QED BY <3>3, <3>4, <3>5
    <2> QED BY <2>1, <2>2
  <1>5. Right(who, ch', starved)
    BY <1>1, <1>3, <1>4, RightKept
  <1>6. ApuInv'
    BY <1>1, <1>2, <1>5, Together
  <1>7. who = 1 => ch'.shadow = ch.shadow
    BY <1>4 DEF SameSweep
  <1> QED BY <1>3, <1>4, <1>6, <1>7, SweptBySame

LEMMA AccessFrequencyInv ==
    ASSUME ApuInv, AccessFrequency
    PROVE  ApuInv' /\ Swept
  <1>1. /\ who \in 1..4 /\ starved \in BOOLEAN /\ wave \in Waves
        /\ Right(who, ch, starved)
        /\ who' = who /\ fetched' \in BOOLEAN /\ accessed' \in BOOLEAN
        /\ SequencerTypeOK' /\ apu_on'
    BY OnAccess DEF AccessFrequency
  <1>2. wave' = wave /\ starved' = starved /\ who # 4
    BY DEF AccessFrequency
  <1>3. who \in 1..3
    BY <1>1, <1>2
  <1>4. KindOf(who) \in Kinds /\ ch \in KindOf(who) /\ ch.enabled \in BOOLEAN
        /\ ch.freq \in 0..MaxFreq
    <2>1. KindOf(who) \in Kinds /\ ch \in KindOf(who)
      BY <1>1, KindsOf DEF Right
    <2>2. who \in {1, 2} => ch.freq \in 0..MaxFreq
      <3>1. who \in {1, 2} => ch \in SquareChannels
        BY <2>1, <1>1, KindsOf
      <3> QED BY <3>1 DEF SquareChannels
    <2>3. who = 3 => ch.freq \in 0..MaxFreq
      <3>1. who = 3 => ch \in WaveChannels
        BY <2>1, <1>1, KindsOf
      <3> QED BY <3>1 DEF WaveChannels
    <2> QED BY <1>3, <2>1, <2>2, <2>3, CommonFields
  <1>5. PICK f \in 0..(FreqLow - 1) :
            ch' = [ch EXCEPT !.freq = ch.freq - (ch.freq % FreqLow) + f]
    BY DEF AccessFrequency
  <1> DEFINE g == ch.freq - (ch.freq % FreqLow) + f
             d == [ch EXCEPT !.freq = g]
  <1>6. g \in 0..MaxFreq
    <2> DEFINE m == MaxFreq + 1
               x == ch.freq
    <2>1. m \in Nat /\ m - 1 = MaxFreq /\ m % FreqLow = 0 /\ FreqLow \in Nat \ {0}
      BY ChannelAssumption, ApuAssumption
    <2>2. g = x - (x % FreqLow) + f
      OBVIOUS
    <2> HIDE DEF g, m, x
    <2>3. x \in 0..(m - 1)
      BY <1>4, <2>1 DEF x
    <2>4. x - (x % FreqLow) + f \in 0..(m - 1)
      BY <2>1, <2>3, RowFits
    <2> QED BY <2>1, <2>2, <2>4
  <1>7. ch' = d
    BY <1>5
  <1> HIDE DEF g
  <1>8. /\ Right(who, d, starved) /\ d.enabled = ch.enabled
        /\ who \in {1, 2} => SameSweep(d, ch)
    BY <1>1, <1>3, <1>6, WithFreq
  <1> HIDE DEF d
  <1>9. ApuInv'
    BY <1>1, <1>2, <1>7, <1>8, Together
  <1>10. who = 1 => ch'.shadow = ch.shadow
    BY <1>7, <1>8 DEF SameSweep
  <1> QED BY <1>4, <1>7, <1>8, <1>9, <1>10, SweptBySame

LEMMA AccessSweepInv ==
    ASSUME ApuInv, AccessSweep
    PROVE  ApuInv' /\ Swept
  <1>1. /\ who \in 1..4 /\ starved \in BOOLEAN /\ wave \in Waves
        /\ Right(who, ch, starved)
        /\ who' = who /\ fetched' \in BOOLEAN /\ accessed' \in BOOLEAN
        /\ SequencerTypeOK' /\ apu_on'
    BY OnAccess DEF AccessSweep
  <1>2. wave' = wave /\ starved' = starved /\ who = 1
    BY DEF AccessSweep
  <1>3. ch \in SquareChannels /\ KindOf(who) = SquareChannels /\ Fed(ch)
        /\ ch.length \in 0..MaxLength[who]
    BY <1>1, <1>2, KindsOf DEF Right
  <1>4. PICK pace \in Periods, negate \in BOOLEAN, shift \in DOMAIN ShiftScale :
            ch' = WriteSweep(ch, pace, negate, shift)
    BY DEF AccessSweep
  <1>5. /\ ch' \in SquareChannels /\ ch'.length = ch.length /\ Fed(ch') /\ NegateKept(ch')
        /\ ch'.enabled => ch.enabled
        /\ ch'.shadow = ch.shadow
    BY <1>3, <1>4, WriteSweepFed
  <1>6. Right(who, ch', starved)
    BY <1>2, <1>3, <1>5 DEF Right
  <1>7. ApuInv'
    BY <1>1, <1>2, <1>6, Together
  <1>8. ch.enabled \in BOOLEAN
    BY <1>3 DEF SquareChannels
  <1> QED BY <1>5, <1>7, <1>8, SweptBySame

LEMMA AccessWidthInv ==
    ASSUME ApuInv, AccessWidth
    PROVE  ApuInv' /\ Swept
  <1>1. /\ who \in 1..4 /\ starved \in BOOLEAN /\ wave \in Waves
        /\ Right(who, ch, starved)
        /\ who' = who /\ fetched' \in BOOLEAN /\ accessed' \in BOOLEAN
        /\ SequencerTypeOK' /\ apu_on'
    BY OnAccess DEF AccessWidth
  <1>2. wave' = wave /\ who = 4
    BY DEF AccessWidth
  <1>3. ch \in NoiseChannels /\ KindOf(who) = NoiseChannels /\ Fed(ch)
        /\ ch.length \in 0..MaxLength[who] /\ (~starved => Alive(ch))
    BY <1>1, <1>2, KindsOf DEF Right
  <1>4. PICK width \in BOOLEAN : /\ ch' = [ch EXCEPT !.width = width]
                                 /\ starved' = (starved \/ (width /\ ShortEmpty(ch)))
    BY DEF AccessWidth
  <1> DEFINE d == [ch EXCEPT !.width = width]
  <1>5. d \in NoiseChannels /\ d.length = ch.length /\ d.enabled = ch.enabled
        /\ d.dac = ch.dac /\ d.lfsr = ch.lfsr /\ d.width = width
    BY <1>3 DEF NoiseChannels
  <1>6. ch' = d
    BY <1>4
  <1> HIDE DEF d
  <1>7. starved' \in BOOLEAN /\ (~starved' => ~starved /\ ~(width /\ ShortEmpty(ch)))
    BY <1>4, Zenon
  <1>8. Fed(d)
    BY <1>3, <1>5 DEF Fed
  <1>9. ~starved' => Alive(d)
    <2> SUFFICES ASSUME ~starved' PROVE Alive(d)
      OBVIOUS
    <2>1. Alive(ch) /\ (width => \E i \in 0..(ShortBits - 1) : ch.lfsr[i])
      BY <1>3, <1>7 DEF ShortEmpty
    <2> QED BY <1>5, <2>1 DEF Alive
  <1>10. Right(who, d, starved')
    BY <1>2, <1>3, <1>5, <1>8, <1>9 DEF Right
  <1>11. ApuInv'
    BY <1>1, <1>2, <1>6, <1>7, <1>10, Together
  <1>12. who # 1
    BY <1>2
  <1> QED BY <1>11, <1>12 DEF Swept

(* The channel with the high bits of its frequency, and then its control, set. *)
LEMMA ControlledRight ==
    ASSUME ApuInv, NEW on \in BOOLEAN, NEW trigger \in BOOLEAN, NEW high \in Highs
    PROVE  LET c == Controlled(on, trigger, high)
           IN  /\ Right(who, c, starved) /\ (c.enabled => ch.enabled)
               /\ trigger => c.length > 0
               /\ who = 1 => c.shadow = ch.shadow
  <1>1. who \in 1..4 /\ starved \in BOOLEAN /\ Right(who, ch, starved)
    BY Follows DEF ApuInv
  <1> DEFINE wide == WithHigh(high)
  <1>2. /\ Right(who, wide, starved) /\ wide.enabled = ch.enabled
        /\ who \in {1, 2} => SameSweep(wide, ch)
    <2>1. CASE who = 4
      BY <1>1, <2>1 DEF WithHigh
    <2>2. CASE who # 4
      <3> DEFINE x == ch.freq % FreqLow
                 m == MaxFreq + 1
                 g == high * FreqLow + x
      <3>1. who \in 1..3 /\ wide = [ch EXCEPT !.freq = g]
        BY <1>1, <2>2 DEF WithHigh
      <3>2. ch.freq \in Int
        <4>1. who \in {1, 2} => ch \in SquareChannels
          BY <1>1, KindsOf DEF Right
        <4>2. who = 3 => ch \in WaveChannels
          BY <1>1, KindsOf DEF Right
        <4>3. who \in {1, 2} \/ who = 3
          BY <3>1
        <4> QED BY <4>1, <4>2, <4>3 DEF SquareChannels, WaveChannels
      <3>3. m \in Nat /\ m - 1 = MaxFreq /\ m % FreqLow = 0 /\ FreqLow \in Nat \ {0}
        BY ChannelAssumption, ApuAssumption
      <3>4. high \in 0..((m \div FreqLow) - 1)
        BY <2>2 DEF Highs
      <3>5. x \in 0..(FreqLow - 1)
        BY <3>2, <3>3, Remainder
      <3> HIDE DEF x, m
      <3>6. g \in 0..(m - 1)
        BY <3>3, <3>4, <3>5, HighFits
      <3> HIDE DEF g
      <3>7. g \in 0..MaxFreq
        BY <3>3, <3>6
      <3> HIDE DEF wide
      <3> QED BY <1>1, <3>1, <3>7, WithFreq
    <2> QED BY <2>1, <2>2
  <1> HIDE DEF wide
  <1> DEFINE clocks == NextClocksLength
             set == WriteControl(wide, on, trigger, MaxLength[who], clocks)
  <1>3. Controlled(on, trigger, high) = set
    BY DEF Controlled, wide, set
  <1>4. clocks \in BOOLEAN
    BY Zenon DEF NextClocksLength
  <1> HIDE DEF clocks, set
  <1>5. /\ Right(who, set, starved) /\ (set.enabled => wide.enabled)
        /\ trigger => set.length > 0
        /\ who \in {1, 2} => SameSweep(set, wide)
    <2>1. who \in 1..4 /\ starved \in BOOLEAN /\ Right(who, wide, starved)
      BY <1>1, <1>2
    <2>2. /\ set \in KindOf(who) /\ set.length \in 0..MaxLength[who] /\ Fed(set)
          /\ (set.enabled => wide.enabled) /\ (trigger => set.length > 0)
          /\ who \in {1, 2} => SameSweep(set, wide)
          /\ who = 4 => SameNoise(set, wide)
      BY <1>4, <2>1, ControlKeeps DEF set
    <2>3. Right(who, set, starved)
      BY <2>1, <2>2, RightKept
    <2> QED BY <2>2, <2>3
  <1>6. who = 1 => set.shadow = ch.shadow
    BY <1>2, <1>5 DEF SameSweep
  <1> QED BY <1>2, <1>3, <1>5, <1>6

LEMMA AccessControlInv ==
    ASSUME ApuInv, AccessControl
    PROVE  ApuInv' /\ Swept
  <1>1. /\ who \in 1..4 /\ starved \in BOOLEAN /\ wave \in Waves
        /\ Right(who, ch, starved)
        /\ who' = who /\ fetched' \in BOOLEAN /\ accessed' \in BOOLEAN
        /\ SequencerTypeOK' /\ apu_on'
    BY OnAccess DEF AccessControl
  <1>2. wave' = wave /\ starved' = starved
    BY DEF AccessControl
  <1>3. PICK on \in BOOLEAN, high \in Highs : ch' = Controlled(on, FALSE, high)
    BY DEF AccessControl
  <1>4. /\ Right(who, ch', starved) /\ (ch'.enabled => ch.enabled)
        /\ who = 1 => ch'.shadow = ch.shadow
    BY <1>3, ControlledRight
  <1>5. ApuInv'
    BY <1>1, <1>2, <1>4, Together
  <1> QED BY <1>4, <1>5 DEF Swept

LEMMA AccessTriggerInv ==
    ASSUME ApuInv, AccessTrigger
    PROVE  ApuInv' /\ Swept
  <1>1. /\ who \in 1..4 /\ starved \in BOOLEAN /\ wave \in Waves
        /\ Right(who, ch, starved)
        /\ who' = who /\ fetched' \in BOOLEAN /\ accessed' \in BOOLEAN
        /\ SequencerTypeOK' /\ apu_on'
    BY OnAccess DEF AccessTrigger
  <1>2. starved' = FALSE
    BY DEF AccessTrigger
  <1>3. PICK on \in BOOLEAN, high \in Highs :
            ch' = TriggerChannel(Controlled(on, TRUE, high))
    BY DEF AccessTrigger
  <1> DEFINE c == Controlled(on, TRUE, high)
  <1>4. Right(who, c, starved) /\ c.length > 0
    BY ControlledRight
  <1>5. ch' = TriggerChannel(c)
    BY <1>3
  <1> HIDE DEF c
  <1>6. Right(who, ch', FALSE) /\ (who = 1 /\ ch'.enabled => NextFits(ch'))
    BY <1>1, <1>4, <1>5, TriggerRight
  <1>7. wave' \in Waves
    <2>1. CASE who = 3 /\ ch.enabled /\ ch.latched
      <3>1. ch \in WaveChannels
        BY <1>1, <2>1, KindsOf DEF Right
      <3>2. wave' = CorruptWave(wave, ch)
        BY <2>1 DEF AccessTrigger
      <3> QED BY <1>1, <3>1, <3>2, CorruptWaveType DEF Waves
    <2>2. CASE ~(who = 3 /\ ch.enabled /\ ch.latched)
      <3>1. wave' = wave
        BY <2>2 DEF AccessTrigger
      <3> QED BY <1>1, <3>1
    <2> QED BY <2>1, <2>2
  <1>8. ApuInv'
    BY <1>1, <1>2, <1>6, <1>7, Together
  <1> QED BY <1>6, <1>8 DEF Swept

LEMMA AccessWaveInv ==
    ASSUME ApuInv, AccessWave
    PROVE  ApuInv' /\ Swept
  <1>1. who \in 1..4 /\ starved \in BOOLEAN /\ wave \in Waves /\ SequencerTypeOK
        /\ Right(who, ch, starved) /\ (ch.enabled => apu_on)
    BY Follows DEF ApuInv
  <1>2. who' = who /\ ch' = ch /\ starved' = starved /\ fetched' = FALSE
        /\ apu_on' = apu_on /\ frame_step' = frame_step /\ div_bit' = div_bit
    BY DEF AccessWave, Access, sequencerVars
  <1>3. accessed' \in BOOLEAN
    BY Zenon DEF AccessWave, Access
  <1>4. SequencerTypeOK'
    BY <1>1, <1>2, Zenon DEF SequencerTypeOK
  <1>5. wave' \in Waves
    <2>1. PICK i \in DOMAIN wave, b \in Bytes : wave' = WriteWave(wave, ch, i, b)
      BY DEF AccessWave
    <2> QED BY <1>1, <2>1, WriteWaveType DEF Waves
  <1>6. ApuInv'
    BY <1>1, <1>2, <1>3, <1>4, <1>5, Together
  <1> QED BY <1>2, <1>6 DEF Swept

LEMMA ResetInv ==
    ASSUME ApuInv, Reset
    PROVE  ApuInv' /\ Swept
  <1>1. who \in 1..4
    BY Follows
  <1>2. apu_on' = FALSE /\ frame_step' = 0 /\ div_bit' = FALSE
        /\ ch' = ResetChannel /\ wave' = Silence /\ who' = who
        /\ accessed' = TRUE /\ fetched' = FALSE /\ starved' = FALSE
    BY DEF Reset
  <1>3. Right(who, ResetChannel, FALSE) /\ ~ResetChannel.enabled
    <2>1. 0 \in 0..MaxLength[who]
      BY <1>1, MaxLengths
    <2> QED BY <1>1, <2>1, ResetRight
  <1>4. SequencerTypeOK'
    <2>1. 0 \in 0..7
      OBVIOUS
    <2> QED BY <1>2, <2>1, Zenon DEF SequencerTypeOK
  <1>5. Silence \in Waves
    BY ApuAssumption DEF Silence, Waves
  <1>6. ApuInv'
    BY <1>2, <1>3, <1>4, <1>5, Together
  <1> QED BY <1>2, <1>3, <1>6 DEF Swept

LEMMA StutterInv ==
    ASSUME ApuInv, UNCHANGED vars
    PROVE  ApuInv' /\ Swept
  <1>1. /\ who' = who /\ ch' = ch /\ wave' = wave /\ accessed' = accessed
        /\ fetched' = fetched /\ starved' = starved
        /\ apu_on' = apu_on /\ frame_step' = frame_step /\ div_bit' = div_bit
    BY DEF vars, apuVars, sequencerVars
  <1>2. who \in 1..4 /\ starved \in BOOLEAN /\ wave \in Waves /\ SequencerTypeOK
        /\ Right(who, ch, starved) /\ (ch.enabled => apu_on)
        /\ accessed \in BOOLEAN /\ fetched \in BOOLEAN
    BY Follows DEF ApuInv
  <1>3. SequencerTypeOK'
    BY <1>1, <1>2, Zenon DEF SequencerTypeOK
  <1>4. ApuInv'
    BY <1>1, <1>2, <1>3, Together
  <1> QED BY <1>1, <1>4 DEF Swept

(* Every step keeps the invariant and sweeps only to frequencies that fit. *)
LEMMA NextInv ==
    ASSUME ApuInv, [Next]_vars
    PROVE  ApuInv' /\ Swept
  <1>1. CASE Ticks
    BY <1>1, TickInv DEF Ticks
  <1>2. CASE AccessDiv
    BY <1>2, AccessDivInv
  <1>3. CASE AccessPower
    BY <1>3, AccessPowerInv
  <1>4. CASE AccessLength
    BY <1>4, AccessLengthInv
  <1>5. CASE AccessDac
    BY <1>5, AccessDacInv
  <1>6. CASE AccessFrequency
    BY <1>6, AccessFrequencyInv
  <1>7. CASE AccessSweep
    BY <1>7, AccessSweepInv
  <1>8. CASE AccessWidth
    BY <1>8, AccessWidthInv
  <1>9. CASE AccessControl
    BY <1>9, AccessControlInv
  <1>10. CASE AccessTrigger
    BY <1>10, AccessTriggerInv
  <1>11. CASE AccessWave
    BY <1>11, AccessWaveInv
  <1>12. CASE Reset
    BY <1>12, ResetInv
  <1>13. CASE UNCHANGED vars
    BY <1>13, StutterInv
  <1> QED BY <1>1, <1>2, <1>3, <1>4, <1>5, <1>6, <1>7, <1>8, <1>9, <1>10, <1>11,
             <1>12, <1>13, Zenon DEF Next

LEMMA TickWindow ==
    ASSUME ApuInv, NEW n \in {4, 8}, NEW d \in {0, 1}, Tick(n, d)
    PROVE  WaveWindow'
  <1> SUFFICES ASSUME who = 3, ch'.enabled
               PROVE  (ch'.latched <=> fetched')
    BY Zenon DEF WaveWindow, Tick
  <1> DEFINE c == Sequenced(d)
  <1>1. Right(who, c, starved) /\ (c.enabled => ch.enabled)
    BY SequencedRight
  <1>2. ch' \in IF apu_on THEN Stepped(c, n) ELSE {ch}
    BY DEF Tick
  <1>3. fetched' = (who = 3 /\ c.enabled /\ FetchesLast(c, n))
    BY Zenon DEF Tick
  <1> HIDE DEF c
  <1>4. c \in WaveChannels /\ n \in Nat /\ c.enabled \in BOOLEAN
    <2>1. c \in WaveChannels
      BY <1>1, KindsOf DEF Right
    <2> QED BY <2>1 DEF WaveChannels
  <1>5. apu_on
    BY <1>2 DEF ApuInv
  <1>6. ch' = IF c.enabled THEN WaveStep(c, n) ELSE c
    BY <1>2, <1>5 DEF Stepped
  <1>7. c.enabled
    BY <1>6
  <1>8. ch'.latched = FetchesLast(c, n)
    BY <1>4, <1>6, <1>7, MarksTheFetch
  <1> QED BY <1>3, <1>7, <1>8, Zenon

LEMMA NextWindow ==
    ASSUME ApuInv, WaveWindow, [Next]_vars
    PROVE  WaveWindow'
  <1>1. CASE Ticks
    BY <1>1, TickWindow DEF Ticks
  <1>2. ASSUME Access PROVE WaveWindow'
    <2>1. who' = who /\ accessed' = (who = 3)
      BY <1>2, Zenon DEF Access
    <2> QED BY <2>1, Zenon DEF WaveWindow
  <1>3. CASE Reset
    BY <1>3, Zenon DEF Reset, WaveWindow
  <1>4. CASE UNCHANGED vars
    BY <1>4, Zenon DEF vars, apuVars, sequencerVars, WaveWindow
  <1>5. CASE AccessDiv \/ AccessPower \/ AccessLength \/ AccessWave
    BY <1>2, <1>5, Zenon DEF AccessDiv, AccessPower, AccessLength, AccessWave
  <1>6. CASE \/ AccessDac \/ AccessFrequency \/ AccessSweep
             \/ AccessWidth \/ AccessControl \/ AccessTrigger
    BY <1>2, <1>6, Zenon DEF AccessDac, AccessFrequency, AccessSweep, AccessWidth,
                             AccessControl, AccessTrigger, AccessOn
  <1> QED BY <1>1, <1>3, <1>4, <1>5, <1>6, Zenon DEF Next

----------------------------------------------------------------------------
(* The theorems.                                                           *)

(* Whatever the program writes and whenever the sequencer is clocked, the  *)
(* channel is right and has power if it sounds.                            *)
THEOREM ApuInvariant == Spec => []ApuInv
  <1>1. ApuInv /\ [Next]_vars => ApuInv'
    BY NextInv
  <1> QED BY InitInv, <1>1, PTL DEF Spec

(* The records of the channels stay within the ranges that the stepping    *)
(* loops of apu/square.cpp and apu/wave.cpp need: no period is 0.          *)
THEOREM TypeCorrect == Spec => []TypeOK
  <1>1. ApuInv => TypeOK
    BY DEF ApuInv, TypeOK, Right, KindOf, Waves
  <1> QED BY ApuInvariant, <1>1, PTL

(* A channel sounds only with power, a DAC and time left on its counter    *)
(* (apu.cpp: write_control, clock_length, the DAC bits).                   *)
THEOREM SoundingHolds == Spec => []Sounding
  <1>1. ApuInv => Sounding
    BY DEF ApuInv, Sounding, Right, Fed, NegateKept
  <1> QED BY ApuInvariant, <1>1, PTL

(* The shift register of noise.cpp does not run empty by itself, nor when it *)
(* is made short with something left in its short part.                     *)
THEOREM NoiseKeepsGoingHolds == Spec => []NoiseKeepsGoing
  <1>1. ApuInv => NoiseKeepsGoing
    BY DEF ApuInv, NoiseKeepsGoing, Right, Alive, ShortEmpty
  <1> QED BY ApuInvariant, <1>1, PTL

(* An access meets the wave channel on its byte exactly if the last T-cycle *)
(* of its tick fetched it, for every period and both lengths of a tick      *)
(* (channel.h: "Set for the duration of the tick in which a byte was        *)
(* latched").                                                               *)
THEOREM WaveWindowHolds == Spec => []WaveWindow
  <1>1. Init => WaveWindow
    BY Zenon DEF Init, WaveWindow
  <1>2. ApuInv /\ WaveWindow /\ [Next]_vars => WaveWindow'
    BY NextWindow
  <1> QED BY ApuInvariant, <1>1, <1>2, PTL DEF Spec

(* An overflowing frequency never sounds (square.cpp: sweep_calculate).    *)
THEOREM OverflowNeverSoundsHolds == Spec => OverflowNeverSounds
  <1>1. ApuInv /\ [Next]_vars =>
          [who = 1 /\ ch'.enabled /\ (ch'.shadow # ch.shadow \/ ~ch.enabled)
                => ch'.shift = 0 \/ SweepNext(ch') <= MaxFreq]_vars
    BY NextInv DEF Swept, NextFits
  <1> QED BY ApuInvariant, <1>1, PTL DEF Spec, OverflowNeverSounds

----------------------------------------------------------------------------
(* How long a note lasts.                                                  *)

(* Clocks of the sequencer until the length counter is at 0: every other one *)
(* of them is a length step.                                                 *)
NoteRest == 2 * ch.length - 1 + (frame_step % 2)

NoteRestIsRight == ch.enabled /\ ch.length_on => NoteRest \in 1..(2 * MaxLength[who])

NoteRunsDown ==
    [][Ticks => /\ ch'.length_on = ch.length_on
                /\ ch'.enabled => ch.enabled
                /\ ch'.enabled /\ ch.length_on =>
                      NoteRest' = NoteRest - (IF div_bit /\ ~div_bit' THEN 1 ELSE 0)]_vars

(* What a step of the channel leaves of its length counter. *)
SameCounter(d, c) == d.length = c.length /\ d.length_on = c.length_on

LEMMA ClockLengthCounts ==
    ASSUME NEW K \in Kinds, NEW c \in K
    PROVE  LET d == ClockLength(c)
           IN  /\ d.length_on = c.length_on
               /\ d.length = IF c.length_on /\ c.length > 0 THEN c.length - 1 ELSE c.length
  <1> DEFINE e == c.enabled /\ c.length > 1
             l == c.length - 1
  <1>1. CASE c.length_on /\ c.length > 0
    <2>1. ClockLength(c) = [c EXCEPT !.length = l, !.enabled = e]
      BY <1>1 DEF ClockLength
    <2> HIDE DEF e, l
    <2>2. [c EXCEPT !.length = l, !.enabled = e].length_on = c.length_on
      <3>1. CASE K = SquareChannels
        BY <3>1 DEF SquareChannels
      <3>2. CASE K = WaveChannels
        BY <3>2 DEF WaveChannels
      <3>3. CASE K = NoiseChannels
        BY <3>3 DEF NoiseChannels
      <3> QED BY <3>1, <3>2, <3>3 DEF Kinds
    <2>3. [c EXCEPT !.length = l, !.enabled = e].length = l
      BY LengthFields
    <2> QED BY <1>1, <2>1, <2>2, <2>3 DEF l
  <1>2. CASE ~(c.length_on /\ c.length > 0)
    BY <1>2 DEF ClockLength
  <1> QED BY <1>1, <1>2

LEMMA SweepCalculateCounts ==
    ASSUME NEW c \in SquareChannels
    PROVE  SweepCalculate(c) \in SquareChannels /\ SameCounter(SweepCalculate(c), c)
  <1> DEFINE u == c.negate_used \/ c.negate
             e == c.enabled /\ SweepNext(c) <= MaxFreq
  <1>1. SweepCalculate(c) = [c EXCEPT !.negate_used = u, !.enabled = e]
    BY DEF SweepCalculate
  <1> HIDE DEF u, e
  <1>2. SameCounter(SweepCalculate(c), c)
    BY <1>1 DEF SquareChannels, SameCounter
  <1> QED BY <1>2, SweepCalculateIs

LEMMA SweepClockCounts ==
    ASSUME NEW c \in SquareChannels
    PROVE  SameCounter(SweepClock(c), c)
  <1> DEFINE t == IF CountDown(c.sweep_timer) = 0 THEN Reload(c.pace) ELSE CountDown(c.sweep_timer)
             ticked == [c EXCEPT !.sweep_timer = t]
             checked == SweepCalculate(ticked)
             next == SweepNext(c)
             moved == [checked EXCEPT !.shadow = next, !.freq = next]
             d == SweepClock(c)
  <1>1. d = ticked \/ d = checked \/ (next <= MaxFreq /\ d = SweepCalculate(moved))
    <2>1. CASE CountDown(c.sweep_timer) # 0 \/ ~c.sweep_on \/ c.pace = 0
      BY <2>1 DEF SweepClock
    <2>2. CASE ~(CountDown(c.sweep_timer) # 0 \/ ~c.sweep_on \/ c.pace = 0)
      <3>1. d = IF next > MaxFreq \/ c.shift = 0 THEN checked ELSE SweepCalculate(moved)
        BY <2>2 DEF SweepClock
      <3>2. next \in Int /\ MaxFreq \in Int
        BY SweepNextType, ChannelAssumption
      <3> HIDE DEF next, checked, moved, d
      <3> QED BY <3>1, <3>2
    <2> QED BY <2>1, <2>2
  <1>2. t \in 0..IdlePeriod
    <2>1. CountDown(c.sweep_timer) \in 0..IdlePeriod
      BY ChannelAssumption DEF CountDown, SquareChannels
    <2>2. Reload(c.pace) \in 0..IdlePeriod
      BY ReloadType, ChannelAssumption DEF SquareChannels
    <2> QED BY <2>1, <2>2
  <1> HIDE DEF t, next, d
  <1>3. ticked \in SquareChannels /\ SameCounter(ticked, c)
    BY <1>2 DEF SquareChannels, SameCounter
  <1> HIDE DEF ticked
  <1>4. checked \in SquareChannels /\ SameCounter(checked, ticked)
    BY <1>3, SweepCalculateCounts
  <1> HIDE DEF checked
  <1>5. ASSUME next <= MaxFreq PROVE SameCounter(SweepCalculate(moved), checked)
    <2>1. next \in 0..MaxFreq
      BY <1>5, SweepNextType, ChannelAssumption DEF next
    <2>2. moved \in SquareChannels /\ SameCounter(moved, checked)
      BY <1>4, <2>1 DEF SquareChannels, SameCounter
    <2> HIDE DEF moved
    <2>3. SameCounter(SweepCalculate(moved), moved)
      BY <2>2, SweepCalculateCounts
    <2> QED BY <2>2, <2>3 DEF SameCounter
  <1> QED BY <1>1, <1>3, <1>4, <1>5 DEF SameCounter, d

(* What one step of the sequencer takes from the counter. *)
LEMMA ClockChannelCounts ==
    ASSUME who \in 1..4, NEW c, NEW r \in BOOLEAN, Right(who, c, r), NEW s \in 0..7
    PROVE  LET d == ClockChannel(c, s)
           IN  /\ d.length_on = c.length_on
               /\ d.length = IF s % 2 = 0 /\ c.length_on /\ c.length > 0
                             THEN c.length - 1 ELSE c.length
  <1> DEFINE a == IF s % 2 = 0 THEN ClockLength(c) ELSE c
             b == ClockSweep(a, s)
             d == ClockEnvelope(b, s)
  <1>1. /\ Right(who, a, r)
        /\ a.length_on = c.length_on
        /\ a.length = IF s % 2 = 0 /\ c.length_on /\ c.length > 0 THEN c.length - 1 ELSE c.length
    <2>1. KindOf(who) \in Kinds /\ c \in KindOf(who)
      BY KindsOf DEF Right
    <2>2. CASE s % 2 = 0
      BY <2>1, <2>2, ClockLengthRight, ClockLengthCounts
    <2>3. CASE s % 2 # 0
      BY <2>3
    <2> QED BY <2>2, <2>3
  <1> HIDE DEF a
  <1>2. Right(who, b, r) /\ SameCounter(b, a)
    <2>1. Right(who, b, r)
      BY <1>1, ClockSweepRight
    <2>2. CASE who = 1 /\ s \in {2, 6}
      <3>1. a \in SquareChannels
        BY <1>1, <2>2, KindsOf DEF Right
      <3>2. b = SweepClock(a)
        BY <2>2 DEF ClockSweep
      <3> QED BY <2>1, <3>1, <3>2, SweepClockCounts
    <2>3. CASE ~(who = 1 /\ s \in {2, 6})
      BY <2>1, <2>3 DEF ClockSweep, SameCounter
    <2> QED BY <2>2, <2>3
  <1> HIDE DEF b
  <1>3. SameCounter(d, b)
    <2>1. CASE who \in WithEnvelope /\ s = 7
      <3> DEFINE e == EnvelopeClock(b.env)
      <3>1. d = [b EXCEPT !.env = e]
        BY <2>1 DEF ClockEnvelope
      <3> HIDE DEF e
      <3>2. CASE who \in {1, 2}
        <4>1. b \in SquareChannels
          BY <1>2, <3>2, KindsOf DEF Right
        <4> QED BY <3>1, <4>1 DEF SquareChannels, SameCounter
      <3>3. CASE who = 4
        <4>1. b \in NoiseChannels
          BY <1>2, <3>3, KindsOf DEF Right
        <4> QED BY <3>1, <4>1 DEF NoiseChannels, SameCounter
      <3> QED BY <2>1, <3>2, <3>3, ApuAssumption
    <2>2. CASE ~(who \in WithEnvelope /\ s = 7)
      BY <2>2 DEF ClockEnvelope, SameCounter
    <2> QED BY <2>1, <2>2
  <1> HIDE DEF d
  <1>4. ClockChannel(c, s) = d
    BY DEF ClockChannel, a, b, d
  <1> QED BY <1>1, <1>2, <1>3, <1>4 DEF SameCounter

(* The steps of the waveform take nothing from it, and silence nothing. *)
LEMMA SteppedCounts ==
    ASSUME who \in 1..4, NEW c \in KindOf(who), NEW n \in Nat, NEW d \in Stepped(c, n)
    PROVE  SameCounter(d, c) /\ d.enabled = c.enabled
  <1>1. CASE who \in {1, 2}
    BY <1>1 DEF Stepped, SameCounter
  <1>2. CASE who = 3
    <2>1. d = c \/ d = WaveStep(c, n)
      BY <1>2 DEF Stepped
    <2> DEFINE over == n - c.timer
               p == WavePeriod(c.freq)
               early == c.timer - n
               late == p - (over % p)
               position == (c.position + 1 + over \div p) % (2 * WaveBytes)
               latched == (over % p) = 0
    <2>2. \/ WaveStep(c, n) = [c EXCEPT !.timer = early, !.latched = FALSE]
          \/ WaveStep(c, n) = [c EXCEPT !.timer = late, !.position = position, !.latched = latched]
      BY DEF WaveStep
    <2> HIDE DEF early, late, position, latched
    <2>3. CASE d = c
      BY <2>3 DEF SameCounter
    <2>4. c \in WaveChannels
      BY <1>2, KindsOf
    <2>5. CASE d = [c EXCEPT !.timer = early, !.latched = FALSE]
      BY <2>4, <2>5 DEF WaveChannels, SameCounter
    <2>6. CASE d = [c EXCEPT !.timer = late, !.position = position, !.latched = latched]
      BY <2>4, <2>6 DEF WaveChannels, SameCounter
    <2> QED BY <2>1, <2>2, <2>3, <2>5, <2>6, Zenon
  <1>3. CASE who = 4
    <2>1. c \in NoiseChannels
      BY <1>3, KindsOf
    <2>2. d = c \/ d = [c EXCEPT !.lfsr = Shifted(c)]
      BY <1>3 DEF Stepped
    <2> QED BY <2>1, <2>2 DEF NoiseChannels, SameCounter
  <1> QED BY <1>1, <1>2, <1>3

LEMMA TickCounts ==
    ASSUME ApuInv, NEW n \in {4, 8}, NEW d \in {0, 1}, Tick(n, d)
    PROVE  /\ ch'.length_on = ch.length_on
           /\ ch'.enabled => ch.enabled
           /\ ch'.enabled /\ ch.length_on =>
                 NoteRest' = NoteRest - (IF div_bit /\ ~div_bit' THEN 1 ELSE 0)
  <1> DEFINE c == Sequenced(d)
  <1>1. /\ who \in 1..4 /\ Right(who, ch, starved) /\ starved \in BOOLEAN
        /\ frame_step \in 0..7 /\ div_bit \in BOOLEAN
        /\ ch.enabled => apu_on
    BY Follows DEF ApuInv, SequencerTypeOK
  <1>2. KindOf(who) \in Kinds /\ ch \in KindOf(who)
    BY <1>1, KindsOf DEF Right
  <1>3. ch.length \in Nat /\ ch.length_on \in BOOLEAN /\ (ch.enabled => ch.length > 0)
    BY <1>1, <1>2, CommonFields DEF Right, Fed
  <1>4. CASE ~apu_on
    <2>1. ch' = ch
      BY <1>4 DEF Tick
    <2> QED BY <1>1, <1>4, <2>1
  <1>5. CASE apu_on
    <2>1. Right(who, c, starved) /\ c \in KindOf(who) /\ (c.enabled => ch.enabled)
      BY SequencedRight DEF Right
    <2>2. /\ c.length_on = ch.length_on
          /\ c.length = IF SeesFall(d) /\ frame_step % 2 = 0 /\ ch.length_on /\ ch.length > 0
                        THEN ch.length - 1 ELSE ch.length
      <3>1. CASE SeesFall(d)
        <4>1. c = ClockChannel(ch, frame_step)
          BY <1>5, <3>1 DEF Sequenced
        <4> HIDE DEF c
        <4> QED BY <1>1, <3>1, <4>1, ClockChannelCounts
      <3>2. CASE ~SeesFall(d)
        BY <3>2 DEF Sequenced
      <3> QED BY <3>1, <3>2
    <2> HIDE DEF c
    <2>3. ch' \in Stepped(c, n)
      BY <1>5 DEF Tick, c
    <2>4. SameCounter(ch', c) /\ ch'.enabled = c.enabled
      BY <1>1, <2>1, <2>3, SteppedCounts
    <2>5. frame_step' = IF SeesFall(d) THEN (frame_step + 1) % 8 ELSE frame_step
      BY <1>5 DEF Tick, SyncFrameSequencer
    <2>6. SeesFall(d) <=> div_bit /\ ~div_bit'
      BY Zenon DEF Tick, SyncFrameSequencer, SeesFall
    <2>7. ASSUME ch'.enabled, ch.length_on
          PROVE  NoteRest' = NoteRest - (IF SeesFall(d) THEN 1 ELSE 0)
      <3>1. ch.length > 0
        BY <1>3, <2>1, <2>4, <2>7
      <3>2. NoteRest' = 2 * c.length - 1 + (frame_step' % 2)
        BY <2>4 DEF NoteRest, SameCounter
      <3>3. CASE SeesFall(d)
        <4>1. CASE frame_step % 2 = 0
          <5>1. c.length = ch.length - 1
            BY <2>2, <2>7, <3>1, <3>3, <4>1
          <5>2. frame_step' % 2 = 1
            BY <1>1, <2>5, <3>3, <4>1
          <5> QED BY <1>3, <3>2, <3>3, <4>1, <5>1, <5>2 DEF NoteRest
        <4>2. CASE frame_step % 2 # 0
          <5>1. c.length = ch.length
            BY <2>2, <4>2
          <5>2. frame_step' % 2 = 0 /\ frame_step % 2 = 1
            BY <1>1, <2>5, <3>3, <4>2
          <5> QED BY <1>3, <3>2, <3>3, <5>1, <5>2 DEF NoteRest
        <4> QED BY <4>1, <4>2
      <3>4. CASE ~SeesFall(d)
        <4>1. c.length = ch.length /\ frame_step' = frame_step
          BY <2>2, <2>5, <3>4
        <4>2. frame_step % 2 \in Int
          BY <1>1
        <4> QED BY <1>3, <3>2, <3>4, <4>1, <4>2 DEF NoteRest
      <3> QED BY <3>3, <3>4
    <2> QED BY <2>1, <2>2, <2>4, <2>6, <2>7 DEF SameCounter
  <1> QED BY <1>4, <1>5

(* What there is of NoteEnds without fairness, for every length: while the   *)
(* program leaves it alone, a note whose counter is on loses one of at most  *)
(* twice its length with each clock of the sequencer, has at least one left  *)
(* while it sounds, and once silent stays so.                                *)
THEOREM NoteRunsDownHolds == Spec => []NoteRestIsRight /\ NoteRunsDown
  <1>1. ASSUME ApuInv PROVE NoteRestIsRight
    <2> SUFFICES ASSUME ch.enabled PROVE NoteRest \in 1..(2 * MaxLength[who])
      BY DEF NoteRestIsRight
    <2>1. who \in 1..4 /\ Right(who, ch, starved) /\ frame_step \in 0..7
      BY <1>1, Follows DEF ApuInv, SequencerTypeOK
    <2>2. ch.length \in 1..MaxLength[who] /\ MaxLength[who] \in Nat
      BY <2>1, MaxLengths DEF Right, Fed
    <2>3. frame_step % 2 \in 0..1
      BY <2>1
    <2> QED BY <2>2, <2>3 DEF NoteRest
  <1>2. ASSUME ApuInv, [Next]_vars
        PROVE  [Ticks => /\ ch'.length_on = ch.length_on
                         /\ ch'.enabled => ch.enabled
                         /\ ch'.enabled /\ ch.length_on =>
                               NoteRest' = NoteRest - (IF div_bit /\ ~div_bit' THEN 1 ELSE 0)]_vars
    BY <1>2, TickCounts DEF Ticks
  <1> QED BY <1>1, <1>2, ApuInvariant, PTL DEF Spec, NoteRunsDown
==============================================================================
