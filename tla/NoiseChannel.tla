---------------------------- MODULE NoiseChannel ----------------------------
(***************************************************************************)
(* The noise channel (apu/channel.h, apu/noise.cpp): a shift register fed  *)
(* from its own two lowest bits, through its top bit and, while it is      *)
(* short, through a bit further down too.  How often it shifts is left     *)
(* out: in a tick it does or does not.                                     *)
(***************************************************************************)
EXTENDS Channel

CONSTANTS
    LongBits,       \* 15
    ShortBits       \* 7

ASSUME NoiseAssumption ==
    /\ LongBits \in Nat
    /\ ShortBits \in 2..(LongBits - 1)

Cells == 0..(LongBits - 1)

Ones == [i \in Cells |-> TRUE]

NoiseChannels ==
    [length: Nat, length_on: BOOLEAN, enabled: BOOLEAN, dac: BOOLEAN, env: Envelopes,
     lfsr: [Cells -> BOOLEAN], width: BOOLEAN]

NoiseReset ==
    [length |-> 0, length_on |-> FALSE, enabled |-> FALSE, dac |-> FALSE,
     env |-> EnvelopeReset, lfsr |-> Ones, width |-> FALSE]

\* One step of the register, with no carry into a short register: a bug the
\* checks must notice.
ShiftedOpen(c) ==
    [i \in Cells |-> IF i = LongBits - 1 THEN c.lfsr[0] # c.lfsr[1]
                     ELSE IF c.width /\ i = ShortBits - 1 THEN FALSE
                     ELSE c.lfsr[i + 1]]

Shifted(c) ==
    [i \in Cells |-> IF i = LongBits - 1 \/ (c.width /\ i = ShortBits - 1)
                     THEN c.lfsr[0] # c.lfsr[1]
                     ELSE c.lfsr[i + 1]]

\* Nothing is left in what feeds a short register.
ShortEmpty(c) == \A i \in 0..(ShortBits - 1) : ~c.lfsr[i]

NoiseTrigger(c) ==
    [c EXCEPT !.enabled = c.dac, !.env = EnvelopeTrigger(@), !.lfsr = Ones]
============================================================================
