------------------------------- MODULE MCApu -------------------------------
(***************************************************************************)
(* Apu with short counters: every channel in turn, each with the registers *)
(* that matter to it in full and the envelope left to the second.          *)
(***************************************************************************)
EXTENDS Apu

MCMaxLength == [c \in 1..4 |-> 2]

MCShiftScale == [s \in 0..1 |-> 2^s]

\* For the second channel every volume, direction and pace; for the first the
\* DAC only on, and for the others off and on.
MCEnvelopeWrites ==
    [c \in 1..4 |-> CASE c = 2 -> (0..MaxVolume) \X BOOLEAN \X Periods
                      [] c = 1 -> {<<0, TRUE, 0>>}
                      [] OTHER -> {<<0, FALSE, 0>>, <<0, TRUE, 0>>}]
============================================================================
