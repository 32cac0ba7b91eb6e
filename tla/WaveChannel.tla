---------------------------- MODULE WaveChannel ----------------------------
(***************************************************************************)
(* The wave channel (apu/channel.h, apu/wave.cpp) and what the APU does    *)
(* with its RAM (apu/apu.cpp).  The sample that is out and its level are   *)
(* left out, being sound.                                                  *)
(***************************************************************************)
EXTENDS Channel

CONSTANTS
    WaveBytes,      \* bytes of wave RAM, two samples each: 16
    RowBytes        \* bytes of the rows that corrupt_wave copies: 4

ASSUME WaveAssumption ==
    /\ RowBytes \in Nat \ {0}
    /\ WaveBytes \in Nat \ {0}
    /\ WaveBytes % RowBytes = 0

Positions == 0..(2 * WaveBytes - 1)

\* In T-cycles.
WavePeriod(freq) == (MaxFreq + 1 - freq) * 2

WaveChannels ==
    [length: Nat, length_on: BOOLEAN, enabled: BOOLEAN, dac: BOOLEAN, freq: 0..MaxFreq,
     timer: 1..WavePeriod(0), position: Positions, latched: BOOLEAN]

WaveReset ==
    [length |-> 0, length_on |-> FALSE, enabled |-> FALSE, dac |-> FALSE,
     freq |-> 0, timer |-> WavePeriod(0), position |-> 0, latched |-> FALSE]

\* A bug the checks must notice: a tick without a fetch leaves the mark.
WaveStepKeepsMark(c, n) ==
    LET p == WavePeriod(c.freq)
        over == n - c.timer         \* T-cycles after the first fetch
    IN  IF over < 0 THEN [c EXCEPT !.timer = @ - n]
        ELSE [c EXCEPT !.timer = p - (over % p),
                       !.position = (@ + 1 + over \div p) % (2 * WaveBytes),
                       !.latched = (over % p) = 0]

\* n T-cycles: one fetch when the timer runs out and one every period after.
\* The mark is set by a fetch on the last of them.
WaveStep(c, n) ==
    LET p == WavePeriod(c.freq)
        over == n - c.timer         \* T-cycles after the first fetch
    IN  IF over < 0 THEN [c EXCEPT !.timer = @ - n, !.latched = FALSE]
        ELSE [c EXCEPT !.timer = p - (over % p),
                       !.position = (@ + 1 + over \div p) % (2 * WaveBytes),
                       !.latched = (over % p) = 0]

FetchIndex(c) == c.position \div 2

WaveTrigger(c) ==
    [c EXCEPT !.enabled = c.dac, !.position = 0, !.timer = WavePeriod(c.freq)]

\* The byte that a CPU access to byte i reaches, if it reaches any.
Reached(c, i) ==
    IF ~c.enabled THEN {i} ELSE IF c.latched THEN {FetchIndex(c)} ELSE {}

\* write_wave.
WriteWave(ram, c, i, b) ==
    [j \in DOMAIN ram |-> IF j \in Reached(c, i) THEN b ELSE ram[j]]

\* The byte about to be read is dragged down into the first row, alone if it is
\* in that row and with its row if not.
CorruptWave(ram, c) ==
    LET i == ((c.position + 1) % (2 * WaveBytes)) \div 2
        base == i - (i % RowBytes)
    IN  [j \in DOMAIN ram |->
            CASE i < RowBytes /\ j = 0 -> ram[i]
              [] i >= RowBytes /\ j < RowBytes -> ram[base + j]
              [] OTHER -> ram[j]]
============================================================================
