# my_gb: a verification development

The program is a Game Boy emulator (`src/src/core`, C++) with four frontends.
Its core is single-threaded, deterministic and cycle-stepped: every bus access
of the CPU first runs the rest of the machine for four T-cycles (`Bus::tick`)
and then makes the access. The machine is therefore a set of small state
machines that interleave at T-cycle granularity, and nearly everything that is
hard about it is about *when*: which of two things that fall in the same
M-cycle comes first, what is pending when something else starts, what is stale
when it is read.

This directory holds TLA+ models of those state machines, translated from the
source, configurations that check them with TLC, and proofs checked by TLAPS.
`PROJECT.json` lists every component, run, mapped definition, hazard, finding
and theorem.

## 1. The system

### Components

| component | code | state | operations | modelled by |
|---|---|---|---|---|
| Timer | `timer.cpp` | divider, TIMA, TMA, TAC, reload delay and mark | one T-cycle, four register writes | `Timer`, `ClockTree` |
| APU frame sequencer | `apu/apu.cpp` | step, copy of the divider bit, power | synchronise, NR52 | `FrameSequencer`, `ClockTree`, `Apu` |
| CPU control | `cpu/sm83.cpp`, `irq.h` | IME, EI delay, halted, stopped, HALT bug, PC, SP; IF and IE in the bus | fetch, dispatch, wait | `Sm83` |
| CPU instructions | `cpu/opcodes.inl` | registers and flags | two opcode tables | in part: the nine kinds that touch interrupt state are actions of `Sm83`; arithmetic, rotates, bits and flags in `Alu` |
| OAM DMA | `bus.cpp` | page, pending page, start delay, index, delay, active, latch | write FF46, one T-cycle, the access rules | `OamDma` |
| Bus | `bus.cpp` | WRAM, HRAM, IF, IE, IO latches | tick, read, write, peek, raise | in part: tick order and tick-before-access in every module |
| PPU timing | `ppu/ppu.cpp` | LY, dot, mode, mode-3 length, STAT line, registers | one T-cycle, register writes, access blocks, OAM bug | `Ppu`; access blocks in `OamDma` |
| PPU rendering | `ppu/ppu.cpp` | frame buffer, window line, OAM | one line, the OAM bug | in part: which place each pixel comes from, which object is seen (`Scanline`), what OAM suffers (`OamBug`) |
| APU channels | `apu/*.cpp`, `apu/channel.h` | length, sweep, envelope, duty, LFSR, wave RAM | one T-cycle, register writes, trigger | `Channel`, `SquareChannel`, `WaveChannel`, `NoiseChannel`, `Apu` |
| APU output | `apu/apu.cpp` | sample buffer, filter | one T-cycle, drain | in part: the buffer and who drains it, in `Ports` |
| Serial port | `serial.cpp` | SB, SC, bits and T-cycles left, byte being sent | one T-cycle, writes | `Serial`, `Ports` |
| Joypad | `joypad.cpp` | selection, buttons | press, write | `Joypad`, `Ports` |
| Mappers | `cart/mbc.cpp`, `cart/cartridge.cpp` | bank registers, RAM enable, RAM | make, read, write, save, load | `Cartridge` |
| MBC3 clock | `cart/mbc.cpp` | five registers, their latch, T-cycles of a second | tick, latch, write | `Rtc`, `Cartridge` |
| Header | `cart/header.cpp` | none | parse | `Cartridge`: what is accepted and what it asks for |
| Machine | `gb.cpp`, `state/serialize.h` | all of the above, frame-ready flag | reset, load ROM, run frame or cycles, save, load | `Machine`, `FrameLoop` |
| Rewind | `state/rewind.cpp` | ring of snapshots, frame count | capture, step back, clear, resize | `Rewind`, `Machine` |
| Scheduler | `scheduler.cpp` | time, deadlines | advance; the deadlines are used by tests only | no: its time is the `spent` and `dot` of other modules |
| Disassembler | `cpu/disasm.cpp` | none | format | no |
| Frontends | `frontend/*` | files, windows, audio | I/O | in part: buttons, reset, taking sound (`Ports`), ways of running (`FrameLoop`) |
| Tests, benches, tools | `src/tests`, `src/bench`, `src/tools` | | | no |

### How they interact

* `Sm83` calls `Bus::read`, `write` and `tick`; nothing else moves time. An
  instruction is a sequence of accesses with computation between; a dispatch
  is `tick(8)`, two pushes and `tick(4)`.
* `Bus::tick(n)` runs, in this order: all `n` T-cycles of the timer, then the
  PPU, the APU, the serial port and the cartridge clock, then OAM DMA one
  T-cycle at a time.
* The timer calls *back*: `set_counter` calls `Apu::div_edge` when bit 4 of the
  divider falls, in the middle of the timer's own loop and before the APU has
  been ticked. Timer, PPU, serial port and joypad call `Bus::request_irq`,
  which sets a bit of IF.
* OAM DMA reads through the same decoding as the CPU, PPU blocks included, and
  writes OAM past them; it takes its bus away from the CPU.
* `Gb` owns the machine: it runs it until the PPU reports a frame, serialises
  it, and rolls a failed load back. `Rewind` keeps a ring of such states.

### What is hard, and what makes each component right

* **Timer**: TIMA counts an edge of a *gated* signal, so writes to DIV and TAC
  count too; a wrap opens a window of four T-cycles that a TIMA write may
  cancel, and after it a cycle in which TIMA writes lose and TMA writes go
  through. Right: the window is where the comments say, its value is 0 and
  then TMA, and seen once per M-cycle the timer is a far simpler machine.
* **Frame sequencer**: it learns of the divider from two callers in an odd
  order. Right: exactly one clock for every fall of its bit.
* **CPU control**: the dispatch looks at IF and IE between its pushes, and the
  pushes may write IF and IE. Right: no request is lost or passed over, EI
  delays by one instruction, the HALT bug repeats the next fetch only.
* **OAM DMA**: transfers overlap with each other and with a CPU that writes
  anything. Right: OAM is a copy of the page, one byte per M-cycle in phase
  with the CPU, and the bus is given back.
* **PPU**: the STAT line is the OR of four sources and interrupts on its rising
  edge; turning the LCD off and on leaves stale values. Right: one interrupt per
  rise, 154 lines of 456 dots, modes in order, mode 3 within its bounds.
* **APU channels**: triggers, the enabling of a counter, its stolen clocks and
  the sequencer's own meet on each length counter; the sweep checks a frequency
  that it has not yet written; whether the CPU shares wave RAM is a mark of the
  channel's last step, read later. Right: a channel that sounds has power, a DAC
  and time left; a frequency that will overflow never sounds; the mark is never
  stale; the noise register does not run empty.
* **Machine and rewind**: Right: load is all or nothing, save then load changes
  nothing, `run_frame` ends, the ring is a bounded stack.
* **Mappers and clock**: five mappers, ROMs and RAMs shorter and longer than the
  header says, a clock that runs on while the program reads, stops and sets it
  register by register. Right: one bank never shows in both windows, a save
  state leaves nothing out, what is read of the clock is of one moment and the
  registers count seconds.
* **Serial, joypad, sound**: a transfer may be begun again, given up or written
  over half way; buttons share lines; the APU produces sound at its own pace
  while the frontend takes it once a frame. Right: a byte is delivered once, on
  time and as it was when it was begun, or not at all; a press interrupts if it
  can be seen; the frontend never falls behind.
* **Instructions and lines**: no control, but laws: decimal adjustment undoes
  what binary addition did wrong, 16-bit sums are two bytewise ones, the tile kept
  from pixel to pixel is the right one at every edge.

## 2. The plan

Order, most important behaviour first. Parts 1 to 9 are done.

1. `Timer`, `FrameSequencer`, `ClockTree` against the abstract `MCycleTimer`.
2. `Sm83` and its observer.
3. `OamDma` against the abstract `MCycleDma`.
4. `Ppu` against the abstract `Screen`.
5. `Machine` and `Rewind` against the abstract `History`; `FrameLoop` over
   `Screen`.
6. `Apu`: a channel of each kind over `FrameSequencer`.
7. `Cartridge` and `Rtc` against the abstract `Clock`.
8. `Ports`: `Serial` against the abstract `Link`, `Joypad`, and the sample
   buffer; `Alu`, `Scanline` and `OamBug`, which have no state of their own.
9. Proofs: every invariant, action property and refinement that a passing run
   checks. What stays with TLC is liveness (section 5).

## 3. The modules

Each module names its variables and actions after the code. A comment in
`PROJECT.json` (`map`) gives the lines each definition stands for. Operators
introduced by "A bug the checks must notice" are not part of any specification:
each is what a definition would be with a plausible mistake in it, and the
property paired with it in `PROJECT.json` (`mutants`) fails when it is put in
that definition's place.

### Timer, FrameSequencer, ClockTree, MCycleTimer

`Timer` and `FrameSequencer` are the handlers of two classes with no opinion
about when they run. `ClockTree` composes them the way `Bus::tick` does. A
T-cycle of the timer is a step (`TimerTick`), `Apu::tick` is a step that comes
after all of them (`ApuTick`), and one access may follow (`AccessDiv`,
`AccessTimer`, `AccessPower`, `AccessIf`). `pc` is where in this the program
is; `left` is the loop counter of `Timer::tick`. The callback `Apu::div_edge` is
part of the timer's step, as it is in the code, and reads the divider as the
code does: after it moved.

`Apu::tick` loops over its T-cycles, but the divider does not move during
them, so only the first comparison can see anything and the loop is one step.
What the steps clock in the channels is in `Apu`. `owed` is a history variable: falls of the sequencer's bit
minus clocks it was given.

`MCycleTimer` is the specification: a timer that moves once per M-cycle,
with phases "run", "overflow" and "reload" in place of delays and marks, and at
most one access after each M-cycle. `ClockTree` implements it with `div` the
divider over 4. The refinement says, among other things, that all edges of the
input fall on M-cycle boundaries, that a wrap is followed by exactly one
M-cycle of 0 and one of TMA, and that no T-cycle order inside `Bus::tick` can
be told apart by the CPU.

### Sm83, Sm83Observer

One `Sm83::step` is split where it ticks the bus, because devices change IF
there: `Fetch` and an `Exec...`, or the four parts of `service_interrupt`:

| action | code |
|---|---|
| `BeginDispatch` | IME and the pending test, clearing of IME, `tick(8)` |
| `PushHigh` | first push; then `pending` is sampled from IF and IE |
| `PushLow` | second push; the chosen line is cleared, PC is loaded |
| `EndDispatch` | `tick(4)` |

IF and IE are sets of lines. `Tick` lets devices raise any set of lines in any
tick, which contains everything the devices can do. A pushed byte is any set of
lines, which contains every value PC can have. The program is anything:
`Fetch` picks any opcode every time, so self-modifying and data-driven code is
covered. Opcodes are grouped by what they do to this state, and all the others
are one action that may change PC and SP.

`Sm83Observer` adds history variables that guard nothing, with one exception:
`hung` restricts `Fetch` to read a locked opcode again once it is being
repeated, because a hung CPU writes nothing and so reads the same byte. It is
there for `LockedHangs`; the proofs of the other properties hold with or
without that restriction, and `ModeInvariant` is proved of the module without
the observer.

### OamDma, MCycleDma

A T-cycle of `step_oam_dma` is a step (`DmaTick`); `BusTick` is the start of a
tick, where the PPU has already been advanced, so its mode is fixed for all
T-cycles of the transfer in this tick; `AccessDma` and `AccessMemory` are the
access. `mode` is what the PPU leaves to the CPU and is free to change with
every tick: a superset of what `Ppu` does. Reads change nothing and are
stated as the operator `CpuRead`, which `InPhase` is about. An access that the
transfer or the PPU shuts out changes nothing either and appears as no access
at all (`BusTick` may follow at once). WRAM, ROM and cartridge RAM pages are the
external bus; ROM is a page the program happens not to write.

`MCycleDma` is the specification: two M-cycles of waiting, a takeover in the
third, one byte per M-cycle, a request that has not taken over forgotten for the next. `wait` is the
start delay rounded up to M-cycles.

### Ppu, Screen

`StepDot` is one turn of the loop in `Ppu::tick`, `BusTick` begins a tick of
four or eight dots, and at most one access follows: `TurnOff` and `TurnOn`
(LCDC), `WriteStat`, `WriteLyc`, `WriteIf`. `TakeFrame` is `run_frame` asking
for its frame. How long drawing takes is computed from sprites and scrolling in
the code (`mode3_dots`); in the model it is any of `DrawLengths`, chosen when
drawing starts. Pixels are not modelled; `window_line`, the one piece of state
rendering has, is.

Three things about the code that its reader may not expect are in the model as
they are. After a reset STAT reads mode 1 until the first change of mode,
though the mode is 2. The first line after the LCD is turned on has mode 0 where
others scan OAM. And STAT interrupts can be raised by writes while the LCD is
off; `StatOnRise` and `StatIsCurrent` claim nothing then.

`Screen` is the specification: a beam that goes along the dots of a line and the
lines of a frame, and a frame finished when it enters the vertical blank.

### Machine, Rewind, History

`Rewind` has the ring's operations; `Machine` has those of `Gb`, which call them.
What the components hold is abstracted to its origin: each part of the machine
remembers which cartridge's machine it is from and how many runs that machine
had behind it. A save state is a header and a sequence of parts without
lengths, as the archives write it, so a state of one cartridge that passes for
another's is read shifted, as in the code, and a short one is read as zeros
after its end. `LoadSaved` offers states of every machine cut after any part;
a cut inside a part is as good as one before it, because either is undone as a
whole. `LoadState` has both of what the code does: the payload applied in place,
and the copy made before it applied instead when it was short.

`Reset` resets CPU and bus but not the cartridge, which keeps its bank registers
and RAM; `LoadRom` leaves the ring alone, so `StepBack` may meet a snapshot of
another cartridge, which is dropped and, unless it passes for one of this, not
loaded. `linear` is a history variable for `OnGrid`. No frontend uses the ring;
the unit tests do.

`History` is the specification of the ring: a stack with a limit.

### FrameLoop

The loops of `run_frame` and `run_cycles`, which `BeginRunFrame` and
`BeginRunCycles` enter, turn by turn. A turn is a CPU step (`BeginStep`), which is some M-cycles; each of these is four `RunDot` and an
`Access`; then the loop's own test (`CheckFrame`, `CheckCycles`). The PPU is
`Screen`: every run of `Ppu` is a run of `Screen` (`PpuProofs`), so what holds
with any screen holds with it. The CPU takes any number of M-cycles up to
`MaxStep` and switches the LCD at the end of any; a dispatch, which ticks two
M-cycles at once, is one with no access after the first. `step_instruction` is
`run_cycles` of 1. `dark`, `partial` and `stepped` are history variables, about
the LCD, the picture and who ran the CPU. The snapshot that `run_frame` takes
at its end is in `Machine`.

### Channel, SquareChannel, WaveChannel, NoiseChannel, Apu

`Channel` has what channels share, as operators on a record: the length counter
with its two obscure rules, the DAC and the envelope. The three others have what
is special to a kind: the sweep, wave RAM, the shift register. `Apu` puts one
channel, any of the four (`who`), under the real `FrameSequencer` and under a
program that writes any register at any time: the channels share nothing but
power and the sequencer's step, so a property of each is a property of all. The
divider is anything; `ClockTree` shows that its falls reach the sequencer.

`Tick` is `Apu::tick`: the sequencer first, then the channel is stepped, T-cycle
by T-cycle in the code and in closed form in `WaveStep`. `FetchesLast` is a
second account of the same loop, one T-cycle at a time, that the mark of a fetch
is held against by `WaveWindow`. How often the noise shifts is left out: in a
tick it does or does not. Where in its wave a square is decides nothing but the
sound. `starved` and `fetched` are history variables: the noise register was made
short at a moment when its short part was empty (`ShortEmpty`), and the last
T-cycle of the tick fetched a byte of the wave.

### Cartridge, Rtc, Clock

`Cartridge` makes a cartridge from a header and a file, as `Header::parse` and
`make_cartridge` do, and then lets the program write any register and any cell,
save and load. One record has the registers of all mappers, with those that do
the same work under one name; a ROM is its banks, and what is in them is left out.
`Rtc` has the clock's registers as operators. The bank number, RAM offset and
mirroring are the code's arithmetic. `SaveState` and `LoadState` list, per
mapper, what the archives write; `Fresh` is what a load starts from.

`Clock` is the specification: a count of seconds, with a carry when its days are
over. `Cartridge` implements it with `total` the seconds that its registers
stand for. Registers can be set past the last legal value; one that was turns
over with the next count and carries, so it stands for the last legal value
(`TotalOf`).

### Serial, Link, Joypad, Ports

`Ports` composes what crosses the machine's border during `run_frame`: the
serial port, the buttons, which a frontend sets before the frame, and the sample
buffer, which libretro drains after it (`EmitAudio`) and the other frontends
never (`drains`). Each tick is any of `TickLengths`; accesses fall between ticks.
With no peer a transfer by the machine's own clock shifts ones into SB and one
by the peer's clock waits for ever. `Link` is the specification: `left` T-cycles
to the end of a transfer, a byte fixed when it began, and its delivery with the
interrupt. It may give a transfer up, which the program does by writing SC and the
frontend by a reset, but not in a step in which time passes (`Timeless`): one that
is left alone is delivered.

### Alu, OamBug, Scanline

Operators without a state. `Alu` has the instructions' arithmetic on a byte and
four flags, at full width. A byte in AND, OR and XOR is the set of its bits, which
is what can be proved about. `Scanline` has `render_scanline` with places in VRAM
for colors, so that two places are never taken for one another, or for none while
the background is off, and the choice of objects; `OamBug` what an access during the scan does to OAM. `Scanline` says
beside each what should come out: the torus of the map, the window before it,
the frontmost object. `MCSm83` and `MCPpu` check them whenever an instruction
executes and a line is drawn.

## 4. What is checked

| run | module | distinct states | checks |
|---|---|---|---|
| `clock_tree` | `MCClockTree` | 1 169 152 | `ReloadWindow`, `ReloadIsTma`, `SequencerLocked`, `ImplementsMCycleTimer` |
| `sm83` | `MCSm83` | 157 756 | `HaltBugIsNext`, `NoOvertaking`, `CancelledByStackOnly`, `EiDelay`, `NoRequestLost`, `Arithmetic` |
| `oam_dma` | `MCOamDma` | 1 564 480 | `CopyMatchesSource`, `InPhase`, `ImplementsMCycleDma`, `BusIsReturned` |
| `ppu` | `MCPpu` | 614 554 | `ModeFollowsBeam`, `StatIsCurrent`, `OamBugInScan`, `WindowLineBehind`, `StatOnRise`, `ImplementsScreen`, `LineIsRight` |
| `machine` | `MCMachine` | 64 240 | `Coherent`, `OnGrid`, `ImplementsHistory` |
| `frame_loop` | `FrameLoop` | 20 023 | `OnTime`, `WholePicture`, `Returns` |
| `apu` | `MCApu` | 359 539 | `TypeOK`, `Sounding`, `WaveWindow`, `NoiseKeepsGoing`, `OverflowNeverSounds`, `NoteEnds` |
| `cartridge` | `MCCartridge` | 347 038 | `TwoBanks`, `StateComplete`, `OneMoment`, `ImplementsClock` |
| `ports` | `Ports` | 385 537 | `NoBacklog`, `PressInterrupts`, `ImplementsLink` |
| `locked_opcode` | `MCSm83` | | `LockedHangs`, which fails |
| `machine_config` | `MCMachine` | | `SameConfiguration`, which fails |
| `finish_frame` | `FrameLoop` | | `FinishesFrame`, which fails |

The type invariants of `ClockTree`, `Sm83`, `OamDma`, `Ppu`, `Machine` and `Ports`
are theorems (section 5) and not checked again.

* **`clock_tree`**. `ReloadWindow`: TIMA reads 0 while a reload is pending, and
  the CPU meets the window only at its very beginning. `ReloadIsTma`: in the
  cycle of the reload TIMA is TMA until the access. `SequencerLocked`: the
  sequencer is clocked once for every fall of its bit, whichever of the two
  callers tells it, across resets of DIV and while the APU is off.
* **`sm83`**. `NoOvertaking`: a dispatch ends at the vector of the first line
  that was pending all along, or of one before it. `CancelledByStackOnly`: PC
  goes to 0 only when a push hit IF or IE. `NoRequestLost`: a request goes
  away only by its own dispatch or by the program writing IF. `EiDelay` and
  `HaltBugIsNext`: see the modules. `Arithmetic`: decimal sums and differences,
  16-bit sums as chains of bytewise ones with their flags, rotations and counts
  undone by their opposites, comparisons and bit tests, for all bytes and a
  sample of words at their edges.
* **`oam_dma`**. `CopyMatchesSource`: what was copied is what the source still
  holds, through restarts and CPU writes. `InPhase`: the CPU finds the byte of
  its own M-cycle on a busy bus.
  `BusIsReturned`: a program that stops writing FF46 gets its buses back.
* **`ppu`**. `ModeFollowsBeam`: the mode is what the line and dot say, whenever
  the LCD is switched. `StatIsCurrent`: STAT's copies of the comparison and of the
  interrupt level are never stale, and its copy of the mode only in a scan of line
  0, where it may still be the vertical blank that the reset left it at.
  `StatOnRise`: with the LCD on STAT interrupts exactly when the OR of its sources
  rises, so one source taking over from another does not. `OamBugInScan`: the window of the OAM bug
  and its row agree with the scan at both ends. `WindowLineBehind`: the window's
  line never passes the lines drawn. `LineIsRight`: for every position of map and
  window and every set of objects, the tile kept from one pixel to the next is the
  right one, the object seen is the frontmost that has a color there, flips are
  mirror images, tiles are addressed as they are shared, and the OAM bug damages
  only its rows.
* **`machine`**. `Coherent`: a load is all or nothing. `OnGrid`: while the machine
  only runs and steps back, its snapshots are whole intervals apart and never
  of the same point twice. `ImplementsHistory`: the ring drops its oldest, gives
  back its newest, and never brings up one that was dropped.
* **`frame_loop`**. `OnTime`: while the LCD is on `run_frame` returns with a
  frame, within a frame's time and a step; it ends by its cap only if the LCD has
  been off. `WholePicture`: the picture it returns with is one frame, none of
  the next over it, as long as nothing else runs the CPU. `Returns`: every call
  returns, whatever the program does with the LCD.
* **`apu`**. `Sounding`: a channel that sounds has power, a DAC and time left on
  its counter, and a sweep that has subtracted still does. `WaveWindow`: the mark
  of a fetch is that of this very tick whenever the program can use it, though
  ticks in which the channel is silent keep it. `OverflowNeverSounds`: what starts
  to sound, or moves in frequency, is silenced in the same step if the frequency
  after would not fit. `NoiseKeepsGoing`: the shift register runs empty only
  after it was made short when nothing was left in its short part, and by no other
  switch of its width. `NoteEnds`: a note whose counter is on ends, if the
  program leaves it alone from some point on.
* **`cartridge`**. `TwoBanks`: a bank shows in both windows only if an MBC5 asked
  for bank 0, the number is past the ROM's banks, or a multicart was given the one number
  that its missing line makes a zero of (section 6). `StateComplete`: a state loaded into a new cartridge gives the same one.
  `OneMoment`: what is read of the clock changes only with a latch, as a whole.
  `ImplementsClock`: the registers count seconds whatever the program does with
  them and with the RAM they share a window with.
* **`ports`**. `NoBacklog`: what libretro takes after a frame is all there is,
  even of the longest one. `PressInterrupts`: a press interrupts if its row is
  selected and its line not held low by another button; nothing else does, and
  not the selection of a row whose button is down.
  `ImplementsLink`: the byte a transfer was begun with, once and on time, unless the
  program or a reset gives it up, and then nothing. `NoBacklog` is about
  libretro, which drains; the other frontends never do, and of their buffer there is
  only its bound (`TypeCorrect`).

### Bounds, and why they are enough

* `CounterMod = 128` (65536): the bits keep their order (TAC 1, the bit that
  calls the APU, TAC 2 and 3, TAC 0, the sequencer's), each is a whole number
  of M-cycles and the wrap is a fall of all. TAC 2 and 3 share a bit. Nothing
  in the code depends on the distances beyond that; the proofs are for all of
  them.
* `TimaMod = 3` (256): 0, the value before the wrap, and one more, so a write
  can be told from a reload and from both.
* `CounterReset = 44` stands for 0xABCC: aligned, sequencer's bit clear.
* `NumLines = 3` (5): enough for a line chosen, one before and one after it.
* `PcMod = 5`: address 0, three vectors, one more. `SpMod = 5`: IF and IE with
  memory between, and a stack that wraps onto IE as 0 does onto 0xFFFF.
* `OamSize = 3` (160): first, middle and last byte; with the three M-cycles of
  delay a restart finds the transfer before it not begun, half done or done.
* Two pages, one per bus; two bytes, the open-bus value and another.
* A line of 20 dots (456) with a scan of 12 (80), drawing of 3 to 5 (172 to 289),
  two visible lines and two of vertical blank (144 and 10): three rows of the
  OAM bug, drawing that ends at different dots, a first and a last line of each
  kind. LYC is compared with the first line, the first of the vertical blank,
  and one that never comes.
* No cartridge, and two of one mapper and ROM size, with two banks of RAM and
  with one; each machine has up to `MaxAge = 3` runs; a ring of no slots or two;
  intervals asked for of 0 and 2, which the code makes 1 and 2. A ring of two
  wraps, is full, and is empty again within three runs.
* `frame_loop`: a frame of three lines of 16 dots, one of them vertical blank,
  drawing of 5 to 7 dots and CPU steps of one or two M-cycles: what matters is
  that a step is shorter than the vertical blank (24 T-cycles against 4560) and
  than the head start, scan and drawing of the first line (4 + 24 against 80 + 172),
  and that a line can be drawn while a call is under way.
* `apu`: counters of two, frequencies of two bits, volumes to 2, and periods of 1
  or none; two bytes of wave RAM, four samples, in ticks of four and eight T-cycles,
  so a tick fetches none, one or several, on its last T-cycle or before;
  a noise register of four cells, two when short. All eight steps of the
  sequencer. `SequencerHalf = 1` makes the divider its own bit. One byte value:
  what wave RAM holds is a matter of no property here. The envelope is
  followed in the second channel only, with every volume, direction and pace: it
  acts on nothing else.
* `cartridge`: a header of every mapper, RAM of none, half a window, one and two
  windows, files with less and more banks than the header says, multicarts and
  their like with too few logos. A bank register of two bits, of one for MBC3. A
  minute of two seconds in a register that holds three, two minutes, one hour,
  two days: every carry, the overflow, and a register set past its last value.
* `ports`: bytes of two bits, bits of two T-cycles, ticks of one and two; two rows
  of one line, so both buttons of a line are there (with two lines it holds as
  well); a sample every two T-cycles, and a cap and buffers as small as the
  relation between them, which is that of the code's numbers, allows.
* `LineIsRight`: a line of four pixels of a map of three tiles of two pixels; the
  screen lies anywhere on the map and the window anywhere on and off the screen;
  three objects of which two are shown. The OAM bug has seven rows, enough for all
  its three reaches. `Arithmetic` is at full width.

Every action and every disjunct of the next-state relations fires in a run.

### Fairness

`FairSpec` of `OamDma` has weak fairness of `BusTick(4)` and of `DmaTick`: the
clock goes on. The code justifies it: `Sm83::step` ticks the bus on every path,
halted and stopped included (`sm83.cpp`), and `step_oam_dma` is a loop over the
T-cycles of the tick. No fairness of any access is assumed. `FairSpec` of `Apu`
says the same of its clock: the divider's bit keeps rising and falling, in ticks
of an M-cycle. `NoteEnds` is conditional on the program leaving the channel alone,
and on nothing else. `LoopSpec` of `FrameLoop` has weak fairness of what goes on
inside a call: it is a loop of one thread, and every `Sm83::step` ticks the bus.
That a call is ever made is not assumed.

## 5. What is proved

For every value of the constants that satisfies the modules' named assumptions.
These say of the timer: every selectable bit and the bit that calls the APU
is a whole number of M-cycles or divides as in the code, and the reset value is
aligned with the sequencer's bit clear; of the CPU: IF and IE are two
addresses of the stack space and vectors are addresses; of DMA: at least one
byte, and the open-bus value is a byte; of the PPU: a line has room for the
scan and the longest drawing, both on M-cycle boundaries where the code has
them there, and not all lines are visible; of the machine: CPU and bus are in
every payload, and the header of an empty slot is that of no cartridge; of the
frame loop: a CPU step is shorter than the vertical blank, and with the head start
shorter than a scan and the shortest drawing; of the channels: a frequency's low byte divides their number and the short register is
shorter than the long; of the ports: no tick is longer than a bit or a sample, and
libretro takes at most what the buffer holds and at least what the longest call
can produce, as 2048, 48000 and 140472 / 87 do; of the cartridge: a bank register
can be written at least two values, every ROM has at least two banks, no register
of the clock holds less than its last legal value and no tick is longer than a
second. TLC
evaluates all of them on the instances it runs.

| module | theorems | argument |
|---|---|---|
| `ClockTreeProofs` | `ClockInvariant`, `TypeCorrect`, `ReloadWindowHolds`, `ReloadIsTmaHolds`, `SequencerLockedHolds`, `Refinement` | `ClockInv` |
| `Sm83Proofs` | `ModeInvariant`, `TypeCorrect`, `HaltBugIsNextHolds`, `ObservedModeInvariant`, `NoOvertakingHolds`, `CancelledByStackOnlyHolds`, `NoRequestLostHolds`, `EiDelayHolds`, `WordSumIsRight`, `StackSumIsRight`, `LawsHold`, `ArithmeticHolds` | `ModeInv`, `DispatchInv`, `EiInv`; digits and bits |
| `OamDmaProofs` | `DmaInvariant`, `TypeCorrect`, `CopyMatchesSourceHolds`, `InPhaseHolds`, `Refinement`, `RunsDownHolds` | `DmaInv`; what is left |
| `PpuProofs` | `PpuInvariant`, `TypeCorrect`, `ModeFollowsBeamHolds`, `StatIsCurrentHolds`, `OamBugInScanHolds`, `WindowLineBehindHolds`, `StatOnRiseHolds`, `Refinement`, `TilesAreRight`, `TilesAreShared`, `FlipsMirror`, `DamageIsContained`, `FrontmostIsSeen`, `LineIsRightHolds` | `PpuInv`; least counterexamples |
| `MachineProofs` | `MachineInvariant`, `TypeCorrect`, `CoherentHolds`, `OnGridHolds`, `Refinement`, `LoopInvariant`, `OnTimeHolds`, `WholePictureHolds`, `CallEndsHolds` | `MachineInv`, `GridInv`; `LoopInv`; what is left |
| `ApuProofs` | `ApuInvariant`, `TypeCorrect`, `SoundingHolds`, `NoiseKeepsGoingHolds`, `OverflowNeverSoundsHolds`, `WaveWindowHolds`, `NoteRunsDownHolds` | `ApuInv`; the least T-cycle; what is left |
| `PortsProofs` | `PortsInvariant`, `TypeCorrect`, `NoBacklogHolds`, `PressInterruptsHolds`, `ImplementsLinkHolds` | `PortsInv` |
| `CartridgeProofs` | `CartridgeInvariant`, `TypeCorrect`, `TwoBanksHolds`, `StateCompleteHolds`, `OneMomentHolds`, `Refinement` | `CartridgeInv` |

* **`ClockInv`** is `TypeOK`, `Aligned`, `WindowInv`, `ReloadIsTma` and
  `SequencerInv`. None of the checked invariants is inductive: that TIMA stays
  0 in the window needs that no edge of the input can fall inside it, which
  needs the T-cycle at which the window ends (`WindowInv`), which needs that
  accesses happen on M-cycle boundaries of the divider (`Aligned`). That the
  sequencer is never clocked twice needs that its copy of the bit is behind only
  just after a reset of DIV, and for less than half a period (`SequencerInv`).
  The refinement of `MCycleTimer` rests on the same invariant: where a T-cycle does
  not end an M-cycle the divider over 4 stays, no bit that the timer looks at
  moves, and the step is a stutter; the one that does is one step of the abstract
  timer in the phase that the delay and the mark stand for.
* **`ModeInv`** says what the flags can be at each stage of a step.
  `DispatchInv` relates the sample to the lines that were pending all along;
  `EiInv` relates the age of an EI to IME and its delay.
* **The laws of `Alu`** are proved from three ways of reading a byte. Decimal
  adjustment: a byte is two digits, and a digit's sum is below 10, or past it by
  6 with the half carry that says so. Sums of words: a word is two bytes, for all
  words and not only those at the edges that TLC takes (`WordSumIsRight`,
  `StackSumIsRight`). Logic, masks and bit tests: a byte is eight bits, the sum of
  them is the byte (`ValueOfBits`) and a byte has no other (`BitsOfValue`).
* **`DmaInv`** adds to the types where in the M-cycle the delays stand
  (phase), and that a kept cell still equals its source. The refinement proof
  uses it to show that a T-cycle is a stutter unless it is the one that
  copies, takes over or completes an M-cycle of waiting.
* **`PpuInv`** is `TypeOK`, `Aligned` (accesses come at whole M-cycles of the
  line), `ModeFollowsBeam`, `StatIsCurrent` and `WindowLineBehind`. The mode as a
  function of the beam needs the length of drawing to fit the line; that STAT
  interrupts on a rise needs that its remembered level is the level.
* **`LineIsRight`** needs no invariant of the PPU but an argument about loops, for
  every width, map, scroll, window and number of objects. `render_scanline`
  is a function of the pixels so far, defined by recursion; if some pixel had
  the wrong tile there would be a first one (`Least`, from the library's theorem
  that the naturals are well-founded), and the pixel before it, which is right,
  makes it right (`AfterPixelNext`). That the tile kept is the tile wanted is that two
  places of a torus are in one tile unless the column is a multiple of
  its width (`SameTile`). Objects: what is drawn back to front remains where nothing
  later covers it (`FoldRemains`, over the library's fold), so the last drawn is
  seen, and the last in the order of drawing is the frontmost (`LastIsFrontmost`).
* **`MachineInv`** is `TypeOK`, `Coherent`, and that every snapshot in the ring is
  the empty one or of one piece and long enough for CPU and bus. A state whose
  header fits but whose cartridge has more RAM is the case that needs care: its
  parts are of one moment, if not of this machine. The refinement is proved
  from two lemmas about a ring of c slots, `RingPush` and `RingPop`: what
  writing at the head and moving the head back do to the sequence the ring
  stands for. **`GridInv`** adds to `OnGrid` that the snapshots of a machine that
  only moves as `linear` says are its own and whole, so that going back to one takes its
  age with it.
* **`LoopInv`** is `LoopTypeInv`, `OnTimeInv` and `PictureInv`. `OnTime` is about the
  return only; the invariant carries it there by a sum: the time spent and the time
  until the frame make up no more than a frame, T-cycle by T-cycle. `PictureInv` says
  where the beam can be while a frame waits to be taken: in a vertical blank that the rest of
  the step does not leave, or, when the LCD was switched in between, before the end
  of a first drawing. The model had no floor under the length of drawing that made the
  last case true; it has the code's now (`FrameLoopAssumption`).
* **`ApuInv`** says that the channel is of its kind and its length within its
  counter, that a sounding channel is fed (DAC and time left) and has power, that
  the sweep's direction is kept, and that the noise register, its short part if it is
  short, is alive unless starved (`Right`). Each part is a lemma about each operator of `Channel` and its
  kinds, and the same lemmas tell what a step did with the sweep, which is what
  `OverflowNeverSounds` needs (`Swept`). That the noise stays alive is an argument
  about a single cell: a cell that is set moves down by one, and at the bottom it
  is fed back. `WaveWindow` compares `WaveStep`, which leaves the T-cycles of a tick
  in one stride, with a recursion over them (`FetchesLast`): `MarksTheFetch` says
  that they agree for every period and length of tick, again by a least T-cycle
  at which they would not.
* **`PortsInv`** is `TypeOK` and `Backlog`: the samples that are in the buffer of a
  frontend that drains, and the T-cycles of the next, took no longer than the call
  under way, `samples * Period + sample_accum < spent + Period`. The refinement
  maps the T-cycles that are left to `bits_left * BitPeriod - shift_timer`.

* **`CartridgeInv`** is that a cartridge is whole: it has its fields and no other,
  they have their types, no mapper but an MBC5 holds a zero in its bank register,
  and the registers that a mapper does not archive are as they were made, which is
  what makes a state complete. The refinement reads the registers as the digits of
  a number: `Digit` says how one digit, before a number of any size, counts and
  turns over, and `AdvanceCounts` applies it three times, to registers cut off at
  their last legal value.

* **What is left.** A liveness property has two halves: that each step which counts
  brings the end nearer, and that such steps keep coming. The first is proved of all
  three, for every size, as a natural number that falls. `TransferRest`: an OAM DMA
  has `12 + 4 * (OamSize - 1)` T-cycles from the write to FF46, 648 in the code; each
  T-cycle takes one, no access of the CPU changes it but another such write, and OAM
  and the bus are free exactly when it is 0. `NoteRest`: every clock of the
  sequencer takes one of the `2 * length - 1 + (frame_step % 2)` that a note with its
  counter on has left, and a tick makes no silent channel sound. `CallRest`: each step of
  `run_frame` and `run_cycles` ends the call or leaves less of it. The first two are exact
  bounds, where `BusIsReturned` and `NoteEnds` say only that the end comes; the third
  is a bound on steps, not on time, which `OnTime` bounds. TLC found each of them to
  hold on the instance of its run before it was proved.

Only model-checked: the other half of the liveness properties `BusIsReturned`,
`Returns` and `NoteEnds`, that the steps keep coming, because fairness and ENABLED are
outside what the prover can do; the
failing `LockedHangs`, `SameConfiguration` and `FinishesFrame`; and that the bits of `Alu`'s
AND, OR and XOR are those of the machine, which is their definition. The library's induction rules
cannot be used here, for they take an operator as a parameter; where a loop had to be
unrolled, the proofs take the least place at which it would go wrong.

## 6. Findings

`locked_opcode`: `opcodes.inl:411` says of the locked opcodes "No fetch of a
second byte and no PC advance: the part hangs here forever." The code puts PC
back and returns, so the next `Sm83::step` fetches the opcode again, and before
every fetch it checks for interrupts. With IME set and a line enabled the CPU
leaves the opcode for the handler. The run shows it: a locked opcode fetched
with IME set, a line raised, a dispatch.

`machine_config`: `gb.h:57` says of the header of a save state that it "Identifies
the machine a state came from, so a state cannot be loaded into a differently
configured one." The header has the mapper and the size of the ROM; the size of
the cartridge's RAM, which decides the length of the payload, is not in it, and
the payload has no lengths. The run loads a ROM with one bank of RAM and then
a state of one with two: it is accepted, and what was RAM is read into the bank
registers. (`Coherent`, which says only that one state is not mixed with another,
holds all the same.)

`finish_frame`: the PPU sets its frame flag whoever runs the CPU, and only
`run_frame` clears it. After single instructions that passed through a frame,
`run_frame` returns after one CPU step, in the middle of the next frame. The
acceptance tests do just this: they step to a breakpoint, then call `run_frame`
to "Finish the frame first so the hash does not depend on where we stopped."
(`tests/acceptance/main.cpp:196`), and it does depend on it. No frontend mixes
the two; for them `WholePicture` holds.

Smaller things met while modelling, where code and comment differ at the edges or
a reader may be surprised, with no run of their own:

* `mbc.cpp:169` says that bank 0 cannot be reached at 0x4000, and `mbc.cpp:377` that
  "MBC5 is the only mapper that can map bank 0" there. The zero is replaced among the
  five bits written, and a multicart drops the fifth afterwards (`mbc.cpp:153`), so
  0x10 is bank 0 of its game, and of the first game bank 0 itself; and on every mapper
  a number past the ROM's last bank wraps, to 0 among others. `TwoBanks` allows these
  and, of a multicart, no other number.
* A clock register set past its last legal value turns over with the next count
  and carries. An MBC3 without a clock has registers that can be written and
  do not run.
* A state has the frontend's sample rate in it (`apu.cpp:432`). Only libretro takes
  sound; under the others the buffer keeps its first 48000 pairs.
* The test of `in_window` against the cached one (`ppu.cpp:270`) never decides:
  where the window begins the tile is another anyway.
* "Smaller X wins" (`ppu.cpp:340`) holds among objects that have a color at the
  pixel and are not behind the background.
* `restore_ram` is called by no frontend.

## 7. What is not modelled, and why

* **Decoding and loads** of the instructions: a table from opcodes to operands,
  which the acceptance tests compare with hardware instruction by instruction.
  What the operations compute is in `Alu`, what they do to interrupts in `Sm83`.
* **Colors**: palettes, shades and the frame buffer. A pixel is its place in VRAM.
* **Sound as heard**: duty, levels, panning, mixing and the filter, which are
  floating-point functions without control. How many samples there are is in
  `Ports`.
* **Scheduler**: the program uses its time and nothing else. Its deadlines are
  exercised by unit tests alone.
* **Disassembler**: formatting for the tracer.
* **Frontends**: files, windows, audio devices and argument parsing. `libretro.h`
  is the vendored interface of that library, 8345 of the 13 866 lines of the
  repository's implementation, so the lines that could be modelled at all
  are some 5 500, of which 2 500 are; the rest are declarations, register reads,
  I/O and the items of this list.
* **Register reads** change nothing and are left out except where a property is
  about what is read (`CpuRead`, `ClockSeen`, `Link`'s register). What each `visit`
  saves and restores is a part in `Machine`, taken whole, and in full for the
  cartridge.
