------------------------------- MODULE OamDma -------------------------------
(***************************************************************************)
(* OAM DMA (core/bus.cpp): a write to FF46 arms a transfer that copies one *)
(* page of memory into OAM while the CPU runs on.  While it runs it owns   *)
(* OAM and the bus its page is on, and the CPU's accesses to those are     *)
(* shut out.  A transfer that is running when another is armed goes on     *)
(* until the other takes over.                                             *)
(*                                                                         *)
(* Bus::tick runs the PPU first and then each T-cycle of the transfer,     *)
(* which is a step here; the CPU's access comes after it.                  *)
(***************************************************************************)
EXTENDS Integers

CONSTANTS
    OamSize,    \* bytes of a transfer: 160 in the code
    Pages,      \* the pages FF46 can name; an echo page is its WRAM page
    VideoPages, \* those in VRAM: 0x80 to 0x9F
    ResetPage,  \* what FF46 reads before any transfer: 0xFF
    Data,       \* bytes
    Open        \* what a read that is shut out returns: 0xFF

ASSUME OamDmaAssumption ==
    /\ OamSize \in Nat \ {0}
    /\ VideoPages \subseteq Pages
    /\ ResetPage \in Pages
    /\ Open \in Data

Index == 0..(OamSize - 1)

VARIABLES
    page, pending_page, start_delay, index, delay, active, latch,
    mem,        \* the pages
    oam,
    mode,       \* what the PPU leaves to the CPU: "free"; "scan": not OAM;
                \* "drawing": neither OAM nor VRAM
    pc,         \* "tick": in step_oam_dma; "access": the access may follow;
                \* "between": it is done
    left,       \* T-cycles of this tick still to run
    kept        \* history: cells copied by the last transfer and not let go since

dmaVars == <<page, pending_page, start_delay, index, delay, active, latch>>
memVars == <<mem, oam, kept>>
vars == <<dmaVars, memVars, mode, pc, left>>

Init ==
    /\ page = ResetPage
    /\ pending_page = ResetPage
    /\ start_delay = 0
    /\ index = 0
    /\ delay = 0
    /\ active = FALSE
    /\ latch = Open
    /\ mem \in [Pages -> [Index -> Data]]
    /\ \E byte \in Data : oam = [i \in Index |-> byte]
    /\ mode = "scan"
    /\ pc = "between"
    /\ left = 0
    /\ kept = {}

----------------------------------------------------------------------------

\* A byte as the bus gives it, to the transfer and to the CPU alike.
BusRead(p, i) == IF p \in VideoPages /\ mode = "drawing" THEN Open ELSE mem[p][i]

\* Pages p and q are on the same bus: the video bus, or else the external one.
SameBus(p, q) == p \in VideoPages <=> q \in VideoPages

\* A bug the checks must notice: the transfer takes over an M-cycle early.
StartOamDmaEarly(p) ==
    /\ pending_page' = p
    /\ start_delay' = 8
    /\ UNCHANGED <<page, index, delay, active, latch>>

\* Another: it takes over in the right M-cycle, but in its first T-cycle.
StartOamDmaOutOfPhase(p) ==
    /\ pending_page' = p
    /\ start_delay' = 9
    /\ UNCHANGED <<page, index, delay, active, latch>>

\* The write to FF46.
StartOamDma(p) ==
    /\ pending_page' = p
    /\ start_delay' = 12
    /\ UNCHANGED <<page, index, delay, active, latch>>

\* The byte of page p at index i goes to OAM, and the last one ends the
\* transfer.
CopyByte(p, i) ==
    LET byte == BusRead(p, i)
        more == i + 1 < OamSize
    IN  /\ latch' = byte
        /\ oam' = [oam EXCEPT ![i] = byte]
        /\ index' = i + 1
        /\ active' = more
        /\ delay' = IF more THEN 3 ELSE 0
        /\ kept' = (IF i = 0 THEN {} ELSE kept) \cup
                   (IF p \in VideoPages /\ mode = "drawing" THEN {} ELSE {i})

\* A bug the checks must notice: the count is taken below zero and wraps.
CountDownWraps == start_delay' = IF start_delay = 0 THEN 12 ELSE start_delay - 1

CountDown == start_delay' = IF start_delay = 0 THEN 0 ELSE start_delay - 1

\* One T-cycle of step_oam_dma.
StepOamDma ==
    /\ CountDown
    /\ \/ /\ start_delay = 1            \* the takeover copies at once
          /\ page' = pending_page
          /\ CopyByte(page', 0)
       \/ /\ start_delay # 1
          /\ active
          /\ delay = 0
          /\ CopyByte(page, index)
          /\ UNCHANGED page
       \/ /\ start_delay # 1
          /\ active
          /\ delay # 0
          /\ delay' = delay - 1
          /\ UNCHANGED <<page, index, active, latch, oam, kept>>
       \/ /\ start_delay # 1
          /\ ~active
          /\ UNCHANGED <<page, index, delay, active, latch, oam, kept>>
    /\ UNCHANGED <<pending_page, mem>>

----------------------------------------------------------------------------

\* The first two M-cycles of an interrupt dispatch are one call of Bus::tick.
\* The PPU is where it will be for all of them before the transfer moves.
BusTick(n) ==
    /\ pc \in {"access", "between"}
    /\ pc' = "tick"
    /\ left' = n
    /\ mode' \in {"free", "scan", "drawing"}
    /\ UNCHANGED <<dmaVars, memVars>>

DmaTick ==
    /\ pc = "tick"
    /\ StepOamDma
    /\ left' = left - 1
    /\ pc' = IF left' = 0 THEN "access" ELSE "tick"
    /\ UNCHANGED mode

\* The access of an M-cycle.
Access ==
    /\ pc = "access"
    /\ pc' = "between"
    /\ UNCHANGED <<left, mode>>

AccessDma ==
    /\ Access
    /\ \E p \in Pages : StartOamDma(p)
    /\ UNCHANGED memVars

\* A bug the checks must notice: the page asked for last decides, not the one
\* being copied.
BlocksWriteOfPending(p) == active /\ SameBus(p, pending_page)

\* Nothing is stored on the bus the transfer has, nor in VRAM in mode 3.
BlocksWrite(p) == active /\ SameBus(p, page)

WriteMem(p, i, byte) ==
    /\ ~BlocksWrite(p)
    /\ p \in VideoPages => mode # "drawing"
    /\ mem' = [mem EXCEPT ![p][i] = byte]
    /\ kept' = IF p = page /\ ~active THEN kept \ {i} ELSE kept
    /\ UNCHANGED oam

WriteOam(i, byte) ==
    /\ ~active
    /\ mode = "free"
    /\ oam' = [oam EXCEPT ![i] = byte]
    /\ kept' = kept \ {i}
    /\ UNCHANGED mem

\* The OAM bug: an OAM address on the bus during the scan damages OAM, and the
\* transfer is no protection.  The bug goes by the dot, not by the mode, so it
\* is there on the line the LCD starts with too, which has no scan.
OamBug ==
    /\ mode # "drawing"
    /\ oam' \in [Index -> Data]
    /\ kept' = {}
    /\ UNCHANGED mem

AccessMemory ==
    /\ Access
    /\ \/ \E p \in Pages, i \in Index, byte \in Data : WriteMem(p, i, byte)
       \/ \E i \in Index, byte \in Data : WriteOam(i, byte)
       \/ OamBug
    /\ UNCHANGED dmaVars

Next ==
    \/ BusTick(4) \/ BusTick(8)
    \/ DmaTick
    \/ AccessDma \/ AccessMemory

Spec == Init /\ [][Next]_vars

\* The machine's clock never stands still: even a stopped CPU ticks the bus.
FairSpec == Spec /\ WF_vars(BusTick(4)) /\ WF_vars(DmaTick)

----------------------------------------------------------------------------

TypeOK ==
    /\ page \in Pages
    /\ pending_page \in Pages
    /\ start_delay \in 0..12
    /\ index \in 0..OamSize
    /\ delay \in 0..3
    /\ active \in BOOLEAN
    /\ latch \in Data
    /\ mem \in [Pages -> [Index -> Data]]
    /\ oam \in [Index -> Data]
    /\ mode \in {"free", "scan", "drawing"}
    /\ pc \in {"tick", "access", "between"}
    /\ left \in 0..8
    /\ kept \in SUBSET Index

\* Whatever the CPU writes while a transfer runs, and however transfers
\* follow on one another, what has been copied is what the source still holds:
\* neither side can be changed from the first byte to the last.  (Cells the OAM
\* bug has damaged, or that were read from VRAM in mode 3, are not kept.)
CopyMatchesSource == \A i \in kept : oam[i] = mem[page][i]

\* What the CPU reads from a page.
CpuRead(p, i) == IF active /\ SameBus(p, page) THEN latch ELSE BusRead(p, i)

\* A CPU access during a transfer comes just after a byte was copied, and on
\* the busy bus it finds that byte, whatever it addressed.  (bus.cpp: "keeps the
\* one-byte-per-M-cycle pacing in phase with the CPU".)
InPhase ==
    pc = "access" /\ active =>
        /\ index > 0 /\ delay = 3
        /\ \A p \in Pages, i \in Index :
              SameBus(p, page) /\ index - 1 \in kept => CpuRead(p, i) = mem[page][index - 1]

\* The transfer as the CPU sees it, one M-cycle at a time: see MCycleDma.
MCycle == INSTANCE MCycleDma WITH
    Size <- OamSize,
    pending <- pending_page,
    wait <- (start_delay + 3) \div 4,
    copied <- index,
    ready <- pc = "access"

ImplementsMCycleDma == MCycle!Spec

\* A program that stops writing FF46 gets OAM and its buses back for good.
BusIsReturned ==
    <>[][~AccessDma]_vars => <>[](~active /\ start_delay = 0)
============================================================================
