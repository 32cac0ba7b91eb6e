---------------------------- MODULE OamDmaProofs ----------------------------
(***************************************************************************)
(* OAM DMA for every transfer size, every set of pages and of bytes: the   *)
(* copy is the source's, it keeps step with the CPU, and the T-cycle model *)
(* of the code implements the M-cycle one.                                 *)
(***************************************************************************)
EXTENDS OamDma, TLAPS

(* Where the transfer is within an M-cycle: a byte is copied, and a takeover *)
(* happens, in the last T-cycle of one.                                      *)
Phase ==
    /\ pc = "tick" <=> left # 0
    /\ active => /\ index \in 1..(OamSize - 1)
                 /\ delay = (left + 3) % 4
    /\ start_delay # 0 => start_delay % 4 = left % 4

(* Only what has been copied is kept. *)
Kept == \A i \in kept : i < index

DmaInv == TypeOK /\ Phase /\ Kept /\ CopyMatchesSource /\ InPhase

LEMMA InitDmaInv == Init => DmaInv
  <1> SUFFICES ASSUME Init PROVE DmaInv
    OBVIOUS
  <1>1. TypeOK
    <2>1. active \in BOOLEAN
      BY Zenon DEF Init
    <2>2. oam \in [Index -> Data]
      BY DEF Init
    <2>3. index \in 0..OamSize
      BY OamDmaAssumption DEF Init
    <2> QED BY <2>1, <2>2, <2>3, OamDmaAssumption DEF Init, TypeOK
  <1>2. Phase /\ Kept /\ CopyMatchesSource /\ InPhase
    BY DEF Init, Phase, Kept, CopyMatchesSource, InPhase
  <1> QED BY <1>1, <1>2 DEF DmaInv

LEMMA BusReadType ==
    ASSUME TypeOK, NEW p \in Pages, NEW i \in Index
    PROVE  BusRead(p, i) \in Data
  BY OamDmaAssumption DEF TypeOK, BusRead

(* The cells kept by a copy of byte i of page p, when those kept before it, *)
(* if any still count, match page p.                                        *)
LEMMA CopyByteMatches ==
    ASSUME TypeOK, NEW p \in Pages, NEW i \in Index, CopyByte(p, i), mem' = mem,
           i # 0 => \A k \in kept : k < i /\ oam[k] = mem[p][k]
    PROVE  /\ latch' \in Data /\ oam' \in [Index -> Data]
           /\ index' = i + 1 /\ index' \in 1..OamSize
           /\ active' \in BOOLEAN /\ (active' <=> i + 1 < OamSize)
           /\ active' => delay' = 3
           /\ delay' \in 0..3
           /\ kept' \in SUBSET Index
           /\ \A k \in kept' : k < index' /\ oam'[k] = mem'[p][k]
           /\ i \in kept' => latch' = mem[p][i]
  <1> DEFINE blank == p \in VideoPages /\ mode = "drawing"
             before == IF i = 0 THEN {} ELSE kept
  <1>1. /\ latch' = BusRead(p, i)
        /\ oam' = [oam EXCEPT ![i] = BusRead(p, i)]
        /\ index' = i + 1
        /\ active' = (i + 1 < OamSize)
        /\ delay' = IF i + 1 < OamSize THEN 3 ELSE 0
        /\ kept' = before \cup (IF blank THEN {} ELSE {i})
    BY Zenon DEF CopyByte
  <1>2. i \in Nat /\ i < OamSize /\ OamSize \in Nat
    BY OamDmaAssumption DEF Index
  <1>3. /\ before \in SUBSET Index
        /\ \A k \in before : k < i /\ oam[k] = mem[p][k]
    BY DEF TypeOK
  <1>4. blank \/ BusRead(p, i) = mem[p][i]
    BY DEF BusRead
  <1> HIDE DEF blank, before
  <1>5. latch' \in Data /\ oam' \in [Index -> Data]
    BY <1>1, BusReadType DEF TypeOK
  <1>6. index' \in 1..OamSize /\ delay' \in 0..3
    BY <1>1, <1>2
  <1>10. active' \in BOOLEAN /\ (active' <=> i + 1 < OamSize)
    <2>1. active' = (i + 1 < OamSize)
      BY <1>1
    <2>2. CASE i + 1 < OamSize
      <3>1. active' = TRUE
        BY <2>1, <2>2
      <3> QED BY <2>2, <3>1
    <2>3. CASE ~(i + 1 < OamSize)
      <3>1. (i + 1 < OamSize) = FALSE
        BY <2>3, <1>2
      <3>2. active' = FALSE
        BY <2>1, <3>1
      <3> QED BY <2>3, <3>2
    <2> QED BY <2>2, <2>3
  <1>11. active' => delay' = 3
    BY <1>1, <1>10
  <1>7. kept' \in SUBSET Index
    BY <1>1, <1>3
  <1>8. ASSUME NEW k \in kept'
        PROVE  k < index' /\ oam'[k] = mem'[p][k]
    <2>1. k \in Index /\ k \in Int
      BY <1>7 DEF Index
    <2>2. CASE k = i
      <3>1. \/ ~blank
            \/ i \in before
        BY <1>1, <2>2
      <3>2. ~blank
        BY <1>2, <1>3, <3>1
      <3>3. oam'[k] = BusRead(p, i)
        BY <1>1, <2>1, <2>2 DEF TypeOK
      <3> QED BY <1>1, <1>2, <1>4, <2>2, <3>2, <3>3
    <2>3. CASE k # i
      <3>1. k \in before
        BY <1>1, <2>3
      <3>2. oam'[k] = oam[k]
        BY <1>1, <2>1, <2>3 DEF TypeOK
      <3> QED BY <1>1, <1>2, <1>3, <2>1, <3>1, <3>2
    <2> QED BY <2>2, <2>3
  <1>9. i \in kept' => latch' = mem[p][i]
    <2>1. i \notin before
      BY <1>2, <1>3
    <2> QED BY <1>1, <1>4, <2>1
  <1> QED BY <1>1, <1>5, <1>6, <1>7, <1>8, <1>9, <1>10, <1>11

----------------------------------------------------------------------------

LEMMA BusTickStep ==
    ASSUME DmaInv, NEW n \in {4, 8}, BusTick(n)
    PROVE  DmaInv'
  <1>1. /\ TypeOK /\ Phase /\ left = 0
        /\ pc' = "tick" /\ left' = n /\ mode' \in {"free", "scan", "drawing"}
        /\ UNCHANGED <<page, pending_page, start_delay, index, delay, active, latch>>
        /\ UNCHANGED <<mem, oam, kept>>
    BY DEF DmaInv, Phase, BusTick, dmaVars, memVars
  <1>2. TypeOK'
    BY <1>1 DEF TypeOK
  <1>3. Phase'
    BY <1>1 DEF Phase, TypeOK
  <1>4. Kept' /\ CopyMatchesSource' /\ InPhase'
    BY <1>1 DEF DmaInv, Kept, CopyMatchesSource, InPhase
  <1> QED BY <1>2, <1>3, <1>4 DEF DmaInv

(* The cases of a T-cycle, as the invariant sees them: a byte is copied in   *)
(* the last T-cycle of an M-cycle, and nowhere else.                         *)
LEMMA StepCases ==
    ASSUME DmaInv, DmaTick
    PROVE  /\ left \in 1..8 /\ left' = left - 1
           /\ start_delay' = IF start_delay = 0 THEN 0 ELSE start_delay - 1
           /\ UNCHANGED <<pending_page, mem, mode>>
           /\ \/ /\ start_delay = 1 /\ left % 4 = 1
                 /\ page' = pending_page /\ CopyByte(pending_page, 0)
              \/ /\ start_delay # 1 /\ active /\ left % 4 = 1 /\ page' = page
                 /\ index \in 1..(OamSize - 1) /\ CopyByte(page, index)
              \/ /\ start_delay # 1 /\ active /\ left % 4 # 1 /\ delay' = delay - 1
                 /\ delay \in 1..3
                 /\ UNCHANGED <<page, index, active, latch, oam, kept>>
              \/ /\ start_delay # 1 /\ ~active
                 /\ UNCHANGED <<page, index, delay, active, latch, oam, kept>>
  <1>1. /\ TypeOK /\ Phase /\ left \in 1..8 /\ left' = left - 1 /\ UNCHANGED mode
    BY DEF DmaInv, TypeOK, Phase, DmaTick
  <1>2. /\ start_delay' = IF start_delay = 0 THEN 0 ELSE start_delay - 1
        /\ UNCHANGED <<pending_page, mem>>
    BY DEF DmaTick, StepOamDma, CountDown
  <1>3. start_delay = 1 => left % 4 = 1
    BY <1>1 DEF Phase, TypeOK
  <1>4. active => /\ index \in 1..(OamSize - 1)
                  /\ delay = (left + 3) % 4
                  /\ delay = 0 <=> left % 4 = 1
                  /\ delay \in 0..3
    BY <1>1 DEF Phase, TypeOK
  <1>5. CASE start_delay = 1
    <2>1. page' = pending_page /\ CopyByte(page', 0)
      BY <1>5, Zenon DEF DmaTick, StepOamDma
    <2>2. CopyByte(pending_page, 0)
      BY <2>1
    <2> QED BY <1>1, <1>2, <1>3, <1>5, <2>1, <2>2
  <1>6. CASE start_delay # 1 /\ active /\ delay = 0
    <2>1. CopyByte(page, index) /\ page' = page
      BY <1>6, Zenon DEF DmaTick, StepOamDma
    <2> QED BY <1>1, <1>2, <1>4, <1>6, <2>1
  <1>7. CASE start_delay # 1 /\ active /\ delay # 0
    <2>1. delay' = delay - 1 /\ UNCHANGED <<page, index, active, latch, oam, kept>>
      BY <1>7, Zenon DEF DmaTick, StepOamDma
    <2> QED BY <1>1, <1>2, <1>4, <1>7, <2>1
  <1>8. CASE start_delay # 1 /\ ~active
    <2>1. UNCHANGED <<page, index, delay, active, latch, oam, kept>>
      BY <1>8, Zenon DEF DmaTick, StepOamDma
    <2> QED BY <1>1, <1>2, <1>8, <2>1
  <1> QED BY <1>5, <1>6, <1>7, <1>8

(* What a T-cycle that copies byte i of page p establishes. *)
LEMMA CopyStep ==
    ASSUME DmaInv, DmaTick, NEW p \in Pages, NEW i \in Index,
           CopyByte(p, i), page' = p, left % 4 = 1,
           i # 0 => i = index /\ page = p
    PROVE  DmaInv'
  <1>1. /\ TypeOK /\ Phase /\ left \in 1..8 /\ left' = left - 1
        /\ start_delay' = IF start_delay = 0 THEN 0 ELSE start_delay - 1
        /\ UNCHANGED <<pending_page, mem, mode>>
        /\ pc' = IF left' = 0 THEN "access" ELSE "tick"
    BY StepCases DEF DmaInv, DmaTick
  <1>2. i # 0 => \A k \in kept : k < i /\ oam[k] = mem[p][k]
    BY DEF DmaInv, Kept, CopyMatchesSource
  <1>3. /\ latch' \in Data /\ oam' \in [Index -> Data]
        /\ index' = i + 1 /\ index' \in 1..OamSize
        /\ active' \in BOOLEAN /\ (active' <=> i + 1 < OamSize)
        /\ active' => delay' = 3
        /\ delay' \in 0..3
        /\ kept' \in SUBSET Index
        /\ \A k \in kept' : k < index' /\ oam'[k] = mem'[p][k]
        /\ i \in kept' => latch' = mem[p][i]
    BY <1>1, <1>2, CopyByteMatches
  <1>4. TypeOK'
    <2>1. start_delay' \in 0..12 /\ left' \in 0..8 /\ index' \in 0..OamSize
      BY <1>1, <1>3, OamDmaAssumption DEF TypeOK
    <2> QED BY <1>1, <1>3, <2>1 DEF TypeOK
  <1>5. Phase'
    <2>1. active' => index' \in 1..(OamSize - 1) /\ delay' = 3
      BY <1>3, OamDmaAssumption DEF Index
    <2>2. (left' + 3) % 4 = 3
      BY <1>1
    <2>3. start_delay' # 0 => start_delay' % 4 = left' % 4
      <3>1. start_delay \in 0..12 /\ (start_delay # 0 => start_delay % 4 = left % 4)
        BY <1>1 DEF Phase, TypeOK
      <3>2. left \in 1..8 /\ left' = left - 1
            /\ start_delay' = IF start_delay = 0 THEN 0 ELSE start_delay - 1
        BY <1>1
      <3> QED BY <3>1, <3>2
    <2> QED BY <1>1, <2>1, <2>2, <2>3 DEF Phase
  <1>6. Kept' /\ CopyMatchesSource'
    BY <1>3 DEF Kept, CopyMatchesSource
  <1>7. InPhase'
    <2> SUFFICES ASSUME pc' = "access", active'
                 PROVE  /\ index' > 0 /\ delay' = 3
                        /\ index' - 1 \in kept' =>
                              \A q \in Pages, k \in Index :
                                 SameBus(q, page)' => CpuRead(q, k)' = mem'[p][index' - 1]
      BY DEF InPhase
    <2>1. index' > 0 /\ delay' = 3 /\ index' - 1 = i
      BY <1>3 DEF Index
    <2>2. \A q \in Pages, k \in Index : SameBus(q, page)' => CpuRead(q, k)' = latch'
      BY DEF CpuRead
    <2> QED BY <1>1, <1>3, <2>1, <2>2
  <1> QED BY <1>4, <1>5, <1>6, <1>7 DEF DmaInv

LEMMA DmaTickStep ==
    ASSUME DmaInv, DmaTick
    PROVE  DmaInv'
  <1>1. /\ TypeOK /\ Phase /\ left \in 1..8 /\ left' = left - 1
        /\ start_delay' = IF start_delay = 0 THEN 0 ELSE start_delay - 1
        /\ UNCHANGED <<pending_page, mem, mode>>
        /\ pc' = IF left' = 0 THEN "access" ELSE "tick"
    BY StepCases DEF DmaInv, DmaTick
  <1>2. 0 \in Index
    BY OamDmaAssumption DEF Index
  <1>3. CASE /\ start_delay = 1 /\ left % 4 = 1
             /\ page' = pending_page /\ CopyByte(pending_page, 0)
    BY <1>1, <1>2, <1>3, CopyStep DEF TypeOK
  <1>4. CASE /\ start_delay # 1 /\ active /\ left % 4 = 1 /\ page' = page
             /\ index \in 1..(OamSize - 1) /\ CopyByte(page, index)
    <2>1. index \in Index
      BY <1>4, OamDmaAssumption DEF Index
    <2> QED BY <1>1, <1>4, <2>1, CopyStep DEF TypeOK
  <1>5. CASE /\ start_delay # 1 /\ (active => left % 4 # 1 /\ delay \in 1..3 /\ delay' = delay - 1)
             /\ ~active => delay' = delay
             /\ UNCHANGED <<page, index, active, latch, oam, kept>>
    <2>1. TypeOK'
      <3>1. start_delay' \in 0..12 /\ left' \in 0..8 /\ delay' \in 0..3
        BY <1>1, <1>5 DEF TypeOK
      <3> QED BY <1>1, <1>5, <3>1 DEF TypeOK
    <2>2. Phase'
      <3>1. active => delay' = (left' + 3) % 4
        BY <1>1, <1>5 DEF Phase
      <3>2. start_delay' # 0 => start_delay' % 4 = left' % 4
        BY <1>1 DEF Phase, TypeOK
      <3> QED BY <1>1, <1>5, <3>1, <3>2 DEF Phase
    <2>3. Kept' /\ CopyMatchesSource'
      BY <1>1, <1>5 DEF DmaInv, Kept, CopyMatchesSource
    <2>4. ~(pc' = "access" /\ active')
      BY <1>1, <1>5
    <2> QED BY <2>1, <2>2, <2>3, <2>4 DEF DmaInv, InPhase
  <1> QED BY <1>3, <1>4, <1>5, StepCases

(* The CPU's accesses. *)
LEMMA AccessDmaStep ==
    ASSUME DmaInv, AccessDma
    PROVE  DmaInv'
  <1>1. /\ TypeOK /\ Phase /\ pc = "access" /\ left = 0
        /\ pc' = "between" /\ UNCHANGED <<left, mode>>
        /\ pending_page' \in Pages /\ start_delay' = 12
        /\ UNCHANGED <<page, index, delay, active, latch, mem, oam, kept>>
    BY DEF DmaInv, Phase, AccessDma, Access, StartOamDma, memVars
  <1>2. TypeOK'
    BY <1>1 DEF TypeOK
  <1>3. Phase'
    BY <1>1 DEF Phase
  <1>4. Kept' /\ CopyMatchesSource' /\ InPhase'
    BY <1>1 DEF DmaInv, Kept, CopyMatchesSource, InPhase
  <1> QED BY <1>2, <1>3, <1>4 DEF DmaInv

LEMMA AccessMemoryStep ==
    ASSUME DmaInv, AccessMemory
    PROVE  DmaInv'
  <1>1. /\ TypeOK /\ Phase /\ pc' = "between" /\ pc = "access" /\ UNCHANGED <<left, mode>>
        /\ UNCHANGED <<page, pending_page, start_delay, index, delay, active, latch>>
    BY DEF DmaInv, AccessMemory, Access, dmaVars
  <1>2. Phase' /\ InPhase'
    BY <1>1 DEF Phase, InPhase
  <1> DEFINE Good == /\ mem' \in [Pages -> [Index -> Data]] /\ oam' \in [Index -> Data]
                     /\ kept' \in SUBSET kept
                     /\ \A k \in kept' : oam'[k] = mem'[page][k]
  <1>3. Good
    <2>1. ASSUME NEW p \in Pages, NEW i \in Index, NEW byte \in Data, WriteMem(p, i, byte)
          PROVE  Good
      <3>1. /\ mem' = [mem EXCEPT ![p][i] = byte] /\ UNCHANGED oam
            /\ kept' = IF p = page /\ ~active THEN kept \ {i} ELSE kept
            /\ ~active \/ ~SameBus(p, page)
        BY <2>1 DEF WriteMem, BlocksWrite
      <3>2. page \in Pages /\ p = page => ~active
        BY <1>1, <3>1 DEF TypeOK, SameBus
      <3>3. \A k \in Index : (p # page \/ k # i) => mem'[page][k] = mem[page][k]
        BY <1>1, <3>1, <3>2 DEF TypeOK
      <3> QED BY <1>1, <3>1, <3>2, <3>3 DEF DmaInv, TypeOK, CopyMatchesSource
    <2>2. ASSUME NEW i \in Index, NEW byte \in Data, WriteOam(i, byte)
          PROVE  Good
      <3>1. oam' = [oam EXCEPT ![i] = byte] /\ UNCHANGED mem /\ kept' = kept \ {i}
        BY <2>2 DEF WriteOam
      <3>2. oam' \in [Index -> Data] /\ \A k \in Index : k # i => oam'[k] = oam[k]
        BY <1>1, <3>1 DEF TypeOK
      <3> QED BY <1>1, <3>1, <3>2 DEF DmaInv, TypeOK, CopyMatchesSource
    <2>3. ASSUME OamBug
          PROVE  Good
      <3>1. mem' \in [Pages -> [Index -> Data]] /\ oam' \in [Index -> Data] /\ kept' = {}
        BY <1>1, <2>3 DEF OamBug, TypeOK
      <3> QED BY <3>1
    <2> HIDE DEF Good
    <2> QED BY <2>1, <2>2, <2>3 DEF AccessMemory
  <1>4. TypeOK' /\ Kept' /\ CopyMatchesSource'
    BY <1>1, <1>3 DEF DmaInv, TypeOK, Kept, CopyMatchesSource
  <1> QED BY <1>2, <1>4 DEF DmaInv

LEMMA DmaInvStep == DmaInv /\ [Next]_vars => DmaInv'
  <1> SUFFICES ASSUME DmaInv, [Next]_vars PROVE DmaInv'
    OBVIOUS
  <1>1. CASE BusTick(4) \/ BusTick(8)
    BY <1>1, BusTickStep
  <1>2. CASE DmaTick
    BY <1>2, DmaTickStep
  <1>3. CASE AccessDma \/ AccessMemory
    BY <1>3, AccessDmaStep, AccessMemoryStep
  <1>4. CASE UNCHANGED vars
    BY <1>4 DEF vars, dmaVars, memVars, DmaInv, TypeOK, Phase, Kept, CopyMatchesSource,
                InPhase, CpuRead, BusRead, SameBus
  <1> QED BY <1>1, <1>2, <1>3, <1>4 DEF Next

(* The inductive invariant of the transfer: its phase within the M-cycle,    *)
(* and what of the copy is to be relied on.                                  *)
THEOREM DmaInvariant == Spec => []DmaInv
  BY InitDmaInv, DmaInvStep, PTL DEF Spec

(* Every variable stays within its type. *)
THEOREM TypeCorrect == Spec => []TypeOK
  <1>1. DmaInv => TypeOK
    BY DEF DmaInv
  <1> QED BY <1>1, DmaInvariant, PTL

(* Neither the CPU nor another transfer can part a copy from its source.     *)
THEOREM CopyMatchesSourceHolds == Spec => []CopyMatchesSource
  <1>1. DmaInv => CopyMatchesSource
    BY DEF DmaInv
  <1> QED BY <1>1, DmaInvariant, PTL

(* A CPU access falls just after a byte, and the busy bus shows that byte.   *)
THEOREM InPhaseHolds == Spec => []InPhase
  <1>1. DmaInv => InPhase
    BY DEF DmaInv
  <1> QED BY <1>1, DmaInvariant, PTL

----------------------------------------------------------------------------

(* The last T-cycle of an M-cycle is the M-cycle's step, and the others are  *)
(* stutters.                                                                 *)
LEMMA DmaTickRefines ==
    ASSUME DmaInv, DmaTick
    PROVE  [MCycle!Next]_(MCycle!vars)
  <1> DEFINE wait == (start_delay + 3) \div 4
  <1>1. /\ TypeOK /\ pc = "tick" /\ left \in 1..8 /\ left' = left - 1
        /\ UNCHANGED pending_page
        /\ pc' = IF left' = 0 THEN "access" ELSE "tick"
        /\ start_delay \in 0..12
        /\ start_delay' = IF start_delay = 0 THEN 0 ELSE start_delay - 1
        /\ start_delay # 0 => start_delay % 4 = left % 4
    BY StepCases DEF DmaInv, DmaTick, TypeOK, Phase
  <1>2. (pc = "access") = FALSE /\ (pc' = "access") \in BOOLEAN
    BY <1>1
  <1>3. CASE left % 4 # 1
    <2>1. UNCHANGED <<page, index, active>>
      BY <1>3, StepCases
    <2>2. wait' = wait
      <3>1. start_delay # 0 => start_delay % 4 # 1
        BY <1>1, <1>3
      <3> QED BY <1>1, <3>1
    <2>3. (pc' = "access") = FALSE
      BY <1>1, <1>3
    <2> HIDE DEF wait
    <2>4. UNCHANGED <<pending_page, wait, page, index, active, (pc = "access")>>
      BY <1>1, <1>2, <2>1, <2>2, <2>3
    <2> QED BY <2>4 DEF MCycle!vars, wait
  <1>4. CASE left % 4 = 1
    <2>1. /\ wait = 1 <=> start_delay = 1
          /\ wait' = IF wait = 0 THEN 0 ELSE wait - 1
      BY <1>1, <1>4
    <2> HIDE DEF wait
    <2>2. CASE start_delay = 1
      <3>1. page' = pending_page /\ index' = 0 + 1 /\ active' = (0 + 1 < OamSize)
        BY <2>2, StepCases DEF CopyByte
      <3>2. MCycle!TakeOver
        BY <1>1, <1>2, <2>1, <2>2, <3>1 DEF MCycle!TakeOver, MCycle!Copy, wait
      <3> QED BY <3>2 DEF MCycle!Next
    <2>3. CASE start_delay # 1
      <3>1. /\ page' = page
            /\ IF active THEN index' = index + 1 /\ active' = (index + 1 < OamSize)
                         ELSE UNCHANGED <<index, active>>
        BY <1>4, <2>3, StepCases DEF CopyByte
      <3>2. MCycle!Continue
        BY <1>1, <1>2, <2>1, <2>3, <3>1 DEF MCycle!Continue, MCycle!Copy, wait
      <3> QED BY <3>2 DEF MCycle!Next
    <2> QED BY <2>2, <2>3
  <1> QED BY <1>3, <1>4

LEMMA StepRefines == DmaInv /\ [Next]_vars => [MCycle!Next]_(MCycle!vars)
  <1> SUFFICES ASSUME DmaInv, [Next]_vars PROVE [MCycle!Next]_(MCycle!vars)
    OBVIOUS
  <1>1. CASE DmaTick
    BY <1>1, DmaTickRefines
  <1>2. CASE BusTick(4) \/ BusTick(8) \/ AccessMemory
    <2>1. /\ pc \in {"access", "between"} /\ pc' # "access"
          /\ UNCHANGED <<page, pending_page, start_delay, index, active>>
      BY <1>2 DEF BusTick, AccessMemory, Access, dmaVars
    <2>2. (pc' = "access") = FALSE
      BY <2>1
    <2>3. CASE pc = "access"
      BY <2>1, <2>2, <2>3 DEF MCycle!Next, MCycle!Pass
    <2>4. CASE pc # "access"
      <3>1. (pc = "access") = FALSE
        BY <2>4
      <3> QED BY <2>1, <2>2, <3>1 DEF MCycle!vars
    <2> QED BY <2>3, <2>4
  <1>3. CASE AccessDma
    <2>1. /\ pc = "access" /\ (pc' = "access") = FALSE
          /\ pending_page' \in Pages /\ start_delay' = 12
          /\ UNCHANGED <<page, index, active>>
      BY <1>3 DEF AccessDma, Access, StartOamDma
    <2>2. (start_delay' + 3) \div 4 = 3
      BY <2>1
    <2> QED BY <2>1, <2>2 DEF MCycle!Next, MCycle!Request
  <1>4. CASE UNCHANGED vars
    BY <1>4 DEF vars, dmaVars, MCycle!vars
  <1> QED BY <1>1, <1>2, <1>3, <1>4 DEF Next

(* OAM DMA, T-cycle by T-cycle, implements the M-cycle specification.        *)
THEOREM Refinement == Spec => ImplementsMCycleDma
  <1>1. Init => MCycle!Init
    BY OamDmaAssumption DEF Init, MCycle!Init
  <1> QED BY <1>1, StepRefines, DmaInvariant, PTL DEF Spec, ImplementsMCycleDma, MCycle!Spec

----------------------------------------------------------------------------
(* How long the transfer keeps the bus.                                     *)

(* T-cycles until the end of what was asked for last. *)
TransferRest ==
    IF start_delay # 0 THEN start_delay + 4 * (OamSize - 1)
    ELSE IF active THEN delay + 1 + 4 * (OamSize - 1 - index)
    ELSE 0

WholeTransfer == 12 + 4 * (OamSize - 1)

(* The transfer is over exactly when there is nothing left of it. *)
RestIsRight ==
    /\ TransferRest \in 0..WholeTransfer
    /\ TransferRest = 0 <=> ~active /\ start_delay = 0

RunsDown ==
    [][/\ DmaTick => TransferRest' = IF TransferRest = 0 THEN 0 ELSE TransferRest - 1
       /\ AccessDma => TransferRest' = WholeTransfer
       /\ ~DmaTick /\ ~AccessDma => TransferRest' = TransferRest]_vars

(* The rest in its three cases. *)
LEMMA RestCases ==
    ASSUME DmaInv
    PROVE  /\ start_delay # 0 =>
                 /\ TransferRest = start_delay + 4 * (OamSize - 1)
                 /\ start_delay \in 1..12
           /\ start_delay = 0 /\ active =>
                 /\ TransferRest = delay + 1 + 4 * (OamSize - 1 - index)
                 /\ delay \in 0..3 /\ index \in 1..(OamSize - 1)
           /\ start_delay = 0 /\ ~active => TransferRest = 0
           /\ OamSize \in Nat \ {0}
           /\ start_delay \in 0..12 /\ active \in BOOLEAN
  BY OamDmaAssumption DEF DmaInv, TypeOK, Phase, TransferRest

LEMMA RestType == DmaInv => RestIsRight
  <1> SUFFICES ASSUME DmaInv PROVE RestIsRight
    OBVIOUS
  <1>1. CASE start_delay # 0
    BY <1>1, RestCases DEF RestIsRight, WholeTransfer
  <1>2. CASE start_delay = 0 /\ active
    BY <1>2, RestCases DEF RestIsRight, WholeTransfer
  <1>3. CASE start_delay = 0 /\ ~active
    BY <1>3, RestCases DEF RestIsRight, WholeTransfer
  <1> QED BY <1>1, <1>2, <1>3, RestCases

(* A T-cycle takes one from it, whatever it does. *)
LEMMA TickRunsDown ==
    ASSUME DmaInv, DmaTick
    PROVE  TransferRest' = IF TransferRest = 0 THEN 0 ELSE TransferRest - 1
  <1>1. /\ start_delay \in 0..12 /\ delay \in 0..3 /\ active \in BOOLEAN
        /\ OamSize \in Nat \ {0}
        /\ active => index \in 1..(OamSize - 1) /\ (left % 4 = 1 => delay = 0)
        /\ start_delay' = IF start_delay = 0 THEN 0 ELSE start_delay - 1
    BY OamDmaAssumption, StepCases DEF DmaInv, TypeOK, Phase
  <1>2. ASSUME NEW p, NEW i \in Index, CopyByte(p, i), start_delay' = 0
        PROVE  TransferRest' = 4 * (OamSize - 1 - i)
    <2>1. /\ index' = i + 1 /\ active' = (i + 1 < OamSize)
          /\ delay' = IF i + 1 < OamSize THEN 3 ELSE 0
      BY <1>2 DEF CopyByte
    <2>2. i \in 0..(OamSize - 1)
      BY <1>2 DEF Index
    <2>3. TransferRest' = IF active' THEN delay' + 1 + 4 * (OamSize - 1 - index') ELSE 0
      BY <1>2 DEF TransferRest
    <2>4. CASE i + 1 < OamSize
      <3>1. active' /\ delay' = 3 /\ index' = i + 1
        BY <2>1, <2>4
      <3>2. TransferRest' = 3 + 1 + 4 * (OamSize - 1 - (i + 1))
        BY <2>3, <3>1
      <3> QED BY <1>1, <2>2, <3>2
    <2>5. CASE ~(i + 1 < OamSize)
      <3>1. i = OamSize - 1
        BY <1>1, <2>2, <2>5
      <3>2. ~active'
        BY <2>1, <2>5, Zenon
      <3>3. TransferRest' = 0
        BY <2>3, <3>2
      <3> QED BY <1>1, <3>1, <3>3
    <2> QED BY <2>4, <2>5
  <1>3. CASE start_delay = 1
    <2>1. CopyByte(pending_page, 0) /\ 0 \in Index
      BY <1>1, <1>3, StepCases DEF Index
    <2>2. TransferRest' = 4 * (OamSize - 1 - 0)
      BY <1>1, <1>2, <1>3, <2>1
    <2>3. TransferRest = 1 + 4 * (OamSize - 1)
      BY <1>3 DEF TransferRest
    <2> QED BY <1>1, <2>2, <2>3
  <1>4. CASE start_delay > 1
    <2>1. TransferRest = start_delay + 4 * (OamSize - 1)
      BY <1>4 DEF TransferRest
    <2>2. TransferRest' = start_delay - 1 + 4 * (OamSize - 1)
      BY <1>1, <1>4 DEF TransferRest
    <2> QED BY <1>1, <1>4, <2>1, <2>2
  <1>5. CASE start_delay = 0 /\ active
    <2>1. TransferRest = delay + 1 + 4 * (OamSize - 1 - index)
      BY <1>5 DEF TransferRest
    <2>2. CASE left % 4 = 1
      <3>1. CopyByte(page, index)
        <4>1. start_delay # 1 /\ active /\ ~(left % 4 # 1)
          BY <1>5, <2>2
        <4> QED BY <4>1, StepCases
      <3>2. index \in Index
        BY <1>1, <1>5 DEF Index
      <3>3. TransferRest' = 4 * (OamSize - 1 - index)
        BY <1>1, <1>2, <1>5, <3>1, <3>2
      <3> QED BY <1>1, <1>5, <2>1, <2>2, <3>3
    <2>3. CASE left % 4 # 1
      <3>1. delay \in 1..3 /\ delay' = delay - 1 /\ index' = index /\ active' /\ start_delay' = 0
        BY <1>1, <1>5, <2>3, StepCases
      <3>2. TransferRest' = delay + 4 * (OamSize - 1 - index)
        BY <1>1, <1>5, <3>1 DEF TransferRest
      <3> QED BY <1>1, <1>5, <2>1, <3>1, <3>2
    <2> QED BY <2>2, <2>3
  <1>6. CASE start_delay = 0 /\ ~active
    <2>1. start_delay' = 0 /\ active' = active
      BY <1>1, <1>6, StepCases
    <2> QED BY <1>6, <2>1 DEF TransferRest
  <1> QED BY <1>1, <1>3, <1>4, <1>5, <1>6

(* What there is of BusIsReturned without fairness, for every size of a      *)
(* transfer: from a write to FF46 OAM and the bus are taken for 12 T-cycles  *)
(* and 4 for each byte but the first, and no access of the CPU, no bug and   *)
(* no length of a tick changes that, but another such write, which starts    *)
(* the count again.                                                          *)
THEOREM RunsDownHolds == Spec => []RestIsRight /\ RunsDown
  <1>1. ASSUME DmaInv, [Next]_vars
        PROVE  [/\ DmaTick => TransferRest' = IF TransferRest = 0 THEN 0 ELSE TransferRest - 1
                /\ AccessDma => TransferRest' = WholeTransfer
                /\ ~DmaTick /\ ~AccessDma => TransferRest' = TransferRest]_vars
    <2>1. DmaTick => TransferRest' = IF TransferRest = 0 THEN 0 ELSE TransferRest - 1
      BY <1>1, TickRunsDown
    <2>2. AccessDma => TransferRest' = WholeTransfer
      BY DEF AccessDma, StartOamDma, TransferRest, WholeTransfer
    <2>3. BusTick(4) \/ BusTick(8) \/ AccessMemory => TransferRest' = TransferRest
      BY DEF BusTick, AccessMemory, dmaVars, TransferRest
    <2> QED BY <1>1, <2>1, <2>2, <2>3 DEF Next
  <1> QED BY <1>1, RestType, DmaInvariant, PTL DEF Spec, RunsDown
==============================================================================
