----------------------------- MODULE Sm83Proofs -----------------------------
(***************************************************************************)
(* The CPU's control invariants for every number of interrupt lines and    *)
(* every size of the address spaces, and the laws of its arithmetic.       *)
(***************************************************************************)
EXTENDS MCSm83, TLAPS, WellFoundedInduction

(* A set of lines that is not empty has a first one. *)
LEMMA FirstLine ==
    ASSUME NEW S \in SUBSET Lines, S # {}
    PROVE  \E l \in S : \A m \in S : l <= m
  <1> DEFINE R == OpToRel(<, Nat)
  <1>1. S \subseteq Nat
    BY DEF Lines
  <1>2. PICK l \in S : \A m \in S : ~ (<<m, l>> \in R)
    <2>1. IsWellFoundedOn(R, Nat)
      BY NatLessThanWellFounded
    <2> HIDE DEF R
    <2> QED BY <1>1, <2>1, WFMin
  <1>3. \A m \in S : ~ (m < l)
    BY <1>1, <1>2 DEF OpToRel
  <1> QED BY <1>1, <1>3

(* What a step can rely on when it executes the opcode it has fetched. *)
ExecInv == stage = "exec" => ~ime_pending /\ ~halted /\ ~stopped /\ ~halt_bug

ModeInv == TypeOK /\ ExecInv /\ HaltBugIsNext

LEMMA InitModeInv == Init => ModeInv
  <1> SUFFICES ASSUME Init PROVE ModeInv
    OBVIOUS
  <1>1. /\ ime \in BOOLEAN /\ ime_pending \in BOOLEAN /\ halted \in BOOLEAN
        /\ stopped \in BOOLEAN /\ halt_bug \in BOOLEAN
        /\ ~halt_bug /\ stage = "fetch"
    BY Zenon DEF Init
  <1>2. /\ requested \in SUBSET Lines /\ enabled \in SUBSET Lines
        /\ pc \in Addr /\ sp \in 0..(SpMod - 1) /\ op \in Ops /\ sampled \in SUBSET Lines
        /\ stage \in {"fetch", "exec", "high", "low", "jump"}
    BY Sm83Assumption DEF Init, Lines, Ops
  <1> QED BY <1>1, <1>2 DEF ModeInv, TypeOK, ExecInv, HaltBugIsNext

(* The stack pointer and the program counter wrap within their spaces. *)
LEMMA Wrap ==
    ASSUME NEW n \in Nat \ {0}
    PROVE  \A i \in Int : i % n \in 0..(n - 1)
  OBVIOUS

LEMMA TickTypes ==
    ASSUME TypeOK
    PROVE  /\ Tick => requested' \in SUBSET Lines
           /\ \A a \in Int, lines \in SUBSET Lines :
                 TickAndPush(a, lines) => requested' \in SUBSET Lines /\ enabled' \in SUBSET Lines
           /\ Down(sp) \in 0..(SpMod - 1)
  <1>1. Tick => requested' \in SUBSET Lines
    BY DEF TypeOK, Tick
  <1>2. ASSUME NEW a \in Int, NEW lines \in SUBSET Lines, TickAndPush(a, lines)
        PROVE  requested' \in SUBSET Lines /\ enabled' \in SUBSET Lines
    BY <1>2 DEF TypeOK, TickAndPush
  <1>3. Down(sp) \in 0..(SpMod - 1)
    BY Wrap, Sm83Assumption DEF TypeOK, Down
  <1> QED BY <1>1, <1>2, <1>3

LEMMA PushLowVector ==
    ASSUME TypeOK, PushLow, sampled # {}
    PROVE  \E l \in sampled : /\ pc' = Vector[l]
                              /\ \A m \in sampled : l <= m
                              /\ \A k \in requested \ requested' :
                                    Down(sp) # IfAddr => k = l
  <1>1. sampled \subseteq Lines /\ sampled \subseteq Int
    BY DEF TypeOK, Lines
  <1>2. PICK l \in sampled : \A m \in sampled : l <= m
    BY <1>1, FirstLine
  <1>3. Chosen(sampled) = {l}
    <2>1. l \in Chosen(sampled)
      BY <1>2 DEF Chosen
    <2>2. ASSUME NEW k \in Chosen(sampled)
          PROVE  k = l
      <3>1. k \in sampled /\ k <= l
        BY <2>2, <1>2 DEF Chosen
      <3>2. k \in Int /\ l \in Int /\ l <= k
        BY <1>1, <1>2, <3>1
      <3> QED BY <3>1, <3>2
    <2> QED BY <2>1, <2>2
  <1>4. PICK lines \in SUBSET Lines, raised \in SUBSET Lines :
           /\ requested' = (IF Down(sp) = IfAddr THEN lines ELSE requested \cup raised)
                              \ Chosen(sampled)
           /\ pc' = IF sampled = {} THEN 0 ELSE Vector[CHOOSE k \in Chosen(sampled) : TRUE]
    BY DEF PushLow
  <1>5. pc' = Vector[l]
    BY <1>3, <1>4
  <1>6. \A k \in requested \ requested' : Down(sp) # IfAddr => k = l
    BY <1>3, <1>4
  <1> QED BY <1>2, <1>5, <1>6

(* The dispatch. *)
LEMMA DispatchKeepsMode ==
    ASSUME ModeInv, Dispatch
    PROVE  ModeInv'
  <1>1. /\ TypeOK /\ ~halt_bug
        /\ stage \in {"fetch", "high", "low", "jump"}
    BY DEF ModeInv, HaltBugIsNext, Dispatch, BeginDispatch, PushHigh, PushLow, EndDispatch
  <1>2. /\ ime' \in BOOLEAN /\ ime_pending' \in BOOLEAN /\ halted' \in BOOLEAN
        /\ stopped' \in BOOLEAN /\ halt_bug' \in BOOLEAN /\ ~halt_bug'
    <2>1. CASE BeginDispatch
      BY <1>1, <2>1, Zenon DEF TypeOK, BeginDispatch
    <2>2. CASE PushHigh \/ PushLow \/ EndDispatch
      <3>1. UNCHANGED <<ime, ime_pending, halted, stopped, halt_bug>>
        BY <2>2 DEF PushHigh, PushLow, EndDispatch, modeVars
      <3> QED BY <1>1, <3>1, Zenon DEF TypeOK
    <2> QED BY <2>1, <2>2 DEF Dispatch
  <1>3. /\ requested' \in SUBSET Lines /\ enabled' \in SUBSET Lines
        /\ pc' \in Addr /\ sp' \in 0..(SpMod - 1) /\ op' \in Ops /\ sampled' \in SUBSET Lines
        /\ stage' \in {"fetch", "high", "low", "jump"}
    <2>1. CASE BeginDispatch
      BY <1>1, <2>1, TickTypes DEF BeginDispatch, TypeOK
    <2>2. CASE PushHigh
      <3>1. requested' \in SUBSET Lines /\ enabled' \in SUBSET Lines
        BY <1>1, <2>2 DEF PushHigh, TickAndPush, TypeOK
      <3> QED BY <1>1, <2>2, <3>1, TickTypes DEF PushHigh, TypeOK
    <2>3. CASE PushLow
      <3>1. requested' \in SUBSET Lines /\ enabled' \in SUBSET Lines
        BY <1>1, <2>3 DEF PushLow, TypeOK
      <3>2. pc' \in Addr
        <4>1. CASE sampled = {}
          BY <2>3, <4>1, Sm83Assumption DEF PushLow, Addr
        <4>2. CASE sampled # {}
          <5>1. PICK l \in sampled : pc' = Vector[l]
            BY <1>1, <2>3, <4>2, PushLowVector
          <5> QED BY <1>1, <5>1, Sm83Assumption DEF TypeOK
        <4> QED BY <4>1, <4>2
      <3> QED BY <1>1, <2>3, <3>1, <3>2, TickTypes DEF PushLow, TypeOK
    <2>4. CASE EndDispatch
      BY <1>1, <2>4, TickTypes DEF EndDispatch, TypeOK
    <2> QED BY <2>1, <2>2, <2>3, <2>4 DEF Dispatch
  <1> QED BY <1>2, <1>3 DEF ModeInv, TypeOK, ExecInv, HaltBugIsNext

LEMMA FetchKeepsMode ==
    ASSUME ModeInv, Fetch
    PROVE  ModeInv'
  <1>1. /\ ime' \in BOOLEAN /\ ime_pending' \in BOOLEAN /\ halted' \in BOOLEAN
        /\ stopped' \in BOOLEAN /\ halt_bug' \in BOOLEAN
        /\ ~ime_pending' /\ ~halted' /\ ~stopped' /\ ~halt_bug'
    BY Zenon DEF ModeInv, TypeOK, Fetch, Running
  <1>2. requested' \in SUBSET Lines
    BY TickTypes DEF ModeInv, Fetch
  <1>3. pc' \in Addr
    <2>1. (pc + 1) % PcMod \in Addr
      BY Wrap, Sm83Assumption DEF ModeInv, TypeOK, Addr
    <2> QED BY <2>1 DEF ModeInv, TypeOK, Fetch
  <1>4. /\ enabled' \in SUBSET Lines /\ sp' \in 0..(SpMod - 1) /\ sampled' \in SUBSET Lines
        /\ op' \in Ops /\ stage' = "exec"
    BY DEF ModeInv, TypeOK, Fetch
  <1> QED BY <1>1, <1>2, <1>3, <1>4 DEF ModeInv, TypeOK, ExecInv, HaltBugIsNext

(* The opcodes: only HALT can leave the repeated fetch behind. *)
LEMMA ExecKeepsMode ==
    ASSUME ModeInv, Exec
    PROVE  ModeInv'
  <1>1. /\ TypeOK /\ stage = "exec" /\ stage' = "fetch" /\ op' = op /\ sampled' = sampled
        /\ ~ime_pending /\ ~halted /\ ~stopped /\ ~halt_bug
    BY DEF ModeInv, ExecInv, Exec, ExecPlain, ExecEi, ExecDi, ExecReti, ExecHalt, ExecStop,
           ExecLocked, ExecWriteIf, ExecWriteIe, Execute
  <1>2. /\ ime' \in BOOLEAN /\ ime_pending' \in BOOLEAN /\ halted' \in BOOLEAN
        /\ stopped' \in BOOLEAN /\ halt_bug' \in BOOLEAN
    BY <1>1, Zenon
       DEF TypeOK, Exec, ExecPlain, ExecEi, ExecDi, ExecReti, ExecHalt, ExecStop,
           ExecLocked, ExecWriteIf, ExecWriteIe, modeVars
  <1>3. requested' \in SUBSET Lines /\ enabled' \in SUBSET Lines
    BY <1>1, TickTypes
       DEF TypeOK, Exec, ExecPlain, ExecEi, ExecDi, ExecReti, ExecHalt, ExecStop,
           ExecLocked, ExecWriteIf, ExecWriteIe, irqVars
  <1>4. pc' \in Addr
    <2>1. (pc + 1) % PcMod \in Addr /\ (pc - 1) % PcMod \in Addr
      BY <1>1, Wrap, Sm83Assumption DEF TypeOK, Addr
    <2> QED BY <1>1, <2>1
         DEF TypeOK, Exec, ExecPlain, ExecEi, ExecDi, ExecReti, ExecHalt, ExecStop,
             ExecLocked, ExecWriteIf, ExecWriteIe
  <1>5. sp' \in 0..(SpMod - 1)
    <2>1. (sp + 2) % SpMod \in 0..(SpMod - 1)
      BY <1>1, Wrap, Sm83Assumption DEF TypeOK
    <2> QED BY <1>1, <2>1
         DEF TypeOK, Exec, ExecPlain, ExecEi, ExecDi, ExecReti, ExecHalt, ExecStop,
             ExecLocked, ExecWriteIf, ExecWriteIe
  <1>6. HaltBugIsNext'
    <2>1. CASE ExecHalt
      BY <1>1, <2>1, Zenon DEF ExecHalt, Execute, HaltBugIsNext
    <2>2. CASE ~ExecHalt
      <3>1. ~halt_bug'
        BY <1>1, <2>2
           DEF Exec, ExecPlain, ExecEi, ExecDi, ExecReti, ExecStop, ExecLocked,
               ExecWriteIf, ExecWriteIe, modeVars
      <3> QED BY <3>1 DEF HaltBugIsNext
    <2> QED BY <2>1, <2>2
  <1> QED BY <1>1, <1>2, <1>3, <1>4, <1>5, <1>6 DEF ModeInv, TypeOK, ExecInv

LEMMA StutterKeepsMode ==
    ASSUME ModeInv, Idle \/ UNCHANGED cpuVars
    PROVE  ModeInv'
  <1>1. /\ UNCHANGED <<enabled, ime, ime_pending, halted, stopped, halt_bug>>
        /\ UNCHANGED <<pc, sp, stage, op, sampled>>
        /\ requested' \in SUBSET Lines
    BY TickTypes DEF ModeInv, TypeOK, Idle, modeVars, cpuVars, irqVars
  <1> QED BY <1>1 DEF ModeInv, TypeOK, ExecInv, HaltBugIsNext

(* One inductive step for the whole of Next. *)
LEMMA ModeInvStep == ModeInv /\ [Next]_cpuVars => ModeInv'
  BY DispatchKeepsMode, FetchKeepsMode, ExecKeepsMode, StutterKeepsMode DEF Next

(* The variables of the CPU stay within their types, and the byte HALT's    *)
(* bug repeats is always the next opcode, with interrupts still off.        *)
THEOREM ModeInvariant == Spec => []ModeInv
  BY InitModeInv, ModeInvStep, PTL DEF Spec

----------------------------------------------------------------------------

(* The observer adds nothing to what the CPU can do. *)
LEMMA ObserverRefines == [ObservedNext]_vars => [Next]_cpuVars
  BY DEF ObservedNext, ObserveDispatch, ObserveExec, ObserveFetch, ObserveIdle,
         Next, Dispatch, vars

THEOREM ObservedModeInvariant == ObservedSpec => []ModeInv
  <1>1. ObservedInit => ModeInv
    BY InitModeInv DEF ObservedInit
  <1>2. ModeInv /\ [ObservedNext]_vars => ModeInv'
    BY ModeInvStep, ObserverRefines
  <1> QED BY <1>1, <1>2, PTL DEF ObservedSpec

(* Every variable of the CPU stays within its type. *)
THEOREM TypeCorrect == ObservedSpec => []TypeOK
  <1>1. ModeInv => TypeOK
    BY DEF ModeInv
  <1> QED BY <1>1, ObservedModeInvariant, PTL

(* The repeat that HALT's bug leaves behind meets the very next opcode, with *)
(* interrupts off: no dispatch, halt or stop ever carries it elsewhere.      *)
THEOREM HaltBugIsNextHolds == ObservedSpec => []HaltBugIsNext
  <1>1. ModeInv => HaltBugIsNext
    BY DEF ModeInv
  <1> QED BY <1>1, ObservedModeInvariant, PTL

(* How a dispatch keeps hold of the lines that were pending all along: until *)
(* the sample they are pending, and after it they are part of the sample,    *)
(* which is empty only if the stack took them away.                          *)
DispatchInv ==
    /\ stage = "high" => steady \subseteq Pending /\ steady # {}
    /\ stage \in {"low", "jump"} => steady \subseteq sampled /\ (steady = {} => overrun)
    /\ stage = "jump" /\ sampled # {} =>
          \E l \in sampled : pc = Vector[l] /\ \A m \in sampled : l <= m

LEMMA DispatchInvStep ==
    ASSUME ModeInv, DispatchInv, [ObservedNext]_vars
    PROVE  DispatchInv'
  <1> USE DEF ModeInv
  <1>1. CASE ObserveDispatch
    <2>1. CASE BeginDispatch /\ steady' = Pending
      <3>1. stage' = "high" /\ Pending # {} /\ requested \subseteq requested' /\ enabled' = enabled
        BY <2>1 DEF BeginDispatch, Tick
      <3> QED BY <2>1, <3>1 DEF DispatchInv, Pending
    <2>2. CASE /\ PushHigh
               /\ steady' = steady \cap Pending'
               /\ overrun' = (Down(sp) \in {IfAddr, IeAddr})
      <3>1. /\ stage = "high" /\ stage' = "low" /\ sampled' = Pending'
            /\ steady \subseteq Pending /\ steady # {}
        BY <2>2 DEF PushHigh, DispatchInv, Pending
      <3>2. ~overrun' => requested \subseteq requested' /\ enabled' = enabled
        BY <2>2 DEF PushHigh, TickAndPush
      <3>3. ~overrun' => steady' = steady
        BY <2>2, <3>1, <3>2 DEF Pending
      <3> QED BY <2>2, <3>1, <3>3 DEF DispatchInv
    <2>3. CASE PushLow /\ UNCHANGED <<steady, overrun, ei_age, hung>>
      <3>1. stage = "low" /\ stage' = "jump" /\ sampled' = sampled
        BY <2>3 DEF PushLow
      <3> QED BY <2>3, <3>1, PushLowVector DEF DispatchInv
    <2>4. CASE EndDispatch
      BY <2>4 DEF EndDispatch, DispatchInv
    <2> QED BY <1>1, <2>1, <2>2, <2>3, <2>4 DEF ObserveDispatch
  <1>2. CASE ObserveExec
    <2>1. stage' = "fetch"
      BY <1>2 DEF ObserveExec, Exec, ExecPlain, ExecEi, ExecDi, ExecReti, ExecHalt, ExecStop,
                  ExecLocked, ExecWriteIf, ExecWriteIe, Execute
    <2> QED BY <2>1 DEF DispatchInv
  <1>3. CASE ObserveFetch
    BY <1>3 DEF ObserveFetch, Fetch, DispatchInv
  <1>4. CASE ObserveIdle
    BY <1>4 DEF ObserveIdle, Idle, DispatchInv
  <1>5. CASE UNCHANGED vars
    BY <1>5 DEF vars, cpuVars, irqVars, DispatchInv, Pending
  <1> QED BY <1>1, <1>2, <1>3, <1>4, <1>5 DEF ObservedNext

LEMMA DispatchInvariant == ObservedSpec => []DispatchInv
  <1>1. ObservedInit => DispatchInv
    BY DEF ObservedInit, Init, DispatchInv
  <1>2. ModeInv /\ DispatchInv /\ [ObservedNext]_vars => DispatchInv'
    BY DispatchInvStep
  <1> QED BY <1>1, <1>2, ObservedModeInvariant, PTL DEF ObservedSpec

(* Whatever arrives or goes while PC is being pushed, the dispatch ends at   *)
(* the vector of the first of the lines pending throughout, or before it.    *)
THEOREM NoOvertakingHolds == ObservedSpec => []NoOvertaking
  <1>1. ModeInv /\ DispatchInv => NoOvertaking
    BY DEF ModeInv, TypeOK, DispatchInv, NoOvertaking
  <1> QED BY <1>1, ObservedModeInvariant, DispatchInvariant, PTL

(* Only a stack that runs over IF or IE calls a dispatch off.                *)
THEOREM CancelledByStackOnlyHolds == ObservedSpec => []CancelledByStackOnly
  <1>1. DispatchInv => CancelledByStackOnly
    BY DEF DispatchInv, CancelledByStackOnly
  <1> QED BY <1>1, DispatchInvariant, PTL

----------------------------------------------------------------------------

(* What clears a request, action by action.                                  *)
LEMMA RequestStep ==
    ASSUME ModeInv, [ObservedNext]_vars, NEW l \in requested \ requested'
    PROVE  \/ stage = "low" /\ pc' = Vector[l]
           \/ stage \in {"high", "low"} /\ sp' = IfAddr
           \/ stage = "exec" /\ op = "write_if"
  <1>1. CASE BeginDispatch \/ EndDispatch \/ Fetch \/ Idle \/ UNCHANGED vars
    <2>1. requested \subseteq requested'
      BY <1>1 DEF BeginDispatch, EndDispatch, Fetch, Idle, Tick, vars, cpuVars, irqVars
    <2> QED BY <2>1
  <1>2. CASE PushHigh
    <2>1. Down(sp) # IfAddr => requested \subseteq requested'
      BY <1>2 DEF PushHigh, TickAndPush
    <2> QED BY <1>2, <2>1 DEF PushHigh
  <1>3. CASE PushLow
    <2>1. stage = "low" /\ sp' = Down(sp)
      BY <1>3 DEF PushLow
    <2>2. CASE sampled = {}
      <3>1. Down(sp) # IfAddr => requested \subseteq requested'
        BY <1>3, <2>2 DEF PushLow, Chosen
      <3> QED BY <2>1, <3>1
    <2>3. CASE sampled # {}
      BY <1>3, <2>1, <2>3, PushLowVector DEF ModeInv
    <2> QED BY <2>2, <2>3
  <1>4. CASE Exec
    <2>1. stage = "exec"
      BY <1>4 DEF Exec, ExecPlain, ExecEi, ExecDi, ExecReti, ExecHalt, ExecStop,
                  ExecLocked, ExecWriteIf, ExecWriteIe, Execute
    <2>2. op # "write_if" => requested \subseteq requested'
      BY <1>4 DEF Exec, ExecPlain, ExecEi, ExecDi, ExecReti, ExecHalt, ExecStop,
                  ExecLocked, ExecWriteIf, ExecWriteIe, Execute, Tick, irqVars
    <2> QED BY <2>1, <2>2
  <1> QED BY <1>1, <1>2, <1>3, <1>4
       DEF ObservedNext, ObserveDispatch, ObserveExec, ObserveFetch, ObserveIdle

(* A request goes away only through its own vector or a write to IF.         *)
THEOREM NoRequestLostHolds == ObservedSpec => NoRequestLost
  <1>1. ModeInv /\ [ObservedNext]_vars =>
           [\A l \in requested \ requested' :
               \/ stage = "low" /\ pc' = Vector[l]
               \/ stage \in {"high", "low"} /\ sp' = IfAddr
               \/ stage = "exec" /\ op = "write_if"]_vars
    BY RequestStep
  <1> QED BY <1>1, ObservedModeInvariant, PTL DEF ObservedSpec, NoRequestLost

----------------------------------------------------------------------------

(* EI's delay: an EI that found IME clear leaves it clear until the next     *)
(* opcode is read, and set while that opcode runs.                           *)
EiInv ==
    /\ ei_age \in {0, 1, 2}
    /\ ei_age = 0 => \/ stage = "fetch" /\ ime_pending /\ ~ime
                     \/ stage = "exec" /\ ime
    /\ stage \in {"low", "jump"} => ei_age = 2
    /\ EiDelay

LEMMA EiInvStep ==
    ASSUME ModeInv, EiInv, [ObservedNext]_vars
    PROVE  EiInv'
  <1>1. CASE BeginDispatch /\ ei_age' = ei_age
    <2>1. stage = "fetch" /\ ime /\ stage' = "high"
      BY <1>1 DEF BeginDispatch
    <2> QED BY <1>1, <2>1 DEF EiInv, EiDelay
  <1>2. CASE PushHigh /\ ei_age' = 2
    BY <1>2 DEF PushHigh, EiInv, EiDelay
  <1>3. CASE (PushLow \/ EndDispatch) /\ ei_age' = ei_age
    <2>1. /\ stage \in {"low", "jump"} /\ stage' \in {"jump", "fetch"}
          /\ stage = "low" => stage' = "jump"
      BY <1>3 DEF PushLow, EndDispatch
    <2> QED BY <1>3, <2>1 DEF EiInv, EiDelay
  <1>4. CASE Exec /\ ei_age' = IF op = "ei" /\ ~ime THEN 0 ELSE IF ei_age = 0 THEN 1 ELSE 2
    <2>1. stage = "exec" /\ stage' = "fetch" /\ op' = op
      BY <1>4 DEF Exec, ExecPlain, ExecEi, ExecDi, ExecReti, ExecHalt, ExecStop,
                  ExecLocked, ExecWriteIf, ExecWriteIe, Execute
    <2>2. /\ op = "ei" => ime_pending' /\ ime' = ime
          /\ op # "di" => ime' = ime \/ ime'
      <3>1. CASE ExecEi
        BY <3>1, Zenon DEF ExecEi
      <3>2. CASE ExecDi
        BY <3>2 DEF ExecDi, Execute
      <3>3. CASE ExecReti
        <4>1. op = "reti" /\ ime' = TRUE
          BY <3>3 DEF ExecReti, Execute
        <4> QED BY <4>1
      <3>4. CASE Exec /\ ~ExecEi /\ ~ExecDi /\ ~ExecReti
        BY <3>4 DEF Exec, ExecPlain, ExecHalt, ExecStop,
                    ExecLocked, ExecWriteIf, ExecWriteIe, Execute, modeVars
      <3> QED BY <1>4, <3>1, <3>2, <3>3, <3>4
    <2>3. CASE op = "ei" /\ ~ime
      <3>1. ei_age' = 0
        BY <1>4, <2>3
      <3>2. ime_pending' /\ ~ime'
        <4>1. ime = FALSE
          BY <2>3, Zenon DEF ModeInv, TypeOK
        <4>2. ime_pending' /\ ime' = FALSE
          BY <2>2, <2>3, <4>1
        <4> QED BY <4>2, Zenon
      <3> QED BY <2>1, <3>1, <3>2 DEF EiInv, EiDelay
    <2>4. CASE ~(op = "ei" /\ ~ime) /\ ei_age = 0
      <3>1. ei_age' = 1
        BY <1>4, <2>4
      <3>2. ime
        BY <2>1, <2>4 DEF EiInv
      <3>3. ime' \/ op' = "di"
        BY <2>1, <2>2, <3>2, Zenon
      <3> QED BY <2>1, <3>1, <3>3 DEF EiInv, EiDelay
    <2>5. CASE ~(op = "ei" /\ ~ime) /\ ei_age # 0
      <3>1. ei_age' = 2
        BY <1>4, <2>5
      <3> QED BY <2>1, <3>1 DEF EiInv, EiDelay
    <2> QED BY <2>3, <2>4, <2>5
  <1>5. CASE Fetch /\ ei_age' = ei_age
    <2>1. stage = "fetch" /\ stage' = "exec" /\ (ime_pending => ime')
      BY <1>5, Zenon DEF Fetch
    <2> QED BY <1>5, <2>1 DEF EiInv, EiDelay
  <1>6. CASE (Idle \/ UNCHANGED vars) /\ ei_age' = ei_age
    <2>1. UNCHANGED <<stage, op, ime, ime_pending>>
      BY <1>6 DEF Idle, vars, cpuVars, modeVars
    <2> QED BY <1>6, <2>1 DEF EiInv, EiDelay
  <1> QED BY <1>1, <1>2, <1>3, <1>4, <1>5, <1>6
       DEF ObservedNext, ObserveDispatch, ObserveExec, ObserveFetch, ObserveIdle, vars

(* Exactly one instruction runs between EI and the first dispatch.           *)
THEOREM EiDelayHolds == ObservedSpec => []EiDelay
  <1>1. ObservedInit => EiInv
    BY DEF ObservedInit, Init, EiInv, EiDelay
  <1>2. ModeInv /\ EiInv /\ [ObservedNext]_vars => EiInv'
    BY EiInvStep
  <1>3. EiInv => EiDelay
    BY DEF EiInv
  <1> QED BY <1>1, <1>2, <1>3, ObservedModeInvariant, PTL DEF ObservedSpec

-----------------------------------------------------------------------------
(* The arithmetic: every law of Alu, for all bytes and, where TLC takes only *)
(* some, for all words.                                                      *)

(* What the kinds of alu that the laws speak of do. *)
LEMMA Kinds ==
    ASSUME NEW r, NEW x
    PROVE  /\ alu(r, 0, x) = add8(r, x, 0)
           /\ alu(r, 1, x) = add8(r, x, carry_in(r))
           /\ alu(r, 2, x) = sub8(r, x, 0, TRUE)
           /\ alu(r, 3, x) = sub8(r, x, carry_in(r), TRUE)
           /\ alu(r, 4, x) = WithFlags(And(r.a, x), Flags(And(r.a, x) = 0, FALSE, TRUE, FALSE))
           /\ alu(r, 5, x) = WithFlags(Xor(r.a, x), Flags(Xor(r.a, x) = 0, FALSE, FALSE, FALSE))
           /\ alu(r, 6, x) = WithFlags(Or(r.a, x), Flags(Or(r.a, x) = 0, FALSE, FALSE, FALSE))
           /\ alu(r, 7, x) = sub8(r, x, 0, FALSE)
  BY DEF alu

(* The result of an addition, flags and all. *)
LEMMA AddIs ==
    ASSUME NEW r, NEW x, NEW k
    PROVE  add8(r, x, k) = [a |-> (r.a + x + k) % 256,
                            z |-> ((r.a + x + k) % 256 = 0),
                            n |-> FALSE,
                            h |-> ((r.a % 16) + (x % 16) + k > 15),
                            c |-> (r.a + x + k > 255)]
  BY Zenon DEF add8, WithFlags, Flags

(* The result of the decimal adjustment. *)
LEMMA DaaIs ==
    ASSUME NEW r
    PROVE  LET low == r.h \/ (~r.n /\ r.a % 16 > 9)
               high == r.c \/ (~r.n /\ r.a > 153)
               adjust == 6 * Bit(low) + 96 * Bit(high)
               res == (IF r.n THEN r.a - adjust ELSE r.a + adjust) % 256
           IN  daa(r).a = res /\ daa(r).z = (res = 0) /\ daa(r).c = high
  BY Zenon DEF daa, WithFlags, Flags

(* The two digits of a number. *)
LEMMA TwoDigits ==
    ASSUME NEW x \in 0..99
    PROVE  \E d, e \in 0..9 : x = 10 * d + e /\ Decimal(x) = 16 * d + e
  <1> DEFINE d == x \div 10
             e == x % 10
  <1>1. d \in 0..9 /\ e \in 0..9 /\ x = 10 * d + e
    OBVIOUS
  <1>2. Decimal(x) = 16 * d + e
    BY DEF Decimal
  <1> HIDE DEF d, e
  <1> QED BY <1>1, <1>2

(* A byte with a carry, and the carry as a number. *)
LEMMA CarryIs ==
    ASSUME NEW a, NEW c \in BOOLEAN
    PROVE  /\ WithCarry(a, c).a = a /\ WithCarry(a, c).c = c
           /\ carry_in(WithCarry(a, c)) = (IF c THEN 1 ELSE 0)
  BY DEF WithCarry, WithFlags, Flags, carry_in, Bit

(* A byte of a decimal sum of any length is right, and so is its carry (add8 *)
(* and daa of cpu/opcodes.inl).                                              *)
LEMMA DecimalSumsRight == DecimalSums
  <1> SUFFICES ASSUME NEW x \in 0..99, NEW y \in 0..99, NEW c \in BOOLEAN
               PROVE  LET r == daa(alu(WithCarry(Decimal(x), c), 1, Decimal(y)))
                          sum == x + y + Bit(c)
                      IN  r.a = Decimal(sum % 100) /\ (r.c <=> sum > 99) /\ (r.z <=> sum % 100 = 0)
    BY DEF DecimalSums
  <1> DEFINE k == IF c THEN 1 ELSE 0
             r0 == WithCarry(Decimal(x), c)
             w == alu(r0, 1, Decimal(y))
  <1>1. k \in 0..1 /\ Bit(c) = k
    BY DEF Bit
  <1>2. PICK d \in 0..9, e \in 0..9 : x = 10 * d + e /\ Decimal(x) = 16 * d + e
    BY TwoDigits
  <1>3. PICK f \in 0..9, g \in 0..9 : y = 10 * f + g /\ Decimal(y) = 16 * f + g
    BY TwoDigits
  <1> DEFINE s == 16 * d + e + (16 * f + g) + k
             A == s % 256
             low == e + g + k > 15 \/ A % 16 > 9
             high == s > 255 \/ A > 153
             res == (A + (6 * (IF low THEN 1 ELSE 0) + 96 * (IF high THEN 1 ELSE 0))) % 256
             total == 10 * d + e + (10 * f + g) + k
  <1>4. r0.a = 16 * d + e /\ carry_in(r0) = k
    BY <1>2, CarryIs, Zenon
  <1>5. /\ w.a = A /\ w.n = FALSE
        /\ w.h = (((16 * d + e) % 16) + ((16 * f + g) % 16) + k > 15)
        /\ w.c = (s > 255)
    <2> HIDE DEF r0, k
    <2>1. w = add8(r0, 16 * f + g, k)
      BY <1>3, <1>4, Kinds, Zenon
    <2> HIDE DEF w
    <2> DEFINE b == 16 * f + g
    <2> HIDE DEF b
    <2> QED BY <1>4, <2>1, AddIs, Zenon DEF b
  <1>6. w.h = (e + g + k > 15)
    <2>1. (16 * d + e) % 16 = e /\ (16 * f + g) % 16 = g
      OBVIOUS
    <2> QED BY <1>5, <2>1
  <1> HIDE DEF k, w, r0
  <1>7. daa(w).a = res /\ daa(w).z = (res = 0) /\ daa(w).c = high
    <2>1. (w.h \/ (~w.n /\ w.a % 16 > 9)) = low
      BY <1>5, <1>6, Zenon
    <2>2. (w.c \/ (~w.n /\ w.a > 153)) = high
      BY <1>5, Zenon
    <2> DEFINE lo == w.h \/ (~w.n /\ w.a % 16 > 9)
               hi == w.c \/ (~w.n /\ w.a > 153)
               adjust == 6 * Bit(lo) + 96 * Bit(hi)
               sum == (IF w.n THEN w.a - adjust ELSE w.a + adjust) % 256
    <2>3. daa(w).a = sum /\ daa(w).z = (sum = 0) /\ daa(w).c = hi
      BY DaaIs, Zenon
    <2>4. Bit(lo) = (IF low THEN 1 ELSE 0) /\ Bit(hi) = (IF high THEN 1 ELSE 0)
      BY <2>1, <2>2, ZenonT(60) DEF Bit
    <2>5. sum = res
      BY <1>5, <2>4, Zenon
    <2> HIDE DEF hi, sum, high, res
    <2> QED BY <2>2, <2>3, <2>5 DEF hi
  <1>8. /\ res = ((total % 100) \div 10) * 16 + ((total % 100) % 10)
        /\ high = (total > 99)
        /\ (res = 0) = (total % 100 = 0)
    <2> HIDE DEF k
    <2> DEFINE u == e + g + k
               v == d + f + (IF u > 9 THEN 1 ELSE 0)
    <2>1. low = (u > 9)
      BY <1>1
    <2>2. high = (v > 9)
      BY <1>1 DEF A
    <2>3. total % 100 = 10 * (IF v > 9 THEN v - 10 ELSE v) + (IF u > 9 THEN u - 10 ELSE u)
      BY <1>1
    <2>4. res = 16 * (IF v > 9 THEN v - 10 ELSE v) + (IF u > 9 THEN u - 10 ELSE u)
      BY <1>1, <2>1, <2>2
    <2>5. (total > 99) = (v > 9)
      BY <1>1
    <2> DEFINE p == IF v > 9 THEN v - 10 ELSE v
               q == IF u > 9 THEN u - 10 ELSE u
    <2>6. p \in 0..9 /\ q \in 0..9
      BY <1>1
    <2>7. res = 16 * p + q /\ total % 100 = 10 * p + q
      BY <2>3, <2>4
    <2>8. high = (total > 99)
      BY <2>2, <2>5, Zenon
    <2> HIDE DEF p, q, res, total, high
    <2>9. (10 * p + q) \div 10 = p /\ (10 * p + q) % 10 = q
      BY <2>6
    <2>10. res = ((total % 100) \div 10) * 16 + ((total % 100) % 10)
      BY <2>6, <2>7, <2>9
    <2>11. (res = 0) = (total % 100 = 0)
      BY <2>6, <2>7
    <2> QED BY <2>8, <2>10, <2>11, Zenon DEF res, total, high
  <1>9. x + y + Bit(c) = total
    BY <1>1, <1>2, <1>3
  <1>10. Decimal(total % 100) = res
    <2> HIDE DEF res, total
    <2> QED BY <1>8, Zenon DEF Decimal
  <1> HIDE DEF res, high, total
  <1> QED BY <1>7, <1>8, <1>9, <1>10 DEF w, r0

(* The same of a difference (sub8 and daa).                                  *)
LEMMA DecimalDifferencesRight == DecimalDifferences
  <1> SUFFICES ASSUME NEW x \in 0..99, NEW y \in 0..99, NEW c \in BOOLEAN
               PROVE  LET r == daa(alu(WithCarry(Decimal(x), c), 3, Decimal(y)))
                          diff == x - y - Bit(c)
                      IN  r.a = Decimal(diff % 100) /\ (r.c <=> diff < 0) /\ (r.z <=> diff % 100 = 0)
    BY DEF DecimalDifferences
  <1> DEFINE k == IF c THEN 1 ELSE 0
             r0 == WithCarry(Decimal(x), c)
             w == alu(r0, 3, Decimal(y))
  <1>1. k \in 0..1 /\ Bit(c) = k
    BY DEF Bit
  <1>2. PICK d \in 0..9, e \in 0..9 : x = 10 * d + e /\ Decimal(x) = 16 * d + e
    BY TwoDigits
  <1>3. PICK f \in 0..9, g \in 0..9 : y = 10 * f + g /\ Decimal(y) = 16 * f + g
    BY TwoDigits
  <1> DEFINE s == (16 * d + e) - (16 * f + g) - k
             A == s % 256
             low == g + k > e
             high == 0 > s
             res == (A - (6 * (IF low THEN 1 ELSE 0) + 96 * (IF high THEN 1 ELSE 0))) % 256
             total == (10 * d + e) - (10 * f + g) - k
  <1>4. r0.a = 16 * d + e /\ carry_in(r0) = k
    BY <1>2, CarryIs, Zenon
  <1>5. /\ w.a = A /\ w.n = TRUE
        /\ w.h = (((16 * f + g) % 16) + k > (16 * d + e) % 16)
        /\ w.c = high
    <2> HIDE DEF r0, k
    <2> DEFINE b == 16 * f + g
    <2>1. w = sub8(r0, b, k, TRUE)
      BY <1>3, <1>4, Kinds, Zenon
    <2> HIDE DEF b, w
    <2>2. w = [a |-> (r0.a - b - k) % 256, z |-> ((r0.a - b - k) % 256 = 0), n |-> TRUE,
               h |-> ((b % 16) + k > r0.a % 16), c |-> (0 > r0.a - b - k)]
      BY <2>1 DEF sub8, WithFlags, Flags
    <2>3. w.a = (r0.a - b - k) % 256
      BY <2>2, Zenon
    <2>4. w.n = TRUE
      BY <2>2, Zenon
    <2>5. w.h = ((b % 16) + k > r0.a % 16)
      BY <2>2
    <2>6. w.c = (0 > r0.a - b - k)
      BY <2>2
    <2> QED BY <1>4, <2>3, <2>4, <2>5, <2>6 DEF b
  <1>6. w.h = low
    <2>1. (16 * d + e) % 16 = e /\ (16 * f + g) % 16 = g
      OBVIOUS
    <2> QED BY <1>5, <2>1
  <1> HIDE DEF k, w, r0
  <1>7. daa(w).a = res /\ daa(w).z = (res = 0) /\ daa(w).c = high
    <2>1. (w.h \/ (~w.n /\ w.a % 16 > 9)) = low
      <3>1. low \in BOOLEAN
        OBVIOUS
      <3> HIDE DEF low
      <3> QED BY <1>5, <1>6, <3>1, Zenon
    <2>2. (w.c \/ (~w.n /\ w.a > 153)) = high
      <3>1. high \in BOOLEAN
        OBVIOUS
      <3> HIDE DEF high
      <3> QED BY <1>5, <3>1, Zenon
    <2> DEFINE lo == w.h \/ (~w.n /\ w.a % 16 > 9)
               hi == w.c \/ (~w.n /\ w.a > 153)
               adjust == 6 * Bit(lo) + 96 * Bit(hi)
               diff == (IF w.n THEN w.a - adjust ELSE w.a + adjust) % 256
    <2>3. daa(w).a = diff /\ daa(w).z = (diff = 0) /\ daa(w).c = hi
      BY DaaIs, Zenon
    <2>4. Bit(lo) = (IF low THEN 1 ELSE 0) /\ Bit(hi) = (IF high THEN 1 ELSE 0)
      BY <2>1, <2>2, Zenon DEF Bit
    <2>5. diff = res
      BY <1>5, <2>4, Zenon
    <2> HIDE DEF hi, diff, high, res
    <2> QED BY <2>2, <2>3, <2>5 DEF hi
  <1>8. /\ res = ((total % 100) \div 10) * 16 + ((total % 100) % 10)
        /\ high = (0 > total)
        /\ (res = 0) = (total % 100 = 0)
    <2> DEFINE u == e - g - k
               v == d - f - (IF u < 0 THEN 1 ELSE 0)
               p == IF v < 0 THEN v + 10 ELSE v
               q == IF u < 0 THEN u + 10 ELSE u
    <2>1. low = (0 > u)
      BY <1>1
    <2>2. high = (0 > v)
      BY <1>1
    <2>3. total % 100 = 10 * p + q
      BY <1>1
    <2>4. res = 16 * p + q
      BY <1>1, <2>1, <2>2
    <2>5. (0 > total) = (0 > v)
      BY <1>1
    <2>6. p \in 0..9 /\ q \in 0..9
      BY <1>1
    <2>8. high = (0 > total)
      BY <2>2, <2>5
    <2> HIDE DEF p, q, res, total, high
    <2>9. (10 * p + q) \div 10 = p /\ (10 * p + q) % 10 = q
      BY <2>6
    <2>10. res = ((total % 100) \div 10) * 16 + ((total % 100) % 10)
      BY <2>3, <2>4, <2>6, <2>9
    <2>11. (res = 0) = (total % 100 = 0)
      BY <2>3, <2>4, <2>6
    <2> QED BY <2>8, <2>10, <2>11, Zenon DEF res, total, high
  <1>9. x - y - Bit(c) = total
    BY <1>1, <1>2, <1>3
  <1>10. Decimal(total % 100) = res
    <2> HIDE DEF res, total
    <2> QED BY <1>8, Zenon DEF Decimal
  <1> HIDE DEF res, high, total
  <1> QED BY <1>7, <1>8, <1>9, <1>10 DEF w, r0

(* The 16-bit words. *)
Word == {n \in Nat : n < 65536}

(* A sum of words is made of two sums of bytes, flags and all (ADD HL of     *)
(* Sm83Ops::exec, add8).                                                     *)
THEOREM WordSumIsRight ==
    ASSUME NEW x \in Word, NEW y \in Word
    PROVE  WordSum(x, y)
  <1> DEFINE xl == x % 256
             xh == x \div 256
             yl == y % 256
             yh == y \div 256
             low == alu(NoFlags(xl), 0, yl)
             r == [low EXCEPT !.a = xh]
             high == alu(r, 1, yh)
             word == add_hl(NoFlags(x), y)
             k == IF xl + yl + 0 > 255 THEN 1 ELSE 0
  <1>1. /\ xl \in Nat /\ xl < 256 /\ xh \in Nat /\ xh < 256 /\ x = 256 * xh + xl
        /\ yl \in Nat /\ yl < 256 /\ yh \in Nat /\ yh < 256 /\ y = 256 * yh + yl
    BY DEF Word
  <1> HIDE DEF xl, xh, yl, yh
  <1>2. low = [a |-> (xl + yl + 0) % 256, z |-> ((xl + yl + 0) % 256 = 0), n |-> FALSE,
               h |-> ((xl % 16) + (yl % 16) + 0 > 15), c |-> (xl + yl + 0 > 255)]
    <2>1. NoFlags(xl).a = xl
      BY DEF NoFlags, WithFlags, Flags
    <2> HIDE DEF r, high, word, k
    <2> DEFINE n0 == NoFlags(xl)
    <2>2. low = add8(n0, yl, 0)
      BY Kinds, Zenon
    <2> HIDE DEF n0, low
    <2>3. n0.a = xl
      BY <2>1 DEF n0
    <2> QED BY <2>2, <2>3, AddIs, Zenon
  <1>3. r.a = xh /\ carry_in(r) = k
    <2>1. r.a = xh /\ r.c = (xl + yl + 0 > 255)
      <3> HIDE DEF low
      <3> QED BY <1>2, Zenon
    <2> QED BY <2>1, Zenon DEF carry_in, Bit
  <1>4. high = [a |-> (xh + yh + k) % 256, z |-> ((xh + yh + k) % 256 = 0), n |-> FALSE,
                h |-> ((xh % 16) + (yh % 16) + k > 15), c |-> (xh + yh + k > 255)]
    <2> HIDE DEF r, k
    <2>1. high = add8(r, yh, k)
      BY <1>3, Kinds, Zenon
    <2> HIDE DEF high
    <2> QED BY <1>3, <2>1, AddIs, ZenonT(60)
  <1>5. /\ word.a = (x + y) % 65536
        /\ word.h = ((x % 4096) + (y % 4096) > 4095)
        /\ word.c = (x + y > 65535)
    BY DEF add_hl, NoFlags, WithFlags, Flags
  <1>6. /\ (x + y) % 65536 = 256 * ((xh + yh + k) % 256) + ((xl + yl + 0) % 256)
        /\ ((x % 4096) + (y % 4096) > 4095) = ((xh % 16) + (yh % 16) + k > 15)
        /\ (x + y > 65535) = (xh + yh + k > 255)
    BY <1>1
  <1> HIDE DEF low, high, k
  <1>7. low.a = (xl + yl + 0) % 256
    BY <1>2, Zenon
  <1>8. /\ high.a = (xh + yh + k) % 256
        /\ high.h = ((xh % 16) + (yh % 16) + k > 15)
        /\ high.c = (xh + yh + k > 255)
    BY <1>4, Zenon
  <1>9. word.a = 256 * high.a + low.a /\ word.h = high.h /\ word.c = high.c
    <2> HIDE DEF word
    <2> QED BY <1>5, <1>6, <1>7, <1>8
  <1> QED BY <1>9 DEF WordSum, xl, xh, yl, yh, low, high

(* Bytes, without the list of them. *)
LEMMA ByteIs ==
    /\ \A v \in Byte : v \in Nat /\ v < 256
    /\ \A v \in Nat : v < 256 => v \in Byte
  BY DEF Byte

(* ADD SP and LD HL,SP+imm are ADD of the low byte and ADC of the sign, with *)
(* the flags of the low byte (ADD SP of Sm83Ops::exec, add_sp_flags).        *)
THEOREM StackSumIsRight ==
    ASSUME NEW word \in Word, NEW imm \in Byte
    PROVE  StackSum(word, imm)
  <1> DEFINE wl == word % 256
             wh == word \div 256
             sign == IF imm > 127 THEN 255 ELSE 0
             low == alu(NoFlags(wl), 0, imm)
             r == [low EXCEPT !.a = wh]
             high == alu(r, 1, sign)
             moved == add_sp(word, imm)
             k == IF wl + imm + 0 > 255 THEN 1 ELSE 0
  <1>1. /\ wl \in Nat /\ wl < 256 /\ wh \in Nat /\ wh < 256 /\ word = 256 * wh + wl
        /\ imm \in Nat /\ imm < 256
    BY ByteIs DEF Word
  <1> HIDE DEF wl, wh, sign
  <1>2. low = [a |-> (wl + imm + 0) % 256, z |-> ((wl + imm + 0) % 256 = 0), n |-> FALSE,
               h |-> ((wl % 16) + (imm % 16) + 0 > 15), c |-> (wl + imm + 0 > 255)]
    <2>1. NoFlags(wl).a = wl
      BY DEF NoFlags, WithFlags, Flags
    <2> HIDE DEF r, high, moved, k
    <2> DEFINE n0 == NoFlags(wl)
    <2>2. low = add8(n0, imm, 0)
      BY Kinds, Zenon
    <2> HIDE DEF n0, low
    <2>3. n0.a = wl
      BY <2>1 DEF n0
    <2> QED BY <2>2, <2>3, AddIs, Zenon
  <1>3. r.a = wh /\ carry_in(r) = k
    <2>1. r.a = wh /\ r.c = (wl + imm + 0 > 255)
      <3> HIDE DEF low
      <3> QED BY <1>2, Zenon
    <2> QED BY <2>1, Zenon DEF carry_in, Bit
  <1>4. high = [a |-> (wh + sign + k) % 256, z |-> ((wh + sign + k) % 256 = 0), n |-> FALSE,
                h |-> ((wh % 16) + (sign % 16) + k > 15), c |-> (wh + sign + k > 255)]
    <2> HIDE DEF r, k
    <2>1. high = add8(r, sign, k)
      BY <1>3, Kinds, Zenon
    <2> HIDE DEF high
    <2> QED BY <1>3, <2>1, AddIs, ZenonT(60)
  <1>5. /\ moved.a = (word + (IF imm > 127 THEN imm - 256 ELSE imm)) % 65536
        /\ moved.h = ((word % 16) + (imm % 16) > 15)
        /\ moved.c = ((word % 256) + imm > 255)
    BY DEF add_sp, add_sp_flags, WithFlags, Flags
  <1>6. /\ (word + (IF imm > 127 THEN imm - 256 ELSE imm)) % 65536
               = 256 * ((wh + sign + k) % 256) + ((wl + imm + 0) % 256)
        /\ ((word % 16) + (imm % 16) > 15) = ((wl % 16) + (imm % 16) + 0 > 15)
        /\ ((word % 256) + imm > 255) = (wl + imm + 0 > 255)
    BY <1>1 DEF sign
  <1> HIDE DEF low, high, k
  <1>7. /\ low.a = (wl + imm + 0) % 256
        /\ low.h = ((wl % 16) + (imm % 16) + 0 > 15)
        /\ low.c = (wl + imm + 0 > 255)
    BY <1>2, Zenon
  <1>8. high.a = (wh + sign + k) % 256
    BY <1>4, Zenon
  <1>9. moved.a = 256 * high.a + low.a /\ moved.h = low.h /\ moved.c = low.c
    <2> HIDE DEF moved
    <2> QED BY <1>5, <1>6, <1>7, <1>8
  <1> QED BY <1>9 DEF StackSum, wl, wh, sign, low, high

(* The words that TLC takes are words. *)
LEMMA EdgeWords == EdgeBytes \subseteq Byte /\ Words \subseteq Word
  <1>1. EdgeBytes \subseteq Byte
    BY ByteIs DEF EdgeBytes
  <1>2. ASSUME NEW high \in Byte, NEW low \in Byte PROVE 256 * high + low \in Word
    BY ByteIs DEF Word
  <1> QED BY <1>1, <1>2 DEF Words

LEMMA WordSumsRight == WordSums /\ StackSums
  BY EdgeWords, WordSumIsRight, StackSumIsRight DEF WordSums, StackSums

(* The rotations that the laws speak of.                                     *)
LEMMA RotateLeftIs ==
    ASSUME NEW r
    PROVE  rotate(r, 2, FALSE) = [a |-> ((2 * r.a) % 256) + carry_in(r), z |-> FALSE,
                                  n |-> FALSE, h |-> FALSE, c |-> (r.a \div 128 = 1)]
  <1> DEFINE q == rotate(r, 2, FALSE)
  <1>1. q = [a |-> q.a, z |-> q.z, n |-> q.n, h |-> q.h, c |-> q.c]
    BY DEF rotate, WithFlags, Flags
  <1>2. q.a = ((2 * r.a) % 256) + carry_in(r)
    BY DEF rotate, WithFlags, Flags
  <1>3. q.z = FALSE
    BY DEF rotate, WithFlags, Flags
  <1>4. q.n = FALSE
    BY DEF rotate, WithFlags, Flags
  <1>5. q.h = FALSE
    BY DEF rotate, WithFlags, Flags
  <1>6. q.c = (r.a \div 128 = 1)
    BY SMTT(40) DEF rotate, WithFlags, Flags
  <1> HIDE DEF q
  <1> QED BY <1>1, <1>2, <1>3, <1>4, <1>5, <1>6, Zenon DEF q

LEMMA RotateRightIs ==
    ASSUME NEW r
    PROVE  rotate(r, 3, FALSE) = [a |-> (r.a \div 2) + 128 * carry_in(r), z |-> FALSE,
                                  n |-> FALSE, h |-> FALSE, c |-> (r.a % 2 = 1)]
  <1> DEFINE q == rotate(r, 3, FALSE)
  <1>1. q = [a |-> q.a, z |-> q.z, n |-> q.n, h |-> q.h, c |-> q.c]
    BY SMTT(40) DEF rotate, WithFlags, Flags
  <1>2. q.a = (r.a \div 2) + 128 * carry_in(r)
    BY DEF rotate, WithFlags, Flags
  <1>3. q.z = FALSE
    BY DEF rotate, WithFlags, Flags
  <1>4. q.n = FALSE
    BY DEF rotate, WithFlags, Flags
  <1>5. q.h = FALSE
    BY DEF rotate, WithFlags, Flags
  <1>6. q.c = (r.a % 2 = 1)
    BY SMTT(40) DEF rotate, WithFlags, Flags
  <1> HIDE DEF q
  <1> QED BY <1>1, <1>2, <1>3, <1>4, <1>5, <1>6, Zenon DEF q

LEMMA RotateInPlaceIs ==
    ASSUME NEW r
    PROVE  /\ rotate(r, 0, TRUE).a = ((2 * r.a) % 256) + (r.a \div 128)
           /\ rotate(r, 1, TRUE).a = (r.a \div 2) + 128 * (r.a % 2)
           /\ rotate(r, 6, TRUE).a = 16 * (r.a % 16) + (r.a \div 16)
  <1>1. rotate(r, 0, TRUE).a = ((2 * r.a) % 256) + (r.a \div 128)
    BY SMTT(40) DEF rotate, WithFlags, Flags
  <1>2. rotate(r, 1, TRUE).a = (r.a \div 2) + 128 * (r.a % 2)
    BY SMTT(40) DEF rotate, WithFlags, Flags
  <1>3. rotate(r, 6, TRUE).a = 16 * (r.a % 16) + (r.a \div 16)
    BY SMTT(40) DEF rotate, WithFlags, Flags
  <1> QED BY <1>1, <1>2, <1>3, Zenon

(* A rotation through the carry is undone by the other, whatever the byte    *)
(* and the carry; so are INC by DEC and CPL by CPL (rotate, inc8, dec8).     *)
LEMMA UndoneRight == Undone
  <1> SUFFICES ASSUME NEW v \in Byte, NEW c \in BOOLEAN
               PROVE  LET r == WithCarry(v, c)
                      IN  /\ rotate(rotate(r, 2, FALSE), 3, FALSE) = r
                          /\ rotate(rotate(r, 3, FALSE), 2, FALSE) = r
                          /\ rotate(rotate(r, 0, TRUE), 1, TRUE).a = v
                          /\ rotate(rotate(r, 6, TRUE), 6, TRUE).a = v
                          /\ dec8(inc8(r)).a = v /\ inc8(dec8(r)).c = c
                          /\ cpl(cpl(r)).a = v /\ ccf(scf(r)).c = FALSE
    BY Zenon DEF Undone
  <1> DEFINE r == WithCarry(v, c)
             k == IF c THEN 1 ELSE 0
  <1>1. v \in Nat /\ v < 256
    BY ByteIs
  <1>2. r = [a |-> v, z |-> FALSE, n |-> FALSE, h |-> FALSE, c |-> c]
    BY DEF WithCarry, WithFlags, Flags
  <1>3. r.a = v /\ r.c = c /\ carry_in(r) = k
    BY CarryIs, Zenon
  <1> HIDE DEF r
  <1>4. rotate(rotate(r, 2, FALSE), 3, FALSE) = r
    <2> DEFINE s == rotate(r, 2, FALSE)
               t == rotate(s, 3, FALSE)
               x == ((2 * v) % 256) + k
               j == IF v \div 128 = 1 THEN 1 ELSE 0
    <2> HIDE DEF k
    <2>1. s = [a |-> x, z |-> FALSE, n |-> FALSE, h |-> FALSE, c |-> (v \div 128 = 1)]
      <3>1. s = [a |-> ((2 * r.a) % 256) + carry_in(r), z |-> FALSE, n |-> FALSE,
                 h |-> FALSE, c |-> (r.a \div 128 = 1)]
        BY RotateLeftIs, Zenon
      <3> QED BY <1>3, <3>1, Zenon
    <2> HIDE DEF s
    <2>2. s.a = x /\ s.c = (v \div 128 = 1)
      BY <2>1, Zenon
    <2>3. carry_in(s) = j
      BY <2>2, Zenon DEF carry_in, Bit
    <2> HIDE DEF j, x
    <2>4. t = [a |-> (x \div 2) + 128 * j, z |-> FALSE, n |-> FALSE, h |-> FALSE,
               c |-> (x % 2 = 1)]
      <3>1. t = [a |-> (s.a \div 2) + 128 * carry_in(s), z |-> FALSE, n |-> FALSE,
                 h |-> FALSE, c |-> (s.a % 2 = 1)]
        BY RotateRightIs, Zenon
      <3> HIDE DEF t
      <3> QED BY <2>2, <2>3, <3>1, Zenon
    <2>5. (x \div 2) + 128 * j = v
      BY <1>1 DEF x, j, k
    <2>6. (x % 2 = 1) = c
      BY <1>1 DEF x, k
    <2> HIDE DEF t
    <2> QED BY <1>2, <2>4, <2>5, <2>6, Zenon DEF t, s
  <1>5. rotate(rotate(r, 3, FALSE), 2, FALSE) = r
    <2> DEFINE s == rotate(r, 3, FALSE)
               t == rotate(s, 2, FALSE)
               x == (v \div 2) + 128 * k
               j == IF v % 2 = 1 THEN 1 ELSE 0
    <2> HIDE DEF k
    <2>1. s = [a |-> x, z |-> FALSE, n |-> FALSE, h |-> FALSE, c |-> (v % 2 = 1)]
      <3>1. s = [a |-> (r.a \div 2) + 128 * carry_in(r), z |-> FALSE, n |-> FALSE,
                 h |-> FALSE, c |-> (r.a % 2 = 1)]
        BY RotateRightIs, Zenon
      <3> QED BY <1>3, <3>1, Zenon
    <2> HIDE DEF s
    <2>2. s.a = x /\ s.c = (v % 2 = 1)
      BY <2>1, Zenon
    <2>3. carry_in(s) = j
      BY <2>2, Zenon DEF carry_in, Bit
    <2> HIDE DEF j, x
    <2>4. t = [a |-> ((2 * x) % 256) + j, z |-> FALSE, n |-> FALSE, h |-> FALSE,
               c |-> (x \div 128 = 1)]
      <3>1. t = [a |-> ((2 * s.a) % 256) + carry_in(s), z |-> FALSE, n |-> FALSE,
                 h |-> FALSE, c |-> (s.a \div 128 = 1)]
        BY RotateLeftIs, Zenon
      <3> HIDE DEF t
      <3> QED BY <2>2, <2>3, <3>1, Zenon
    <2>5. ((2 * x) % 256) + j = v
      BY <1>1 DEF x, j, k
    <2>6. (x \div 128 = 1) = c
      BY <1>1 DEF x, k
    <2> HIDE DEF t
    <2> QED BY <1>2, <2>4, <2>5, <2>6, ZenonT(60) DEF t, s
  <1>6. rotate(rotate(r, 0, TRUE), 1, TRUE).a = v
    <2> DEFINE s == rotate(r, 0, TRUE)
    <2>1. s.a = ((2 * v) % 256) + (v \div 128)
      BY <1>3, RotateInPlaceIs, ZenonT(60)
    <2> HIDE DEF s
    <2>2. rotate(s, 1, TRUE).a = (s.a \div 2) + 128 * (s.a % 2)
      BY RotateInPlaceIs, Zenon
    <2> DEFINE x == ((2 * v) % 256) + (v \div 128)
    <2>3. (x \div 2) + 128 * (x % 2) = v
      BY <1>1
    <2> HIDE DEF x
    <2> QED BY <2>1, <2>2, <2>3, ZenonT(60) DEF s, x
  <1>7. rotate(rotate(r, 6, TRUE), 6, TRUE).a = v
    <2> DEFINE s == rotate(r, 6, TRUE)
    <2>1. s.a = 16 * (v % 16) + (v \div 16)
      BY <1>3, RotateInPlaceIs, Zenon
    <2> HIDE DEF s
    <2>2. rotate(s, 6, TRUE).a = 16 * (s.a % 16) + (s.a \div 16)
      BY RotateInPlaceIs, Zenon
    <2> DEFINE x == 16 * (v % 16) + (v \div 16)
    <2>3. 16 * (x % 16) + (x \div 16) = v
      BY <1>1
    <2> HIDE DEF x
    <2> QED BY <2>1, <2>2, <2>3, Zenon DEF s, x
  <1>8. dec8(inc8(r)).a = v /\ inc8(dec8(r)).c = c
    <2>1. inc8(r).a = (v + 1) % 256
      BY <1>3 DEF inc8, WithFlags, Flags
    <2>2. dec8(inc8(r)).a = (inc8(r).a - 1) % 256
      BY DEF dec8, WithFlags, Flags
    <2>3. inc8(dec8(r)).c = c
      BY <1>3 DEF inc8, dec8, WithFlags, Flags
    <2> QED BY <1>1, <2>1, <2>2, <2>3
  <1>9. cpl(cpl(r)).a = v /\ ccf(scf(r)).c = FALSE
    <2>1. cpl(cpl(r)).a = 255 - (255 - r.a)
      BY Zenon DEF cpl, WithFlags, Flags
    <2>2. scf(r).c = TRUE
      BY Zenon DEF scf, WithFlags, Flags
    <2>3. ccf(scf(r)).c = ~scf(r).c
      BY Zenon DEF ccf, WithFlags, Flags
    <2>4. 255 - (255 - v) = v
      BY <1>1
    <2> QED BY <1>3, <2>1, <2>2, <2>3, <2>4, Zenon
  <1> QED BY <1>4, <1>5, <1>6, <1>7, <1>8, <1>9, Zenon DEF r

(* The byte of eight bits, and a bit of a byte.                              *)
Value(f) == f[0] + 2 * f[1] + 4 * f[2] + 8 * f[3] + 16 * f[4] + 32 * f[5] + 64 * f[6] + 128 * f[7]

BitAt(v, k) == (v \div 2^k) % 2

LEMMA Powers ==
    /\ 2^0 = 1 /\ 2^1 = 2 /\ 2^2 = 4 /\ 2^3 = 8
    /\ 2^4 = 16 /\ 2^5 = 32 /\ 2^6 = 64 /\ 2^7 = 128
  OBVIOUS

LEMMA EightBits ==
    ASSUME NEW k \in 0..7
    PROVE  k = 0 \/ k = 1 \/ k = 2 \/ k = 3 \/ k = 4 \/ k = 5 \/ k = 6 \/ k = 7
  OBVIOUS

(* What divides by the eight powers.                                         *)
LEMMA BitsAre ==
    ASSUME NEW v
    PROVE  /\ BitAt(v, 0) = (v \div 1) % 2 /\ BitAt(v, 1) = (v \div 2) % 2
           /\ BitAt(v, 2) = (v \div 4) % 2 /\ BitAt(v, 3) = (v \div 8) % 2
           /\ BitAt(v, 4) = (v \div 16) % 2 /\ BitAt(v, 5) = (v \div 32) % 2
           /\ BitAt(v, 6) = (v \div 64) % 2 /\ BitAt(v, 7) = (v \div 128) % 2
  BY Powers, Zenon DEF BitAt

(* The bits of a byte are its own: eight bits make a byte that has them, and *)
(* every byte is of eight bits.                                              *)
LEMMA BitsOfValue ==
    ASSUME NEW f \in [0..7 -> 0..1]
    PROVE  /\ Value(f) \in Nat /\ Value(f) < 256
           /\ \A k \in 0..7 : BitAt(Value(f), k) = f[k]
  <1> DEFINE v == Value(f)
  <1>1. /\ f[0] \in 0..1 /\ f[1] \in 0..1 /\ f[2] \in 0..1 /\ f[3] \in 0..1
        /\ f[4] \in 0..1 /\ f[5] \in 0..1 /\ f[6] \in 0..1 /\ f[7] \in 0..1
    OBVIOUS
  <1>2. v \in Nat /\ v < 256
    BY <1>1 DEF Value
  <1>3. /\ (v \div 1) % 2 = f[0] /\ (v \div 2) % 2 = f[1] /\ (v \div 4) % 2 = f[2]
        /\ (v \div 8) % 2 = f[3] /\ (v \div 16) % 2 = f[4] /\ (v \div 32) % 2 = f[5]
        /\ (v \div 64) % 2 = f[6] /\ (v \div 128) % 2 = f[7]
    BY <1>1 DEF Value
  <1> HIDE DEF v
  <1>4. ASSUME NEW k \in 0..7 PROVE BitAt(v, k) = f[k]
    <2>1. /\ BitAt(v, 0) = f[0] /\ BitAt(v, 1) = f[1] /\ BitAt(v, 2) = f[2]
          /\ BitAt(v, 3) = f[3] /\ BitAt(v, 4) = f[4] /\ BitAt(v, 5) = f[5]
          /\ BitAt(v, 6) = f[6] /\ BitAt(v, 7) = f[7]
      BY <1>3, BitsAre, ZenonT(60)
    <2>2. k = 0 \/ k = 1 \/ k = 2 \/ k = 3 \/ k = 4 \/ k = 5 \/ k = 6 \/ k = 7
      BY <1>4, EightBits
    <2> QED BY <2>1, <2>2, Zenon
  <1> QED BY <1>2, <1>4 DEF v

LEMMA ValueOfBits ==
    ASSUME NEW v \in Byte
    PROVE  LET f == [k \in 0..7 |-> BitAt(v, k)]
           IN  f \in [0..7 -> 0..1] /\ v = Value(f)
  <1> DEFINE f == [k \in 0..7 |-> BitAt(v, k)]
  <1>1. v \in Nat /\ v < 256
    BY ByteIs
  <1>2. /\ f[0] = (v \div 1) % 2 /\ f[1] = (v \div 2) % 2 /\ f[2] = (v \div 4) % 2
        /\ f[3] = (v \div 8) % 2 /\ f[4] = (v \div 16) % 2 /\ f[5] = (v \div 32) % 2
        /\ f[6] = (v \div 64) % 2 /\ f[7] = (v \div 128) % 2
    <2>1. \A k \in 0..7 : f[k] = BitAt(v, k)
      OBVIOUS
    <2> HIDE DEF f
    <2>2. /\ f[0] = BitAt(v, 0) /\ f[1] = BitAt(v, 1) /\ f[2] = BitAt(v, 2)
          /\ f[3] = BitAt(v, 3) /\ f[4] = BitAt(v, 4) /\ f[5] = BitAt(v, 5)
          /\ f[6] = BitAt(v, 6) /\ f[7] = BitAt(v, 7)
      BY <2>1
    <2> QED BY <2>2, BitsAre, ZenonT(60)
  <1>3. \A k \in 0..7 : f[k] \in 0..1
    <2> HIDE DEF f
    <2>1. /\ f[0] \in 0..1 /\ f[1] \in 0..1 /\ f[2] \in 0..1 /\ f[3] \in 0..1
          /\ f[4] \in 0..1 /\ f[5] \in 0..1 /\ f[6] \in 0..1 /\ f[7] \in 0..1
      BY <1>1, <1>2
    <2> QED BY <2>1, EightBits, Zenon
  <1>4. f \in [0..7 -> 0..1]
    BY <1>3
  <1>5. v = Value(f)
    <2> HIDE DEF f
    <2> QED BY <1>1, <1>2 DEF Value
  <1> QED BY <1>4, <1>5

(* The byte with a set of bits on, in these terms.                           *)
LEMMA ByteOfIs ==
    ASSUME NEW S
    PROVE  LET f == [k \in 0..7 |-> Bit(k \in S)]
           IN  f \in [0..7 -> 0..1] /\ ByteOf(S) = Value(f)
  <1> DEFINE f == [k \in 0..7 |-> Bit(k \in S)]
  <1>1. \A k \in 0..7 : f[k] = Bit(k \in S)
    OBVIOUS
  <1>2. f \in [0..7 -> 0..1]
    BY DEF Bit
  <1> HIDE DEF f
  <1>3. /\ f[0] = Bit(0 \in S) /\ f[1] = Bit(1 \in S) /\ f[2] = Bit(2 \in S)
        /\ f[3] = Bit(3 \in S) /\ f[4] = Bit(4 \in S) /\ f[5] = Bit(5 \in S)
        /\ f[6] = Bit(6 \in S) /\ f[7] = Bit(7 \in S)
    BY <1>1
  <1>4. ByteOf(S) = Value(f)
    BY <1>3, Zenon DEF ByteOf, Value
  <1> QED BY <1>2, <1>4 DEF f

(* SET and RES change one bit of the eight.                                  *)
LEMMA OneBitChanged ==
    ASSUME NEW f \in [0..7 -> 0..1], NEW b \in 0..7, NEW i \in 0..1
    PROVE  Value(f) + (i - f[b]) * 2^b = Value([f EXCEPT ![b] = i])
  <1> DEFINE g == [f EXCEPT ![b] = i]
  <1>1. /\ f[0] \in 0..1 /\ f[1] \in 0..1 /\ f[2] \in 0..1 /\ f[3] \in 0..1
        /\ f[4] \in 0..1 /\ f[5] \in 0..1 /\ f[6] \in 0..1 /\ f[7] \in 0..1
    OBVIOUS
  <1>2. \A k \in 0..7 : g[k] = IF k = b THEN i ELSE f[k]
    OBVIOUS
  <1> HIDE DEF g
  <1>3. /\ g[0] = (IF b = 0 THEN i ELSE f[0]) /\ g[1] = (IF b = 1 THEN i ELSE f[1])
        /\ g[2] = (IF b = 2 THEN i ELSE f[2]) /\ g[3] = (IF b = 3 THEN i ELSE f[3])
        /\ g[4] = (IF b = 4 THEN i ELSE f[4]) /\ g[5] = (IF b = 5 THEN i ELSE f[5])
        /\ g[6] = (IF b = 6 THEN i ELSE f[6]) /\ g[7] = (IF b = 7 THEN i ELSE f[7])
    BY <1>2
  <1>4. CASE b = 0
    <2>1. f[b] = f[0] /\ 2^b = 1
      BY <1>4, Powers, Zenon
    <2>2. Value(f) + (i - f[0]) * 1 = Value(g)
      BY <1>1, <1>3, <1>4 DEF Value
    <2> QED BY <2>1, <2>2, Zenon DEF g
  <1>5. CASE b = 1
    <2>1. f[b] = f[1] /\ 2^b = 2
      BY <1>5, Powers, Zenon
    <2>2. Value(f) + (i - f[1]) * 2 = Value(g)
      BY <1>1, <1>3, <1>5 DEF Value
    <2> QED BY <2>1, <2>2, Zenon DEF g
  <1>6. CASE b = 2
    <2>1. f[b] = f[2] /\ 2^b = 4
      BY <1>6, Powers, Zenon
    <2>2. Value(f) + (i - f[2]) * 4 = Value(g)
      BY <1>1, <1>3, <1>6 DEF Value
    <2> QED BY <2>1, <2>2, Zenon DEF g
  <1>7. CASE b = 3
    <2>1. f[b] = f[3] /\ 2^b = 8
      BY <1>7, Powers, Zenon
    <2>2. Value(f) + (i - f[3]) * 8 = Value(g)
      BY <1>1, <1>3, <1>7 DEF Value
    <2> QED BY <2>1, <2>2, Zenon DEF g
  <1>8. CASE b = 4
    <2>1. f[b] = f[4] /\ 2^b = 16
      BY <1>8, Powers, Zenon
    <2>2. Value(f) + (i - f[4]) * 16 = Value(g)
      BY <1>1, <1>3, <1>8 DEF Value
    <2> QED BY <2>1, <2>2, Zenon DEF g
  <1>9. CASE b = 5
    <2>1. f[b] = f[5] /\ 2^b = 32
      BY <1>9, Powers, Zenon
    <2>2. Value(f) + (i - f[5]) * 32 = Value(g)
      BY <1>1, <1>3, <1>9 DEF Value
    <2> QED BY <2>1, <2>2, Zenon DEF g
  <1>10. CASE b = 6
    <2>1. f[b] = f[6] /\ 2^b = 64
      BY <1>10, Powers, Zenon
    <2>2. Value(f) + (i - f[6]) * 64 = Value(g)
      BY <1>1, <1>3, <1>10 DEF Value
    <2> QED BY <2>1, <2>2, Zenon DEF g
  <1>11. CASE b = 7
    <2>1. f[b] = f[7] /\ 2^b = 128
      BY <1>11, Powers, Zenon
    <2>2. Value(f) + (i - f[7]) * 128 = Value(g)
      BY <1>1, <1>3, <1>11 DEF Value
    <2> QED BY <2>1, <2>2, Zenon DEF g
  <1> QED BY <1>4, <1>5, <1>6, <1>7, <1>8, <1>9, <1>10, <1>11, EightBits, Zenon

LEMMA PowerIsNat == ASSUME NEW b \in 0..7 PROVE 2^b \in Nat
  <1>1. /\ 2^0 \in Nat /\ 2^1 \in Nat /\ 2^2 \in Nat /\ 2^3 \in Nat
        /\ 2^4 \in Nat /\ 2^5 \in Nat /\ 2^6 \in Nat /\ 2^7 \in Nat
    OBVIOUS
  <1> QED BY <1>1, EightBits, Zenon

(* What SET and RES leave, bit by bit (Sm83Ops::exec_cb).                    *)
LEMMA SetAndReset ==
    ASSUME NEW v \in Byte, NEW b \in 0..7
    PROVE  /\ \A k \in 0..7 : BitAt(bit_set(NoFlags(v), b).a, k) = IF k = b THEN 1 ELSE BitAt(v, k)
           /\ \A k \in 0..7 : BitAt(bit_res(NoFlags(v), b).a, k) = IF k = b THEN 0 ELSE BitAt(v, k)
           /\ \E f \in [0..7 -> 0..1] : bit_set(NoFlags(v), b).a = Value(f)
           /\ \E f \in [0..7 -> 0..1] : bit_res(NoFlags(v), b).a = Value(f)
  <1> DEFINE f == [k \in 0..7 |-> BitAt(v, k)]
             up == [f EXCEPT ![b] = 1]
             down == [f EXCEPT ![b] = 0]
             p == 2^b
  <1>1. f \in [0..7 -> 0..1] /\ v = Value(f)
    BY ValueOfBits, Zenon
  <1>2. \A k \in 0..7 : f[k] = BitAt(v, k)
    OBVIOUS
  <1>3. f[b] = (v \div p) % 2 /\ p \in Nat /\ f[b] \in 0..1 /\ v \in Nat
    BY <1>1, <1>2, PowerIsNat, ByteIs, Zenon DEF BitAt
  <1> HIDE DEF f
  <1>4. Value(f) + (1 - f[b]) * p = Value(up) /\ Value(f) + (0 - f[b]) * p = Value(down)
    <2>1. 1 \in 0..1 /\ 0 \in 0..1
      OBVIOUS
    <2> QED BY <1>1, <2>1, OneBitChanged, Zenon
  <1>5. up \in [0..7 -> 0..1] /\ down \in [0..7 -> 0..1]
    BY <1>1
  <1>6. \A k \in 0..7 : up[k] = (IF k = b THEN 1 ELSE f[k]) /\ down[k] = (IF k = b THEN 0 ELSE f[k])
    BY <1>1
  <1> HIDE DEF up, down, p
  <1>7. NoFlags(v).a = v /\ NoFlags(v) = [a |-> v, z |-> FALSE, n |-> FALSE, h |-> FALSE, c |-> FALSE]
    BY DEF NoFlags, WithFlags, Flags
  <1>8. bit_set(NoFlags(v), b).a = v + (1 - ((v \div p) % 2)) * p
    BY <1>7 DEF bit_set, p
  <1>9. bit_res(NoFlags(v), b).a = v - ((v \div p) % 2) * p
    BY <1>7 DEF bit_res, p
  <1>10. v - f[b] * p = v + (0 - f[b]) * p
    BY <1>3
  <1>11. bit_set(NoFlags(v), b).a = Value(up) /\ bit_res(NoFlags(v), b).a = Value(down)
    BY <1>1, <1>3, <1>4, <1>8, <1>9, <1>10, Zenon
  <1>12. \A k \in 0..7 : BitAt(Value(up), k) = up[k] /\ BitAt(Value(down), k) = down[k]
    BY <1>5, BitsOfValue, Zenon
  <1> QED BY <1>2, <1>5, <1>6, <1>11, <1>12

(* The bits of the masks 1 << b and ~(1 << b).                               *)
LEMMA Masks ==
    ASSUME NEW b \in 0..7
    PROVE  \A k \in 0..7 : /\ BitAt(2^b, k) = IF k = b THEN 1 ELSE 0
                           /\ BitAt(255 - 2^b, k) = IF k = b THEN 0 ELSE 1
  <1> DEFINE none == [k \in 0..7 |-> 0]
             all == [k \in 0..7 |-> 1]
             one == [none EXCEPT ![b] = 1]
             rest == [all EXCEPT ![b] = 0]
             p == 2^b
  <1>1. none \in [0..7 -> 0..1] /\ all \in [0..7 -> 0..1]
    OBVIOUS
  <1>8. none[b] = 0 /\ all[b] = 1
    OBVIOUS
  <1>2. Value(none) = 0 /\ Value(all) = 255
    BY DEF Value
  <1>3. /\ one \in [0..7 -> 0..1] /\ rest \in [0..7 -> 0..1]
        /\ \A k \in 0..7 : one[k] = (IF k = b THEN 1 ELSE 0) /\ rest[k] = (IF k = b THEN 0 ELSE 1)
    OBVIOUS
  <1> HIDE DEF none, all
  <1>4. Value(none) + (1 - none[b]) * p = Value(one) /\ Value(all) + (0 - all[b]) * p = Value(rest)
    <2>1. 1 \in 0..1 /\ 0 \in 0..1
      OBVIOUS
    <2>2. Value(none) + (1 - none[b]) * p = Value(one)
      BY <1>1, <2>1, OneBitChanged, Zenon
    <2>3. Value(all) + (0 - all[b]) * p = Value(rest)
      BY <1>1, <2>1, OneBitChanged, Zenon
    <2> QED BY <2>2, <2>3
  <1>5. p \in Nat
    BY PowerIsNat
  <1> HIDE DEF p, one, rest
  <1>6. p = Value(one) /\ 255 - p = Value(rest)
    <2>1. 0 + (1 - 0) * p = p /\ 255 + (0 - 1) * p = 255 - p
      BY <1>5
    <2> QED BY <1>8, <1>2, <1>4, <2>1, Zenon
  <1>7. \A k \in 0..7 : BitAt(Value(one), k) = one[k] /\ BitAt(Value(rest), k) = rest[k]
    BY <1>3, BitsOfValue, Zenon
  <1> QED BY <1>3, <1>6, <1>7 DEF p

(* Two bytes of the same bits are the same.                                  *)
LEMMA SameBits ==
    ASSUME NEW f \in [0..7 -> 0..1], NEW g \in [0..7 -> 0..1],
           \A k \in 0..7 : BitAt(Value(f), k) = BitAt(Value(g), k)
    PROVE  Value(f) = Value(g)
  <1>1. \A k \in 0..7 : f[k] = g[k]
    BY BitsOfValue
  <1>2. f = g
    BY <1>1
  <1> QED BY <1>2

(* AND, OR and XOR, bit by bit (Sm83Ops::alu).                               *)
LEMMA LogicBits ==
    ASSUME NEW x, NEW y
    PROVE  /\ \A k \in 0..7 : /\ BitAt(And(x, y), k) = Bit(BitAt(x, k) = 1 /\ BitAt(y, k) = 1)
                              /\ BitAt(Or(x, y), k) = Bit(BitAt(x, k) = 1 \/ BitAt(y, k) = 1)
           /\ \E f \in [0..7 -> 0..1] : And(x, y) = Value(f)
           /\ \E f \in [0..7 -> 0..1] : Or(x, y) = Value(f)
  <1> DEFINE S == Ones(x) \cap Ones(y)
             T == Ones(x) \cup Ones(y)
             f == [k \in 0..7 |-> Bit(k \in S)]
             g == [k \in 0..7 |-> Bit(k \in T)]
  <1>1. \A v, k : k \in Ones(v) <=> k \in 0..7 /\ BitAt(v, k) = 1
    BY Zenon DEF Ones, BitAt
  <1>2. f \in [0..7 -> 0..1] /\ And(x, y) = Value(f) /\ g \in [0..7 -> 0..1] /\ Or(x, y) = Value(g)
    BY ByteOfIs, Zenon DEF And, Or
  <1>3. \A k \in 0..7 : f[k] = Bit(k \in S) /\ g[k] = Bit(k \in T)
    OBVIOUS
  <1>4. \A k \in 0..7 : /\ k \in S <=> BitAt(x, k) = 1 /\ BitAt(y, k) = 1
                        /\ k \in T <=> BitAt(x, k) = 1 \/ BitAt(y, k) = 1
    BY <1>1, Zenon
  <1> HIDE DEF f, g, S, T
  <1>5. \A k \in 0..7 : BitAt(Value(f), k) = f[k] /\ BitAt(Value(g), k) = g[k]
    BY <1>2, BitsOfValue, Zenon
  <1> QED BY <1>2, <1>3, <1>4, <1>5, Zenon DEF Bit

(* CP is SUB without its result, and what the conditions read of it.         *)
LEMMA CompareRight ==
    ASSUME NEW x \in Byte, NEW y \in Byte
    PROVE  LET r == alu(NoFlags(x), 7, y)
           IN  /\ r.a = x
               /\ cond(r, 3) <=> x < y
               /\ cond(r, 1) <=> x = y
               /\ [r EXCEPT !.a = alu(NoFlags(x), 2, y).a] = alu(NoFlags(x), 2, y)
  <1> DEFINE n == NoFlags(x)
             r == alu(n, 7, y)
             s == alu(n, 2, y)
             z == (x - y - 0) % 256 = 0
             h == x % 16 < (y % 16) + 0
             c == x - y - 0 < 0
             yes == TRUE
  <1>1. x \in Nat /\ x < 256 /\ y \in Nat /\ y < 256
    BY ByteIs
  <1>2. n.a = x
    BY DEF NoFlags, WithFlags, Flags
  <1> HIDE DEF n
  <1>3. r = sub8(n, y, 0, FALSE) /\ s = sub8(n, y, 0, TRUE)
    BY Kinds, Zenon
  <1> HIDE DEF r, s
  <1>4. r = [a |-> x, z |-> z, n |-> yes, h |-> h, c |-> c]
    BY <1>2, <1>3 DEF sub8, WithFlags, Flags
  <1>5. s = [a |-> (x - y - 0) % 256, z |-> z, n |-> yes, h |-> h, c |-> c]
    BY <1>2, <1>3 DEF sub8, WithFlags, Flags
  <1>6. z = (x = y) /\ c = (x < y)
    BY <1>1
  <1> HIDE DEF z, h, c, yes
  <1>7. r.a = x /\ r.z = z /\ r.c = c
    BY <1>4, Zenon
  <1>8. cond(r, 3) = r.c /\ cond(r, 1) = r.z
    BY DEF cond
  <1>9. [r EXCEPT !.a = s.a] = s
    <2> DEFINE q == (x - y - 0) % 256
    <2>1. s = [a |-> q, z |-> z, n |-> yes, h |-> h, c |-> c]
      BY <1>5
    <2> HIDE DEF q
    <2>2. s.a = q
      BY <2>1, Zenon
    <2>3. [r EXCEPT !.a = q] = [a |-> q, z |-> z, n |-> yes, h |-> h, c |-> c]
      BY <1>4
    <2> QED BY <2>1, <2>2, <2>3, Zenon
  <1>10. (cond(r, 3) <=> x < y) /\ (cond(r, 1) <=> x = y)
    BY <1>6, <1>7, <1>8
  <1> QED BY <1>7, <1>9, <1>10 DEF r, s, n

(* BIT sees what SET and RES did to their bit and to no other, and they are  *)
(* OR and AND with a mask.                                                   *)
LEMMA BitTestsRight ==
    ASSUME NEW v \in Byte, NEW b \in 0..7, NEW other \in 0..7
    PROVE  LET Reads(r) == cond(bit_test(r, other), 0)
           IN  /\ Reads(bit_set(NoFlags(v), b)) <=> (other = b \/ Reads(NoFlags(v)))
               /\ Reads(bit_res(NoFlags(v), b)) <=> (other # b /\ Reads(NoFlags(v)))
               /\ alu(NoFlags(v), 6, 2^b).a = bit_set(NoFlags(v), b).a
               /\ alu(NoFlags(v), 4, 255 - 2^b).a = bit_res(NoFlags(v), b).a
               /\ alu(NoFlags(v), 5, v) = WithFlags(0, Flags(TRUE, FALSE, FALSE, FALSE))
  <1> DEFINE n == NoFlags(v)
             up == bit_set(n, b)
             down == bit_res(n, b)
             Reads(r) == cond(bit_test(r, other), 0)
  <1>1. n.a = v
    BY DEF NoFlags, WithFlags, Flags
  <1>2. /\ \A k \in 0..7 : BitAt(up.a, k) = IF k = b THEN 1 ELSE BitAt(v, k)
        /\ \A k \in 0..7 : BitAt(down.a, k) = IF k = b THEN 0 ELSE BitAt(v, k)
        /\ \E f \in [0..7 -> 0..1] : up.a = Value(f)
        /\ \E f \in [0..7 -> 0..1] : down.a = Value(f)
    BY SetAndReset, Zenon
  <1>3. \A k \in 0..7 : BitAt(v, k) \in 0..1
    <2>1. v \in Nat
      BY ByteIs
    <2> DEFINE f == [k \in 0..7 |-> BitAt(v, k)]
    <2>2. f \in [0..7 -> 0..1] /\ \A k \in 0..7 : f[k] = BitAt(v, k)
      BY ValueOfBits, Zenon
    <2> HIDE DEF f
    <2> QED BY <2>2
  <1>4. ASSUME NEW r PROVE Reads(r) <=> BitAt(r.a, other) # 0
    <2>1. bit_test(r, other).z = (BitAt(r.a, other) = 0)
      BY Zenon DEF bit_test, BitAt, WithFlags, Flags
    <2>2. cond(bit_test(r, other), 0) = ~bit_test(r, other).z
      BY DEF cond
    <2> QED BY <2>1, <2>2, Zenon
  <1> HIDE DEF Reads, up, down, n
  <1>5. Reads(up) <=> (other = b \/ Reads(n))
    <2>1. BitAt(up.a, other) = IF other = b THEN 1 ELSE BitAt(v, other)
      BY <1>2, Zenon
    <2>2. 1 # 0
      OBVIOUS
    <2>3. (Reads(up) <=> BitAt(up.a, other) # 0) /\ (Reads(n) <=> BitAt(v, other) # 0)
      BY <1>1, <1>4, Zenon
    <2> QED BY <2>1, <2>2, <2>3, Zenon
  <1>6. Reads(down) <=> (other # b /\ Reads(n))
    <2>1. BitAt(down.a, other) = IF other = b THEN 0 ELSE BitAt(v, other)
      BY <1>2, Zenon
    <2>3. (Reads(down) <=> BitAt(down.a, other) # 0) /\ (Reads(n) <=> BitAt(v, other) # 0)
      BY <1>1, <1>4, Zenon
    <2> QED BY <2>1, <2>3, Zenon
  <1>7. alu(n, 6, 2^b).a = up.a
    <2> DEFINE m == 2^b
    <2>1. \A k \in 0..7 : BitAt(m, k) = IF k = b THEN 1 ELSE 0
      BY Masks, ZenonT(60)
    <2> HIDE DEF m
    <2>2. alu(n, 6, m).a = Or(v, m)
      <3>1. alu(n, 6, m) = WithFlags(Or(n.a, m), Flags(Or(n.a, m) = 0, FALSE, FALSE, FALSE))
        BY Kinds
      <3> QED BY <1>1, <3>1 DEF WithFlags
    <2>3. PICK f \in [0..7 -> 0..1] : Or(v, m) = Value(f)
      BY LogicBits, Zenon
    <2>4. PICK g \in [0..7 -> 0..1] : up.a = Value(g)
      BY <1>2
    <2>5. ASSUME NEW k \in 0..7 PROVE BitAt(Or(v, m), k) = BitAt(up.a, k)
      <3>1. BitAt(Or(v, m), k) = Bit(BitAt(v, k) = 1 \/ BitAt(m, k) = 1)
        BY LogicBits, Zenon
      <3>2. BitAt(v, k) \in 0..1 /\ BitAt(m, k) = (IF k = b THEN 1 ELSE 0)
        BY <1>3, <2>1
      <3>3. BitAt(up.a, k) = IF k = b THEN 1 ELSE BitAt(v, k)
        BY <1>2
      <3> QED BY <3>1, <3>2, <3>3 DEF Bit
    <2>6. Value(f) = Value(g)
      BY <2>3, <2>4, <2>5, SameBits, Zenon
    <2> QED BY <2>2, <2>3, <2>4, <2>6 DEF m
  <1>8. alu(n, 4, 255 - 2^b).a = down.a
    <2> DEFINE m == 255 - 2^b
    <2>1. \A k \in 0..7 : BitAt(m, k) = IF k = b THEN 0 ELSE 1
      BY Masks, ZenonT(60)
    <2> HIDE DEF m
    <2>2. alu(n, 4, m).a = And(v, m)
      <3>1. alu(n, 4, m) = WithFlags(And(n.a, m), Flags(And(n.a, m) = 0, FALSE, TRUE, FALSE))
        BY Kinds
      <3> QED BY <1>1, <3>1 DEF WithFlags
    <2>3. PICK f \in [0..7 -> 0..1] : And(v, m) = Value(f)
      BY LogicBits, Zenon
    <2>4. PICK g \in [0..7 -> 0..1] : down.a = Value(g)
      BY <1>2
    <2>5. ASSUME NEW k \in 0..7 PROVE BitAt(And(v, m), k) = BitAt(down.a, k)
      <3>1. BitAt(And(v, m), k) = Bit(BitAt(v, k) = 1 /\ BitAt(m, k) = 1)
        BY LogicBits, Zenon
      <3>2. BitAt(v, k) \in 0..1 /\ BitAt(m, k) = (IF k = b THEN 0 ELSE 1)
        BY <1>3, <2>1
      <3>3. BitAt(down.a, k) = IF k = b THEN 0 ELSE BitAt(v, k)
        BY <1>2
      <3> QED BY <3>1, <3>2, <3>3 DEF Bit
    <2>6. Value(f) = Value(g)
      BY <2>3, <2>4, <2>5, SameBits, Zenon
    <2> QED BY <2>2, <2>3, <2>4, <2>6 DEF m
  <1>9. alu(n, 5, v) = WithFlags(0, Flags(TRUE, FALSE, FALSE, FALSE))
    <2>1. Xor(v, v) = 0
      <3>1. (Ones(v) \cup Ones(v)) \ (Ones(v) \cap Ones(v)) = {}
        OBVIOUS
      <3>2. ByteOf({}) = 0
        BY DEF ByteOf, Bit
      <3> QED BY <3>1, <3>2 DEF Xor
    <2>2. alu(n, 5, v) = WithFlags(Xor(n.a, v), Flags(Xor(n.a, v) = 0, FALSE, FALSE, FALSE))
      BY Kinds
    <2>3. Xor(n.a, v) = 0
      BY <1>1, <2>1, Zenon
    <2>4. (Xor(n.a, v) = 0) = TRUE
      BY <2>3
    <2> QED BY <2>2, <2>3, <2>4, Zenon
  <1> QED BY <1>5, <1>6, <1>7, <1>8, <1>9, Zenon DEF Reads, up, down, n

LEMMA TestsRight == Tests
  <1>1. \A x \in Byte, y \in EdgeBytes :
          LET r == alu(NoFlags(x), 7, y)
          IN  /\ r.a = x
              /\ cond(r, 3) <=> x < y
              /\ cond(r, 1) <=> x = y
              /\ [r EXCEPT !.a = alu(NoFlags(x), 2, y).a] = alu(NoFlags(x), 2, y)
    <2>1. \A y \in EdgeBytes : y \in Byte
      BY EdgeWords
    <2> QED BY <2>1, CompareRight, Zenon
  <1> QED BY <1>1, BitTestsRight, Zenon DEF Tests

(* All the laws of the arithmetic, in whatever state an instruction executes *)
(* (cpu/opcodes.inl).                                                        *)
THEOREM LawsHold == \A law \in Laws : law
  BY DecimalSumsRight, DecimalDifferencesRight, WordSumsRight, UndoneRight, TestsRight
  DEF Laws

(* So programs may count on them whenever an instruction executes            *)
(* (cpu/opcodes.inl).                                                        *)
THEOREM ArithmeticHolds == ObservedSpec => []Arithmetic
  <1>1. Arithmetic
    BY LawsHold DEF Arithmetic
  <1> QED BY <1>1, PTL
=============================================================================
