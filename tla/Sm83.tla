-------------------------------- MODULE Sm83 --------------------------------
(***************************************************************************)
(* How the CPU (core/cpu) decides what to do next: instruction fetch, the  *)
(* interrupt dispatch, HALT and its fetch bug, STOP, EI's delay and the    *)
(* opcodes that lock the part up.  Arithmetic and memory traffic are left  *)
(* out: an instruction that touches none of the state below may jump and   *)
(* move SP as it likes.                                                    *)
(*                                                                         *)
(* Every bus access ticks the machine, and in a tick the devices may raise *)
(* any interrupt.  So a step of Sm83::step is split where it ticks: the    *)
(* fetch, the execution, and the four parts of a dispatch.                 *)
(***************************************************************************)
EXTENDS Integers, FiniteSets

CONSTANTS
    NumLines,   \* interrupt lines, 5 in the code; line 0 has priority
    PcMod,      \* program addresses, 65536 in the code
    Vector,     \* Vector[l] is where line l is handled: 0x40 + 8 * l
    SpMod,      \* stack addresses, 65536 in the code
    IfAddr,     \* the stack addresses that are not memory: IF, 0xFF0F,
    IeAddr      \*   and IE, 0xFFFF

Lines == 0..(NumLines - 1)
Addr  == 0..(PcMod - 1)

ASSUME Sm83Assumption ==
    /\ NumLines \in Nat \ {0}
    /\ PcMod \in Nat \ {0}
    /\ SpMod \in Nat \ {0}
    /\ Vector \in [Lines -> Addr]
    /\ IfAddr \in 0..(SpMod - 1)
    /\ IeAddr \in 0..(SpMod - 1)
    /\ IfAddr # IeAddr

Ops == {"plain", "ei", "di", "reti", "halt", "stop", "locked", "write_if", "write_ie"}

VARIABLES
    requested,      \* IF, as the set of its lines
    enabled,        \* IE
    ime, ime_pending, halted, stopped, halt_bug,
    pc, sp,
    stage,          \* "fetch": between two steps; "exec": op has been fetched;
                    \* "high", "low", "jump": the parts of a dispatch
    op,             \* the opcode fetched last
    sampled         \* the local pending of service_interrupt

irqVars == <<requested, enabled>>
modeVars == <<ime, ime_pending, halted, stopped, halt_bug>>
cpuVars == <<irqVars, modeVars, pc, sp, stage, op, sampled>>

Pending == requested \cap enabled

Init ==
    /\ requested = {0}          \* IF is 0xE1 after reset
    /\ enabled = {}
    /\ ime = FALSE
    /\ ime_pending = FALSE
    /\ halted = FALSE
    /\ stopped = FALSE
    /\ halt_bug = FALSE
    /\ pc \in Addr
    /\ sp \in 0..(SpMod - 1)
    /\ stage = "fetch"
    /\ op = "plain"
    /\ sampled = {}

----------------------------------------------------------------------------

\* A bug the checks must notice: a device's request replaces those before it.
TickReplaces == \E raised \in SUBSET Lines : requested' = raised

\* Bus::tick, for the CPU: the devices may raise any set of lines.
Tick == \E raised \in SUBSET Lines : requested' = requested \cup raised

\* The same bug in the tick of a push.
TickAndPushReplaces(a, lines) ==
    \E raised \in SUBSET Lines :
        /\ requested' = IF a = IfAddr THEN lines ELSE raised
        /\ enabled' = IF a = IeAddr THEN lines ELSE enabled

\* Bus::write of a byte whose low bits are lines to stack address a: the tick,
\* then the store.
TickAndPush(a, lines) ==
    \E raised \in SUBSET Lines :
        /\ requested' = IF a = IfAddr THEN lines ELSE requested \cup raised
        /\ enabled' = IF a = IeAddr THEN lines ELSE enabled

Down(a) == (a - 1) % SpMod

\* A bug the checks must notice: the lines are searched from the wrong end.
ChosenLast(lines) == {l \in lines : \A m \in lines : l >= m}

\* The line a dispatch takes: the first one, if there is any.
Chosen(lines) == {l \in lines : \A m \in lines : l <= m}

\* What a step starts with: HALT ends when an enabled line is requested.
Running == ~stopped /\ (halted => Pending # {})

\* STOP has no way out; HALT waits.
Idle ==
    /\ stage = "fetch"
    /\ ~Running
    /\ Tick
    /\ UNCHANGED <<enabled, modeVars, pc, sp, stage, op, sampled>>

\* service_interrupt up to and including tick(8).
BeginDispatch ==
    /\ stage = "fetch"
    /\ Running
    /\ ime /\ Pending # {}
    /\ halted' = FALSE
    /\ ime' = FALSE
    /\ ime_pending' = FALSE
    /\ Tick
    /\ stage' = "high"
    /\ UNCHANGED <<enabled, stopped, halt_bug, pc, sp, op, sampled>>

\* The high byte of PC is pushed, and only then are the lines looked at.
PushHigh ==
    /\ stage = "high"
    /\ \E lines \in SUBSET Lines : TickAndPush(Down(sp), lines)
    /\ sp' = Down(sp)
    /\ sampled' = requested' \cap enabled'
    /\ stage' = "low"
    /\ UNCHANGED <<modeVars, pc, op>>

\* The low byte is pushed, the chosen line is cleared and PC is loaded.
PushLow ==
    /\ stage = "low"
    /\ \E lines, raised \in SUBSET Lines :
        LET stored == IF Down(sp) = IfAddr THEN lines ELSE requested \cup raised
        IN  /\ requested' = stored \ Chosen(sampled)
            /\ enabled' = IF Down(sp) = IeAddr THEN lines ELSE enabled
            /\ pc' = IF sampled = {} THEN 0 ELSE Vector[CHOOSE l \in Chosen(sampled) : TRUE]
    /\ sp' = Down(sp)
    /\ stage' = "jump"
    /\ UNCHANGED <<modeVars, op, sampled>>

\* The last tick(4) of the dispatch.
EndDispatch ==
    /\ stage = "jump"
    /\ Tick
    /\ sampled' = {}
    /\ stage' = "fetch"
    /\ UNCHANGED <<enabled, modeVars, pc, sp, op>>

\* No dispatch: EI's delay runs out and an opcode is read.  The code may be
\* anything, and anything else the next time.
Fetch ==
    /\ stage = "fetch"
    /\ Running
    /\ ~(ime /\ Pending # {})
    /\ halted' = FALSE
    /\ ime' = (ime \/ ime_pending)
    /\ ime_pending' = FALSE
    /\ Tick
    /\ op' \in Ops
    /\ halt_bug' = FALSE
    /\ pc' = IF halt_bug THEN pc ELSE (pc + 1) % PcMod
    /\ stage' = "exec"
    /\ UNCHANGED <<enabled, stopped, sp, sampled>>

----------------------------------------------------------------------------

\* The part all opcodes have in common.
Execute(o) ==
    /\ stage = "exec"
    /\ op = o
    /\ stage' = "fetch"
    /\ UNCHANGED <<op, sampled>>

\* Anything else, jumps and stack operations included.
ExecPlain ==
    /\ Execute("plain")
    /\ Tick
    /\ pc' \in Addr
    /\ sp' \in 0..(SpMod - 1)
    /\ UNCHANGED <<enabled, modeVars>>

\* A bug the checks must notice: EI takes effect at once.
ExecEiAtOnce ==
    /\ Execute("ei")
    /\ ime' = TRUE
    /\ UNCHANGED <<irqVars, ime_pending, halted, stopped, halt_bug, pc, sp>>

ExecEi ==
    /\ Execute("ei")
    /\ ime_pending' = TRUE
    /\ UNCHANGED <<irqVars, ime, halted, stopped, halt_bug, pc, sp>>

ExecDi ==
    /\ Execute("di")
    /\ ime' = FALSE
    /\ ime_pending' = FALSE
    /\ UNCHANGED <<irqVars, halted, stopped, halt_bug, pc, sp>>

\* RETI pops PC and enables interrupts without EI's delay.
ExecReti ==
    /\ Execute("reti")
    /\ Tick
    /\ pc' \in Addr
    /\ sp' = (sp + 2) % SpMod
    /\ ime' = TRUE
    /\ ime_pending' = FALSE
    /\ UNCHANGED <<enabled, halted, stopped, halt_bug>>

\* A bug the checks must notice: the repeat is set up with interrupts on too.
ExecHaltAnyIme ==
    /\ Execute("halt")
    /\ IF Pending # {}
       THEN halt_bug' = TRUE /\ UNCHANGED halted
       ELSE halted' = TRUE /\ UNCHANGED halt_bug
    /\ UNCHANGED <<irqVars, ime, ime_pending, stopped, pc, sp>>

\* HALT does not halt when a line is already pending and cannot be dispatched.
ExecHalt ==
    /\ Execute("halt")
    /\ IF ~ime /\ Pending # {}
       THEN halt_bug' = TRUE /\ UNCHANGED halted
       ELSE halted' = TRUE /\ UNCHANGED halt_bug
    /\ UNCHANGED <<irqVars, ime, ime_pending, stopped, pc, sp>>

ExecStop ==
    /\ Execute("stop")
    /\ stopped' = TRUE
    /\ pc' = (pc + 1) % PcMod
    /\ UNCHANGED <<irqVars, ime, ime_pending, halted, halt_bug, sp>>

\* A locked opcode steps PC back, to be fetched again.
ExecLocked ==
    /\ Execute("locked")
    /\ pc' = (pc - 1) % PcMod
    /\ UNCHANGED <<irqVars, modeVars, sp>>

\* A store to IF or to IE, which a PUSH or a CALL can also make.
ExecWriteIf ==
    /\ Execute("write_if")
    /\ requested' \in SUBSET Lines
    /\ pc' \in Addr
    /\ sp' \in 0..(SpMod - 1)
    /\ UNCHANGED <<enabled, modeVars>>

ExecWriteIe ==
    /\ Execute("write_ie")
    /\ Tick
    /\ enabled' \in SUBSET Lines
    /\ pc' \in Addr
    /\ sp' \in 0..(SpMod - 1)
    /\ UNCHANGED modeVars

Dispatch == BeginDispatch \/ PushHigh \/ PushLow \/ EndDispatch

Exec ==
    \/ ExecPlain \/ ExecEi \/ ExecDi \/ ExecReti \/ ExecHalt
    \/ ExecStop \/ ExecLocked \/ ExecWriteIf \/ ExecWriteIe

Next == Idle \/ Dispatch \/ Fetch \/ Exec

Spec == Init /\ [][Next]_cpuVars

----------------------------------------------------------------------------

TypeOK ==
    /\ requested \in SUBSET Lines
    /\ enabled \in SUBSET Lines
    /\ ime \in BOOLEAN
    /\ ime_pending \in BOOLEAN
    /\ halted \in BOOLEAN
    /\ stopped \in BOOLEAN
    /\ halt_bug \in BOOLEAN
    /\ pc \in Addr
    /\ sp \in 0..(SpMod - 1)
    /\ stage \in {"fetch", "exec", "high", "low", "jump"}
    /\ op \in Ops
    /\ sampled \in SUBSET Lines

\* The repeated fetch that a HALT with IME=0 leaves behind is consumed by the
\* very next opcode: nothing can come in between, neither a dispatch (which
\* would push an address it does not return to) nor a halt or a stop (which
\* would carry the repeat over to code that runs much later).  (sm83.h: "HALT
\* with IME=0 and a pending interrupt fails to advance PC once".)
HaltBugIsNext ==
    halt_bug => /\ stage = "fetch" /\ op = "halt"
                /\ ~ime /\ ~ime_pending
                /\ ~halted /\ ~stopped
============================================================================
