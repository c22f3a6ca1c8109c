--------------------------- MODULE Rv32Guest_proofs --------------------------
(***************************************************************************)
(* Theorems about the hart for every RAM size, address space, guest and    *)
(* host: with any host at all (Rv32Core.tla), and as the main program of   *)
(* the guest sees interrupts and breakpoints (Rv32Guest.tla).  The former  *)
(* cite none of the assumptions about the guest's constants.               *)
(***************************************************************************)
EXTENDS Rv32Guest, Rv32Hart_proofs

-----------------------------------------------------------------------------
(* Type correctness *)

LEMMA CycleType == ASSUME TypeOK, Cycle PROVE TypeOK'
  BY HartCycleType DEF TypeOK, WellTyped, Cycle

LEMMA HostType == ASSUME TypeOK, Host PROVE TypeOK'
<1> USE DEF TypeOK
<1>1. CASE Resume
  BY <1>1 DEF Resume, rv32_resume, Hart, Status
<1>2. CASE Reset
  BY <1>2, NewHartType DEF Reset, rv32_reset, Instr
<1>3. ASSUME NEW irq \in HostIrqs, Trigger(irq) PROVE TypeOK'
  BY <1>3, HostAssumption, ZenonT(40) DEF Trigger, rv32_trigger_external_interrupt, Hart, IntrBit
<1>4. ASSUME NEW a \in HostBps, SetBreakpoint(a) PROVE TypeOK'
  <2>1. PICK o \in rv32_set_breakpoint(hart, a) : hart' = o[1] /\ mem' = mem
    BY <1>4 DEF SetBreakpoint
  <2> QED
    BY <2>1, SetBreakpointType, HostAssumption
<1>5. ASSUME NEW a \in HostBps, ClearBreakpoint(a) PROVE TypeOK'
  <2>1. PICK o \in rv32_clear_breakpoint(hart, a) : hart' = o[1] /\ mem' = mem
    BY <1>5 DEF ClearBreakpoint
  <2> QED
    BY <2>1, ClearBreakpointType, HostAssumption
<1>6. CASE ClearAllBreakpoints
  BY <1>6, Constants DEF ClearAllBreakpoints, rv32_clear_all_breakpoints, Hart
<1> QED
  BY <1>1, <1>2, <1>3, <1>4, <1>5, <1>6 DEF Host

LEMMA InitType == Init => TypeOK
  BY NewHartType, GuestAssumption DEF Init, TypeOK

LEMMA NextType == TypeOK /\ [Next]_hartVars => TypeOK'
<1> SUFFICES ASSUME TypeOK, [Next]_hartVars PROVE TypeOK'
  OBVIOUS
<1>1. CASE UNCHANGED hartVars
  BY <1>1 DEF hartVars, TypeOK
<1> QED
  BY <1>1, CycleType, HostType DEF Next

\* Whatever the guest executes and the host calls, the hart and the RAM keep
\* their types: no csr, cause, address or breakpoint slot leaves its range.
THEOREM TypeCorrect == Spec => []TypeOK
  BY InitType, NextType, PTL DEF Spec

-----------------------------------------------------------------------------
(* What the steps of the system leave alone *)

LEMMA CycleLeaves ==
  ASSUME TypeOK, Cycle
  PROVE  \E h \in rv32_handle_interrupt(hart) :
           /\ Untouched(h, hart')
           /\ ~Active(h) => hart' = h /\ mem' = mem
  BY HartCycleLeaves DEF TypeOK, WellTyped, Cycle

\* Setting and clearing breakpoints changes the breakpoint fields only.
Outside(h) == <<h.status, h.pc, h.mstatus, h.mie, h.mip, h.mepc, h.mcause, h.wfi, h.ie, h.ip>>

BreakpointCall ==
  \/ \E a \in HostBps : SetBreakpoint(a) \/ ClearBreakpoint(a)
  \/ ClearAllBreakpoints

LEMMA BreakpointCallLeaves ==
  ASSUME TypeOK, BreakpointCall PROVE Outside(hart') = Outside(hart) /\ mem' = mem
<1> USE DEF TypeOK, Outside
<1>1. ASSUME NEW a \in HostBps, SetBreakpoint(a) PROVE Outside(hart') = Outside(hart) /\ mem' = mem
  <2>1. PICK o \in rv32_set_breakpoint(hart, a) : hart' = o[1] /\ mem' = mem
    BY <1>1 DEF SetBreakpoint
  <2>2. CASE FreeSlots(hart) = {}
    BY <2>1, <2>2 DEF rv32_set_breakpoint
  <2>3. CASE FreeSlots(hart) # {}
    <3>1. PICK s \in First(FreeSlots(hart)) :
            o = <<[hart EXCEPT !.bpMask = @ \cup {s}, !.bp[s] = a], 1>>
      BY <2>3 DEF rv32_set_breakpoint
    <3> QED
      BY <2>1, <3>1 DEF Hart
  <2> QED
    BY <2>2, <2>3
<1>2. ASSUME NEW a \in HostBps, ClearBreakpoint(a) PROVE Outside(hart') = Outside(hart) /\ mem' = mem
  <2>1. PICK o \in rv32_clear_breakpoint(hart, a) : hart' = o[1] /\ mem' = mem
    BY <1>2 DEF ClearBreakpoint
  <2>2. CASE SlotsAt(hart, a) = {}
    BY <2>1, <2>2 DEF rv32_clear_breakpoint
  <2>3. CASE SlotsAt(hart, a) # {}
    <3>1. PICK s \in First(SlotsAt(hart, a)) :
            o = <<[hart EXCEPT !.bpMask = @ \ {s}, !.bp[s] = 0], 1>>
      BY <2>3 DEF rv32_clear_breakpoint
    <3> QED
      BY <2>1, <3>1 DEF Hart
  <2> QED
    BY <2>2, <2>3
<1>3. CASE ClearAllBreakpoints
  BY <1>3 DEF ClearAllBreakpoints, rv32_clear_all_breakpoints, Hart
<1> QED
  BY <1>1, <1>2, <1>3 DEF BreakpointCall

LEMMA HostCases ==
  ASSUME Host
  PROVE  Resume \/ Reset \/ (\E irq \in HostIrqs : Trigger(irq)) \/ BreakpointCall
  BY DEF Host, BreakpointCall

-----------------------------------------------------------------------------
(* The interrupt controller's line *)

Backed(h) == ("MEI" \in h.mip) <=> (h.ip # {})

LEMMA ClaimBacked ==
  ASSUME NEW h \in Hart, NEW irq \in h.ip, Backed(h) PROVE Backed(Claim(h, irq))
<1>1. Claim(h, irq).ip = h.ip \ {irq}
  BY DEF Claim, Hart
<1>2. Claim(h, irq).mip = IF h.ip = {irq} THEN h.mip \ {"MEI"} ELSE h.mip
  BY DEF Claim, Hart
<1>3. CASE h.ip = {irq}
  BY <1>1, <1>2, <1>3 DEF Backed
<1>4. CASE h.ip # {irq}
  BY <1>1, <1>2, <1>4 DEF Backed
<1> QED
  BY <1>3, <1>4

LEMMA InterruptBacked ==
  ASSUME NEW h \in Hart, Backed(h), NEW o \in rv32_handle_interrupt(h) PROVE Backed(o)
<1>1. ASSUME NEW g \in Hart, NEW cause, Backed(g) PROVE Backed(EnterTrap(g, cause))
  BY <1>1 DEF Backed, EnterTrap, Hart
<1>2. CASE o = h
  BY <1>2
<1>3. ASSUME NEW cause, o = EnterTrap(h, cause) PROVE Backed(o)
  BY <1>1, <1>3
<1>4. ASSUME NEW irq \in h.ip, o = EnterTrap(Claim(h, irq), 16 + irq) PROVE Backed(o)
  BY <1>1, <1>4, ClaimBacked, ClaimType
<1> QED
  BY <1>2, <1>3, <1>4, InterruptOutcome

LEMMA NextBacked ==
  ASSUME CsrWrites.mip = {}, TypeOK, MeipBacked, [Next]_hartVars PROVE MeipBacked'
<1>1. hart \in Hart /\ Backed(hart)
  BY DEF TypeOK, MeipBacked, Backed
<1>2. SUFFICES Backed(hart')
  BY DEF MeipBacked, Backed
<1>3. CASE Cycle
  <2>1. PICK h \in rv32_handle_interrupt(hart) : Untouched(h, hart')
    BY <1>3, CycleLeaves
  <2>2. Backed(h)
    BY <1>1, InterruptBacked
  <2> QED
    BY <2>1, <2>2 DEF Untouched, Backed
<1>4. CASE Resume
  BY <1>1, <1>4 DEF Resume, rv32_resume, Backed, Hart
<1>5. CASE Reset
  BY <1>5 DEF Reset, rv32_reset, NewHart, Backed
<1>6. ASSUME NEW irq \in HostIrqs, Trigger(irq) PROVE Backed(hart')
  BY <1>1, <1>6 DEF Trigger, rv32_trigger_external_interrupt, Backed, Hart
<1>7. CASE BreakpointCall
  BY <1>1, <1>7, BreakpointCallLeaves DEF Backed, Outside
<1>8. CASE UNCHANGED hartVars
  BY <1>1, <1>8 DEF hartVars
<1> QED
  BY <1>3, <1>4, <1>5, <1>6, <1>7, <1>8, HostCases DEF Next

\* For every guest that leaves mip alone, mip.MEI is up exactly while the
\* interrupt controller has a pending request.
THEOREM LineIsBacked == ASSUME CsrWrites.mip = {} PROVE Spec => []MeipBacked
<1>1. Init => MeipBacked
  BY DEF Init, NewHart, MeipBacked
<1>2. TypeOK /\ MeipBacked /\ [Next]_hartVars => MeipBacked'
  BY NextBacked
<1> QED
  BY <1>1, <1>2, TypeCorrect, PTL DEF Spec

-----------------------------------------------------------------------------
(* What a step may never do *)

LEMMA NextIrqNotLost ==
  ASSUME CsrWrites.mepc = {}, CsrWrites.mcause = {}, TypeOK, Next,
         NEW irq \in hart.ip \ hart'.ip
  PROVE  \/ hart' = NewHart
         \/ hart'.mcause = 16 + irq /\ hart'.mepc = hart.pc /\ hart'.ip = hart.ip \ {irq}
<1> USE DEF TypeOK
<1>1. CASE Cycle
  <2>1. PICK h \in rv32_handle_interrupt(hart) : Untouched(h, hart')
    BY <1>1, CycleLeaves
  <2>2. hart'.ip = h.ip /\ hart'.mepc = h.mepc /\ hart'.mcause = h.mcause
    BY <2>1 DEF Untouched
  <2>3. h.ip # hart.ip
    BY <2>2
  <2>4. PICK j \in hart.ip : h.ip = hart.ip \ {j} /\ h.mcause = 16 + j /\ h.mepc = hart.pc
    BY <2>3, InterruptFields
  <2>5. j = irq
    BY <2>2, <2>4
  <2> QED
    BY <2>2, <2>4, <2>5
<1>2. CASE Resume
  BY <1>2 DEF Resume, rv32_resume, Hart
<1>3. CASE Reset
  BY <1>3 DEF Reset, rv32_reset
<1>4. ASSUME NEW j \in HostIrqs, Trigger(j) PROVE FALSE
  BY <1>4 DEF Trigger, rv32_trigger_external_interrupt, Hart
<1>5. CASE BreakpointCall
  BY <1>5, BreakpointCallLeaves DEF Outside
<1> QED
  BY <1>1, <1>2, <1>3, <1>4, <1>5, HostCases DEF Next

\* For every guest that does not overwrite mepc and mcause itself, a pending
\* request disappears only into a trap that names it and can be returned from.
THEOREM RequestsAreNotLost ==
  ASSUME CsrWrites.mepc = {}, CsrWrites.mcause = {} PROVE Spec => IrqNotLost
<1>1. TypeOK /\ [Next]_hartVars =>
        [\A irq \in hart.ip \ hart'.ip :
           \/ hart' = NewHart
           \/ hart'.mcause = 16 + irq /\ hart'.mepc = hart.pc /\ hart'.ip = hart.ip \ {irq}
        ]_hartVars
  BY NextIrqNotLost
<1> QED
  BY <1>1, TypeCorrect, PTL DEF Spec, IrqNotLost

LEMMA NextStopped ==
  ASSUME TypeOK, Next, hart.status # "RUNNING", hart' # NewHart
  PROVE  /\ mem' = mem
         /\ hart'.ie = hart.ie
         /\ hart'.status # hart.status => hart.status = "PAUSED" /\ hart'.status = "RUNNING"
         /\ hart'.pc # hart.pc => hart'.mepc = hart.pc
<1> USE DEF TypeOK
<1>1. CASE Cycle
  <2>1. PICK h \in rv32_handle_interrupt(hart) : ~Active(h) => hart' = h /\ mem' = mem
    BY <1>1, CycleLeaves
  <2>2. h.status = hart.status /\ h.ie = hart.ie /\ (h = hart \/ h.mepc = hart.pc)
    BY InterruptFields
  <2>3. ~Active(h)
    BY <2>2 DEF Active
  <2> QED
    BY <2>1, <2>2, <2>3
<1>2. CASE Resume
  BY <1>2 DEF Resume, rv32_resume, Hart
<1>3. CASE Reset
  BY <1>3 DEF Reset, rv32_reset
<1>4. ASSUME NEW j \in HostIrqs, Trigger(j)
      PROVE  /\ mem' = mem /\ hart'.ie = hart.ie
             /\ hart'.status = hart.status /\ hart'.pc = hart.pc
  BY <1>4 DEF Trigger, rv32_trigger_external_interrupt, Hart
<1>5. CASE BreakpointCall
  BY <1>5, BreakpointCallLeaves DEF Outside
<1> QED
  BY <1>1, <1>2, <1>3, <1>4, <1>5, HostCases DEF Next

\* A hart that is not running executes nothing, for every guest and host.
THEOREM StoppedIsStill == Spec => StoppedExecutesNothing
<1>1. TypeOK /\ [Next]_hartVars =>
        [(hart.status # "RUNNING" /\ hart' # NewHart) =>
           /\ mem' = mem
           /\ hart'.ie = hart.ie
           /\ hart'.status # hart.status => hart.status = "PAUSED" /\ hart'.status = "RUNNING"
           /\ hart'.pc # hart.pc => hart'.mepc = hart.pc
        ]_hartVars
  BY NextStopped
<1> QED
  BY <1>1, TypeCorrect, PTL DEF Spec, StoppedExecutesNothing

LEMMA NextReturnSafe ==
  ASSUME CsrWrites.mepc = {}, TypeOK, Next, "MIE" \notin hart.mstatus, hart' # NewHart
  PROVE  hart'.mepc = hart.mepc
<1> USE DEF TypeOK
<1>1. CASE Cycle
  <2>1. PICK h \in rv32_handle_interrupt(hart) : Untouched(h, hart')
    BY <1>1, CycleLeaves
  <2>2. h = hart
    BY InterruptFields
  <2> QED
    BY <2>1, <2>2 DEF Untouched
<1>2. CASE Resume
  BY <1>2 DEF Resume, rv32_resume, Hart
<1>3. CASE Reset
  BY <1>3 DEF Reset, rv32_reset
<1>4. ASSUME NEW j \in HostIrqs, Trigger(j) PROVE hart'.mepc = hart.mepc
  BY <1>4 DEF Trigger, rv32_trigger_external_interrupt, Hart
<1>5. CASE BreakpointCall
  BY <1>5, BreakpointCallLeaves DEF Outside
<1> QED
  BY <1>1, <1>2, <1>3, <1>4, <1>5, HostCases DEF Next

\* For every guest that does not write mepc itself, a handler that runs with
\* interrupts masked keeps its return address.
THEOREM ReturnAddressKept == ASSUME CsrWrites.mepc = {} PROVE Spec => ReturnAddressSafe
<1>1. TypeOK /\ [Next]_hartVars =>
        [("MIE" \notin hart.mstatus /\ hart' # NewHart) => hart'.mepc = hart.mepc]_hartVars
  BY NextReturnSafe
<1> QED
  BY <1>1, TypeCorrect, PTL DEF Spec, ReturnAddressSafe

LEMMA NextWoken ==
  ASSUME CsrWrites.mepc = {}, TypeOK, Next, hart.wfi, ~hart'.wfi, hart' # NewHart
  PROVE  hart'.mepc = hart.pc /\ hart.mie \cap hart.mip # {}
<1> USE DEF TypeOK
<1>1. CASE Cycle
  <2>1. PICK h \in rv32_handle_interrupt(hart) :
          Untouched(h, hart') /\ (~Active(h) => hart' = h)
    BY <1>1, CycleLeaves
  <2>2. h # hart
    BY <2>1 DEF Active
  <2>3. hart.mie \cap hart.mip # {} /\ h.mepc = hart.pc
    BY <2>2, InterruptFields
  <2> QED
    BY <2>1, <2>3 DEF Untouched
<1>2. CASE Resume
  BY <1>2 DEF Resume, rv32_resume, Hart
<1>3. CASE Reset
  BY <1>3 DEF Reset, rv32_reset
<1>4. ASSUME NEW j \in HostIrqs, Trigger(j) PROVE hart'.wfi = hart.wfi
  BY <1>4 DEF Trigger, rv32_trigger_external_interrupt, Hart
<1>5. CASE BreakpointCall
  BY <1>5, BreakpointCallLeaves DEF Outside
<1> QED
  BY <1>1, <1>2, <1>3, <1>4, <1>5, HostCases DEF Next

\* For every guest that does not write mepc itself, nothing but an interrupt
\* wakes a sleeping hart, and the handler returns to where it slept.
THEOREM OnlyInterruptsWake == ASSUME CsrWrites.mepc = {} PROVE Spec => WokenByInterrupt
<1>1. TypeOK /\ [Next]_hartVars =>
        [(hart.wfi /\ ~hart'.wfi /\ hart' # NewHart) =>
           hart'.mepc = hart.pc /\ hart.mie \cap hart.mip # {}]_hartVars
  BY NextWoken
<1> QED
  BY <1>1, TypeCorrect, PTL DEF Spec, WokenByInterrupt

-----------------------------------------------------------------------------
(* Breakpoints come before instructions *)

\* An instruction and back again.
LEMMA PlusBack == ASSUME NEW a \in Addr PROVE Plus(Plus(a, 1), AddrSpace - 1) = a
<1>1. AddrSpace \in Nat \ {0} /\ a \in 0 .. AddrSpace - 1
  BY AddrSpaceAssumption DEF Addr
<1>2. CASE a + 1 < AddrSpace
  <2>1. (a + 1) % AddrSpace = a + 1
    BY <1>1, <1>2
  <2>2. (a + 1) + (AddrSpace - 1) = a + AddrSpace
    BY <1>1
  <2>3. (a + AddrSpace) % AddrSpace = a
    BY <1>1
  <2> QED
    BY <2>1, <2>2, <2>3 DEF Plus
<1>3. CASE a + 1 = AddrSpace
  <2>1. AddrSpace % AddrSpace = 0
    BY <1>1
  <2>2. (0 + (AddrSpace - 1)) % AddrSpace = AddrSpace - 1
    BY <1>1
  <2> QED
    BY <1>1, <1>3, <2>1, <2>2 DEF Plus
<1> QED
  BY <1>1, <1>2, <1>3

EndStatus == {"EBREAK", "HALTED", "INVALID_INSTRUCTION", "INVALID_MEMORY_ACCESS"}

LEMMA ExecuteEnds ==
  ASSUME NEW h \in Hart, h.status = "RUNNING", NEW i, Execute(h, i), hart'.status \in EndStatus
  PROVE  StoppedAt(hart') = h.pc
<1> USE DEF Hart, Step, Stop, EndStatus
<1>1. CASE ExecReg(h) \/ ExecLoad(h) \/ ExecStore(h)
  BY <1>1 DEF ExecReg, ExecLoad, ExecStore, StoreRam, StoreIe, StoreConsole, StoreFault, StoppedAt
<1>2. CASE ExecBranch(h) \/ ExecJump(h) \/ ExecEcall(h)
  BY <1>2 DEF ExecBranch, ExecJump, ExecEcall, StoppedAt
<1>3. CASE ExecEbreak(h)
  <2>1. hart'.status = "EBREAK" /\ hart'.pc = Plus(h.pc, 1) /\ h.pc \in Addr
    BY <1>3 DEF ExecEbreak
  <2> QED
    BY <2>1, PlusBack DEF StoppedAt
<1>4. CASE ExecMret(h) \/ ExecWfi(h) \/ ExecIllegal(h)
  BY <1>4 DEF ExecMret, ExecWfi, ExecIllegal, StoppedAt
<1>5. CASE ExecCsr(h)
  BY <1>5 DEF ExecCsr, rv32_write_csr
<1> QED
  BY <1>1, <1>2, <1>3, <1>4, <1>5 DEF Execute

LEMMA NextBreakpointFirst ==
  ASSUME TypeOK, Next, hart.status = "RUNNING", hart'.status \in EndStatus
  PROVE  StoppedAt(hart') \notin Armed(hart)
<1> USE DEF TypeOK
<1>1. CASE Cycle
  <2>1. PICK h \in rv32_handle_interrupt(hart) :
          Asleep(h) \/ NotRunning(h) \/ BreakpointHit(h) \/ FetchFault(h) \/ FetchAndExecute(h)
    BY <1>1 DEF Cycle, rv32_cycle
  <2>2. /\ h \in Hart /\ h.status = "RUNNING"
        /\ Armed(h) = Armed(hart)
    <3>1. h \in Hart /\ h.status = "RUNNING"
      BY InterruptType, InterruptFields
    <3>2. h.bpMask = hart.bpMask /\ h.bp = hart.bp
      BY InterruptKeepsTable DEF SameTable
    <3> QED
      BY <3>1, <3>2 DEF Armed
  <2>3. CASE Asleep(h) \/ NotRunning(h)
    BY <2>2, <2>3 DEF Asleep, NotRunning, EndStatus
  <2>4. CASE BreakpointHit(h)
    BY <2>2, <2>4 DEF BreakpointHit, Stop, Hart, EndStatus
  <2>5. CASE FetchFault(h)
    BY <2>2, <2>5 DEF FetchFault, Stop, Hart, StoppedAt
  <2>6. CASE FetchAndExecute(h)
    BY <2>2, <2>6, ExecuteEnds DEF FetchAndExecute
  <2> QED
    BY <2>1, <2>3, <2>4, <2>5, <2>6
<1>2. CASE Resume
  BY <1>2 DEF Resume, rv32_resume, EndStatus
<1>3. CASE Reset
  BY <1>3 DEF Reset, rv32_reset, NewHart, EndStatus
<1>4. ASSUME NEW j \in HostIrqs, Trigger(j) PROVE hart'.status = hart.status
  BY <1>4 DEF Trigger, rv32_trigger_external_interrupt, Hart
<1>5. CASE BreakpointCall
  BY <1>5, BreakpointCallLeaves DEF Outside, EndStatus
<1> QED
  BY <1>1, <1>2, <1>3, <1>4, <1>5, HostCases DEF Next, EndStatus

\* A breakpoint stops the hart before its instruction executes: whatever guest
\* and host do, no run ends by an instruction at an armed address.
THEOREM BreakpointsStopFirst == Spec => BreakpointComesFirst
<1>1. TypeOK /\ [Next]_hartVars =>
        [(hart.status = "RUNNING"
           /\ hart'.status \in {"EBREAK", "HALTED", "INVALID_INSTRUCTION", "INVALID_MEMORY_ACCESS"})
         => StoppedAt(hart') \notin Armed(hart)]_hartVars
  BY NextBreakpointFirst DEF EndStatus
<1> QED
  BY <1>1, TypeCorrect, PTL DEF Spec, BreakpointComesFirst

-----------------------------------------------------------------------------
(* The guest of Rv32Guest.tla: the same holds from its prologue's end on    *)

LEMMA PrologueType == AfterPrologue => TypeOK
<1> SUFFICES ASSUME AfterPrologue PROVE TypeOK
  OBVIOUS
<1>1. PICK mask \in SUBSET HostIrqs, a \in Ram :
        hart = [NewHart EXCEPT !.status = "RUNNING", !.pc = a,
                               !.mtvec = [base |-> Handler, vectored |-> FALSE],
                               !.mie = {"MEI"}, !.mstatus = {"MIE"}, !.ie = mask]
  BY DEF AfterPrologue
<1>2. a \in Addr
  BY RamAssumption, AddrSpaceAssumption DEF Ram, Addr
<1>3. [base |-> Handler, vectored |-> FALSE] \in Mtvec
  BY HandlerAssumption DEF Mtvec
<1>4. mask \in SUBSET Irq
  BY HostAssumption
<1>5. hart \in Hart
  BY <1>1, <1>2, <1>3, <1>4, NewHartType DEF Hart, Status, IntrBit, MstatusBit
<1> QED
  BY <1>5, GuestAssumption DEF AfterPrologue, TypeOK

\* The hart keeps its type in any program that has finished the prologue.
THEOREM GuestTypeCorrect == GuestSpec => []TypeOK
  BY PrologueType, NextType, PTL DEF GuestSpec

\* A hart that is not running executes nothing, in such a program too.
THEOREM GuestStoppedIsStill == GuestSpec => StoppedExecutesNothing
<1>1. TypeOK /\ [Next]_hartVars =>
        [(hart.status # "RUNNING" /\ hart' # NewHart) =>
           /\ mem' = mem
           /\ hart'.ie = hart.ie
           /\ hart'.status # hart.status => hart.status = "PAUSED" /\ hart'.status = "RUNNING"
           /\ hart'.pc # hart.pc => hart'.mepc = hart.pc
        ]_hartVars
  BY NextStopped
<1> QED
  BY <1>1, GuestTypeCorrect, PTL DEF GuestSpec, StoppedExecutesNothing

\* A breakpoint stops the hart before its instruction, also where an interrupt
\* has just led to it.
THEOREM GuestBreakpointFirst == GuestSpec => BreakpointComesFirst
<1>1. TypeOK /\ [Next]_hartVars =>
        [(hart.status = "RUNNING"
           /\ hart'.status \in {"EBREAK", "HALTED", "INVALID_INSTRUCTION", "INVALID_MEMORY_ACCESS"})
         => StoppedAt(hart') \notin Armed(hart)]_hartVars
  BY NextBreakpointFirst DEF EndStatus
<1> QED
  BY <1>1, GuestTypeCorrect, PTL DEF GuestSpec, BreakpointComesFirst

-----------------------------------------------------------------------------
(* One instruction *)

\* What an instruction that leaves mepc and mstatus alone does to pc.
Targets(h, i) ==
  CASE i \in {"branch", "jump"} -> Addr
    [] i = "illegal" -> {}
    [] OTHER -> {Plus(h.pc, 1)}

LEMMA ExecutePc ==
  ASSUME CsrWrites.mstatus = {}, CsrWrites.mepc = {},
         NEW h \in Hart, NEW i \in Instr, i # "mret", Execute(h, i)
  PROVE  /\ hart'.mstatus = h.mstatus /\ hart'.mepc = h.mepc
         /\ hart'.pc = h.pc \/ hart'.pc \in Targets(h, i)
<1> USE DEF Hart, Step, Stop, Targets
<1>1. CASE (i = "reg" /\ ExecReg(h)) \/ (i = "load" /\ ExecLoad(h))
  BY <1>1 DEF ExecReg, ExecLoad
<1>2. CASE i = "store" /\ ExecStore(h)
  BY <1>2 DEF ExecStore, StoreRam, StoreIe, StoreConsole, StoreFault
<1>3. CASE (i = "branch" /\ ExecBranch(h)) \/ (i = "jump" /\ ExecJump(h))
  BY <1>3 DEF ExecBranch, ExecJump
<1>4. CASE (i = "ecall" /\ ExecEcall(h)) \/ (i = "ebreak" /\ ExecEbreak(h))
  BY <1>4 DEF ExecEcall, ExecEbreak
<1>5. CASE (i = "wfi" /\ ExecWfi(h)) \/ (i = "illegal" /\ ExecIllegal(h))
  BY <1>5 DEF ExecWfi, ExecIllegal
<1>6. CASE i = "csr" /\ ExecCsr(h)
  BY <1>6, ZenonT(40) DEF ExecCsr, rv32_write_csr
<1> QED
  BY <1>1, <1>2, <1>3, <1>4, <1>5, <1>6 DEF Execute

LEMMA ExecuteMret ==
  ASSUME NEW h \in Hart, Execute(h, "mret")
  PROVE  /\ hart'.pc = h.mepc
         /\ hart'.mstatus = IF "MPIE" \in h.mstatus THEN {"MIE", "MPIE"} ELSE {}
  BY DEF Execute, ExecMret, Hart, MstatusBit

-----------------------------------------------------------------------------
(* Interrupts are transparent *)

\* The pc of main in a hart h: MainPc is MainPcOf(hart).
MainPcOf(h) == IF h.mstatus = {"MPIE"} THEN h.mepc ELSE h.pc

\* Taking an interrupt, or none, leaves main where it is.
LEMMA InterruptMain ==
  ASSUME NEW h \in Hart, NEW o \in rv32_handle_interrupt(h)
  PROVE  /\ o \in Hart
         /\ MainPcOf(o) = MainPcOf(h)
         /\ o = h \/ o.mstatus = {"MPIE"}
<1>1. o \in Hart
  BY InterruptType
<1>2. CASE o = h
  BY <1>1, <1>2
<1>3. CASE o # h
  <2>1. "MIE" \in h.mstatus /\ o.mepc = h.pc
    BY <1>3, InterruptFields
  <2>2. o.mstatus = {"MPIE"}
    <3>1. ASSUME NEW cause, o = EnterTrap(h, cause) PROVE o.mstatus = {"MPIE"}
      BY <3>1 DEF EnterTrap, Hart
    <3>2. ASSUME NEW irq, o = EnterTrap(Claim(h, irq), 16 + irq) PROVE o.mstatus = {"MPIE"}
      <4>1. Claim(h, irq) \in Hart
        BY ClaimType
      <4> QED
        BY <3>2, <4>1 DEF EnterTrap, Hart
    <3> QED
      BY <1>3, <3>1, <3>2, InterruptOutcome
  <2>3. h.mstatus # {"MPIE"}
    BY <2>1
  <2> QED
    BY <1>1, <2>1, <2>2, <2>3 DEF MainPcOf
<1> QED
  BY <1>2, <1>3

LEMMA FetchedSuccessors ==
  ASSUME TypeOK, NEW h \in Hart, NEW i \in Fetched(h)
  PROVE  /\ i \in Instr
         /\ i # "mret" => Targets(h, i) \subseteq Successors(h.pc)
         /\ i = "mret" => Addr \subseteq Successors(h.pc)
<1>1. i \in IF h.pc \in Ram THEN {mem[h.pc]} ELSE IF h.pc = IcAddr THEN Instr ELSE {}
  BY DEF Fetched
<1>2. i \in Instr
  BY <1>1 DEF TypeOK
<1>3. (CASE i \in {"branch", "jump", "mret"} -> Addr
         [] i = "illegal" -> {}
         [] OTHER -> {Plus(h.pc, 1)}) \subseteq Successors(h.pc)
  BY <1>1 DEF Successors
<1>4. CASE i = "mret"
  BY <1>2, <1>3, <1>4 DEF Targets
<1>5. CASE i # "mret"
  BY <1>2, <1>3, <1>5 DEF Targets
<1> QED
  BY <1>4, <1>5

LEMMA CycleMain ==
  ASSUME CsrWrites.mstatus = {}, CsrWrites.mepc = {}, TypeOK, Cycle
  PROVE  MainPcOf(hart') = MainPcOf(hart) \/ MainPcOf(hart') \in Successors(MainPcOf(hart))
<1>1. PICK h \in rv32_handle_interrupt(hart) :
        Asleep(h) \/ NotRunning(h) \/ BreakpointHit(h) \/ FetchFault(h) \/ FetchAndExecute(h)
  BY DEF Cycle, rv32_cycle
<1>2. h \in Hart /\ MainPcOf(h) = MainPcOf(hart)
  BY InterruptMain DEF TypeOK
<1>3. CASE Asleep(h) \/ NotRunning(h)
  BY <1>2, <1>3 DEF Asleep, NotRunning
<1>4. CASE BreakpointHit(h) \/ FetchFault(h)
  BY <1>2, <1>4 DEF BreakpointHit, FetchFault, Stop, Hart, MainPcOf
<1>5. CASE FetchAndExecute(h)
  <2>1. PICK i \in Fetched(h) : Execute(h, i)
    BY <1>5 DEF FetchAndExecute
  <2>2. /\ i \in Instr
        /\ i # "mret" => Targets(h, i) \subseteq Successors(h.pc)
        /\ i = "mret" => Addr \subseteq Successors(h.pc)
    BY <1>2, FetchedSuccessors
  <2>3. CASE i = "mret"
    <3>1. /\ hart'.pc = h.mepc /\ h.mepc \in Addr
          /\ hart'.mstatus = IF "MPIE" \in h.mstatus THEN {"MIE", "MPIE"} ELSE {}
      BY <1>2, <2>1, <2>3, ExecuteMret DEF Hart
    <3>2. MainPcOf(hart') = h.mepc
      BY <3>1 DEF MainPcOf
    <3>3. CASE h.mstatus = {"MPIE"}
      BY <1>2, <3>2, <3>3 DEF MainPcOf
    <3>4. CASE h.mstatus # {"MPIE"}
      BY <1>2, <2>2, <2>3, <3>1, <3>2, <3>4 DEF MainPcOf
    <3> QED
      BY <3>3, <3>4
  <2>4. CASE i # "mret"
    <3>1. /\ hart'.mstatus = h.mstatus /\ hart'.mepc = h.mepc
          /\ hart'.pc = h.pc \/ hart'.pc \in Targets(h, i)
      BY <1>2, <2>1, <2>2, <2>4, ExecutePc
    <3> QED
      BY <1>2, <2>2, <2>4, <3>1 DEF MainPcOf
  <2> QED
    BY <2>3, <2>4
<1> QED
  BY <1>1, <1>3, <1>4, <1>5

LEMMA HostMain ==
  ASSUME TypeOK, Host, hart' # NewHart PROVE MainPcOf(hart') = MainPcOf(hart)
<1> USE DEF TypeOK, MainPcOf
<1>1. CASE Resume
  BY <1>1 DEF Resume, rv32_resume, Hart
<1>2. CASE Reset
  BY <1>2 DEF Reset, rv32_reset
<1>3. ASSUME NEW irq \in HostIrqs, Trigger(irq) PROVE MainPcOf(hart') = MainPcOf(hart)
  BY <1>3 DEF Trigger, rv32_trigger_external_interrupt, Hart
<1>4. CASE BreakpointCall
  BY <1>4, BreakpointCallLeaves DEF Outside
<1> QED
  BY <1>1, <1>2, <1>3, <1>4, HostCases

\* Interrupts are transparent to main, whatever its program, its handler and
\* the host: for every guest that leaves mstatus and mepc alone after its
\* prologue, no instruction of main is skipped or executed twice.
THEOREM InterruptsAreTransparent ==
  ASSUME CsrWrites.mstatus = {}, CsrWrites.mepc = {} PROVE GuestSpec => MainUndisturbed
<1>1. TypeOK /\ [Next]_hartVars =>
        [hart' # NewHart => MainPc' = MainPc \/ MainPc' \in Successors(MainPc)]_hartVars
  <2>1. MainPc = MainPcOf(hart) /\ MainPc' = MainPcOf(hart')
    BY DEF MainPc, InHandler, MainPcOf
  <2> QED
    BY <2>1, CycleMain, HostMain DEF Next
<1> QED
  BY <1>1, GuestTypeCorrect, PTL DEF GuestSpec, MainUndisturbed
=============================================================================
