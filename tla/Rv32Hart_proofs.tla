--------------------------- MODULE Rv32Hart_proofs ---------------------------
(***************************************************************************)
(* Lemmas about the functions of Rv32Hart.tla, for the proofs about the    *)
(* systems that use the hart.                                              *)
(***************************************************************************)
EXTENDS Rv32Hart, TLAPS

-----------------------------------------------------------------------------
(* Types of the values the hart is updated with *)

LEMMA PlusInAddr ==
  ASSUME NEW a \in Nat, NEW n \in Nat PROVE Plus(a, n) \in Addr
  BY AddrSpaceAssumption DEF Plus, Addr

LEMMA Constants ==
  /\ Addr \subseteq Nat /\ 0 \in Addr /\ 0 \in Ram
  /\ NoBreakpoints \in [Slot -> Addr]
  /\ IrqLimit \in Nat
<1>1. Addr \subseteq Nat /\ 0 \in Addr
  BY AddrSpaceAssumption DEF Addr
<1>2. 0 \in Ram
  BY RamAssumption DEF Ram
<1>3. NoBreakpoints \in [Slot -> Addr]
  BY <1>1 DEF NoBreakpoints
<1>4. IrqLimit \in Nat
  BY IrqLimitAssumption DEF Irq
<1> QED
  BY <1>1, <1>2, <1>3, <1>4

LEMMA NewHartType == NewHart \in Hart
  BY Constants DEF NewHart, Hart, Status, Mtvec, Cause

LEMMA StepType == ASSUME NEW h \in Hart PROVE Step(h) \in Hart
<1>1. Plus(h.pc, 1) \in Addr
  BY PlusInAddr, Constants DEF Hart
<1> QED
  BY <1>1 DEF Step, Hart

LEMMA StopType ==
  ASSUME NEW h \in Hart, NEW st \in Status PROVE Stop(h, st) \in Hart
  BY DEF Stop, Hart

LEMMA ClaimType ==
  ASSUME NEW h \in Hart, NEW irq PROVE Claim(h, irq) \in Hart
  BY DEF Claim, Hart

LEMMA EnterTrapType ==
  ASSUME NEW h \in Hart, NEW cause \in Cause PROVE EnterTrap(h, cause) \in Hart
<1>1. h.mtvec.base \in Addr /\ h.pc \in Addr
  BY DEF Hart, Mtvec
<1>2. Plus(h.mtvec.base, cause) \in Addr
  <2>1. cause \in Nat
    BY DEF Cause
  <2>2. h.mtvec.base \in Nat
    BY <1>1, Constants
  <2> QED
    BY <2>1, <2>2, PlusInAddr
<1> QED
  BY <1>1, <1>2 DEF EnterTrap, Hart, MstatusBit

\* The outcomes of rv32_claim_irq and rv32_handle_interrupt.
LEMMA ClaimOutcome ==
  ASSUME NEW h, NEW c \in rv32_claim_irq(h)
  PROVE  \E irq \in h.ip : c = <<Claim(h, irq), irq>> /\ \A j \in h.ip : irq <= j
  BY DEF rv32_claim_irq, First

LEMMA InterruptOutcome ==
  ASSUME NEW h, NEW o \in rv32_handle_interrupt(h)
  PROVE  \/ o = h
         \/ /\ "MIE" \in h.mstatus
            /\ h.mie \cap h.mip # {}
            /\ \/ \E cause \in {3, 7} : o = EnterTrap(h, cause)
               \/ \E irq \in h.ip : o = EnterTrap(Claim(h, irq), 16 + irq)
<1> DEFINE ready == h.mie \cap h.mip
<1>1. CASE "MIE" \in h.mstatus /\ ready = {"MSI"}
  BY <1>1 DEF rv32_handle_interrupt
<1>2. CASE "MIE" \in h.mstatus /\ ready = {"MTI"}
  BY <1>2 DEF rv32_handle_interrupt
<1>3. CASE "MIE" \in h.mstatus /\ ready = {"MEI"} /\ Claimable(h)
  <2>1. PICK c \in rv32_claim_irq(h) : o = EnterTrap(c[1], 16 + c[2])
    BY <1>3 DEF rv32_handle_interrupt
  <2>2. PICK irq \in h.ip : c = <<Claim(h, irq), irq>>
    BY ClaimOutcome
  <2> QED
    BY <1>3, <2>1, <2>2
<1>4. CASE /\ ~("MIE" \in h.mstatus /\ ready = {"MSI"})
           /\ ~("MIE" \in h.mstatus /\ ready = {"MTI"})
           /\ ~("MIE" \in h.mstatus /\ ready = {"MEI"} /\ Claimable(h))
  BY <1>4 DEF rv32_handle_interrupt
<1> QED
  BY <1>1, <1>2, <1>3, <1>4

LEMMA InterruptType ==
  ASSUME NEW h \in Hart, NEW o \in rv32_handle_interrupt(h) PROVE o \in Hart
<1>1. ASSUME NEW cause \in {3, 7}, o = EnterTrap(h, cause) PROVE o \in Hart
  BY <1>1, EnterTrapType DEF Cause
<1>2. ASSUME NEW irq \in h.ip, o = EnterTrap(Claim(h, irq), 16 + irq) PROVE o \in Hart
  <2>1. irq \in Irq
    BY DEF Hart
  <2>2. 16 + irq \in Cause
    BY <2>1 DEF Irq, Cause
  <2> QED
    BY <1>2, <2>2, ClaimType, EnterTrapType
<1> QED
  BY <1>1, <1>2, InterruptOutcome

-----------------------------------------------------------------------------
(* Type correctness *)

WellTyped == hart \in Hart /\ mem \in [Ram -> Instr]

LEMMA ExecuteType ==
  ASSUME NEW h \in Hart, mem \in [Ram -> Instr], NEW i, Execute(h, i) PROVE WellTyped'
<1> USE DEF WellTyped
<1>1. Step(h) \in Hart /\ h.pc \in Addr
  BY StepType DEF Hart
<1>2. CASE ExecReg(h)
  BY <1>1, <1>2 DEF ExecReg
<1>3. CASE ExecLoad(h)
  BY <1>1, <1>3, StopType DEF ExecLoad, Status
<1>4. CASE ExecStore(h)
  <2>1. CASE StoreRam(h)
    BY <1>1, <2>1, GuestAssumption DEF StoreRam
  <2>2. CASE StoreIe(h)
    BY <1>1, <2>2, GuestAssumption DEF StoreIe, Hart
  <2>3. CASE StoreConsole(h)
    BY <1>1, <2>3 DEF StoreConsole
  <2>4. CASE StoreFault(h)
    BY <2>4, StopType DEF StoreFault, Status
  <2> QED
    BY <1>4, <2>1, <2>2, <2>3, <2>4 DEF ExecStore
<1>5. CASE ExecBranch(h) \/ ExecJump(h)
  BY <1>5 DEF ExecBranch, ExecJump, Hart
<1>6. CASE ExecEcall(h)
  BY <1>1, <1>6, StopType DEF ExecEcall, Status
<1>7. CASE ExecEbreak(h)
  BY <1>1, <1>7, StopType DEF ExecEbreak, Status
<1>8. CASE ExecMret(h)
  BY <1>8 DEF ExecMret, Hart, MstatusBit
<1>9. CASE ExecWfi(h)
  BY <1>1, <1>9 DEF ExecWfi, Hart
<1>10. CASE ExecCsr(h)
  <2>1. hart' \in rv32_write_csr(Step(h)) /\ mem' = mem
    BY <1>10 DEF ExecCsr
  <2> QED
    BY <1>1, <2>1, GuestAssumption DEF rv32_write_csr, CsrType, Hart
<1>11. CASE ExecIllegal(h)
  BY <1>11, StopType DEF ExecIllegal, Status
<1> QED
  BY <1>2, <1>3, <1>4, <1>5, <1>6, <1>7, <1>8, <1>9, <1>10, <1>11 DEF Execute

LEMMA HartCycleType == ASSUME WellTyped, rv32_cycle PROVE WellTyped'
<1> USE DEF WellTyped
<1>1. PICK h \in rv32_handle_interrupt(hart) :
        Asleep(h) \/ NotRunning(h) \/ BreakpointHit(h) \/ FetchFault(h) \/ FetchAndExecute(h)
  BY DEF rv32_cycle
<1>2. h \in Hart
  BY InterruptType
<1>3. CASE Asleep(h) \/ NotRunning(h)
  BY <1>2, <1>3 DEF Asleep, NotRunning
<1>4. CASE BreakpointHit(h) \/ FetchFault(h)
  BY <1>2, <1>4, StopType DEF BreakpointHit, FetchFault, Status
<1>5. CASE FetchAndExecute(h)
  BY <1>2, <1>5, ExecuteType DEF FetchAndExecute
<1> QED
  BY <1>1, <1>3, <1>4, <1>5

LEMMA SlotWritten ==
  ASSUME NEW h \in Hart, NEW s \in Slot, NEW a \in Addr, NEW mask \in SUBSET Slot
  PROVE  [h EXCEPT !.bpMask = mask, !.bp[s] = a] \in Hart
  BY DEF Hart

LEMMA SetBreakpointType ==
  ASSUME NEW h \in Hart, NEW a \in Addr, NEW o \in rv32_set_breakpoint(h, a)
  PROVE  o[1] \in Hart
<1>1. CASE FreeSlots(h) = {}
  BY <1>1 DEF rv32_set_breakpoint
<1>2. CASE FreeSlots(h) # {}
  <2>1. PICK s \in First(FreeSlots(h)) : o = <<[h EXCEPT !.bpMask = @ \cup {s}, !.bp[s] = a], 1>>
    BY <1>2 DEF rv32_set_breakpoint
  <2>2. s \in Slot /\ h.bpMask \cup {s} \in SUBSET Slot
    BY DEF First, FreeSlots, Hart
  <2> QED
    BY <2>1, <2>2, SlotWritten
<1> QED
  BY <1>1, <1>2

LEMMA ClearBreakpointType ==
  ASSUME NEW h \in Hart, NEW a \in Addr, NEW o \in rv32_clear_breakpoint(h, a)
  PROVE  o[1] \in Hart
<1>1. CASE SlotsAt(h, a) = {}
  BY <1>1 DEF rv32_clear_breakpoint
<1>2. CASE SlotsAt(h, a) # {}
  <2>1. PICK s \in First(SlotsAt(h, a)) : o = <<[h EXCEPT !.bpMask = @ \ {s}, !.bp[s] = 0], 1>>
    BY <1>2 DEF rv32_clear_breakpoint
  <2>2. s \in Slot /\ h.bpMask \ {s} \in SUBSET Slot
    BY DEF First, SlotsAt, Hart
  <2> QED
    BY <2>1, <2>2, SlotWritten, Constants
<1> QED
  BY <1>1, <1>2

-----------------------------------------------------------------------------
(* What instructions and interrupts leave alone *)

\* An instruction never touches the pending requests, and touches mip, mepc
\* and mcause only by a csr write of the guest.
Untouched(g, h) ==
  /\ h.ip = g.ip
  /\ CsrWrites.mip = {} => h.mip = g.mip
  /\ CsrWrites.mepc = {} => h.mepc = g.mepc
  /\ CsrWrites.mcause = {} => h.mcause = g.mcause

LEMMA ExecuteLeaves ==
  ASSUME NEW h \in Hart, NEW i, Execute(h, i) PROVE Untouched(h, hart')
<1> USE DEF Untouched, Hart, Step, Stop
<1>1. CASE ExecReg(h) \/ ExecLoad(h) \/ ExecStore(h)
  BY <1>1 DEF ExecReg, ExecLoad, ExecStore, StoreRam, StoreIe, StoreConsole, StoreFault
<1>2. CASE ExecBranch(h) \/ ExecJump(h) \/ ExecEcall(h) \/ ExecEbreak(h)
  BY <1>2 DEF ExecBranch, ExecJump, ExecEcall, ExecEbreak
<1>3. CASE ExecMret(h) \/ ExecWfi(h) \/ ExecIllegal(h)
  BY <1>3 DEF ExecMret, ExecWfi, ExecIllegal
<1>4. CASE ExecCsr(h)
  BY <1>4 DEF ExecCsr, rv32_write_csr
<1> QED
  BY <1>1, <1>2, <1>3, <1>4 DEF Execute

\* A cycle is an interrupt outcome followed by what leaves the above alone;
\* unless the hart is then active, nothing follows.
LEMMA HartCycleLeaves ==
  ASSUME WellTyped, rv32_cycle
  PROVE  \E h \in rv32_handle_interrupt(hart) :
           /\ Untouched(h, hart')
           /\ ~Active(h) => hart' = h /\ mem' = mem
<1> USE DEF WellTyped
<1>1. PICK h \in rv32_handle_interrupt(hart) :
        Asleep(h) \/ NotRunning(h) \/ BreakpointHit(h) \/ FetchFault(h) \/ FetchAndExecute(h)
  BY DEF rv32_cycle
<1>2. h \in Hart
  BY InterruptType
<1>3. CASE Asleep(h) \/ NotRunning(h)
  BY <1>1, <1>3 DEF Asleep, NotRunning, Untouched
<1>4. CASE BreakpointHit(h) \/ FetchFault(h)
  BY <1>1, <1>2, <1>4 DEF BreakpointHit, FetchFault, Stop, Hart, Untouched
<1>5. CASE FetchAndExecute(h)
  BY <1>1, <1>2, <1>5, ExecuteLeaves DEF FetchAndExecute
<1> QED
  BY <1>1, <1>3, <1>4, <1>5

-----------------------------------------------------------------------------
(* What a trap, a claim and an interrupt change *)

LEMMA TrapFields ==
  ASSUME NEW h \in Hart, NEW cause
  PROVE  LET g == EnterTrap(h, cause) IN
         /\ g.mcause = cause /\ g.mepc = h.pc /\ g.wfi = FALSE
         /\ g.status = h.status /\ g.ie = h.ie /\ g.ip = h.ip
  BY DEF EnterTrap, Hart

LEMMA ClaimFields ==
  ASSUME NEW h \in Hart, NEW irq
  PROVE  LET g == Claim(h, irq) IN
         /\ g.ip = h.ip \ {irq}
         /\ g.pc = h.pc /\ g.status = h.status /\ g.ie = h.ie
  BY DEF Claim, Hart

\* The interrupt handling of one cycle, in terms of the fields it touches.
LEMMA InterruptFields ==
  ASSUME NEW h \in Hart, NEW o \in rv32_handle_interrupt(h)
  PROVE  \/ o = h
         \/ /\ "MIE" \in h.mstatus /\ h.mie \cap h.mip # {}
            /\ o.mepc = h.pc /\ o.wfi = FALSE /\ o.status = h.status /\ o.ie = h.ie
            /\ \/ o.ip = h.ip
               \/ \E irq \in h.ip : o.ip = h.ip \ {irq} /\ o.mcause = 16 + irq
<1> DEFINE Trapped == "MIE" \in h.mstatus /\ h.mie \cap h.mip # {}
<1>1. ASSUME NEW cause, o = EnterTrap(h, cause)
      PROVE  o.mepc = h.pc /\ o.wfi = FALSE /\ o.status = h.status /\ o.ie = h.ie /\ o.ip = h.ip
  BY <1>1, TrapFields
<1>2. ASSUME NEW irq \in h.ip, o = EnterTrap(Claim(h, irq), 16 + irq)
      PROVE  /\ o.mepc = h.pc /\ o.wfi = FALSE /\ o.status = h.status /\ o.ie = h.ie
             /\ o.ip = h.ip \ {irq} /\ o.mcause = 16 + irq
  <2> DEFINE g == Claim(h, irq)
  <2>1. g \in Hart
    BY ClaimType
  <2>2. /\ o.mcause = 16 + irq /\ o.mepc = g.pc /\ o.wfi = FALSE
        /\ o.status = g.status /\ o.ie = g.ie /\ o.ip = g.ip
    BY <1>2, <2>1, TrapFields
  <2>3. g.ip = h.ip \ {irq} /\ g.pc = h.pc /\ g.status = h.status /\ g.ie = h.ie
    BY ClaimFields
  <2> QED
    BY <2>2, <2>3
<1> QED
  BY <1>1, <1>2, InterruptOutcome

-----------------------------------------------------------------------------
(* A cycle leaves the breakpoint table alone *)

SameTable(g, h) == g.bpMask = h.bpMask /\ g.bp = h.bp

LEMMA InterruptKeepsTable ==
  ASSUME NEW h \in Hart, NEW o \in rv32_handle_interrupt(h)
  PROVE  SameTable(o, h) /\ o.status = h.status
<1>1. ASSUME NEW g \in Hart, NEW cause
      PROVE  SameTable(EnterTrap(g, cause), g) /\ EnterTrap(g, cause).status = g.status
  BY DEF EnterTrap, SameTable, Hart
<1>2. ASSUME NEW irq
      PROVE  SameTable(Claim(h, irq), h) /\ Claim(h, irq).status = h.status
  BY DEF Claim, SameTable, Hart
<1>3. ASSUME NEW irq \in h.ip, o = EnterTrap(Claim(h, irq), 16 + irq)
      PROVE  SameTable(o, h) /\ o.status = h.status
  BY <1>1, <1>2, <1>3, ClaimType DEF SameTable
<1> QED
  BY <1>1, <1>3, InterruptOutcome DEF SameTable

LEMMA ExecuteKeepsTable ==
  ASSUME NEW h \in Hart, NEW i, Execute(h, i) PROVE SameTable(hart', h)
<1> USE DEF SameTable, Hart, Step, Stop
<1>1. CASE ExecReg(h) \/ ExecLoad(h) \/ ExecStore(h)
  BY <1>1 DEF ExecReg, ExecLoad, ExecStore, StoreRam, StoreIe, StoreConsole, StoreFault
<1>2. CASE ExecBranch(h) \/ ExecJump(h) \/ ExecEcall(h) \/ ExecEbreak(h)
  BY <1>2 DEF ExecBranch, ExecJump, ExecEcall, ExecEbreak
<1>3. CASE ExecMret(h) \/ ExecWfi(h) \/ ExecIllegal(h)
  BY <1>3 DEF ExecMret, ExecWfi, ExecIllegal
<1>4. CASE ExecCsr(h)
  BY <1>4 DEF ExecCsr, rv32_write_csr
<1> QED
  BY <1>1, <1>2, <1>3, <1>4 DEF Execute

LEMMA CycleKeepsTable == ASSUME WellTyped, rv32_cycle PROVE SameTable(hart', hart)
<1>1. PICK h \in rv32_handle_interrupt(hart) :
        Asleep(h) \/ NotRunning(h) \/ BreakpointHit(h) \/ FetchFault(h) \/ FetchAndExecute(h)
  BY DEF rv32_cycle
<1>2. h \in Hart /\ SameTable(h, hart)
  BY InterruptType, InterruptKeepsTable DEF WellTyped
<1>3. CASE Asleep(h) \/ NotRunning(h)
  BY <1>2, <1>3 DEF Asleep, NotRunning
<1>4. CASE BreakpointHit(h) \/ FetchFault(h)
  BY <1>2, <1>4 DEF BreakpointHit, FetchFault, Stop, Hart, SameTable
<1>5. CASE FetchAndExecute(h)
  BY <1>2, <1>5, ExecuteKeepsTable DEF FetchAndExecute, SameTable
<1> QED
  BY <1>1, <1>3, <1>4, <1>5
=============================================================================
