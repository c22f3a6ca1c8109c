------------------------------ MODULE Rv32Hart ------------------------------
(***************************************************************************)
(* The virtual machine of src/src/rv32.h: one hart (struct RV32 without    *)
(* its RAM and its integer registers), the RAM, and every function of the  *)
(* header that changes them.  The module declares the state and its        *)
(* actions; Rv32Core.tla lets a guest and a host drive them, RspStub.tla   *)
(* and GdbSession.tla put the debugger on top.                             *)
(*                                                                         *)
(* What is abstracted.  A RAM word is the class of the instruction it      *)
(* decodes to, and the integer registers are left out: whatever depends on *)
(* them (is a branch taken, where does jalr go, what does a store hit,     *)
(* what does a csr instruction write) is any value of a small set.         *)
(* Addresses are instruction words on a ring of AddrSpace words, the low   *)
(* two bits of pc, mepc and mtvec being 0.                                 *)
(***************************************************************************)
EXTENDS BpTable

CONSTANTS
  RamWords,     \* mem_size, in words: RAM is 0 .. RamWords - 1
  IcAddr,       \* RV32_INTERRUPT_CONTROLLER_ADDRESS
  IrqLimit,     \* sizeof(uint32_t) in rv32_trigger_external_interrupt: 4
  GuestInstr,   \* the instruction classes the guest's program and stores use
  CsrWrites,    \* csr name -> the values the guest may write to it
  IeMasks       \* the values the guest may store in the interrupt controller

Irq == 0 .. 31                         \* the bits of interrupt_controller.ie and ip
MstatusBit == {"MIE", "MPIE"}          \* CSR_MSTATUS_*
IntrBit == {"MSI", "MTI", "MEI"}       \* CSR_MIE_*, CSR_MIP_*
Csr == {"mstatus", "mie", "mip", "mtvec", "mepc", "mcause"}
Status == {"RUNNING", "HALTED", "PAUSED", "EBREAK",
           "INVALID_INSTRUCTION", "INVALID_MEMORY_ACCESS"}

Instr == {"reg",      \* arithmetic, lui, auipc: registers only
          "load", "store", "branch", "jump", "ecall", "ebreak", "mret", "wfi", "csr",
          "illegal"}  \* whatever does not decode, the all-zero word among them

Ram == 0 .. RamWords - 1
Mtvec == [base : Addr, vectored : BOOLEAN]
Cause == 0 .. 47      \* mcause without its bit 31, which every trap sets

CsrType == [mstatus : SUBSET SUBSET MstatusBit, mie : SUBSET SUBSET IntrBit,
            mip : SUBSET SUBSET IntrBit, mtvec : SUBSET Mtvec,
            mepc : SUBSET Addr, mcause : SUBSET Cause]

ASSUME RamAssumption == RamWords \in Nat \ {0} /\ RamWords <= AddrSpace
ASSUME IcAssumption == IcAddr \in Addr \ Ram
ASSUME IrqLimitAssumption == IrqLimit \in Irq
ASSUME GuestAssumption ==
  GuestInstr \subseteq Instr /\ CsrWrites \in CsrType /\ IeMasks \subseteq SUBSET Irq

VARIABLES
  hart,         \* struct RV32: status, breakpoints, pc, CSRs, wfi, interrupt_controller
  mem           \* RAM, as instruction classes

hartVars == <<hart, mem>>

Hart == [status : Status, bpMask : SUBSET Slot, bp : [Slot -> Addr], pc : Addr,
         mstatus : SUBSET MstatusBit, mie : SUBSET IntrBit, mip : SUBSET IntrBit,
         mtvec : Mtvec, mepc : Addr, mcause : Cause, wfi : BOOLEAN,
         ie : SUBSET Irq, ip : SUBSET Irq]

\* rv32_new zeroes the structure and leaves the hart paused.
NewHart == [status |-> "PAUSED", bpMask |-> {}, bp |-> NoBreakpoints, pc |-> 0,
            mstatus |-> {}, mie |-> {}, mip |-> {},
            mtvec |-> [base |-> 0, vectored |-> FALSE], mepc |-> 0, mcause |-> 0,
            wfi |-> FALSE, ie |-> {}, ip |-> {}]

\* (mutant) addresses that do not wrap
PlusUnbounded(a, n) == a + n

\* Addresses wrap like uint32_t.
Plus(a, n) == (a + n) % AddrSpace

-----------------------------------------------------------------------------
(* Interrupts *)

\* The interrupt controller has a request to hand out, and its claim picks the
\* lowest pending line; the last claim lowers mip.MEI.
Claimable(h) == h.ie \cap h.ip # {}

\* (mutants) every claim lowers mip.MEI; a claim takes all requests
ClaimLowersMei(h, irq) == [h EXCEPT !.ip = @ \ {irq}, !.mip = @ \ {"MEI"}]
ClaimTakesAll(h, irq) == [h EXCEPT !.ip = {}, !.mip = @ \ {"MEI"}]

Claim(h, irq) ==
  [h EXCEPT !.ip = @ \ {irq},
            !.mip = IF h.ip = {irq} THEN @ \ {"MEI"} ELSE @]

\* (mutant) the highest line first
ClaimHighest(h) ==
  IF Claimable(h)
  THEN {<<Claim(h, irq), irq>> : irq \in {i \in h.ip : \A j \in h.ip : j <= i}} ELSE {}

rv32_claim_irq(h) ==
  IF Claimable(h) THEN {<<Claim(h, irq), irq>> : irq \in First(h.ip)} ELSE {}

\* (mutants) the trap leaves the hart asleep; it returns past the interrupted
\* instruction
TrapWithoutWaking(h, cause) ==
  [h EXCEPT !.mcause = cause, !.mepc = h.pc, !.mstatus = {"MPIE"},
            !.pc = IF h.mtvec.vectored THEN Plus(h.mtvec.base, cause) ELSE h.mtvec.base]

TrapSkipsInstruction(h, cause) ==
  [h EXCEPT !.mcause = cause, !.mepc = Plus(h.pc, 1), !.mstatus = {"MPIE"},
            !.pc = IF h.mtvec.vectored THEN Plus(h.mtvec.base, cause) ELSE h.mtvec.base,
            !.wfi = FALSE]

\* The second half of rv32_handle_interrupt: the hart enters its trap handler.
EnterTrap(h, cause) ==
  [h EXCEPT !.mcause = cause,
            !.mepc = h.pc,
            !.mstatus = {"MPIE"},
            !.pc = IF h.mtvec.vectored THEN Plus(h.mtvec.base, cause) ELSE h.mtvec.base,
            !.wfi = FALSE]

\* (mutant) a handler can be interrupted
InterruptUnmasked(h) ==
  IF h.mie \cap h.mip = {"MEI"} /\ Claimable(h)
  THEN {EnterTrap(c[1], 16 + c[2]) : c \in rv32_claim_irq(h)}
  ELSE {h}

\* Only one kind of interrupt may be both enabled and pending for any of them
\* to be taken: the code switches on the exact value of mie & mip.
\* The result is the set of the possible outcomes (exactly one).
rv32_handle_interrupt(h) ==
  LET ready == h.mie \cap h.mip IN
  IF "MIE" \in h.mstatus /\ ready = {"MSI"} THEN {EnterTrap(h, 3)}
  ELSE IF "MIE" \in h.mstatus /\ ready = {"MTI"} THEN {EnterTrap(h, 7)}
  ELSE IF "MIE" \in h.mstatus /\ ready = {"MEI"} /\ Claimable(h)
       THEN {EnterTrap(c[1], 16 + c[2]) : c \in rv32_claim_irq(h)}
  ELSE {h}

-----------------------------------------------------------------------------
(* One instruction.  Each action is given the hart h that interrupt handling *)
(* has left, with pc at the instruction.                                     *)

Step(h) == [h EXCEPT !.pc = Plus(@, 1)]
Stop(h, status) == [h EXCEPT !.status = status]

ExecReg(h) == hart' = Step(h) /\ UNCHANGED mem

\* RAM and the interrupt controller can be loaded from; elsewhere the front
\* ends' mmio_load functions refuse.
ExecLoad(h) ==
  /\ hart' \in {Step(h), Stop(h, "INVALID_MEMORY_ACCESS")}
  /\ UNCHANGED mem

\* A store goes to RAM (and may change an instruction), to the interrupt
\* controller's enable mask, to the console, or nowhere.
StoreRam(h) ==
  /\ \E a \in Ram, i \in GuestInstr : mem' = [mem EXCEPT ![a] = i]
  /\ hart' = Step(h)
StoreIe(h) == (\E mask \in IeMasks : hart' = [Step(h) EXCEPT !.ie = mask]) /\ UNCHANGED mem
StoreConsole(h) == hart' = Step(h) /\ UNCHANGED mem
StoreFault(h) == hart' = Stop(h, "INVALID_MEMORY_ACCESS") /\ UNCHANGED mem

ExecStore(h) == StoreRam(h) \/ StoreIe(h) \/ StoreConsole(h) \/ StoreFault(h)

\* Taken to anywhere, or not.
ExecBranch(h) == (\E a \in Addr : hart' = [h EXCEPT !.pc = a]) /\ UNCHANGED mem
ExecJump(h) == (\E a \in Addr : hart' = [h EXCEPT !.pc = a]) /\ UNCHANGED mem

\* The front end's ecall() runs; only its exit call changes the hart, and pc
\* then stays on the ecall.
ExecEcall(h) ==
  /\ hart' \in {Step(h), Stop(h, "HALTED")}
  /\ UNCHANGED mem

ExecEbreak(h) == hart' = Stop(Step(h), "EBREAK") /\ UNCHANGED mem

\* MPIE is copied to MIE and keeps its value.
ExecMret(h) ==
  /\ hart' = [h EXCEPT !.pc = h.mepc,
                       !.mstatus = IF "MPIE" \in @ THEN MstatusBit ELSE {}]
  /\ UNCHANGED mem

ExecWfi(h) == hart' = [Step(h) EXCEPT !.wfi = TRUE] /\ UNCHANGED mem

\* The six csr instructions differ in the value they write; a csr number the
\* hart does not know is not written.
rv32_write_csr(h) ==
  {h} \cup {[h EXCEPT !.mstatus = v] : v \in CsrWrites.mstatus}
      \cup {[h EXCEPT !.mie = v] : v \in CsrWrites.mie}
      \cup {[h EXCEPT !.mip = v] : v \in CsrWrites.mip}
      \cup {[h EXCEPT !.mtvec = v] : v \in CsrWrites.mtvec}
      \cup {[h EXCEPT !.mepc = v] : v \in CsrWrites.mepc}
      \cup {[h EXCEPT !.mcause = v] : v \in CsrWrites.mcause}

ExecCsr(h) == hart' \in rv32_write_csr(Step(h)) /\ UNCHANGED mem

ExecIllegal(h) == hart' = Stop(h, "INVALID_INSTRUCTION") /\ UNCHANGED mem

Execute(h, i) ==
  \/ i = "reg" /\ ExecReg(h)
  \/ i = "load" /\ ExecLoad(h)
  \/ i = "store" /\ ExecStore(h)
  \/ i = "branch" /\ ExecBranch(h)
  \/ i = "jump" /\ ExecJump(h)
  \/ i = "ecall" /\ ExecEcall(h)
  \/ i = "ebreak" /\ ExecEbreak(h)
  \/ i = "mret" /\ ExecMret(h)
  \/ i = "wfi" /\ ExecWfi(h)
  \/ i = "csr" /\ ExecCsr(h)
  \/ i = "illegal" /\ ExecIllegal(h)

-----------------------------------------------------------------------------
(* rv32_cycle: interrupt, sleep, status, breakpoints, fetch, execute *)

Asleep(h) == h.wfi /\ hart' = h /\ UNCHANGED mem

NotRunning(h) == ~h.wfi /\ h.status # "RUNNING" /\ hart' = h /\ UNCHANGED mem

Active(h) == ~h.wfi /\ h.status = "RUNNING"

BreakpointHit(h) ==
  /\ Active(h)
  /\ h.pc \in Armed(h)
  /\ hart' = Stop(h, "PAUSED")
  /\ UNCHANGED mem

\* What rv32_load32 finds at pc: a word of RAM, or the interrupt controller's
\* mask, which may decode to anything; nothing elsewhere.
Fetched(h) ==
  IF h.pc \in Ram THEN {mem[h.pc]} ELSE IF h.pc = IcAddr THEN Instr ELSE {}

FetchFault(h) ==
  /\ Active(h)
  /\ h.pc \notin Armed(h)
  /\ Fetched(h) = {}
  /\ hart' = Stop(h, "INVALID_MEMORY_ACCESS")
  /\ UNCHANGED mem

\* (mutant) breakpoints are looked up at the pc before the interrupt
ExecuteOldPc(h) ==
  /\ Active(h)
  /\ hart.pc \notin Armed(h)
  /\ \E i \in Fetched(h) : Execute(h, i)

FetchAndExecute(h) ==
  /\ Active(h)
  /\ h.pc \notin Armed(h)
  /\ \E i \in Fetched(h) : Execute(h, i)

rv32_cycle ==
  \E h \in rv32_handle_interrupt(hart) :
    Asleep(h) \/ NotRunning(h) \/ BreakpointHit(h) \/ FetchFault(h) \/ FetchAndExecute(h)

-----------------------------------------------------------------------------
(* What the host may call besides *)

\* (mutants) resuming wakes; resuming works from every status
ResumeWakes(h) == [h EXCEPT !.status = IF @ = "PAUSED" THEN "RUNNING" ELSE @, !.wfi = FALSE]
ResumeAny(h) == [h EXCEPT !.status = "RUNNING"]

rv32_resume(h) == IF h.status = "PAUSED" THEN [h EXCEPT !.status = "RUNNING"] ELSE h

\* rv32_new clears sizeof(RV32) bytes, and the structure ends in the first
\* word of RAM: a reset leaves the rest of the program and zeroes that word.
rv32_reset ==
  /\ hart' = NewHart
  /\ mem' = [mem EXCEPT ![0] = "illegal"]

\* The bound is the size of the mask in bytes, not in bits.
rv32_trigger_external_interrupt(h, irq) ==
  IF irq >= IrqLimit THEN h ELSE [h EXCEPT !.mip = @ \cup {"MEI"}, !.ip = @ \cup {irq}]
=============================================================================
