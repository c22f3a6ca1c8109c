------------------------------ MODULE Rv32Core ------------------------------
(***************************************************************************)
(* A guest program running on the hart of Rv32Hart.tla, and a host that    *)
(* calls the header's functions in any order: the core system of the       *)
(* repository, without the debugger.                                       *)
(***************************************************************************)
EXTENDS Rv32Hart

CONSTANTS
  HostIrqs,     \* the lines the host raises
  HostBps       \* the addresses the host sets and clears breakpoints at

ASSUME HostAssumption == HostIrqs \subseteq Irq /\ HostBps \subseteq Addr

\* rv32_new, then any program loaded into RAM.
Init ==
  /\ hart = NewHart
  /\ mem \in [Ram -> GuestInstr]

Cycle == rv32_cycle

Resume == hart' = rv32_resume(hart) /\ UNCHANGED mem

Reset == rv32_reset

Trigger(irq) == hart' = rv32_trigger_external_interrupt(hart, irq) /\ UNCHANGED mem

SetBreakpoint(a) == (\E o \in rv32_set_breakpoint(hart, a) : hart' = o[1]) /\ UNCHANGED mem

ClearBreakpoint(a) == (\E o \in rv32_clear_breakpoint(hart, a) : hart' = o[1]) /\ UNCHANGED mem

ClearAllBreakpoints == hart' = rv32_clear_all_breakpoints(hart) /\ UNCHANGED mem

Host ==
  \/ Resume
  \/ Reset
  \/ \E irq \in HostIrqs : Trigger(irq)
  \/ \E a \in HostBps : SetBreakpoint(a)
  \/ \E a \in HostBps : ClearBreakpoint(a)
  \/ ClearAllBreakpoints

Next == Cycle \/ Host

Spec == Init /\ [][Next]_hartVars

\* The front ends call rv32_cycle as long as the hart is running.
FairSpec == Spec /\ WF_hartVars(hart.status = "RUNNING" /\ Cycle)

-----------------------------------------------------------------------------
(* Safety *)

\* The state is a hart and a RAM of instruction words.
TypeOK == hart \in Hart /\ mem \in [Ram -> Instr]

\* The level-triggered line of the interrupt controller: mip.MEI is up exactly
\* while a request is pending, across triggers, claims and resets, for every
\* guest that leaves mip alone.  Were it down with a request pending, the
\* request would never be taken; up without one, rv32_claim_irq would fail.
MeipBacked == ("MEI" \in hart.mip) <=> (hart.ip # {})

\* A request leaves interrupt_controller.ip only by being handed to the trap
\* handler, one per cycle: mcause names it, mepc holds the instruction it
\* interrupted.  Only a reset drops requests.
IrqNotLost ==
  [][\A irq \in hart.ip \ hart'.ip :
       \/ hart' = NewHart
       \/ hart'.mcause = 16 + irq /\ hart'.mepc = hart.pc /\ hart'.ip = hart.ip \ {irq}
    ]_hartVars

\* While a handler runs with interrupts masked, its return address is safe:
\* nothing but the guest's own csr instructions (none here) or a reset
\* changes mepc before mret has unmasked them.
ReturnAddressSafe ==
  [][("MIE" \notin hart.mstatus /\ hart' # NewHart) => hart'.mepc = hart.mepc]_hartVars

\* A hart that is not running executes nothing, whoever calls rv32_cycle: RAM
\* and the interrupt controller's mask stay, its status changes only by
\* resuming a paused hart, and if an interrupt moves its pc (rv32_cycle takes
\* interrupts before it looks at the status) the old pc is in mepc.
StoppedExecutesNothing ==
  [][(hart.status # "RUNNING" /\ hart' # NewHart) =>
       /\ mem' = mem
       /\ hart'.ie = hart.ie
       /\ hart'.status # hart.status => hart.status = "PAUSED" /\ hart'.status = "RUNNING"
       /\ hart'.pc # hart.pc => hart'.mepc = hart.pc
    ]_hartVars

\* Where the instruction that stopped the hart is: ebreak has advanced pc.
StoppedAt(h) == IF h.status = "EBREAK" THEN Plus(h.pc, AddrSpace - 1) ELSE h.pc

\* A breakpoint stops the hart before its instruction executes, also when the
\* same cycle has just jumped to it by taking an interrupt: an instruction
\* that ends the run (ebreak, exit, a fault) is never an armed one.
BreakpointComesFirst ==
  [][(hart.status = "RUNNING"
       /\ hart'.status \in {"EBREAK", "HALTED", "INVALID_INSTRUCTION", "INVALID_MEMORY_ACCESS"})
     => StoppedAt(hart') \notin Armed(hart)]_hartVars

\* A sleeping hart is woken by an interrupt and by nothing else: pc is on the
\* instruction after wfi, and that is where the handler will return.
WokenByInterrupt ==
  [][(hart.wfi /\ ~hart'.wfi /\ hart' # NewHart) =>
       hart'.mepc = hart.pc /\ hart.mie \cap hart.mip # {}]_hartVars

\* interrupt_controller.ie is described as "interrupt enabled": a line that is
\* not enabled in it should not interrupt the guest.
MaskedIrqNotTaken ==
  [][\A irq \in hart.ip \ hart'.ip : hart' = NewHart \/ irq \in hart.ie]_hartVars

-----------------------------------------------------------------------------
(* Liveness *)

\* An external interrupt that rv32_cycle would take now.
Deliverable ==
  /\ "MIE" \in hart.mstatus
  /\ hart.mie \cap hart.mip = {"MEI"}
  /\ Claimable(hart)

\* The cycle that wakes the hart executes the handler's first instruction,
\* which may be another wfi.
SleepsInHandler ==
  LET a == Plus(hart.pc, AddrSpace - 1) IN
  "MIE" \notin hart.mstatus /\ (a \in Ram => mem[a] = "wfi")

\* A running hart that sleeps with a deliverable interrupt wakes up and
\* executes, unless the host stops it first.
SleeperWakes ==
  (hart.status = "RUNNING" /\ hart.wfi /\ Deliverable)
    ~> (~hart.wfi \/ SleepsInHandler \/ hart.status # "RUNNING")

\* The highest-priority line, 0, is served whatever else the host raises.
LineZeroServed ==
  (hart.status = "RUNNING" /\ Deliverable /\ 0 \in hart.ip) ~> (0 \notin hart.ip)

-----------------------------------------------------------------------------
(* "IRQ between 0 and 31 only" says the comment on the guard of              *)
(* rv32_trigger_external_interrupt.                                          *)

\* Every line from 0 to 31 that the host raises becomes pending.
TriggerReachesController ==
  \A irq \in Irq : irq \in rv32_trigger_external_interrupt(hart, irq).ip
=============================================================================
