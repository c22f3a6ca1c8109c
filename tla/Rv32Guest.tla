----------------------------- MODULE Rv32Guest ------------------------------
(***************************************************************************)
(* The guest's point of view.  main() of the interrupt examples            *)
(* (src/examples/fantasy-computer/example-interrupts/example.c) sets mtvec,*)
(* mie and mstatus and goes on; its handler ends in mret.  This module     *)
(* starts where that prologue ends, in any program, and says what          *)
(* interrupts mean to main: nothing.                                       *)
(***************************************************************************)
EXTENDS Rv32Core

CONSTANT Handler     \* the address main() writes to mtvec

ASSUME HandlerAssumption == Handler \in Addr

\* After "csrw mtvec", "csrrs mie" and "csrrs mstatus" of main(), with any
\* mask in the interrupt controller.
AfterPrologue ==
  /\ \E mask \in SUBSET HostIrqs, a \in Ram :
       hart = [NewHart EXCEPT !.status = "RUNNING", !.pc = a,
                              !.mtvec = [base |-> Handler, vectored |-> FALSE],
                              !.mie = {"MEI"}, !.mstatus = {"MIE"}, !.ie = mask]
  /\ mem \in [Ram -> GuestInstr]

GuestSpec == AfterPrologue /\ [][Next]_hartVars

\* Between a trap and the mret that ends it the hart runs the handler, and
\* main's pc is in mepc.
InHandler == hart.mstatus = {"MPIE"}

MainPc == IF InHandler THEN hart.mepc ELSE hart.pc

\* Where main may be after executing what is at address a.
Successors(a) ==
  UNION {CASE i \in {"branch", "jump", "mret"} -> Addr
           [] i = "illegal" -> {}
           [] OTHER -> {Plus(a, 1)}
         : i \in IF a \in Ram THEN {mem[a]} ELSE IF a = IcAddr THEN Instr ELSE {}}

\* Interrupts are transparent: whatever the handler does before its mret, and
\* wherever the interrupt, a breakpoint, a wfi or a fault fell, main goes from
\* an instruction to one of its successors.  None is skipped or run twice.
\* The guests here leave mstatus and mepc alone, as the examples' do after
\* their prologue.
MainUndisturbed ==
  [][hart' # NewHart => MainPc' = MainPc \/ MainPc' \in Successors(MainPc)]_hartVars
=============================================================================
