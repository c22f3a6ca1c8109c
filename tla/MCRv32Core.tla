----------------------------- MODULE MCRv32Core -----------------------------
(***************************************************************************)
(* Values for model checking Rv32Core: what the guests of the different    *)
(* runs may write to the csrs and to the interrupt controller.             *)
(***************************************************************************)
EXTENDS Rv32Core

NoCsr == [c \in Csr |-> {}]

\* A guest that sets up interrupts as the examples do, with either kind of
\* trap vector, and may mask and unmask them again.
InterruptCsr ==
  [NoCsr EXCEPT !.mstatus = {{}, {"MIE"}},
                !.mie = {{"MEI"}},
                !.mtvec = {[base |-> 0, vectored |-> TRUE], [base |-> 1, vectored |-> FALSE]}]

OneMaskPair == {{0}, {0, 1}}
SecondLine == {{1}}
=============================================================================
