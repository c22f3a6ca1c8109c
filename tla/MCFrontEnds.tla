---------------------------- MODULE MCFrontEnds -----------------------------
(***************************************************************************)
(* Values for model checking FrontEnds: all programs, and guests that set  *)
(* up interrupts of two kinds and sleep.                                   *)
(***************************************************************************)
EXTENDS FrontEnds

AllPrograms == {"embedding", "newlib", "fantasy", "pio", "ino", "stub", "loadelf"}

SleeperCsr ==
  [[c \in Csr |-> {}] EXCEPT !.mstatus = {{"MIE"}},
                             !.mie = {{"MEI"}, {"MSI", "MEI"}},
                             !.mip = {{"MSI"}, {}}]
AllLines == {{0, 1}}
=============================================================================
