---------------------------- MODULE MCRv32Guest -----------------------------
(***************************************************************************)
(* Values for model checking Rv32Guest.  The handlers of the examples      *)
(* clear mip.MEI themselves before they return; a guest may also drive the *)
(* timer interrupt itself.                                                 *)
(***************************************************************************)
EXTENDS Rv32Guest

HandlerCsr ==
  [[c \in Csr |-> {}] EXCEPT !.mip = {{}, {"MTI"}},
                             !.mie = {{"MEI"}, {"MTI", "MEI"}, {"MTI"}}]
=============================================================================
