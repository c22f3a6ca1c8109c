---------------------------- MODULE MCGdbSession ----------------------------
(***************************************************************************)
(* Values for model checking GdbSession: the commands of each run, and a   *)
(* guest without interrupts.                                               *)
(***************************************************************************)
EXTENDS GdbSession

At(op, a) == [op |-> op, addr |-> a]

RunCommands == {At("c", 0), At("g", 0), At("D", 0)}
BreakpointCommands == {At("c", 0)} \cup {At(op, a) : op \in {"Z0", "z0"}, a \in {0, 1}}
AllButBreakpoints ==
  {At(op, 1) : op \in {"query", "?", "G", "P low", "P high", "P pc", "P beyond", "m", "M", "k", "other"}}
    \cup RunCommands \cup {At("M", 0)}

NoCsr == [c \in Csr |-> {}]

\* Addresses below 2 are small enough for rsp_hex_to_u32 to get them right.
Garbled == [a \in Addr |-> IF a < 2 THEN a ELSE 0]
=============================================================================
