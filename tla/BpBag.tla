------------------------------- MODULE BpBag -------------------------------
(***************************************************************************)
(* What the breakpoint table of a hart promises the debugger: a bag of     *)
(* addresses with room for NumSlots of them.  Setting an address adds one  *)
(* copy of it while there is room, clearing an address removes one copy of *)
(* it if there is one, and the call's result says whether it did.  Which   *)
(* of the slots holds which address is left out: see Breakpoints.tla for   *)
(* the table of src/src/rv32.h.                                            *)
(***************************************************************************)
EXTENDS Naturals

CONSTANTS
  NumSlots,     \* how many breakpoints the table can hold (8 in the code)
  AddrSpace     \* how many addresses there are

Addr == 0 .. AddrSpace - 1

VARIABLES
  copies,       \* [Addr -> Nat], how many times an address is set
  room,         \* how many more breakpoints fit
  result        \* what the last call returned

vars == <<copies, room, result>>

Init ==
  /\ copies = [a \in Addr |-> 0]
  /\ room = NumSlots
  /\ result = 0

Set(a) ==
  \/ /\ room > 0
     /\ copies' = [copies EXCEPT ![a] = @ + 1]
     /\ room' = room - 1
     /\ result' = 1
  \/ /\ room = 0
     /\ result' = 0
     /\ UNCHANGED <<copies, room>>

Clear(a) ==
  \/ /\ copies[a] > 0
     /\ copies' = [copies EXCEPT ![a] = @ - 1]
     /\ room' = room + 1
     /\ result' = 1
  \/ /\ copies[a] = 0
     /\ result' = 0
     /\ UNCHANGED <<copies, room>>

ClearAll ==
  /\ copies' = [a \in Addr |-> 0]
  /\ room' = NumSlots
  /\ UNCHANGED result

Next == (\E a \in Addr : Set(a) \/ Clear(a)) \/ ClearAll

Spec == Init /\ [][Next]_vars
=============================================================================
