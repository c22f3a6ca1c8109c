------------------------------ MODULE BpTable ------------------------------
(***************************************************************************)
(* The operations of src/src/rv32.h on the breakpoint fields of the hart   *)
(* structure: bp_mask, one enable bit per slot, and bp[], the addresses.   *)
(* They are written for any record h with the fields bpMask and bp, so     *)
(* that Breakpoints.tla can study the table alone and Rv32Core.tla can     *)
(* apply them to the whole hart.  Addresses are counted in instruction     *)
(* words.                                                                  *)
(***************************************************************************)
EXTENDS Naturals

CONSTANTS
  NumSlots,     \* the length of bp[]: 8 in the code
  AddrSpace     \* how many addresses there are: pc wraps modulo AddrSpace

ASSUME NumSlotsAssumption == NumSlots \in Nat \ {0}
ASSUME AddrSpaceAssumption == AddrSpace \in Nat \ {0}

Slot == 0 .. NumSlots - 1
Addr == 0 .. AddrSpace - 1

NoBreakpoints == [s \in Slot |-> 0]

\* The slots in use that hold address a, and the slots not in use.
SlotsAt(h, a) == {s \in h.bpMask : h.bp[s] = a}
FreeSlots(h) == Slot \ h.bpMask

\* The addresses rv32_cycle stops at.
Armed(h) == {h.bp[s] : s \in h.bpMask}

\* The loops of the code run from slot 0 up and stop at the first match: the
\* slot a loop finds in S, as a set of at most one element.
First(S) == {s \in S : \A t \in S : s <= t}

\* Each call is the set of its possible outcomes (exactly one): the hart it
\* leaves and the value it returns.
rv32_set_breakpoint(h, a) ==
  IF FreeSlots(h) = {}
  THEN {<<h, 0>>}
  ELSE {<<[h EXCEPT !.bpMask = @ \cup {s}, !.bp[s] = a], 1>> : s \in First(FreeSlots(h))}

\* (mutants) the address is left behind in the slot; every copy is cleared
ClearLeavesAddress(h, a) ==
  IF SlotsAt(h, a) = {}
  THEN {<<h, 0>>}
  ELSE {<<[h EXCEPT !.bpMask = @ \ {s}], 1>> : s \in First(SlotsAt(h, a))}

ClearEveryCopy(h, a) ==
  IF SlotsAt(h, a) = {}
  THEN {<<h, 0>>}
  ELSE {<<[h EXCEPT !.bpMask = @ \ SlotsAt(h, a),
                    !.bp = [s \in Slot |-> IF s \in SlotsAt(h, a) THEN 0 ELSE @[s]]], 1>>}

rv32_clear_breakpoint(h, a) ==
  IF SlotsAt(h, a) = {}
  THEN {<<h, 0>>}
  ELSE {<<[h EXCEPT !.bpMask = @ \ {s}, !.bp[s] = 0], 1>> : s \in First(SlotsAt(h, a))}

rv32_clear_all_breakpoints(h) ==
  [h EXCEPT !.bpMask = {}, !.bp = NoBreakpoints]
=============================================================================
