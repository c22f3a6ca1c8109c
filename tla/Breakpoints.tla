---------------------------- MODULE Breakpoints ----------------------------
(***************************************************************************)
(* The breakpoint table of src/src/rv32.h on its own, driven by any        *)
(* sequence of calls of its three functions, and the claim that it is a    *)
(* bounded bag of addresses (BpBag.tla).                                   *)
(***************************************************************************)
EXTENDS BpTable, FiniteSets

VARIABLES
  table,        \* the fields bp_mask and bp[] of the hart
  result        \* the value the last call returned

tableVars == <<table, result>>

TableInit ==
  /\ table = [bpMask |-> {}, bp |-> NoBreakpoints]
  /\ result = 0

SetBreakpoint(a) == \E o \in rv32_set_breakpoint(table, a) : table' = o[1] /\ result' = o[2]

ClearBreakpoint(a) == \E o \in rv32_clear_breakpoint(table, a) : table' = o[1] /\ result' = o[2]

ClearAllBreakpoints == table' = rv32_clear_all_breakpoints(table) /\ UNCHANGED result

TableNext ==
  \/ \E a \in Addr : SetBreakpoint(a)
  \/ \E a \in Addr : ClearBreakpoint(a)
  \/ ClearAllBreakpoints

TableSpec == TableInit /\ [][TableNext]_tableVars

-----------------------------------------------------------------------------

\* The table is a mask over the slots and an address for each slot.
TableOK ==
  /\ table \in [bpMask : SUBSET Slot, bp : [Slot -> Addr]]
  /\ result \in {0, 1}

\* A slot out of use holds address 0, so that a table emptied one address at
\* a time is the table rv32_clear_all_breakpoints leaves (and the one that
\* rv32_new zeroes): no stale address survives in a slot.
UnusedSlotsAreZero == \A s \in Slot \ table.bpMask : table.bp[s] = 0

\* Seen from outside, the table is a bag of addresses with room for NumSlots:
\* no call loses, duplicates or resurrects another address's breakpoint,
\* whatever slots earlier calls have freed, and the result tells the truth.
Bag == INSTANCE BpBag WITH
         copies <- [a \in Addr |-> Cardinality(SlotsAt(table, a))],
         room <- Cardinality(FreeSlots(table))

BagSpec == Bag!Spec
=============================================================================
