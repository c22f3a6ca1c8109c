------------------------- MODULE Breakpoints_proofs -------------------------
(***************************************************************************)
(* For every number of slots and of addresses, the breakpoint table keeps  *)
(* its type, leaves no address in a slot out of use, and implements the    *)
(* bounded bag of BpBag.tla.                                               *)
(***************************************************************************)
EXTENDS Breakpoints, FiniteSetTheorems, TLAPS

Inv == TableOK /\ UnusedSlotsAreZero

LEMMA FirstIsMember == ASSUME NEW S, NEW s \in First(S) PROVE s \in S
  BY DEF First

(* What the outcomes of the two calls look like. *)

LEMMA SetOutcome ==
  ASSUME NEW a \in Addr, NEW o \in rv32_set_breakpoint(table, a), TableOK
  PROVE  \/ FreeSlots(table) = {} /\ o = <<table, 0>>
         \/ \E s \in FreeSlots(table) :
              o = <<[table EXCEPT !.bpMask = @ \cup {s}, !.bp[s] = a], 1>>
  BY FirstIsMember DEF rv32_set_breakpoint

LEMMA ClearOutcome ==
  ASSUME NEW a \in Addr, NEW o \in rv32_clear_breakpoint(table, a), TableOK
  PROVE  \/ SlotsAt(table, a) = {} /\ o = <<table, 0>>
         \/ \E s \in SlotsAt(table, a) :
              o = <<[table EXCEPT !.bpMask = @ \ {s}, !.bp[s] = 0], 1>>
  BY FirstIsMember DEF rv32_clear_breakpoint

LEMMA ZeroIsAddr == 0 \in Addr
  BY AddrSpaceAssumption DEF Addr

LEMMA InitInv == TableInit => Inv
  BY ZeroIsAddr DEF TableInit, Inv, TableOK, UnusedSlotsAreZero, NoBreakpoints

LEMMA NextInv == Inv /\ [TableNext]_tableVars => Inv'
<1> SUFFICES ASSUME Inv, [TableNext]_tableVars PROVE Inv'
  OBVIOUS
<1> USE DEF Inv, TableOK, UnusedSlotsAreZero
<1>1. ASSUME NEW a \in Addr, SetBreakpoint(a) PROVE Inv'
  <2>1. PICK o \in rv32_set_breakpoint(table, a) : table' = o[1] /\ result' = o[2]
    BY <1>1 DEF SetBreakpoint
  <2>2. CASE o = <<table, 0>>
    BY <2>1, <2>2
  <2>3. ASSUME NEW s \in FreeSlots(table),
               o = <<[table EXCEPT !.bpMask = @ \cup {s}, !.bp[s] = a], 1>>
        PROVE  Inv'
    BY <2>1, <2>3 DEF FreeSlots
  <2> QED
    BY <2>2, <2>3, SetOutcome
<1>2. ASSUME NEW a \in Addr, ClearBreakpoint(a) PROVE Inv'
  <2>1. PICK o \in rv32_clear_breakpoint(table, a) : table' = o[1] /\ result' = o[2]
    BY <1>2 DEF ClearBreakpoint
  <2>2. CASE o = <<table, 0>>
    BY <2>1, <2>2
  <2>3. ASSUME NEW s \in SlotsAt(table, a),
               o = <<[table EXCEPT !.bpMask = @ \ {s}, !.bp[s] = 0], 1>>
        PROVE  Inv'
    BY <2>1, <2>3, ZeroIsAddr DEF SlotsAt
  <2> QED
    BY <2>2, <2>3, ClearOutcome
<1>3. CASE ClearAllBreakpoints
  BY <1>3, ZeroIsAddr DEF ClearAllBreakpoints, rv32_clear_all_breakpoints, NoBreakpoints
<1>4. CASE UNCHANGED tableVars
  BY <1>4 DEF tableVars
<1> QED
  BY <1>1, <1>2, <1>3, <1>4 DEF TableNext

\* The table keeps its type and no slot out of use keeps an address, after any
\* calls of the three functions of rv32.h.
THEOREM TableInvariant == TableSpec => [](TableOK /\ UnusedSlotsAreZero)
  BY InitInv, NextInv, PTL DEF TableSpec, Inv

-----------------------------------------------------------------------------
(* Refinement of the bag.  The abstract variables count slots. *)

Copies(h) == [b \in Addr |-> Cardinality(SlotsAt(h, b))]
Room(h) == Cardinality(FreeSlots(h))

LEMMA SlotIsFinite == IsFiniteSet(Slot) /\ Cardinality(Slot) = NumSlots
  BY NumSlotsAssumption, FS_Interval DEF Slot

\* The slots counted are finite sets, empty exactly when the count is 0.
LEMMA CountsAreFinite ==
  ASSUME TableOK
  PROVE  /\ IsFiniteSet(FreeSlots(table)) /\ Room(table) \in Nat
         /\ Room(table) = 0 <=> FreeSlots(table) = {}
         /\ \A b \in Addr :
              /\ IsFiniteSet(SlotsAt(table, b)) /\ Cardinality(SlotsAt(table, b)) \in Nat
              /\ Cardinality(SlotsAt(table, b)) = 0 <=> SlotsAt(table, b) = {}
<1>1. FreeSlots(table) \subseteq Slot /\ \A b \in Addr : SlotsAt(table, b) \subseteq Slot
  BY DEF TableOK, FreeSlots, SlotsAt
<1>2. IsFiniteSet(FreeSlots(table)) /\ \A b \in Addr : IsFiniteSet(SlotsAt(table, b))
  BY <1>1, SlotIsFinite, FS_Subset
<1> QED
  BY <1>2, FS_CardinalityType, FS_EmptySet DEF Room

LEMMA RemoveOne ==
  ASSUME NEW S, NEW x \in S, IsFiniteSet(S)
  PROVE  Cardinality(S \ {x}) = Cardinality(S) - 1
  BY FS_RemoveElement, Zenon

\* An empty table has no copy of any address and room in every slot.
LEMMA EmptyCounts ==
  ASSUME NEW h, h.bpMask = {}
  PROVE  Copies(h) = [b \in Addr |-> 0] /\ Room(h) = NumSlots
<1>1. FreeSlots(h) = Slot /\ \A b : SlotsAt(h, b) = {}
  BY DEF FreeSlots, SlotsAt
<1> QED
  BY <1>1, SlotIsFinite, FS_EmptySet DEF Copies, Room

LEMMA InitRefines == TableInit => Bag!Init
  BY EmptyCounts, SMT DEF TableInit, Bag!Init, Copies, Room, Bag!Addr, Addr

LEMMA SetRefines ==
  ASSUME Inv, NEW a \in Addr, SetBreakpoint(a) PROVE Bag!Set(a)
<1> USE DEF Inv, TableOK
<1>1. PICK o \in rv32_set_breakpoint(table, a) : table' = o[1] /\ result' = o[2]
  BY DEF SetBreakpoint
<1>2. CASE FreeSlots(table) = {} /\ o = <<table, 0>>
  <2>1. table' = table /\ result' = 0
    BY <1>1, <1>2
  <2>2. Room(table) = 0
    BY <1>2, CountsAreFinite
  <2>3. SlotsAt(table, a)' = SlotsAt(table, a) /\ \A b \in Addr : SlotsAt(table', b) = SlotsAt(table, b)
    BY <2>1 DEF SlotsAt
  <2> QED
    BY <2>1, <2>2, <2>3 DEF Bag!Set, Room, Bag!Addr, Addr
<1>3. ASSUME NEW s \in FreeSlots(table),
             o = <<[table EXCEPT !.bpMask = @ \cup {s}, !.bp[s] = a], 1>>
      PROVE  Bag!Set(a)
  <2>1. /\ table'.bpMask = table.bpMask \cup {s}
        /\ table'.bp = [table.bp EXCEPT ![s] = a]
        /\ result' = 1 /\ s \in Slot /\ s \notin table.bpMask
    BY <1>1, <1>3 DEF FreeSlots
  <2>2. /\ SlotsAt(table', a) = SlotsAt(table, a) \cup {s}
        /\ s \notin SlotsAt(table, a)
        /\ \A b \in Addr \ {a} : SlotsAt(table', b) = SlotsAt(table, b)
        /\ FreeSlots(table') = FreeSlots(table) \ {s}
    BY <2>1 DEF SlotsAt, FreeSlots
  <2>3. Cardinality(SlotsAt(table', a)) = Cardinality(SlotsAt(table, a)) + 1
    BY <2>2, CountsAreFinite, FS_AddElement
  <2>4. Room(table') = Room(table) - 1 /\ Room(table) > 0
    <3>1. IsFiniteSet(FreeSlots(table)) /\ Room(table) \in Nat /\ Room(table) # 0
      BY <1>3, CountsAreFinite
    <3>2. Room(table') = Room(table) - 1
      BY <3>1, <2>2, <1>3, RemoveOne, Zenon DEF Room
    <3> QED
      BY <3>1, <3>2
  <2>5. Copies(table') = [Copies(table) EXCEPT ![a] = @ + 1]
    BY <2>2, <2>3 DEF Copies
  <2> QED
    BY <2>1, <2>4, <2>5 DEF Bag!Set, Copies, Room, Bag!Addr, Addr
<1> QED
  BY <1>2, <1>3, SetOutcome

LEMMA ClearRefines ==
  ASSUME Inv, NEW a \in Addr, ClearBreakpoint(a) PROVE Bag!Clear(a)
<1> USE DEF Inv, TableOK
<1>1. PICK o \in rv32_clear_breakpoint(table, a) : table' = o[1] /\ result' = o[2]
  BY DEF ClearBreakpoint
<1>2. CASE SlotsAt(table, a) = {} /\ o = <<table, 0>>
  <2>1. table' = table /\ result' = 0
    BY <1>1, <1>2
  <2>2. Cardinality(SlotsAt(table, a)) = 0
    BY <1>2, CountsAreFinite
  <2> QED
    BY <2>1, <2>2 DEF Bag!Clear, Bag!Addr, Addr
<1>3. ASSUME NEW s \in SlotsAt(table, a),
             o = <<[table EXCEPT !.bpMask = @ \ {s}, !.bp[s] = 0], 1>>
      PROVE  Bag!Clear(a)
  <2>1. /\ table'.bpMask = table.bpMask \ {s}
        /\ table'.bp = [table.bp EXCEPT ![s] = 0]
        /\ result' = 1 /\ s \in Slot /\ s \in table.bpMask /\ table.bp[s] = a
    BY <1>1, <1>3 DEF SlotsAt
  <2>2. /\ SlotsAt(table', a) = SlotsAt(table, a) \ {s}
        /\ \A b \in Addr \ {a} : SlotsAt(table', b) = SlotsAt(table, b)
        /\ FreeSlots(table') = FreeSlots(table) \cup {s}
        /\ s \notin FreeSlots(table)
    BY <2>1 DEF SlotsAt, FreeSlots
  <2>3. /\ Cardinality(SlotsAt(table', a)) = Cardinality(SlotsAt(table, a)) - 1
        /\ Cardinality(SlotsAt(table, a)) > 0
    <3>1. /\ IsFiniteSet(SlotsAt(table, a)) /\ Cardinality(SlotsAt(table, a)) \in Nat
          /\ Cardinality(SlotsAt(table, a)) # 0
      BY <1>3, CountsAreFinite
    <3>2. Cardinality(SlotsAt(table', a)) = Cardinality(SlotsAt(table, a)) - 1
      BY <3>1, <2>2, <1>3, RemoveOne, Zenon
    <3> QED
      BY <3>1, <3>2
  <2>4. Room(table') = Room(table) + 1
    BY <2>2, CountsAreFinite, FS_AddElement, ZenonT(40) DEF Room
  <2>5. Copies(table') = [Copies(table) EXCEPT ![a] = @ - 1]
    BY <2>2, <2>3 DEF Copies
  <2> QED
    BY <2>1, <2>3, <2>4, <2>5 DEF Bag!Clear, Copies, Room, Bag!Addr, Addr
<1> QED
  BY <1>2, <1>3, ClearOutcome

LEMMA ClearAllRefines == ASSUME TableOK, ClearAllBreakpoints PROVE Bag!ClearAll
<1>1. table'.bpMask = {} /\ result' = result
  BY DEF ClearAllBreakpoints, rv32_clear_all_breakpoints, TableOK
<1>2. Copies(table') = [b \in Addr |-> 0] /\ Room(table') = NumSlots
  BY <1>1, EmptyCounts
<1> QED
  BY <1>1, <1>2 DEF Bag!ClearAll, Copies, Room, Bag!Addr, Addr

LEMMA NextRefines == Inv /\ [TableNext]_tableVars => [Bag!Next]_(Bag!vars)
<1> SUFFICES ASSUME Inv, [TableNext]_tableVars PROVE [Bag!Next]_(Bag!vars)
  OBVIOUS
<1>1. CASE \E a \in Addr : SetBreakpoint(a)
  BY <1>1, SetRefines DEF Bag!Next, Bag!Addr, Addr
<1>2. CASE \E a \in Addr : ClearBreakpoint(a)
  BY <1>2, ClearRefines DEF Bag!Next, Bag!Addr, Addr
<1>3. CASE ClearAllBreakpoints
  BY <1>3, ClearAllRefines DEF Bag!Next, Inv
<1>4. CASE UNCHANGED tableVars
  BY <1>4 DEF tableVars, Bag!vars, SlotsAt, FreeSlots
<1> QED
  BY <1>1, <1>2, <1>3, <1>4 DEF TableNext

\* Whatever the sequence of calls, the table of rv32.h is the bounded bag:
\* each call adds or removes one copy of its address and no other, and says
\* truly whether it did.
THEOREM TableIsBag == TableSpec => BagSpec
<1>1. TableSpec => []Inv
  BY InitInv, NextInv, PTL DEF TableSpec
<1> QED
  BY <1>1, InitRefines, NextRefines, PTL DEF TableSpec, BagSpec, Bag!Spec
=============================================================================
