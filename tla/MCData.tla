------------------------------- MODULE MCData --------------------------------
(***************************************************************************)
(* The cases for model checking DataLaws: all operands of four bits, all   *)
(* encodings that matter, every immediate with at most two bits unlike its *)
(* sign, all accesses to small memories, all short texts; and beside them  *)
(* the breakpoint table under any sequence of calls.                       *)
(***************************************************************************)
EXTENDS DataLaws, Breakpoints

Operands == [kind : {"operands"}, a : Word, b : Word]
Immediates == [kind : {"immediate"}, a : Word, imm : Imm]
Encodings == [kind : {"encoding"}, f7 : {0, 1, 2, 31, 32, 33, 127}, f3 : 0 .. 7]

\* Bit 0 of B and J offsets, and bits 0 to 11 of U immediates, are 0.
SignedSets(sign, low) ==
  UNION {{bits, low .. 31 \ bits} :
           bits \in {{x, y} : x, y \in low .. sign - 1} \cup {{}} \cup {low .. sign - 1}}
Offsets ==
  [kind : {"offset"}, format : {"I", "S"}, imm : SignedSets(11, 0)]
    \cup [kind : {"offset"}, format : {"B"}, imm : SignedSets(12, 1)]
    \cup [kind : {"offset"}, format : {"J"}, imm : SignedSets(20, 1)]
    \cup [kind : {"offset"}, format : {"U"}, imm : SignedSets(31, 12)]

Accesses == [kind : {"access"}, addr : 0 .. 14, n : {1, 2, 4}, size : 0 .. 12]

\* Up to RAM's end and beyond, and lengths that wrap.
Ranges == [kind : {"range"}, start : {0, 1, 17, 31, 38, 39, 40}, length : 0 .. 42 \cup {88, 89, 112, 127}]

\* Short texts, and texts around the size of the buffer, escapes in front.
Characters == {Dollar, Hash, Brace, 0, 3, 65}
LongText(n, escapes) == [i \in 1 .. n |-> IF i <= escapes THEN Brace ELSE 65]
Texts ==
  [kind : {"text"},
   text : UNION {[1 .. n -> Characters] : n \in 0 .. 4} \cup {LongText(n, e) : n \in 28 .. 65, e \in {0, 1, 30}}]

\* One or two one bits anywhere, every byte, and the example of the source.
Bits == 0 .. 31
Example32 == {28, 25, 21, 20, 18, 15, 13, 11, 9, 8, 7, 6, 3, 2, 0}
Words == [kind : {"word"}, bits : {{x, y} : x, y \in Bits} \cup SUBSET ByteBits \cup {Example32}]

Fronts == [kind : {"front"}, front : FrontEnds]
Calls == [kind : {"calls"}, first : Stubs, second : Stubs]
Colours == LET levels == {0, 1, 7, 127, 128, 200, 255} IN [kind : {"colour"}, r : levels, g : levels, b : levels]

Segments == [flags : {4, 5, 6, 7}, bytes : {<<>>, <<1>>, <<2, 3>>}]
Files == [kind : {"elf"}, segments : UNION {[1 .. n -> Segments] : n \in 0 .. 2}]

AllCases ==
  Operands \cup Immediates \cup Encodings \cup Offsets \cup Accesses \cup Ranges \cup Texts \cup Words
    \cup Fronts \cup Calls \cup Colours \cup Files \cup [kind : {"table"}]

\* The word of the example, and a hundred bytes that arrive.
ExampleCases == [kind : {"word"}, bits : SUBSET ByteBits \cup {Example32}]

-----------------------------------------------------------------------------
(* A case is looked at and left alone, but for the one of the table. *)

MCInit == Init /\ TableInit

MCNext ==
  /\ Next
  /\ \/ case.kind = "table" /\ TableNext
     \/ case.kind # "table" /\ UNCHANGED <<table, result>>

MCSpec == MCInit /\ [][MCNext]_<<case, table, result>>
=============================================================================
