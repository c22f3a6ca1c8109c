---------------------------- MODULE Rv32Encoding ----------------------------
(***************************************************************************)
(* The fields of an instruction word as the macros of src/src/rv32.h cut   *)
(* them out (and, character for character, those of the newlib fork).  A   *)
(* 32-bit word is the set of its one bits, so the code's widths are used   *)
(* as they are; bit 0 of a number is element 0 of its set.  The encodings  *)
(* themselves, external, are the instruction set's.                        *)
(***************************************************************************)
EXTENDS Integers

\* (instr >> lo) & mask, moved to bit at.
Field(instr, lo, hi, at) == {b - lo + at : b \in instr \cap (lo .. hi)}

IMM_I(instr) == Field(instr, 20, 31, 0)
IMM_S(instr) == Field(instr, 7, 11, 0) \cup Field(instr, 25, 31, 5)

\* (mutant) bits 11 and 12 of the offset exchanged
ImmBSwapped(instr) ==
  Field(instr, 8, 11, 1) \cup Field(instr, 25, 30, 5) \cup Field(instr, 7, 7, 12) \cup Field(instr, 31, 31, 11)

IMM_B(instr) ==
  Field(instr, 8, 11, 1) \cup Field(instr, 25, 30, 5) \cup Field(instr, 7, 7, 11) \cup Field(instr, 31, 31, 12)
IMM_U(instr) == Field(instr, 12, 31, 0)
IMM_J(instr) ==
  Field(instr, 21, 30, 1) \cup Field(instr, 20, 20, 11) \cup Field(instr, 12, 19, 12) \cup Field(instr, 31, 31, 20)

\* SEXT(x, n): bit n - 1 is copied upwards.
SextBits(x, n) == IF n - 1 \in x THEN x \cup n .. 31 ELSE x

\* The sign-extended immediates.  IMM_J has 21 bits and is extended from its
\* bit 19.
Offset(format, instr) ==
  CASE format = "I" -> SextBits(IMM_I(instr), 12)
    [] format = "S" -> SextBits(IMM_S(instr), 12)
    [] format = "B" -> SextBits(IMM_B(instr), 13)
    [] format = "J" -> SextBits(IMM_J(instr), 20)

\* SEXT_IMM_U << 12: shifted out, whatever the extension has set above bit 19.
UpperImmediate(instr) == {b + 12 : b \in {x \in SextBits(IMM_U(instr), 20) : x < 20}}

-----------------------------------------------------------------------------
(* The instruction set's encodings of an immediate *)

Encode(format, imm) ==
  CASE format = "I" -> Field(imm, 0, 11, 20)
    [] format = "S" -> Field(imm, 0, 4, 7) \cup Field(imm, 5, 11, 25)
    [] format = "B" -> Field(imm, 1, 4, 8) \cup Field(imm, 5, 10, 25) \cup Field(imm, 11, 11, 7) \cup Field(imm, 12, 12, 31)
    [] format = "J" -> Field(imm, 1, 10, 21) \cup Field(imm, 11, 11, 20) \cup Field(imm, 12, 19, 12) \cup Field(imm, 20, 20, 31)
    [] format = "U" -> Field(imm, 12, 31, 12)

\* The bits of the immediate a format can carry, its sign bit the last of them.
SignBit == [format \in {"I", "S", "B", "J"} |-> CASE format = "B" -> 12 [] format = "J" -> 20 [] OTHER -> 11]
=============================================================================
