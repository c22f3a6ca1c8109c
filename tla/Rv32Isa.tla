------------------------------- MODULE Rv32Isa -------------------------------
(***************************************************************************)
(* What the instructions of src/src/rv32.h compute: the arithmetic of      *)
(* rv32_cycle on register values, which encodings it takes for which       *)
(* instruction, and the conditions of its branches.  Nothing here has a    *)
(* state: Rv32Machine.tla applies these operators to registers and memory, *)
(* MCData.tla compares them with the instruction set's definition.         *)
(*                                                                         *)
(* A register holds W bits.  The code's W is 32; every operator is written *)
(* for any power of two, so that all pairs of operands can be checked for  *)
(* a small one.                                                            *)
(***************************************************************************)
EXTENDS Integers, FiniteSetsExt

CONSTANTS
  W,            \* the bits of a register: 32
  ImmBits       \* the bits of an I immediate: 12

ASSUME WidthAssumption == W \in Nat \ {0} /\ ImmBits \in 1 .. W

\* What powers of two are, named for the proofs: the provers have none.
ASSUME PowerAssumption ==
  2^0 = 1 /\ \A k \in 0 .. W - 1 : 2^k \in Nat /\ 2^(k + 1) = 2 * 2^k

Word == 0 .. 2^W - 1
Imm == 0 .. 2^ImmBits - 1

\* uint32_t keeps the low bits; a cast to int32_t reads them as a signed number.
Wrap(n) == n % 2^W
Signed(a) == IF a < 2^(W - 1) THEN a ELSE a - 2^W
Ones(a) == {i \in 0 .. W - 1 : (a \div 2^i) % 2 = 1}
Value(S) == MapThenSumSet(LAMBDA i : 2^i, S)

\* (mutant) the sign is not extended
ZeroExtend(x, n) == x

\* SEXT(x, n): the bits from n - 1 up become copies of bit n - 1.
SEXT(x, n) == IF (x \div 2^(n - 1)) % 2 = 1 THEN Value(Ones(x) \cup n .. W - 1) ELSE x
SextImm(imm) == SEXT(imm, ImmBits)

\* C division truncates towards zero.
Magnitude(n) == IF n < 0 THEN -n ELSE n
Quotient(n, d) ==
  LET q == Magnitude(n) \div Magnitude(d) IN IF (n < 0) = (d < 0) THEN q ELSE -q
Remainder(n, d) == n - d * Quotient(n, d)

Xor(a, b) == Value((Ones(a) \cup Ones(b)) \ (Ones(a) \cap Ones(b)))
Or(a, b) == Value(Ones(a) \cup Ones(b))
And(a, b) == Value(Ones(a) \cap Ones(b))
ShiftLeft(a, s) == Wrap(a * 2^s)
ShiftRight(a, s) == a \div 2^s
ShiftArith(a, s) == Wrap(Signed(a) \div 2^s)
Flag(cond) == IF cond THEN 1 ELSE 0

-----------------------------------------------------------------------------
(* Opcode 0x33: two registers *)

MulOps == <<"mul", "mulh", "mulhsu", "mulhu", "div", "divu", "rem", "remu">>

\* The smallest signed number divided by -1 overflows.
Overflows(a, b) == a = 2^(W - 1) /\ Signed(b) = -1

\* (mutant) rem takes the sign of the divisor, and neither looks for overflow
MulDivFloor(op, a, b) ==
  CASE op = "div" -> IF b = 0 THEN 2^W - 1 ELSE Wrap(Quotient(Signed(a), Signed(b)))
    [] op = "divu" -> IF b = 0 THEN 2^W - 1 ELSE a \div b
    [] op = "rem" -> IF b = 0 THEN a ELSE Wrap(a % Magnitude(Signed(b)))
    [] op = "remu" -> IF b = 0 THEN a ELSE a % b
    [] op = "mul" -> Wrap(a * b)
    [] op = "mulh" -> Wrap((Signed(a) * Signed(b)) \div 2^W)
    [] op = "mulhsu" -> Wrap((Signed(a) * b) \div 2^W)
    [] op = "mulhu" -> Wrap((a * b) \div 2^W)

\* The multiply extension.  mul multiplies in int64_t, where two large numbers
\* overflow; the low word is the same in every build.
MulDiv(op, a, b) ==
  CASE op = "mul" -> Wrap(a * b)
    [] op = "mulh" -> Wrap((Signed(a) * Signed(b)) \div 2^W)
    [] op = "mulhsu" -> Wrap((Signed(a) * b) \div 2^W)
    [] op = "mulhu" -> Wrap((a * b) \div 2^W)
    [] op = "div" -> IF b = 0 THEN 2^W - 1
                     ELSE IF Overflows(a, b) THEN a ELSE Wrap(Quotient(Signed(a), Signed(b)))
    [] op = "divu" -> IF b = 0 THEN 2^W - 1 ELSE a \div b
    [] op = "rem" -> IF b = 0 THEN a
                     ELSE IF Overflows(a, b) THEN 0 ELSE Wrap(Remainder(Signed(a), Signed(b)))
    [] op = "remu" -> IF b = 0 THEN a ELSE a % b

\* (mutant) an arithmetic shift that does not copy the sign; slt compares
\* unsigned
RegOpLogical(op, a, b) ==
  CASE op \in {"srl", "sra"} -> ShiftRight(a, b % W)
    [] op = "sll" -> ShiftLeft(a, b % W)
    [] op \in {"slt", "sltu"} -> Flag(a < b)
    [] OTHER -> a

\* Shifts look at the low bits of the second operand (& 0x1f).
RegOp(op, a, b) ==
  CASE op = "add" -> Wrap(a + b)
    [] op = "sub" -> Wrap(a - b)
    [] op = "xor" -> Xor(a, b)
    [] op = "or" -> Or(a, b)
    [] op = "and" -> And(a, b)
    [] op = "sll" -> ShiftLeft(a, b % W)
    [] op = "srl" -> ShiftRight(a, b % W)
    [] op = "sra" -> ShiftArith(a, b % W)
    [] op = "slt" -> Flag(Signed(a) < Signed(b))
    [] op = "sltu" -> Flag(a < b)

-----------------------------------------------------------------------------
(* Opcode 0x13: a register and an immediate *)

\* sltiu compares with the immediate as it is, not sign-extended.
ImmOp(op, a, imm) ==
  CASE op = "addi" -> Wrap(a + SextImm(imm))
    [] op = "xori" -> Xor(a, SextImm(imm))
    [] op = "ori" -> Or(a, SextImm(imm))
    [] op = "andi" -> And(a, SextImm(imm))
    [] op = "slli" -> ShiftLeft(a, imm % W)
    [] op = "srli" -> ShiftRight(a, imm % W)
    [] op = "srai" -> ShiftArith(a, imm % W)
    [] op = "slti" -> Flag(Signed(a) < Signed(SextImm(imm)))
    [] op = "sltiu" -> Flag(a < imm)

-----------------------------------------------------------------------------
(* Opcode 0x63: branches *)

Taken(op, a, b) ==
  CASE op = "beq" -> a = b
    [] op = "bne" -> a # b
    [] op = "blt" -> Signed(a) < Signed(b)
    [] op = "bge" -> Signed(a) >= Signed(b)
    [] op = "bltu" -> a < b
    [] op = "bgeu" -> a >= b

-----------------------------------------------------------------------------
(* Decoding *)

RegNames == [f3 \in 0 .. 7 |-> <<"add", "sll", "slt", "sltu", "xor", "srl", "or", "and">>[f3 + 1]]
ImmNames == [f3 \in 0 .. 7 |-> <<"addi", "slli", "slti", "sltiu", "xori", "srli", "ori", "andi">>[f3 + 1]]

\* (mutant) funct7 is not looked at
Decode33Loose(f7, f3) == IF f7 = 1 THEN MulOps[f3 + 1] ELSE RegNames[f3]

\* funct7 and funct3 of opcode 0x33.  funct7 is looked at only for 1, and where
\* funct3 names two instructions.
Decode33(f7, f3) ==
  IF f7 = 1 THEN MulOps[f3 + 1]
  ELSE CASE f3 = 0 -> (CASE f7 = 0 -> "add" [] f7 = 32 -> "sub" [] OTHER -> "illegal")
         [] f3 = 5 -> (CASE f7 = 0 -> "srl" [] f7 = 32 -> "sra" [] OTHER -> "illegal")
         [] OTHER -> RegNames[f3]

\* Of opcode 0x13; slli does not look at funct7.
Decode13(f7, f3) ==
  IF f3 = 5 THEN (CASE f7 = 0 -> "srli" [] f7 = 32 -> "srai" [] OTHER -> "illegal")
  ELSE ImmNames[f3]
=============================================================================
