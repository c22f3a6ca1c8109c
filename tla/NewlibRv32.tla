----------------------------- MODULE NewlibRv32 ------------------------------
(***************************************************************************)
(* The virtual machine of src/examples/c-newlib-nano/rv32.c, an older fork *)
(* of the header's with its own copy of the instructions, and the loop of  *)
(* its emulator.c around it.  It has no interrupts, no csrs, no mmio and no  *)
(* status: rv32_cycle returns whether it succeeded.                        *)
(*                                                                         *)
(* Where the fork's text is the header's, the definition here is the       *)
(* header's operator; the others are the fork's own.                       *)
(***************************************************************************)
EXTENDS Rv32Machine

Result == {"OK", "INVALID_OPCODE", "INVALID_INSTRUCTION", "INVALID_MEMORY_ACCESS"}
Fork == [r : [Reg -> Word], pc : Word, ram : [0 .. MemSize + ForkSpare - 1 -> Byte], result : Result]

ForkFail(f, result) == [f EXCEPT !.result = result]

ForkMulDiv(op, a, b) == MulDiv(op, a, b)

\* The shift count is not masked.  C leaves a count of W or more open: the
\* processor's shift may look at the low bits of the count, or shift
\* everything out.
ForkShift(op, a, s) ==
  CASE s < W -> {RegOp(op, a, s)}
    [] OTHER -> {RegOp(op, a, s % W), IF op = "sra" /\ Signed(a) < 0 THEN 2^W - 1 ELSE 0}

ForkRegOp(op, a, b) == IF op \in {"sll", "srl", "sra"} THEN ForkShift(op, a, b) ELSE {RegOp(op, a, b)}

ForkImmOp(op, a, imm) == ImmOp(op, a, imm)

ForkTaken(op, a, b) == Taken(op, a, b)

\* The bytes of a load are put together one by one.
ForkLoad(f, i) ==
  IF ForkGranted(Address(f, i), Width[i.op], MemSize)
  THEN Advance(SetReg(f, i.rd, Loaded(i.op, BytesAt(f.ram, Address(f, i), Width[i.op]))))
  ELSE ForkFail(f, "INVALID_MEMORY_ACCESS")

\* (mutant) sb has the bound of sw
ForkStoreStrict(f, i) ==
  IF ForkGranted(Address(f, i), 4, MemSize)
  THEN Advance([f EXCEPT !.ram = Overwrite(@, Address(f, i), BytesOf(f.r[i.rs2], Width[i.op]))])
  ELSE ForkFail(f, "INVALID_MEMORY_ACCESS")

ForkStore(f, i) ==
  IF IF i.op = "sh" THEN ForkGrantedHalf(Address(f, i), MemSize)
                    ELSE ForkGranted(Address(f, i), Width[i.op], MemSize)
  THEN Advance([f EXCEPT !.ram = Overwrite(@, Address(f, i), BytesOf(f.r[i.rs2], Width[i.op]))])
  ELSE ForkFail(f, "INVALID_MEMORY_ACCESS")

\* rd is written before rs1 is read, and the low bit is kept.
ForkJalr(f, i) ==
  LET linked == SetReg(f, i.rd, Wrap(f.pc + 4)) IN Jump(linked, Address(linked, i))

\* The fork looks at no funct3 of opcode 0x73: what has an ecall's immediate, or
\* an ebreak's, is one.
PassesForCall(i) == i.op \in CsrOp \cup {"system4"} /\ i.imm \in {0, 1}

\* ecall() prints or complains; ebreak is a no-op.  Nothing sets f.halted.
ForkExecute(f, i) ==
  LET a == f.r[i.rs1]
      b == f.r[i.rs2]
  IN CASE i.op \in MulOp -> {Advance(SetReg(f, i.rd, ForkMulDiv(i.op, a, b)))}
       [] i.op \in AluOp -> {Advance(SetReg(f, i.rd, v)) : v \in ForkRegOp(i.op, a, b)}
       [] i.op \in AluImmOp -> {Advance(SetReg(f, i.rd, ForkImmOp(i.op, a, i.imm)))}
       [] i.op \in LoadOp -> {ForkLoad(f, i)}
       [] i.op \in StoreOp -> {ForkStore(f, i)}
       [] i.op \in BranchOp -> {IF ForkTaken(i.op, a, b) THEN Jump(f, Wrap(f.pc + i.imm)) ELSE Advance(f)}
       [] i.op = "jal" -> {Jump(SetReg(f, i.rd, Wrap(f.pc + 4)), Wrap(f.pc + i.imm))}
       [] i.op = "jalr" -> {ForkJalr(f, i)}
       [] i.op = "lui" -> {Advance(SetReg(f, i.rd, i.imm))}
       [] i.op = "auipc" -> {Advance(SetReg(f, i.rd, Wrap(f.pc + i.imm)))}
       [] i.op \in SystemOp -> {IF i.op \in {"ecall", "ebreak"} \/ PassesForCall(i) THEN Advance(f)
                                ELSE ForkFail(f, "INVALID_INSTRUCTION")}
       [] i.op = "illegal" -> {ForkFail(f, x) : x \in {"INVALID_OPCODE", "INVALID_INSTRUCTION"}}

\* The fetch has the bound of a byte; emulator.c calls again while it succeeds.
ForkCycle(f) ==
  IF f.result # "OK" THEN {f}
  ELSE IF ~ForkGrantedFetch(f.pc, MemSize) THEN {ForkFail(f, "INVALID_MEMORY_ACCESS")}
  ELSE ForkExecute(SetReg(f, 0, 0), Code[WordOf(BytesAt(f.ram, f.pc, 4))])
=============================================================================
