----------------------------- MODULE Rv32Machine -----------------------------
(***************************************************************************)
(* The hart of src/src/rv32.h with its registers and its bytes: one        *)
(* rv32_cycle of a hart that takes no interrupt and stops at no breakpoint *)
(* (those are Rv32Hart.tla's), as a function from a machine to the set of  *)
(* the machines it may leave: exactly one.                                 *)
(*                                                                         *)
(* A word has W bits in four bytes.  Code is what the words decode to, so  *)
(* a program is RAM like any data and may overwrite itself.                *)
(***************************************************************************)
EXTENDS Rv32Isa, Rv32Memory

CONSTANTS
  MemSize,      \* mem_size, in bytes
  IcAddr,       \* RV32_INTERRUPT_CONTROLLER_ADDRESS
  ConsoleAddr,  \* the front end's mmio_store8: 0x80000000
  Reg,          \* the registers, REG_ZERO = 0 among them
  RegA7,        \* the register that numbers a system call
  ExitCall,     \* the number of the exit call: 93
  CsrAt,        \* which csr each number names: one of Csr, or "none"
  BitOf,        \* CSR_MSTATUS_MIE and _MPIE, and the bits of mie and mip
  Code          \* what each word decodes to

Byte == 0 .. 2^(W \div 4) - 1
WordOf(bytes) == MapThenSumSet(LAMBDA k : bytes[k] * 2^(k * (W \div 4)), DOMAIN bytes)
BytesOf(w, n) == [k \in 0 .. n - 1 |-> (w \div 2^(k * (W \div 4))) % 2^(W \div 4)]

MulOp == {"mul", "mulh", "mulhsu", "mulhu", "div", "divu", "rem", "remu"}
AluOp == {"add", "sub", "xor", "or", "and", "sll", "srl", "sra", "slt", "sltu"}
AluImmOp == {"addi", "xori", "ori", "andi", "slli", "srli", "srai", "slti", "sltiu"}
BranchOp == {"beq", "bne", "blt", "bge", "bltu", "bgeu"}
LoadOp == {"lb", "lh", "lw", "lbu", "lhu"}
StoreOp == {"sb", "sh", "sw"}
CsrImmOp == {"csrrwi", "csrrsi", "csrrci"}
CsrOp == {"csrrw", "csrrs", "csrrc"} \cup CsrImmOp

\* "system4" is opcode 0x73 with the funct3 that names no instruction.
SystemOp == CsrOp \cup {"ecall", "ebreak", "mret", "wfi", "system4"}
Ops == MulOp \cup AluOp \cup AluImmOp \cup BranchOp \cup LoadOp \cup StoreOp \cup SystemOp
         \cup {"jal", "jalr", "lui", "auipc", "illegal"}

Csr == {"mstatus", "mie", "mip", "mtvec", "mepc", "mcause"}
CsrBit == {"MIE", "MPIE", "MSI", "MTI", "MEI"}

\* imm is the field of an I or S format (a csr's number), the whole word for the
\* others.
Insn == [op : Ops, rd : Reg, rs1 : Reg, rs2 : Reg, imm : Word]

ASSUME MachineAssumption ==
  /\ W % 4 = 0 /\ MemSize \in Nat /\ MemSize >= 4 /\ MemSize < IcAddr
  /\ {IcAddr, ConsoleAddr, ExitCall} \subseteq Word
  /\ 0 \in Reg /\ RegA7 \in Reg /\ Reg \subseteq Word /\ Code \in [Word -> Insn]
  /\ CsrAt \in [Word -> Csr \cup {"none"}] /\ BitOf \in [CsrBit -> 0 .. W - 1]

Status == {"RUNNING", "HALTED", "EBREAK", "INVALID_INSTRUCTION", "INVALID_MEMORY_ACCESS"}
Machine == [r : [Reg -> Word], pc : Word, ram : [0 .. MemSize - 1 -> Byte],
            ie : [0 .. 3 -> Byte], csr : [Csr -> Word], wfi : BOOLEAN, status : Status]

-----------------------------------------------------------------------------

SetReg(m, rd, v) == [m EXCEPT !.r[rd] = v]

Advance(m) == [m EXCEPT !.pc = Wrap(@ + 4)]
Jump(m, target) == [m EXCEPT !.pc = target]
StopWith(m, status) == [m EXCEPT !.status = status]

Width == [op \in LoadOp \cup StoreOp |->
            CASE op \in {"lb", "lbu", "sb"} -> 1 [] op \in {"lh", "lhu", "sh"} -> 2 [] OTHER -> 4]

\* lb and lh extend the sign, lbu and lhu do not.
Loaded(op, bytes) ==
  IF op \in {"lb", "lh"} THEN SEXT(WordOf(bytes), Width[op] * (W \div 4)) ELSE WordOf(bytes)

\* (mutant) an address that does not wrap
AddressUnwrapped(m, i) == m.r[i.rs1] + SextImm(i.imm)

Address(m, i) == Wrap(m.r[i.rs1] + SextImm(i.imm))

\* (mutant) pc moves past the instruction that faults
OrFaultBehind(m, outcomes) ==
  IF outcomes = {} THEN {Advance(StopWith(m, "INVALID_MEMORY_ACCESS"))} ELSE outcomes

OrFault(m, outcomes) == IF outcomes = {} THEN {StopWith(m, "INVALID_MEMORY_ACCESS")} ELSE outcomes

ExecLoad(m, i) ==
  OrFault(m, {Advance(SetReg(m, i.rd, Loaded(i.op, bytes))) :
                bytes \in rv32_load(m, Address(m, i), Width[i.op], MemSize, IcAddr)})

ExecStore(m, i) ==
  OrFault(m, {Advance(stored) :
                stored \in rv32_store(m, Address(m, i), BytesOf(m.r[i.rs2], Width[i.op]), Width[i.op],
                                      MemSize, IcAddr, ConsoleAddr)})

\* rs1 is read before rd is written, and the target's low bit cleared.
ExecJalr(m, i) == Jump(SetReg(m, i.rd, Wrap(m.pc + 4)), 2 * (Address(m, i) \div 2))

\* MPIE is copied to MIE.
ExecMret(m) ==
  LET bits == Ones(m.csr.mstatus)
      returned == IF BitOf.MPIE \in bits THEN bits \cup {BitOf.MIE} ELSE bits \ {BitOf.MIE}
  IN Jump([m EXCEPT !.csr.mstatus = Value(returned)], m.csr.mepc)

\* A csr the hart does not have reads as 0 and is not written.
rv32_read_csr(m, n) == IF CsrAt[n] \in Csr THEN m.csr[CsrAt[n]] ELSE 0
rv32_write_csr(m, n, v) == IF CsrAt[n] \in Csr THEN [m EXCEPT !.csr[CsrAt[n]] = v] ELSE m

CsrValue(op, old, operand) ==
  CASE op \in {"csrrw", "csrrwi"} -> operand
    [] op \in {"csrrs", "csrrsi"} -> Or(old, operand)
    [] op \in {"csrrc", "csrrci"} -> And(old, 2^W - 1 - operand)

\* The immediate of the last three is the number in the field of rs1.
ExecCsr(m, i) ==
  LET old == rv32_read_csr(m, i.imm)
      operand == IF i.op \in CsrImmOp THEN i.rs1 ELSE m.r[i.rs1]
  IN Advance(SetReg(rv32_write_csr(m, i.imm, CsrValue(i.op, old, operand)), i.rd, old))

Execute(m, i) ==
  LET a == m.r[i.rs1]
      b == m.r[i.rs2]
  IN CASE i.op \in MulOp -> {Advance(SetReg(m, i.rd, MulDiv(i.op, a, b)))}
       [] i.op \in AluOp -> {Advance(SetReg(m, i.rd, RegOp(i.op, a, b)))}
       [] i.op \in AluImmOp -> {Advance(SetReg(m, i.rd, ImmOp(i.op, a, i.imm)))}
       [] i.op \in LoadOp -> ExecLoad(m, i)
       [] i.op \in StoreOp -> ExecStore(m, i)
       [] i.op \in BranchOp -> {IF Taken(i.op, a, b) THEN Jump(m, Wrap(m.pc + i.imm)) ELSE Advance(m)}
       [] i.op = "jal" -> {Jump(SetReg(m, i.rd, Wrap(m.pc + 4)), Wrap(m.pc + i.imm))}
       [] i.op = "jalr" -> {ExecJalr(m, i)}
       [] i.op = "lui" -> {Advance(SetReg(m, i.rd, i.imm))}
       [] i.op = "auipc" -> {Advance(SetReg(m, i.rd, Wrap(m.pc + i.imm)))}
       [] i.op = "ecall" -> {IF m.r[RegA7] = ExitCall THEN StopWith(m, "HALTED") ELSE Advance(m)}
       [] i.op = "ebreak" -> {StopWith(Advance(m), "EBREAK")}
       [] i.op = "mret" -> {ExecMret(m)}
       [] i.op = "wfi" -> {Advance([m EXCEPT !.wfi = TRUE])}
       [] i.op \in CsrOp -> {ExecCsr(m, i)}
       [] i.op \in {"system4", "illegal"} -> {StopWith(m, "INVALID_INSTRUCTION")}

Fetch(m) == {Code[WordOf(bytes)] : bytes \in rv32_load(m, m.pc, 4, MemSize, IcAddr)}

\* (mutant) what was written to x0 stays there
CycleKeepsZero(m) ==
  IF m.wfi \/ m.status # "RUNNING" THEN {m} ELSE OrFault(m, UNION {Execute(m, i) : i \in Fetch(m)})

\* x0 is cleared before an instruction executes, not after: what the last one
\* wrote to it is still there between two cycles.
Cycle(m) ==
  IF m.wfi \/ m.status # "RUNNING" THEN {m}
  ELSE OrFault(m, UNION {Execute(SetReg(m, 0, 0), i) : i \in Fetch(m)})
=============================================================================
