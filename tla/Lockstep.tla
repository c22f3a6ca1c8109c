------------------------------ MODULE Lockstep -------------------------------
(***************************************************************************)
(* The header's machine and the newlib fork's side by side: the same       *)
(* program from the same registers, one rv32_cycle of each at a time,      *)
(* until they come to an instruction the two are known to treat            *)
(* differently.  The header's machine is also held against the hart of     *)
(* Rv32Hart.tla, on which everything else in this project rests.           *)
(***************************************************************************)
EXTENDS NewlibRv32

CONSTANTS
  Programs,     \* the initial contents of RAM
  Values        \* the initial values of the registers

ASSUME LockstepAssumption ==
  Values \subseteq Word /\ Programs \subseteq [0 .. (MemSize - 1) \div 4 -> Word]

VARIABLES
  hdr,          \* the machine of src/src/rv32.h
  fork,         \* the machine of src/examples/c-newlib-nano
  lock          \* "together" until they part

vars == <<hdr, fork, lock>>

Init ==
  \E p \in Programs, v \in [Reg \ {0} -> Values] :
    LET r == [x \in Reg |-> IF x = 0 THEN 0 ELSE v[x]]
        ram == [k \in 0 .. MemSize - 1 |-> BytesOf(p[k \div 4], 4)[k % 4]]
    IN /\ hdr = [r |-> r, pc |-> 0, ram |-> ram, ie |-> BytesOf(0, 4),
                 csr |-> [x \in Csr |-> 0], wfi |-> FALSE, status |-> "RUNNING"]
       /\ fork = [r |-> r, pc |-> 0,
                  ram |-> [k \in 0 .. MemSize + ForkSpare - 1 |-> IF k < MemSize THEN ram[k] ELSE 0],
                  result |-> "OK"]
       /\ lock = "together"

\* What the fork does otherwise: its own fetch bound and no interrupt
\* controller; unmasked shifts; jalr; sh on the last byte; no mmio; no exit
\* call, no ebreak, no mret, no wfi and no csrs.
PartsAt(m, i) ==
  LET addr == Address(m, i) IN
  \/ i.op \in {"sll", "srl", "sra"} /\ m.r[i.rs2] >= W
  \/ i.op = "jalr" /\ (i.rd = i.rs1 \/ addr % 2 = 1)
  \/ i.op = "sh" /\ addr = MemSize - 1
  \/ i.op \in {"lw", "sw"} /\ addr = IcAddr
  \/ i.op = "sb" /\ addr = ConsoleAddr
  \/ i.op = "ecall" /\ m.r[RegA7] = ExitCall
  \/ i.op \in CsrOp \cup {"ebreak", "mret", "wfi"}
  \/ i.op = "system4" /\ PassesForCall(i)

Parts(m) ==
  \/ m.pc \in MemSize - 3 .. MemSize - 1 \/ m.pc = IcAddr
  \/ \E i \in Fetch(m) : PartsAt(SetReg(m, 0, 0), i)

Step ==
  /\ lock = "together" /\ hdr.status = "RUNNING"
  /\ hdr' \in Cycle(hdr)
  /\ fork' \in ForkCycle(fork)
  /\ lock' = IF Parts(hdr) THEN "parted" ELSE "together"

Next == Step

Spec == Init /\ [][Next]_vars

-----------------------------------------------------------------------------

\* Registers and RAM hold words and bytes, whatever the program does.
TypeOK == hdr \in Machine /\ fork \in Fork /\ lock \in {"together", "parted"}

\* A program that runs on one machine runs on the other: same registers, same
\* pc, same RAM after every instruction, and one fails when the other does.
ForkAgrees ==
  lock = "together" =>
    /\ fork.r = hdr.r /\ fork.pc = hdr.pc
    /\ \A k \in 0 .. MemSize - 1 : fork.ram[k] = hdr.ram[k]
    /\ fork.result = "OK" <=> hdr.status = "RUNNING"
    /\ fork.result = "INVALID_MEMORY_ACCESS" <=> hdr.status = "INVALID_MEMORY_ACCESS"

\* x0 reads as zero although it is cleared late: whatever the last instruction
\* left in it, the next cycle does the same.
ZeroReadsZero ==
  hdr.status = "RUNNING" /\ ~hdr.wfi /\ Fetch(hdr) # {} =>
    \A v \in Values : Cycle(SetReg(hdr, 0, v)) = Cycle(hdr)

\* The instruction class a word of RAM is to Rv32Hart.tla.
Class(i) ==
  CASE i.op \in LoadOp -> "load"
    [] i.op \in StoreOp -> "store"
    [] i.op \in BranchOp -> "branch"
    [] i.op \in {"jal", "jalr"} -> "jump"
    [] i.op \in CsrOp -> "csr"
    [] i.op \in {"ecall", "ebreak", "mret", "wfi", "illegal"} -> i.op
    [] i.op = "system4" -> "illegal"
    [] OTHER -> "reg"

\* The bits of a csr, by name; where a trap goes; mcause without its last bit.
NamedBits(names, v) == {b \in names : BitOf[b] \in Ones(v)}
Vector(v) == [base |-> v \div 4, vectored |-> v % 2 = 1]
CauseOf(v) == v % 2^(W - 1)

Hart == INSTANCE Rv32Hart WITH
  NumSlots <- 1, AddrSpace <- 2^W \div 4, RamWords <- MemSize \div 4, IcAddr <- IcAddr \div 4,
  IrqLimit <- 4, GuestInstr <- {Class(Code[w]) : w \in Word}, IeMasks <- SUBSET (0 .. W - 1),
  CsrWrites <- [mstatus |-> {NamedBits({"MIE", "MPIE"}, v) : v \in Word},
                mie |-> {NamedBits({"MSI", "MTI", "MEI"}, v) : v \in Word},
                mip |-> {NamedBits({"MSI", "MTI", "MEI"}, v) : v \in Word},
                mtvec |-> {Vector(v) : v \in Word}, mepc |-> {v \div 4 : v \in Word},
                mcause |-> {CauseOf(v) : v \in Word}],
  hart <- [status |-> hdr.status, bpMask |-> {}, bp |-> [s \in {0} |-> 0], pc |-> hdr.pc \div 4,
           mstatus |-> NamedBits({"MIE", "MPIE"}, hdr.csr.mstatus),
           mie |-> NamedBits({"MSI", "MTI", "MEI"}, hdr.csr.mie),
           mip |-> NamedBits({"MSI", "MTI", "MEI"}, hdr.csr.mip),
           mtvec |-> Vector(hdr.csr.mtvec), mepc |-> hdr.csr.mepc \div 4,
           mcause |-> CauseOf(hdr.csr.mcause), wfi |-> hdr.wfi,
           ie |-> Ones(WordOf(hdr.ie)), ip |-> {}],
  mem <- [a \in 0 .. MemSize \div 4 - 1 |-> Class(Code[WordOf(BytesAt(hdr.ram, 4 * a, 4))])]

\* pc is on a word, and so is what the instruction stores.
Aligned ==
  /\ hdr.pc % 4 = 0
  /\ \A i \in Fetch(hdr) :
       i.op \in StoreOp =>
         LET addr == Address(SetReg(hdr, 0, 0), i) IN (addr % 4) + Width[i.op] <= 4

\* Every cycle of the machine is one of the hart of Rv32Hart.tla, which knows
\* instruction classes only, as long as the program keeps to words.
ImplementsHart == [][Aligned /\ hdr'.pc % 4 = 0 => Hart!rv32_cycle]_vars
=============================================================================
