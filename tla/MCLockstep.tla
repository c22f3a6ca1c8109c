----------------------------- MODULE MCLockstep ------------------------------
(***************************************************************************)
(* Values for model checking Lockstep: words of eight bits in four bytes,  *)
(* twenty-four instructions, eight bytes of RAM, three registers.          *)
(***************************************************************************)
EXTENDS Lockstep, Sequences

I(op, rd, rs1, rs2, imm) == [op |-> op, rd |-> rd, rs1 |-> rs1, rs2 |-> rs2, imm |-> imm]

\* The all-zero word is illegal; 7 is -1 as an immediate, 252 is -4 as an offset.
Instructions ==
  << I("illegal", 0, 0, 0, 0), I("addi", 1, 1, 0, 7), I("add", 2, 1, 2, 0),
     I("sw", 0, 2, 1, 0), I("sh", 0, 1, 2, 1), I("sb", 0, 1, 2, 7),
     I("lw", 1, 2, 0, 0), I("lh", 2, 1, 0, 2), I("lb", 0, 1, 0, 0),
     I("bltu", 0, 1, 2, 252), I("jal", 0, 0, 0, 4), I("jalr", 1, 2, 0, 1),
     I("sll", 1, 2, 1, 0), I("ecall", 0, 0, 0, 0), I("jalr", 1, 1, 0, 0),
     I("ebreak", 0, 0, 0, 0), I("mret", 0, 0, 0, 2), I("wfi", 0, 0, 0, 5),
     I("csrrw", 1, 2, 0, 3), I("csrrs", 2, 1, 0, 4), I("csrrci", 1, 2, 0, 6),
     I("csrrsi", 1, 1, 0, 1), I("system4", 0, 0, 0, 0), I("system4", 0, 0, 0, 2) >>

Decoded == [w \in Word |-> IF w < Len(Instructions) THEN Instructions[w + 1] ELSE Instructions[1]]

\* The numbers 0 and 1 are those of no csr the hart has.
CsrNumbers ==
  [n \in Word |-> CASE n = 3 -> "mstatus" [] n = 4 -> "mepc" [] n = 6 -> "mtvec" [] OTHER -> "none"]

BitNumbers == [MIE |-> 3, MPIE |-> 7, MSI |-> 3, MTI |-> 7, MEI |-> 5]

\* Every pair of words that decode.
AllPrograms == [0 .. 1 -> 0 .. Len(Instructions) - 1]
=============================================================================
