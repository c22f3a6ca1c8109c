--------------------------- MODULE DataLaws_proofs ---------------------------
(***************************************************************************)
(* Proofs about the pure parts of the repository, for every case: what is  *)
(* granted of a memory of any size, and what a store does to it            *)
(* (Rv32Memory.tla); which encodings are decoded as which instruction, and *)
(* what the instructions compute for registers of any width (Rv32Isa.tla); *)
(* what becomes of every immediate (Rv32Encoding.tla); that a string whose *)
(* packet fits the buffer is received as it was meant, words are shown as  *)
(* they are, and memory is read back as it was written (RspPacket.tla);    *)
(* and what is listed of an ELF file of any size (GuestPrograms.tla).      *)
(***************************************************************************)
EXTENDS DataLaws, Rv32Isa_proofs, SequenceTheorems

-----------------------------------------------------------------------------
(* Memory *)

\* The bound of rv32_load8/16/32 and rv32_store8/16/32: in a RAM of at least
\* one word, what is granted is inside.
THEOREM GrantedInside ==
  ASSUME NEW addr \in Nat, NEW n \in 1 .. 4, NEW memSize \in Nat, memSize >= 4,
         Granted(addr, n, memSize)
  PROVE  Inside(addr, n, memSize)
  BY DEF Granted, Inside

\* and nothing that is inside is refused.
THEOREM InsideGranted ==
  ASSUME NEW addr \in Nat, NEW n \in 1 .. 4, NEW memSize \in Nat, Inside(addr, n, memSize)
  PROVE  Granted(addr, n, memSize)
  BY DEF Granted, Inside

\* The fork's bounds: in a RAM of at least three bytes, loads, sb and sw stay
\* inside; in one that lacks two bytes or more of the access, the bound wraps and
\* keeps nothing inside.  The fetch and sh stay inside the block that holds the
\* RAM, whatever its size.
THEOREM ForkInside ==
  ASSUME NEW addr \in Nat, NEW n \in 1 .. 4, NEW memSize \in Nat
  PROVE  /\ memSize >= 3 => (ForkGranted(addr, n, memSize) <=> Inside(addr, n, memSize))
         /\ memSize < n - 1 => ForkGranted(addr, n, memSize) /\ ~Inside(addr, n, memSize)
         /\ ForkGrantedHalf(addr, memSize) => Inside(addr, 2, memSize + ForkSpare)
         /\ ForkGrantedFetch(addr, memSize) => Inside(addr, 4, memSize + ForkSpare)
  BY DEF ForkGranted, ForkGrantedHalf, ForkGrantedFetch, ForkSpare, Inside

\* The pixel arrays of the front ends, the Arduino's half-word store being a
\* store of four bytes.
THEOREM PixelsInside ==
  ASSUME NEW off \in Int, NEW n \in {1, 2, 4}, NEW bytes \in Nat
  PROVE  /\ FantasyGranted(off, n, bytes) => Inside(off, n, bytes)
         /\ ArduinoGranted(off, n, bytes) => Inside(off, IF n = 2 THEN 4 ELSE n, bytes)
  BY DEF FantasyGranted, ArduinoGranted, Inside

\* An m or M that is answered stays in RAM: no reply that fits the output buffer
\* is long enough for start + chunk_size to wrap.
THEOREM ChunkInside ==
  ASSUME NEW start \in Nat, NEW chunk \in Nat, NEW memSize \in Nat, NEW space \in Nat,
         NEW bufferSize \in Nat, memSize + bufferSize <= space,
         ChunkGranted(start, chunk, memSize, space),
         ReplyFits(chunk, bufferSize) \/ RequestFits(chunk, bufferSize)
  PROVE  Inside(start, chunk, memSize)
<1>1. start + chunk \in 0 .. space - 1
  BY DEF ChunkGranted, ReplyFits, RequestFits
<1>2. (start + chunk) % space = start + chunk
  BY <1>1
<1> QED BY <1>1, <1>2 DEF ChunkGranted, Inside

\* Two accesses that have no byte in common.
Apart(a, n, b, m) == a + n <= b \/ b + m <= a

\* rv32_store followed by rv32_load, in a RAM of at least one word: a load of
\* what was stored, in RAM or in the interrupt controller, finds it, and a load
\* of anything else finds what it found before.  What goes to the console
\* cannot be read back.
THEOREM StoreThenLoad ==
  ASSUME NEW memSize \in Nat, memSize >= 4, NEW B, NEW icAddr \in Nat, NEW consoleAddr \in Nat,
         NEW h, {"ram", "ie"} \subseteq DOMAIN h, h.ram \in [0 .. memSize - 1 -> B],
         NEW addr \in Nat, NEW n \in 1 .. 4, NEW bytes \in [0 .. n - 1 -> B],
         NEW g \in rv32_store(h, addr, bytes, n, memSize, icAddr, consoleAddr),
         NEW other \in Nat, NEW m \in 1 .. 4
  PROVE  /\ rv32_load(g, addr, n, memSize, icAddr)
              = IF Inside(addr, n, memSize) \/ (n = 4 /\ addr = icAddr) THEN {bytes} ELSE {}
         /\ Apart(addr, n, other, m) =>
              rv32_load(g, other, m, memSize, icAddr) = rv32_load(h, other, m, memSize, icAddr)
<1>1. Granted(addr, n, memSize) <=> Inside(addr, n, memSize)
  BY DEF Granted, Inside
<1>2. Granted(other, m, memSize) <=> Inside(other, m, memSize)
  BY DEF Granted, Inside
<1>3. CASE Inside(addr, n, memSize)
  <2> DEFINE w == Overwrite(h.ram, addr, bytes)
  <2>1. g = [h EXCEPT !.ram = w]
    BY <1>1, <1>3 DEF rv32_store
  <2>2. g.ram = w /\ g.ie = h.ie
    BY <2>1
  <2>3. /\ \A i \in 0 .. memSize - 1 : i - addr \in 0 .. n - 1 => w[i] = bytes[i - addr]
        /\ \A i \in 0 .. memSize - 1 : i - addr \notin 0 .. n - 1 => w[i] = h.ram[i]
    BY DEF Overwrite
  <2> HIDE DEF w
  <2>4. BytesAt(w, addr, n) = bytes
    <3>1. ASSUME NEW k \in 0 .. n - 1 PROVE w[addr + k] = bytes[k]
      <4>1. addr + k \in 0 .. memSize - 1 /\ addr + k - addr = k
        BY <1>3 DEF Inside
      <4> QED
        BY <2>3, <4>1
    <3> QED
      BY <3>1 DEF BytesAt
  <2>5. ASSUME Apart(addr, n, other, m), Inside(other, m, memSize)
        PROVE  BytesAt(w, other, m) = BytesAt(h.ram, other, m)
    <3>1. ASSUME NEW k \in 0 .. m - 1 PROVE w[other + k] = h.ram[other + k]
      <4>1. other + k \in 0 .. memSize - 1 /\ other + k - addr \notin 0 .. n - 1
        BY <2>5 DEF Inside, Apart
      <4> QED
        BY <2>3, <4>1
    <3> QED
      BY <3>1 DEF BytesAt
  <2> QED
    BY <1>1, <1>2, <1>3, <2>2, <2>4, <2>5 DEF rv32_load
<1>4. CASE ~Inside(addr, n, memSize) /\ n = 4 /\ addr = icAddr
  <2>1. g = [h EXCEPT !.ie = bytes]
    BY <1>1, <1>4 DEF rv32_store
  <2>2. g.ram = h.ram /\ g.ie = bytes
    BY <2>1
  <2>3. Apart(addr, n, other, m) => ~(m = 4 /\ other = icAddr)
    BY <1>4 DEF Apart
  <2> QED
    BY <1>1, <1>4, <2>2, <2>3 DEF rv32_load
<1>5. CASE ~Inside(addr, n, memSize) /\ ~(n = 4 /\ addr = icAddr)
  <2>1. g = h
    BY <1>1, <1>5 DEF rv32_store
  <2> QED
    BY <1>1, <1>5, <2>1 DEF rv32_load
<1> QED
  BY <1>3, <1>4, <1>5

LEMMA CaseStays == Spec => [](case \in Cases)
<1>1. Init => case \in Cases
  BY DEF Init
<1>2. case \in Cases /\ [Next]_case => (case \in Cases)'
  BY DEF Next
<1> QED
  BY <1>1, <1>2, PTL DEF Spec

-----------------------------------------------------------------------------
(* Encodings *)

\* Every word with opcode 0x33 or 0x13 is decoded as DecodesLaw says: all 128
\* values of funct7.
THEOREM DecodesAlways == Spec => []DecodesLaw
<1>1. ASSUME NEW f7 \in 0 .. 127, NEW f3 \in 0 .. 7
      PROVE  /\ IF Isa33(f7, f3) # "no_insn" THEN Decode33(f7, f3) = Isa33(f7, f3)
                ELSE Decode33(f7, f3) = "illegal" <=> f3 \in {0, 5}
             /\ IF Isa13(f7, f3) # "no_insn" THEN Decode13(f7, f3) = Isa13(f7, f3)
                ELSE Decode13(f7, f3) = "illegal" <=> f3 \in {5}
  <2>1. \/ f3 = 0 \/ f3 = 1 \/ f3 = 2 \/ f3 = 3 \/ f3 = 4 \/ f3 = 5 \/ f3 = 6 \/ f3 = 7
    OBVIOUS
  <2>2. CASE f3 = 0
    BY <2>2 DEF Isa33, Isa13, Decode33, Decode13, MulOps, RegNames, ImmNames
  <2>3. CASE f3 = 1
    BY <2>3 DEF Isa33, Isa13, Decode33, Decode13, MulOps, RegNames, ImmNames
  <2>4. CASE f3 = 2
    BY <2>4 DEF Isa33, Isa13, Decode33, Decode13, MulOps, RegNames, ImmNames
  <2>5. CASE f3 = 3
    BY <2>5 DEF Isa33, Isa13, Decode33, Decode13, MulOps, RegNames, ImmNames
  <2>6. CASE f3 = 4
    BY <2>6 DEF Isa33, Isa13, Decode33, Decode13, MulOps, RegNames, ImmNames
  <2>7. CASE f3 = 5
    BY <2>7 DEF Isa33, Isa13, Decode33, Decode13, MulOps, RegNames, ImmNames
  <2>8. CASE f3 = 6
    BY <2>8 DEF Isa33, Isa13, Decode33, Decode13, MulOps, RegNames, ImmNames
  <2>9. CASE f3 = 7
    BY <2>9 DEF Isa33, Isa13, Decode33, Decode13, MulOps, RegNames, ImmNames
  <2> QED
    BY <2>1, <2>2, <2>3, <2>4, <2>5, <2>6, <2>7, <2>8, <2>9
<1>2. case \in Cases => DecodesLaw
  BY <1>1, CasesAssumption, ZenonT(40) DEF DecodesLaw
<1> QED
  BY <1>2, CaseStays, PTL

\* A pixel the Arduino shows is two bytes of its array, its neighbour two more.
LEMMA PixelsShown ==
  ASSUME NEW addr \in Nat, NEW size \in Nat PROVE PixelShown(addr, size)
<1> DEFINE screen == [i \in 0 .. size - 1 |-> 9]
           pixel == [k \in 0 .. 1 |-> k + 1]
           swapped == [k \in 0 .. 3 |-> IF k < 2 THEN pixel[1 - k] ELSE 0]
           shown == Overwrite(screen, addr, pixel)
           board == ArduinoStore(screen, addr, pixel, 2)
<1> SUFFICES ASSUME ArduinoGranted(addr, 2, size)
             PROVE  /\ FantasyGranted(addr, 2, size)
                    /\ \A i \in 0 .. size - 1 :
                         board[i] = CASE i = addr -> shown[i + 1]
                                      [] i = addr + 1 -> shown[i - 1]
                                      [] i \in addr + 2 .. addr + 3 -> 0
                                      [] OTHER -> shown[i]
  BY DEF PixelShown
<1>1. addr + 4 <= size /\ FantasyGranted(addr, 2, size)
  BY DEF ArduinoGranted, FantasyGranted
<1>2. board = Overwrite(screen, addr, swapped)
  BY DEF ArduinoStore
<1>3. /\ swapped[0] = 2 /\ swapped[1] = 1 /\ swapped[2] = 0 /\ swapped[3] = 0 /\ DOMAIN swapped = 0 .. 3
      /\ pixel[0] = 1 /\ pixel[1] = 2 /\ DOMAIN pixel = 0 .. 1
  OBVIOUS
<1>4. DOMAIN screen = 0 .. size - 1
  OBVIOUS
<1> HIDE DEF screen, pixel, swapped
<1>5. \A i \in 0 .. size - 1 : board[i] = IF i - addr \in 0 .. 3 THEN swapped[i - addr] ELSE screen[i]
  BY <1>2, <1>3, <1>4 DEF Overwrite
<1>6. \A i \in 0 .. size - 1 : shown[i] = IF i - addr \in 0 .. 1 THEN pixel[i - addr] ELSE screen[i]
  BY <1>3, <1>4 DEF Overwrite
<1> HIDE DEF board, shown
<1>7. addr + 1 \in 0 .. size - 1 /\ addr \in 0 .. size - 1 /\ (addr + 1) - addr = 1 /\ addr - addr = 0
  BY <1>1
<1>8. shown[addr] = 1 /\ shown[addr + 1] = 2
  BY <1>3, <1>6, <1>7
<1>9. ASSUME NEW i \in 0 .. size - 1
      PROVE  board[i] = CASE i = addr -> shown[i + 1]
                          [] i = addr + 1 -> shown[i - 1]
                          [] i \in addr + 2 .. addr + 3 -> 0
                          [] OTHER -> shown[i]
  <2>1. CASE i = addr
    BY <1>3, <1>5, <1>7, <1>8, <2>1
  <2>2. CASE i = addr + 1
    <3>1. i # addr /\ i - 1 = addr
      BY <2>2
    <3>2. board[i] = 1
      BY <1>3, <1>5, <1>7, <2>2
    <3> QED
      BY <1>8, <2>2, <3>1, <3>2
  <2>3. CASE i = addr + 2 \/ i = addr + 3
    <3>1. i # addr /\ i # addr + 1 /\ i \in addr + 2 .. addr + 3 /\ i - addr \in {2, 3}
      BY <2>3
    <3>2. board[i] = 0
      BY <1>3, <1>5, <3>1
    <3> QED
      BY <3>1, <3>2
  <2>4. CASE i - addr \notin 0 .. 3
    <3>1. i # addr /\ i # addr + 1 /\ i \notin addr + 2 .. addr + 3 /\ i - addr \notin 0 .. 1
      BY <2>4
    <3>2. board[i] = shown[i]
      BY <1>5, <1>6, <2>4, <3>1
    <3> QED
      BY <3>1, <3>2
  <2>5. i - addr \in 0 .. 3 => i = addr \/ i = addr + 1 \/ i = addr + 2 \/ i = addr + 3
    OBVIOUS
  <2> QED
    BY <2>1, <2>2, <2>3, <2>4, <2>5
<1> QED
  BY <1>1, <1>9

\* Every bound of the repository, for memories of every size.
THEOREM AccessesAlways == Spec => []AccessLaw
<1>1. ASSUME NEW addr \in Nat, NEW n \in {1, 2, 4}, NEW size \in Nat
      PROVE  /\ Granted(addr, n, size) <=> Inside(addr, n, size) \/ size < n
             /\ ForkGranted(addr, n, size) <=> Inside(addr, n, size) \/ size < n - 1
             /\ ForkGrantedHalf(addr, size) => Inside(addr, 2, size + ForkSpare)
             /\ ForkGrantedFetch(addr, size) => Inside(addr, 4, size + ForkSpare)
             /\ FantasyGranted(addr, n, size) <=> Inside(addr, n, size)
             /\ ArduinoGranted(addr, n, size)
                  <=> (n = 1 /\ Inside(addr, n, size)) \/ (n = 2 /\ Inside(addr, 4, size))
  BY DEF Granted, ForkGranted, ForkGrantedHalf, ForkGrantedFetch, ForkSpare, FantasyGranted,
         ArduinoGranted, Inside
<1>2. case \in Cases => AccessLaw
  BY <1>1, PixelsShown, CasesAssumption DEF AccessLaw
<1> QED
  BY <1>2, CaseStays, PTL

-----------------------------------------------------------------------------
(* Immediates *)

\* What is in a field, and where.
LEMMA InField ==
  ASSUME NEW S \in SUBSET Int, NEW lo \in Int, NEW hi \in Int, NEW at \in Int, NEW b
  PROVE  b \in Field(S, lo, hi, at) <=> b \in Int /\ b - at + lo \in S /\ b - at \in 0 .. hi - lo
<1>1. ASSUME NEW x \in S \cap (lo .. hi), b = x - lo + at
      PROVE  b \in Int /\ b - at + lo \in S /\ b - at \in 0 .. hi - lo
  <2>1. b \in Int /\ b - at + lo = x
    BY <1>1
  <2> QED
    BY <1>1, <2>1
<1>2. ASSUME b \in Int, b - at + lo \in S, b - at \in 0 .. hi - lo
      PROVE  b \in Field(S, lo, hi, at)
  <2>1. b - at + lo \in S \cap (lo .. hi) /\ b = (b - at + lo) - lo + at
    BY <1>2
  <2> QED
    BY <2>1 DEF Field
<1> QED
  BY <1>1, <1>2 DEF Field

LEMMA FieldType ==
  ASSUME NEW S \in SUBSET Int, NEW lo \in Int, NEW hi \in Int, NEW at \in Int
  PROVE  Field(S, lo, hi, at) \in SUBSET Int
  BY InField

\* SEXT of the low n bits of an immediate restores one that has only copies of
\* bit n - 1 above them.
LEMMA SextRestores ==
  ASSUME NEW imm \in SUBSET (0 .. 31), NEW n \in 1 .. 32,
         \A b \in n - 1 .. 31 : b \in imm <=> n - 1 \in imm
  PROVE  SextBits(imm \cap (0 .. n - 1), n) = imm
<1>1. n - 1 \in imm \cap (0 .. n - 1) <=> n - 1 \in imm
  OBVIOUS
<1>2. CASE n - 1 \in imm
  <2>1. SextBits(imm \cap (0 .. n - 1), n) = (imm \cap (0 .. n - 1)) \cup (n .. 31)
    BY <1>1, <1>2 DEF SextBits
  <2>2. ASSUME NEW b \in n .. 31 PROVE b \in imm
    BY <1>2
  <2>3. ASSUME NEW b \in imm PROVE b \in 0 .. n - 1 \/ b \in n .. 31
    OBVIOUS
  <2> QED
    BY <2>1, <2>2, <2>3
<1>3. CASE n - 1 \notin imm
  <2>1. SextBits(imm \cap (0 .. n - 1), n) = imm \cap (0 .. n - 1)
    BY <1>1, <1>3 DEF SextBits
  <2>2. ASSUME NEW b \in imm PROVE b \in 0 .. n - 1
    BY <1>3
  <2> QED
    BY <2>1, <2>2
<1> QED
  BY <1>2, <1>3

LEMMA OffsetI ==
  ASSUME NEW imm \in SUBSET (0 .. 31) PROVE IMM_I(Encode("I", imm)) = imm \cap (0 .. 11)
<1> DEFINE i == Encode("I", imm)
<1>1. i = Field(imm, 0, 11, 20)
  BY DEF Encode
<1>2. imm \in SUBSET Int /\ i \in SUBSET Int
  BY <1>1, FieldType
<1> HIDE DEF i
<1>3. \A b : b \in i <=> b \in Int /\ b - 20 + 0 \in imm /\ b - 20 \in 0 .. 11 - 0
  BY <1>1, <1>2, InField
<1>4. \A b : b \in Field(i, 20, 31, 0) <=> b \in Int /\ b - 0 + 20 \in i /\ b - 0 \in 0 .. 31 - 20
  BY <1>2, InField
<1>5. \A b : b \in Field(i, 20, 31, 0) <=> b \in imm \cap (0 .. 11)
  BY <1>3, <1>4
<1> QED
  BY <1>5 DEF IMM_I, i

\* The pieces of an S, B or J immediate: where each comes from and goes to.
LEMMA OffsetS ==
  ASSUME NEW imm \in SUBSET (0 .. 31) PROVE IMM_S(Encode("S", imm)) = imm \cap (0 .. 11)
<1> DEFINE i == Encode("S", imm)
<1>1. i = Field(imm, 0, 4, 7) \cup Field(imm, 5, 11, 25)
  BY DEF Encode
<1>2. imm \in SUBSET Int /\ i \in SUBSET Int
  BY <1>1, FieldType
<1> HIDE DEF i
<1>3. \A b : b \in i <=> /\ b \in Int
                       /\ \/ b - 7 + 0 \in imm /\ b - 7 \in 0 .. 4 - 0
                          \/ b - 25 + 5 \in imm /\ b - 25 \in 0 .. 11 - 5
  BY <1>1, <1>2, InField
<1>4. /\ \A b : b \in Field(i, 7, 11, 0) <=> b \in Int /\ b - 0 + 7 \in i /\ b - 0 \in 0 .. 11 - 7
      /\ \A b : b \in Field(i, 25, 31, 5) <=> b \in Int /\ b - 5 + 25 \in i /\ b - 5 \in 0 .. 31 - 25
  BY <1>2, InField
<1>5a. ASSUME NEW b PROVE b \in Field(i, 7, 11, 0) <=> b \in imm \cap (0 .. 4)
  <2>1. b \in Int => b - 0 + 7 = b + 7 /\ b + 7 \in Int
    OBVIOUS
  <2> QED
    BY <1>3, <1>4, <2>1
<1>5b. ASSUME NEW b PROVE b \in Field(i, 25, 31, 5) <=> b \in imm \cap (5 .. 11)
  <2>1. b \in Int => b - 5 + 25 = b + 20 /\ b + 20 \in Int
    OBVIOUS
  <2> QED
    BY <1>3, <1>4, <2>1
<1>5. /\ \A b : b \in Field(i, 7, 11, 0) <=> b \in imm \cap (0 .. 4)
      /\ \A b : b \in Field(i, 25, 31, 5) <=> b \in imm \cap (5 .. 11)
  BY <1>5a, <1>5b
<1>6. \A b : b \in IMM_S(i) <=> b \in imm \cap (0 .. 11)
  BY <1>5 DEF IMM_S
<1> QED
  BY <1>6 DEF i

LEMMA OffsetB ==
  ASSUME NEW imm \in SUBSET (1 .. 31) PROVE IMM_B(Encode("B", imm)) = imm \cap (0 .. 12)
<1> DEFINE i == Encode("B", imm)
<1>1. i = Field(imm, 1, 4, 8) \cup Field(imm, 5, 10, 25) \cup Field(imm, 11, 11, 7) \cup Field(imm, 12, 12, 31)
  BY DEF Encode
<1>2. imm \in SUBSET Int /\ i \in SUBSET Int
  BY <1>1, FieldType
<1> HIDE DEF i
<1>3. \A b : b \in i <=> /\ b \in Int
                       /\ \/ b - 8 + 1 \in imm /\ b - 8 \in 0 .. 4 - 1
                          \/ b - 25 + 5 \in imm /\ b - 25 \in 0 .. 10 - 5
                          \/ b - 7 + 11 \in imm /\ b - 7 \in 0 .. 11 - 11
                          \/ b - 31 + 12 \in imm /\ b - 31 \in 0 .. 12 - 12
  BY <1>1, <1>2, InField
<1>4. /\ \A b : b \in Field(i, 8, 11, 1) <=> b \in Int /\ b - 1 + 8 \in i /\ b - 1 \in 0 .. 11 - 8
      /\ \A b : b \in Field(i, 25, 30, 5) <=> b \in Int /\ b - 5 + 25 \in i /\ b - 5 \in 0 .. 30 - 25
      /\ \A b : b \in Field(i, 7, 7, 11) <=> b \in Int /\ b - 11 + 7 \in i /\ b - 11 \in 0 .. 7 - 7
      /\ \A b : b \in Field(i, 31, 31, 12) <=> b \in Int /\ b - 12 + 31 \in i /\ b - 12 \in 0 .. 31 - 31
  BY <1>2, InField
<1>5a. ASSUME NEW b PROVE b \in Field(i, 8, 11, 1) <=> b \in imm \cap (1 .. 4)
  <2>1. b \in Int => b - 1 + 8 = b + 7 /\ b + 7 \in Int
    OBVIOUS
  <2> QED
    BY <1>3, <1>4, <2>1
<1>5b. ASSUME NEW b PROVE b \in Field(i, 25, 30, 5) <=> b \in imm \cap (5 .. 10)
  <2>1. b \in Int => b - 5 + 25 = b + 20 /\ b + 20 \in Int
    OBVIOUS
  <2> QED
    BY <1>3, <1>4, <2>1
<1>5c. ASSUME NEW b PROVE b \in Field(i, 7, 7, 11) <=> b \in imm \cap {11}
  <2>1. b \in Int => b - 11 + 7 = b - 4 /\ b - 4 \in Int
    OBVIOUS
  <2> QED
    BY <1>3, <1>4, <2>1
<1>5d. ASSUME NEW b PROVE b \in Field(i, 31, 31, 12) <=> b \in imm \cap {12}
  <2>1. b \in Int => b - 12 + 31 = b + 19 /\ b + 19 \in Int
    OBVIOUS
  <2> QED
    BY <1>3, <1>4, <2>1
<1>5. /\ \A b : b \in Field(i, 8, 11, 1) <=> b \in imm \cap (1 .. 4)
      /\ \A b : b \in Field(i, 25, 30, 5) <=> b \in imm \cap (5 .. 10)
      /\ \A b : b \in Field(i, 7, 7, 11) <=> b \in imm \cap {11}
      /\ \A b : b \in Field(i, 31, 31, 12) <=> b \in imm \cap {12}
  BY <1>5a, <1>5b, <1>5c, <1>5d
<1>6. \A b : b \in IMM_B(i) <=> b \in imm \cap (0 .. 12)
  BY <1>5 DEF IMM_B
<1> QED
  BY <1>6 DEF i

LEMMA OffsetJ ==
  ASSUME NEW imm \in SUBSET (1 .. 31) PROVE IMM_J(Encode("J", imm)) = imm \cap (0 .. 20)
<1> DEFINE i == Encode("J", imm)
<1>1. i = Field(imm, 1, 10, 21) \cup Field(imm, 11, 11, 20) \cup Field(imm, 12, 19, 12) \cup Field(imm, 20, 20, 31)
  BY DEF Encode
<1>2. imm \in SUBSET Int /\ i \in SUBSET Int
  BY <1>1, FieldType
<1> HIDE DEF i
<1>3. \A b : b \in i <=> /\ b \in Int
                       /\ \/ b - 21 + 1 \in imm /\ b - 21 \in 0 .. 10 - 1
                          \/ b - 20 + 11 \in imm /\ b - 20 \in 0 .. 11 - 11
                          \/ b - 12 + 12 \in imm /\ b - 12 \in 0 .. 19 - 12
                          \/ b - 31 + 20 \in imm /\ b - 31 \in 0 .. 20 - 20
  BY <1>1, <1>2, InField
<1>4. /\ \A b : b \in Field(i, 21, 30, 1) <=> b \in Int /\ b - 1 + 21 \in i /\ b - 1 \in 0 .. 30 - 21
      /\ \A b : b \in Field(i, 20, 20, 11) <=> b \in Int /\ b - 11 + 20 \in i /\ b - 11 \in 0 .. 20 - 20
      /\ \A b : b \in Field(i, 12, 19, 12) <=> b \in Int /\ b - 12 + 12 \in i /\ b - 12 \in 0 .. 19 - 12
      /\ \A b : b \in Field(i, 31, 31, 20) <=> b \in Int /\ b - 20 + 31 \in i /\ b - 20 \in 0 .. 31 - 31
  BY <1>2, InField
<1>5a. ASSUME NEW b PROVE b \in Field(i, 21, 30, 1) <=> b \in imm \cap (1 .. 10)
  <2>1. b \in Int => b - 1 + 21 = b + 20 /\ b + 20 \in Int
    OBVIOUS
  <2> QED
    BY <1>3, <1>4, <2>1
<1>5b. ASSUME NEW b PROVE b \in Field(i, 20, 20, 11) <=> b \in imm \cap {11}
  <2>1. b \in Int => b - 11 + 20 = b + 9 /\ b + 9 \in Int
    OBVIOUS
  <2> QED
    BY <1>3, <1>4, <2>1
<1>5c. ASSUME NEW b PROVE b \in Field(i, 12, 19, 12) <=> b \in imm \cap (12 .. 19)
  <2>1. b \in Int => b - 12 + 12 = b + 0 /\ b + 0 \in Int
    OBVIOUS
  <2> QED
    BY <1>3, <1>4, <2>1
<1>5d. ASSUME NEW b PROVE b \in Field(i, 31, 31, 20) <=> b \in imm \cap {20}
  <2>1. b \in Int => b - 20 + 31 = b + 11 /\ b + 11 \in Int
    OBVIOUS
  <2> QED
    BY <1>3, <1>4, <2>1
<1>5. /\ \A b : b \in Field(i, 21, 30, 1) <=> b \in imm \cap (1 .. 10)
      /\ \A b : b \in Field(i, 20, 20, 11) <=> b \in imm \cap {11}
      /\ \A b : b \in Field(i, 12, 19, 12) <=> b \in imm \cap (12 .. 19)
      /\ \A b : b \in Field(i, 31, 31, 20) <=> b \in imm \cap {20}
  BY <1>5a, <1>5b, <1>5c, <1>5d
<1>6. \A b : b \in IMM_J(i) <=> b \in imm \cap (0 .. 20)
  BY <1>5 DEF IMM_J
<1> QED
  BY <1>6 DEF i

LEMMA OffsetU ==
  ASSUME NEW imm \in SUBSET (12 .. 31) PROVE UpperImmediate(Encode("U", imm)) = imm
<1> DEFINE i == Encode("U", imm)
<1>1. i = Field(imm, 12, 31, 12)
  BY DEF Encode
<1>2. imm \in SUBSET Int /\ i \in SUBSET Int
  BY <1>1, FieldType
<1> HIDE DEF i
<1>3. \A b : b \in i <=> b \in Int /\ b - 12 + 12 \in imm /\ b - 12 \in 0 .. 31 - 12
  BY <1>1, <1>2, InField
<1>4. \A b : b \in IMM_U(i) <=> b \in Int /\ b - 0 + 12 \in i /\ b - 0 \in 0 .. 31 - 12
  BY <1>2, InField DEF IMM_U
<1>5. \A b : b \in IMM_U(i) <=> b \in 0 .. 19 /\ b + 12 \in imm
  BY <1>3, <1>4
<1>6. \A b \in SextBits(IMM_U(i), 20) : b \in IMM_U(i) \/ b \in 20 .. 31
  BY DEF SextBits
<1>7. IMM_U(i) \subseteq SextBits(IMM_U(i), 20)
  BY DEF SextBits
<1>8. {x \in SextBits(IMM_U(i), 20) : x < 20} = IMM_U(i)
  BY <1>5, <1>6, <1>7
<1>9. \A b : b \in {x + 12 : x \in IMM_U(i)} <=> b \in imm
  <2>1. ASSUME NEW x \in IMM_U(i) PROVE x + 12 \in imm
    BY <1>5, <2>1
  <2>2. ASSUME NEW b \in imm PROVE b - 12 \in IMM_U(i) /\ b = (b - 12) + 12
    <3>1. b \in 12 .. 31 /\ b - 12 \in 0 .. 19 /\ (b - 12) + 12 = b
      OBVIOUS
    <3> QED
      BY <1>5, <3>1
  <2> QED
    BY <2>1, <2>2
<1>10. UpperImmediate(i) = {x + 12 : x \in IMM_U(i)}
  BY <1>8 DEF UpperImmediate
<1> QED
  BY <1>9, <1>10 DEF i

\* A jump offset is extended from its bit 19.
LEMMA JumpOffset ==
  ASSUME NEW imm \in SUBSET (1 .. 31), \A b \in 20 .. 31 : b \in imm <=> 20 \in imm
  PROVE  SextBits(imm \cap (0 .. 20), 20) = imm <=> (19 \in imm <=> 20 \in imm)
<1> DEFINE x == imm \cap (0 .. 20)
<1>1. 20 - 1 \in x <=> 19 \in imm
  OBVIOUS
<1>2. CASE 19 \in imm
  <2>1. SextBits(x, 20) = x \cup (20 .. 31)
    BY <1>1, <1>2 DEF SextBits
  <2>2. 31 \in imm <=> 20 \in imm
    OBVIOUS
  <2>3. CASE 20 \in imm
    <3>1. /\ \A b \in 20 .. 31 : b \in imm
          /\ \A b \in imm : b \in 0 .. 20 \/ b \in 20 .. 31
      BY <2>3
    <3>2. \A b : b \in x \cup (20 .. 31) <=> b \in imm
      BY <3>1
    <3> QED
      BY <1>2, <2>1, <2>3, <3>2
  <2>4. CASE 20 \notin imm
    <3>1. 31 \in SextBits(x, 20) /\ 31 \notin imm
      BY <2>1, <2>2, <2>4
    <3> QED
      BY <1>2, <2>4, <3>1
  <2> QED
    BY <2>3, <2>4
<1>3. CASE 19 \notin imm
  <2>1. SextBits(x, 20) = x
    BY <1>1, <1>3 DEF SextBits
  <2>2. 31 \in imm <=> 20 \in imm
    OBVIOUS
  <2>3. CASE 20 \in imm
    <3>1. 31 \notin x /\ 31 \in imm
      BY <2>2, <2>3
    <3> QED
      BY <1>3, <2>1, <2>3, <3>1
  <2>4. CASE 20 \notin imm
    <3>0. \A b \in imm : b \in 0 .. 31 /\ b \notin 20 .. 31
      BY <2>4
    <3>1. imm \subseteq x /\ x \subseteq imm
      BY <3>0
    <3> QED
      BY <1>3, <2>1, <2>4, <3>1
  <2> QED
    BY <2>3, <2>4
<1> QED
  BY <1>2, <1>3

\* Every immediate of every format, and the jump offsets that are cut off.
THEOREM OffsetsAlways == Spec => []OffsetLaw
<1>1. SignBit["I"] = 11 /\ SignBit["S"] = 11 /\ SignBit["B"] = 12 /\ SignBit["J"] = 20
  BY DEF SignBit
<1>2. ASSUME NEW imm, NEW format \in {"I", "S"}, Carried(format, imm)
      PROVE  Offset(format, Encode(format, imm)) = imm
  <2>1. imm \in SUBSET (0 .. 31) /\ \A b \in 12 - 1 .. 31 : b \in imm <=> 12 - 1 \in imm
    BY <1>1, <1>2 DEF Carried
  <2>2. SextBits(imm \cap (0 .. 11), 12) = imm
    BY <2>1, SextRestores, 12 \in 1 .. 32, 12 - 1 = 11
  <2> QED
    BY <2>1, <2>2, OffsetI, OffsetS DEF Offset
<1>3. ASSUME NEW imm, Carried("B", imm)
      PROVE  Offset("B", Encode("B", imm)) = imm
  <2>0. 13 \in 1 .. 32 /\ 13 - 1 = 12 /\ SUBSET (1 .. 31) \subseteq SUBSET (0 .. 31)
    OBVIOUS
  <2>1. imm \in SUBSET (1 .. 31) /\ \A b \in 13 - 1 .. 31 : b \in imm <=> 13 - 1 \in imm
    BY <1>1, <1>3 DEF Carried
  <2>2. SextBits(imm \cap (0 .. 12), 13) = imm
    BY <2>1, <2>0, SextRestores
  <2> QED
    BY <2>1, <2>2, OffsetB DEF Offset
<1>4. ASSUME NEW imm, Carried("J", imm)
      PROVE  Offset("J", Encode("J", imm)) = imm <=> (19 \in imm <=> 20 \in imm)
  <2>1. imm \in SUBSET (1 .. 31) /\ \A b \in 20 .. 31 : b \in imm <=> 20 \in imm
    BY <1>1, <1>4 DEF Carried
  <2>2. Offset("J", Encode("J", imm)) = SextBits(imm \cap (0 .. 20), 20)
    BY <2>1, OffsetJ DEF Offset
  <2> QED
    BY <2>1, <2>2, JumpOffset
<1>5. ASSUME NEW imm, Carried("U", imm) PROVE UpperImmediate(Encode("U", imm)) = imm
  BY <1>5, OffsetU DEF Carried
<1>6. case \in Cases => OffsetLaw
  <2> SUFFICES ASSUME case \in Cases, case.kind = "offset" PROVE OffsetLaw
    BY DEF OffsetLaw
  <2>1. Carried(case.format, case.imm)
    BY CasesAssumption
  <2>2. case.format \in {"I", "S", "B", "J", "U"}
    BY <2>1 DEF Carried
  <2> QED
    BY <1>2, <1>3, <1>4, <1>5, <2>1, <2>2 DEF OffsetLaw
<1> QED
  BY <1>6, CaseStays, PTL
\* Products
LEMMA ProductsExact ==
  ASSUME NEW a \in Word, NEW b \in Word
  PROVE  /\ Signed(MulDiv("mulh", a, b)) * 2^W + MulDiv("mul", a, b) = Signed(a) * Signed(b)
         /\ Signed(MulDiv("mulhsu", a, b)) * 2^W + MulDiv("mul", a, b) = Signed(a) * b
         /\ MulDiv("mulhu", a, b) * 2^W + MulDiv("mul", a, b) = a * b
<1> DEFINE M == Modulus
           H == HalfWord
           sa == Signed(a)
           sb == Signed(b)
<1>1. /\ MulDiv("mul", a, b) = Wrap(a * b)
      /\ MulDiv("mulh", a, b) = Wrap((sa * sb) \div M)
      /\ MulDiv("mulhsu", a, b) = Wrap((sa * b) \div M)
      /\ MulDiv("mulhu", a, b) = Wrap((a * b) \div M)
      /\ M = 2^W
  BY DEF MulDiv, Modulus
<1>2. M \in Nat /\ M > 0 /\ H \in Nat /\ H > 0 /\ M = 2 * H /\ a \in 0 .. M - 1 /\ b \in 0 .. M - 1
  BY WordFacts
<1>3. /\ sa \in -H .. H - 1 /\ (sa = a \/ sa = a - M)
      /\ sb \in -H .. H - 1 /\ (sb = b \/ sb = b - M)
  BY SignedRange
<1> HIDE DEF M, H, sa, sb
<1>4. PICK k \in {0, 1} : a = sa + M * k
  BY <1>2, <1>3
<1>5. PICK l \in {0, 1} : b = sb + M * l
  BY <1>2, <1>3
<1>6. Signed(MulDiv("mulh", a, b)) * M + MulDiv("mul", a, b) = sa * sb
  <2>1. a * b = sa * sb + M * (sa * l + k * sb + M * (k * l)) /\ sa * l + k * sb + M * (k * l) \in Int
    BY <1>2, <1>3, <1>4, <1>5
  <2>2. sa * sb \in -(H * H) .. H * H /\ sa * sb \in Int
    BY <1>2, <1>3, ProductBound
  <2>3. M * H = 2 * (H * H) /\ H * H > 0 /\ H * H \in Int /\ M * (-H) = -(2 * (H * H))
    BY <1>2
  <2>4. (sa * sb) \div M \in -H .. H - 1
    <3>1. M * (-H) <= sa * sb /\ sa * sb < M * H
      BY <2>2, <2>3
    <3> QED
      BY <1>2, <2>2, <3>1, QuotientBound
  <2> QED
    BY <1>1, <2>1, <2>2, <2>4, TwoWords DEF M, H
<1>7. Signed(MulDiv("mulhsu", a, b)) * M + MulDiv("mul", a, b) = sa * b
  <2>1. a * b = sa * b + M * (k * b) /\ k * b \in Int
    BY <1>2, <1>3, <1>4
  <2>2. sa * b \in -(H * (M - 1)) .. H * (M - 1) /\ sa * b \in Int
    BY <1>2, <1>3, ProductBound
  <2>3. H * (M - 1) = M * H - H /\ M * H \in Int /\ M * (-H) = -(M * H)
    BY <1>2
  <2>4. (sa * b) \div M \in -H .. H - 1
    <3>1. M * (-H) <= sa * b /\ sa * b < M * H
      BY <1>2, <2>2, <2>3
    <3> QED
      BY <1>2, <2>2, <3>1, QuotientBound
  <2> QED
    BY <1>1, <2>1, <2>2, <2>4, TwoWords DEF M, H
<1>8. MulDiv("mulhu", a, b) * M + MulDiv("mul", a, b) = a * b
  <2>1. a * b = a * b + M * 0 /\ 0 \in Int /\ a * b \in Int /\ a * b >= 0
    BY <1>2
  <2>2. a * b \in -((M - 1) * (M - 1)) .. (M - 1) * (M - 1)
    BY <1>2, ProductBound
  <2>3. (M - 1) * (M - 1) = M * M - 2 * M + 1 /\ M * M \in Int /\ M * 0 = 0
    BY <1>2
  <2>4. (a * b) \div M \in 0 .. M - 1
    <3>1. M * 0 <= a * b /\ a * b < M * M
      BY <1>2, <2>1, <2>2, <2>3
    <3> QED
      BY <1>2, <2>1, <3>1, QuotientBound
  <2>5. (a * b) \div M \in Word
    BY <2>4, WordFacts DEF M
  <2> QED
    BY <1>1, <2>1, <2>5, TwoWords DEF M
<1> QED
  BY <1>1, <1>6, <1>7, <1>8 DEF sa, sb

\* Quotients and remainders
Divided(q, r, a, b) ==
  IF b = 0 THEN Wrap(q) = 2^W - 1 /\ r = a
  ELSE /\ Wrap(q * b + r) = Wrap(a)
       /\ Magnitude(r) < Magnitude(b) /\ (r # 0 => (r < 0) = (a < 0))
       /\ Magnitude(q * b) <= Magnitude(a)

LEMMA UnsignedDivided ==
  ASSUME NEW a \in Word, NEW b \in Word
  PROVE  Divided(MulDiv("divu", a, b), MulDiv("remu", a, b), a, b)
<1>1. a \in Nat /\ b \in Nat /\ Modulus - 1 \in Word /\ Modulus = 2^W
  BY WordFacts DEF Modulus
<1>2. CASE b = 0
  <2>1. MulDiv("divu", a, b) = Modulus - 1 /\ MulDiv("remu", a, b) = a
    BY <1>1, <1>2 DEF MulDiv
  <2> QED
    BY <1>1, <1>2, <2>1, WrapWord DEF Divided
<1>3. CASE b # 0
  <2> DEFINE q == a \div b
             r == a % b
  <2>1. MulDiv("divu", a, b) = q /\ MulDiv("remu", a, b) = r
    BY <1>3 DEF MulDiv
  <2>b. a \in Int /\ b \in Nat /\ b > 0
    BY <1>1, <1>3
  <2>2. a = b * q + r /\ q \in Int /\ r \in 0 .. b - 1
    BY <2>b, Division
  <2>3. q \in 0 .. a + 1 - 1
    <3>1. b * 0 <= a /\ a < b * (a + 1)
      BY <1>1, <1>3
    <3> QED
      BY <1>1, <1>3, <3>1, QuotientBound
  <2> HIDE DEF q, r
  <2>4. b * q \in Int /\ b * q >= 0 /\ q * b = b * q
    BY <1>1, <2>2, <2>3
  <2>5. q * b + r = a /\ Magnitude(q * b) <= Magnitude(a)
    BY <1>1, <2>2, <2>4 DEF Magnitude
  <2>6. Magnitude(r) < Magnitude(b) /\ ~(r < 0) /\ ~(a < 0)
    BY <1>1, <1>3, <2>2 DEF Magnitude
  <2> QED
    BY <1>3, <2>1, <2>5, <2>6 DEF Divided
<1> QED
  BY <1>2, <1>3

LEMMA SignedDivided ==
  ASSUME NEW a \in Word, NEW b \in Word
  PROVE  Divided(Signed(MulDiv("div", a, b)), Signed(MulDiv("rem", a, b)), Signed(a), Signed(b))
<1> DEFINE M == Modulus
           H == HalfWord
           sa == Signed(a)
           sb == Signed(b)
           Q == Quotient(sa, sb)
           R == Remainder(sa, sb)
           div == MulDiv("div", a, b)
           rem == MulDiv("rem", a, b)
<1>1. /\ M \in Nat /\ M > 0 /\ H \in Nat /\ H > 0 /\ M = 2 * H /\ M - 1 \in Word /\ M = 2^W
      /\ 0 \in Word /\ H \in Word
  BY WordFacts DEF Modulus
<1>2. /\ sa \in -H .. H - 1 /\ (sa = -H <=> a = H)
      /\ sb \in -H .. H - 1 /\ (sb = 0 <=> b = 0)
  BY SignedRange
<1>3. \A x : Signed(x) = IF x < H THEN x ELSE x - M
  BY DEF Signed, HalfWord, Modulus
<1>4. /\ div = IF b = 0 THEN M - 1 ELSE IF a = H /\ sb = -1 THEN a ELSE Wrap(Q)
      /\ rem = IF b = 0 THEN a ELSE IF a = H /\ sb = -1 THEN 0 ELSE Wrap(R)
  BY DEF MulDiv, Overflows, HalfWord, Modulus
<1>5. CASE b = 0
  <2>1. Signed(div) = -1 /\ Signed(rem) = sa /\ sb = 0
    BY <1>1, <1>2, <1>3, <1>4, <1>5
  <2>2. Wrap(-1) = M - 1
    <3>1. -1 = M * (-1) + (M - 1) /\ M - 1 \in 0 .. M - 1 /\ -1 \in Int
      BY <1>1
    <3>2. (-1) % M = M - 1
      BY <1>1, <3>1, DivisionUnique
    <3> QED
      BY <3>2 DEF Wrap, Modulus
  <2> QED
    BY <1>1, <2>1, <2>2 DEF Divided
<1>6. CASE b # 0 /\ a = H /\ sb = -1
  <2>1. Signed(div) = -H /\ Signed(rem) = 0 /\ sa = -H
    BY <1>1, <1>2, <1>3, <1>4, <1>6
  <2>2. (-H) * (-1) + 0 = H /\ (-H) * (-1) = H
    BY <1>1
  <2>3. Wrap(H) = Wrap(-H)
    <3>1. (-H + M * 1) % M = (-H) % M /\ -H + M * 1 = H
      BY <1>1, SameRemainder
    <3> QED
      BY <3>1 DEF Wrap, Modulus
  <2>4. /\ Magnitude(H) <= Magnitude(-H) /\ Magnitude(0) < Magnitude(-1)
    BY <1>1 DEF Magnitude
  <2> QED
    BY <1>6, <2>1, <2>2, <2>3, <2>4 DEF Divided
<1>7. CASE b # 0 /\ ~(a = H /\ sb = -1)
  <2> HIDE DEF M, H, sa, sb
  <2>1. sa \in Int /\ sb \in Int /\ sb # 0
    BY <1>1, <1>2, <1>7
  <2>q. Q = Quotient(sa, sb) /\ R = Remainder(sa, sb)
    OBVIOUS
  <2> HIDE DEF Q, R
  <2>2. /\ Q \in Int /\ R \in Int /\ Q * sb + R = sa
        /\ Magnitude(R) < Magnitude(sb) /\ (R # 0 => (R < 0) = (sa < 0))
        /\ Magnitude(Q * sb) <= Magnitude(sa)
        /\ \E m \in Nat : /\ Q = m \/ Q = -m
                          /\ m * Magnitude(sb) <= Magnitude(sa)
                          /\ Q = m /\ m # 0 => (sa < 0) = (sb < 0)
    <3>1. TowardsZero(Q, R, sa, sb)
      BY <2>1, <2>q, Truncated
    <3> QED
      BY <3>1 DEF TowardsZero
  <2>3. R \in -H .. H - 1
    <3>1. Magnitude(sb) <= H
      BY <1>1, <1>2 DEF Magnitude
    <3> QED
      BY <1>1, <2>1, <2>2, <3>1 DEF Magnitude
  <2>4. Q \in -H .. H - 1
    <3>1. PICK m \in Nat : /\ Q = m \/ Q = -m
                           /\ m * Magnitude(sb) <= Magnitude(sa)
                           /\ Q = m /\ m # 0 => (sa < 0) = (sb < 0)
      BY <2>2
    <3>2. PICK c \in Nat : Magnitude(sb) = 1 + c
      <4>1. Magnitude(sb) \in Nat /\ Magnitude(sb) >= 1
        BY <2>1 DEF Magnitude
      <4>2. Magnitude(sb) - 1 \in Nat /\ Magnitude(sb) = 1 + (Magnitude(sb) - 1)
        BY <4>1
      <4> QED
        BY <4>2
    <3>3. Magnitude(sa) <= H /\ Magnitude(sa) \in Nat
      BY <1>1, <1>2, <2>1 DEF Magnitude
    <3>4. m + m * c <= H /\ m * c \in Nat
      <4>1. m * (1 + c) = m + m * c /\ m * c \in Nat
        OBVIOUS
      <4> QED
        BY <1>1, <3>1, <3>2, <3>3, <4>1
    <3>5. CASE m < H \/ Q = -m
      BY <1>1, <3>1, <3>4, <3>5
    <3>6. CASE m = H /\ Q = m
      <4>1. m * c = 0 /\ m # 0
        BY <1>1, <3>4, <3>6
      <4>2. c = 0
        BY <4>1
      <4>3. Magnitude(sb) = 1 /\ Magnitude(sa) = H
        <5>1. m * 1 <= Magnitude(sa)
          BY <3>1, <3>2, <4>2
        <5> QED
          BY <1>1, <3>2, <3>3, <3>6, <4>2, <5>1
      <4>4. sa = -H /\ sa < 0
        BY <1>1, <1>2, <4>3 DEF Magnitude
      <4>5. sb < 0
        BY <3>1, <3>6, <4>1, <4>4
      <4>6. sb = -1 /\ a = H
        BY <1>2, <2>1, <4>3, <4>4, <4>5 DEF Magnitude
      <4> QED
        BY <1>7, <4>6
    <3> QED
      BY <1>1, <3>1, <3>4, <3>5, <3>6
  <2>5. div = Wrap(Q) /\ rem = Wrap(R)
    BY <1>4, <1>7
  <2>6. Signed(Wrap(Q)) = Q /\ Signed(Wrap(R)) = R
    BY <2>3, <2>4, SignedWrap DEF H
  <2> QED
    BY <2>1, <2>2, <2>5, <2>6 DEF Divided, sa, sb
<1> QED
  BY <1>5, <1>6, <1>7

\* The multiply extension, for registers of every width: all operands.
THEOREM MulDivAlways == Spec => []MulDivLaw
<1>1. case \in Cases => MulDivLaw
  <2> SUFFICES ASSUME case \in Cases, case.kind = "operands" PROVE MulDivLaw
    BY DEF MulDivLaw
  <2>1. case.a \in Word /\ case.b \in Word
    BY CasesAssumption
  <2> QED
    BY <2>1, ProductsExact, UnsignedDivided, SignedDivided DEF MulDivLaw, Divided
<1> QED
  BY <1>1, CaseStays, PTL

-----------------------------------------------------------------------------
(* Orders and shifts: OrderLaw *)

\* A word and its top bit.
LEMMA TopBit ==
  ASSUME NEW a \in Word
  PROVE  /\ Value(Ones(a)) = a /\ Ones(a) \in SUBSET Bits
         /\ W - 1 \in Ones(a) <=> a >= HalfWord
<1>1. W \in 0 .. W /\ W - 1 \in 0 .. W /\ W - 1 \in Bits /\ W \in Nat
  BY WidthAssumption DEF Bits
<1>2. a \in 0 .. 2^W - 1
  BY DEF Word
<1> DEFINE S == Ones(a)
<1>3. Value(S) = a /\ S \in SUBSET (0 .. W - 1)
  BY <1>1, <1>2, ValueOnes
<1>4. S \in SUBSET Bits
  BY <1>3 DEF Bits
<1> HIDE DEF S
<1>5. CASE W - 1 \in S
  <2>1. Value(S) = 2^(W - 1) + Value(S \ {W - 1})
    BY <1>4, <1>5, ValueOf
  <2> DEFINE R == S \ {W - 1}
  <2>2. R \in SUBSET Bits
    BY <1>4
  <2> HIDE DEF R
  <2>3. Value(R) \in Word
    BY <2>2, ValueWord
  <2>4. Value(R) >= 0 /\ Value(R) \in Int /\ HalfWord \in Int
    BY <2>3, WordFacts
  <2>5. a >= HalfWord
    BY <1>3, <2>1, <2>4 DEF HalfWord, R
  <2> QED
    BY <1>3, <1>4, <1>5, <2>5 DEF S
<1>6. CASE W - 1 \notin S
  <2> DEFINE m == W - 1
  <2>1. m \in 0 .. W /\ S \in SUBSET (0 .. m - 1)
    <3>1. ASSUME NEW x \in S PROVE x \in 0 .. (W - 1) - 1
      <4>1. x \in 0 .. W - 1 /\ x # W - 1
        BY <1>3, <1>6
      <4> QED
        BY <1>1, <4>1
    <3> QED
      BY <1>1, <3>1
  <2> HIDE DEF m
  <2>2. Value(S) \in 0 .. 2^m - 1
    BY <2>1, ValueBelow
  <2>3. a < HalfWord
    <3>1. 2^m \in Int /\ HalfWord = 2^m
      BY <2>1, PowerPositive DEF HalfWord, m
    <3> QED
      BY <1>3, <2>2, <3>1
  <2>4. a \in Int /\ HalfWord \in Int
    BY WordFacts
  <2> QED
    BY <1>3, <1>4, <1>6, <2>3, <2>4 DEF S
<1> QED
  BY <1>5, <1>6

\* Exclusive or with the top bit moves a word by half the range,
LEMMA XorHalf == ASSUME NEW a \in Word PROVE Xor(a, 2^(W - 1)) = Signed(a) + HalfWord
<1> DEFINE h == W - 1
           S == Ones(a)
<1>1. h \in Bits /\ {h} \in SUBSET Bits /\ {} \in SUBSET Bits
  BY WidthAssumption DEF Bits
<1>2. Value(S) = a /\ S \in SUBSET Bits /\ (h \in S <=> a >= HalfWord)
  BY TopBit
<1> HIDE DEF h, S
<1>3. Value({h}) = 2^h /\ 2^h \in Int
  <2>1. h \in {h} /\ {h} \ {h} = {}
    OBVIOUS
  <2>2. Value({h}) = 2^h + Value({h} \ {h})
    BY <1>1, <2>1, ValueOf
  <2>3. Value({}) = 0
    BY <1>1, ValueOf
  <2>4. 2^h \in Int
    BY WordFacts DEF HalfWord, h
  <2> QED
    BY <2>1, <2>2, <2>3, <2>4
<1>4. Ones(2^h) = {h}
  BY <1>1, <1>3, OnesValue
<1>5. Xor(a, 2^h) = Value((S \cup {h}) \ (S \cap {h}))
  BY <1>4 DEF Xor, S
<1>6. /\ HalfWord = 2^h /\ HalfWord \in Int /\ a \in Int /\ Modulus = 2 * HalfWord
      /\ Signed(a) = IF a < HalfWord THEN a ELSE a - Modulus
  BY WordFacts DEF HalfWord, Signed, Modulus, h
<1>7. CASE h \in S
  <2>1. (S \cup {h}) \ (S \cap {h}) = S \ {h}
    BY <1>7
  <2>2. Value(S) = 2^h + Value(S \ {h})
    BY <1>2, <1>7, ValueOf
  <2> DEFINE R == S \ {h}
  <2>3. R \in SUBSET Bits
    BY <1>2
  <2>4. Value(R) \in Int
    BY <2>3, ValueOf
  <2> HIDE DEF R
  <2>5. Value(R) = Signed(a) + HalfWord
    BY <1>2, <1>6, <1>7, <2>2, <2>4 DEF R
  <2> QED
    BY <1>5, <2>1, <2>5 DEF R, h
<1>8. CASE h \notin S
  <2> DEFINE U == S \cup {h}
  <2>1. (S \cup {h}) \ (S \cap {h}) = U /\ U \in SUBSET Bits /\ h \in U /\ U \ {h} = S
    BY <1>1, <1>2, <1>8
  <2> HIDE DEF U
  <2>2. Value(U) = 2^h + Value(S)
    BY <2>1, ValueOf
  <2>3. Value(U) = Signed(a) + HalfWord
    BY <1>2, <1>6, <1>8, <2>2
  <2> QED
    BY <1>5, <2>1, <2>3 DEF h
<1> QED
  BY <1>7, <1>8

\* and with all bits turns it round.
LEMMA XorAll == ASSUME NEW a \in Word PROVE Xor(a, 2^W - 1) = Modulus - 1 - a
<1> DEFINE S == Ones(a)
           R == Bits \ S
           all == 2^W - 1
<1>1. Value(S) = a /\ S \in SUBSET Bits
  BY TopBit
<1>2. Value(Bits) = all
  BY ValueAll, WidthAssumption DEF Bits
<1>3. Ones(all) = Bits
  <2>1. Bits \in SUBSET Bits
    OBVIOUS
  <2> HIDE DEF all
  <2> QED
    BY <1>2, <2>1, OnesValue
<1>4. (S \cup Bits) \ (S \cap Bits) = R /\ R \in SUBSET Bits /\ S \cap R = {} /\ S \cup R = Bits
  BY <1>1
<1> HIDE DEF S, R, all
<1>5. Xor(a, all) = Value(R)
  BY <1>3, <1>4 DEF Xor, S
<1>6. Value(Bits) = a + Value(R) /\ Value(R) \in Int
  BY <1>1, <1>4, ValueUnion, ValueOf
<1>7. all = Modulus - 1 /\ Modulus \in Int /\ a \in Int
  BY WordFacts DEF all, Modulus
<1>8. Value(R) = Modulus - 1 - a
  <2> DEFINE v == Value(R)
  <2>1. all = a + v /\ v \in Int
    BY <1>2, <1>6
  <2> HIDE DEF v
  <2>2. v = Modulus - 1 - a
    BY <1>7, <2>1
  <2> QED
    BY <2>2 DEF v
<1> QED
  BY <1>5, <1>8 DEF all

\* Equal operands are those whose difference is zero.
LEMMA SameDifference == ASSUME NEW a \in Word, NEW b \in Word PROVE Wrap(a - b) = 0 <=> a = b
<1> DEFINE M == Modulus
           q == (a - b) \div M
<1>1. M \in Nat /\ M > 0 /\ a \in 0 .. M - 1 /\ b \in 0 .. M - 1 /\ Wrap(a - b) = (a - b) % M
  BY WordFacts DEF Wrap, Modulus
<1> HIDE DEF M
<1>2. a - b = M * q + ((a - b) % M) /\ q \in Int
  BY <1>1, Division
<1> HIDE DEF q
<1>3. ASSUME (a - b) % M = 0 PROVE a = b
  <2>1. M * q \in Int /\ M * q = a - b /\ -M < M * q /\ M * q < M
    BY <1>1, <1>2, <1>3
  <2>2. ~(q > 0) /\ ~(0 > q)
    <3>1. q > 0 => M * q >= M * 0 + M
      BY <1>1, <1>2, TimesMore
    <3>2. 0 > q => M * 0 >= M * q + M
      BY <1>1, <1>2, TimesMore
    <3> QED
      BY <1>1, <2>1, <3>1, <3>2
  <2>3. q = 0
    BY <1>2, <2>2
  <2> QED
    BY <1>1, <2>1, <2>3
<1>4. ASSUME a = b PROVE (a - b) % M = 0
  <2>1. a - b = M * 0 + 0 /\ 0 \in 0 .. M - 1 /\ a - b \in Int
    BY <1>1, <1>4
  <2> QED
    BY <1>1, <2>1, DivisionUnique
<1> QED
  BY <1>1, <1>3, <1>4

\* An arithmetic shift is a logical one, of the complement if the sign is set.
LEMMA ShiftsAgree ==
  ASSUME NEW a \in Word, NEW s \in Bits
  PROVE  ShiftArith(a, s) =
           IF Signed(a) < 0 THEN Xor(ShiftRight(Xor(a, 2^W - 1), s), 2^W - 1) ELSE ShiftRight(a, s)
<1> DEFINE M == Modulus
           p == 2^s
<1>1. M \in Nat /\ M > 0 /\ a \in 0 .. M - 1 /\ Word = 0 .. M - 1
  BY WordFacts
<1>2. p \in Nat /\ p > 0
  BY PowerPositive, WidthAssumption DEF Bits
<1>3. Signed(a) = a \/ Signed(a) = a - M
  BY SignedRange
<1>4. Signed(a) >= 0 => Signed(a) = a
  BY <1>1, <1>3
<1>5. ShiftArith(a, s) = Wrap(Signed(a) \div p) /\ \A x : ShiftRight(x, s) = x \div p
  BY DEF ShiftArith, ShiftRight
<1> HIDE DEF M, p
<1>6. CASE ~(Signed(a) < 0)
  <2>1. Signed(a) = a
    BY <1>1, <1>3, <1>4, <1>6
  <2>2. a \div p \in Word
    BY <1>2, QuotientWord
  <2>3. Wrap(a \div p) = a \div p
    BY <2>2, WrapWord
  <2> QED
    BY <1>5, <1>6, <2>1, <2>3
<1>7. CASE Signed(a) < 0
  <2> DEFINE n == M - 1 - a
             q == n \div p
             r == n % p
             k == -q - 1
  <2>1. Signed(a) = a - M
    BY <1>1, <1>3, <1>7
  <2>2. n \in Word /\ Xor(a, 2^W - 1) = n
    BY <1>1, XorAll DEF M
  <2>3. n = p * q + r /\ q \in Int /\ r \in 0 .. p - 1
    <3>1. n \in Int
      BY <1>1
    <3> HIDE DEF n
    <3> QED
      BY <1>2, <3>1, Division
  <2>4. q \in Word
    BY <1>2, <2>2, QuotientWord
  <2>5. Xor(q, 2^W - 1) = M - 1 - q
    BY <2>4, XorAll DEF M
  <2>6. a - M = -n - 1 /\ a - M \in Int
    BY <1>1
  <2> HIDE DEF n, q, r
  <2>7. a - M = p * k + (p - 1 - r) /\ p - 1 - r \in 0 .. p - 1 /\ k \in Int
    <3>1. p * (-q - 1) = -(p * q) - p /\ p * q \in Int
      BY <1>2, <2>3
    <3> QED
      BY <1>2, <2>3, <2>6, <3>1
  <2>8. (a - M) \div p = k
    <3> HIDE DEF k
    <3> QED
      BY <1>2, <2>6, <2>7, DivisionUnique
  <2>9. Wrap(k) = M - 1 - q
    <3>1. k = M * (-1) + (M - 1 - q) /\ M - 1 - q \in 0 .. M - 1 /\ k \in Int /\ -1 \in Int
      BY <1>1, <2>3, <2>4
    <3>2. k % M = M - 1 - q
      BY <1>1, <3>1, DivisionUnique
    <3> QED
      BY <3>2 DEF Wrap, M, Modulus
  <2> QED
    BY <1>5, <1>7, <2>1, <2>2, <2>5, <2>8, <2>9 DEF q
<1> QED
  BY <1>6, <1>7

\* Comparisons, branches and shifts keep to one signed and one unsigned order,
\* for registers of every width: all operands.
THEOREM OrderAlways == Spec => []OrderLaw
<1>1. ASSUME NEW a \in Word, NEW b \in Word
      PROVE  LET Half(x) == Xor(x, 2^(W - 1))
                 Not(x) == Xor(x, 2^W - 1)
             IN /\ RegOp("slt", a, b) = RegOp("sltu", Half(a), Half(b))
                /\ RegOp("sltu", a, b) = Flag(Taken("bltu", a, b)) /\ RegOp("slt", a, b) = Flag(Taken("blt", a, b))
                /\ Taken("bge", a, b) # Taken("blt", a, b) /\ Taken("bgeu", a, b) # Taken("bltu", a, b)
                /\ Taken("beq", a, b) = (RegOp("sub", a, b) = 0) /\ Taken("bne", a, b) # Taken("beq", a, b)
                /\ RegOp("sra", a, b) =
                     IF Signed(a) < 0 THEN Not(RegOp("srl", Not(a), b)) ELSE RegOp("srl", a, b)
  <2>1. /\ Signed(a) \in Int /\ Signed(b) \in Int /\ HalfWord \in Int /\ a \in Int /\ b \in Int
        /\ Xor(a, 2^(W - 1)) = Signed(a) + HalfWord /\ Xor(b, 2^(W - 1)) = Signed(b) + HalfWord
    BY SignedType, XorHalf, WordFacts
  <2>2. /\ \A x, y : RegOp("slt", x, y) = Flag(Signed(x) < Signed(y)) /\ RegOp("sltu", x, y) = Flag(x < y)
        /\ \A x, y : RegOp("sub", x, y) = Wrap(x - y)
        /\ \A x, y : RegOp("sra", x, y) = ShiftArith(x, y % W) /\ RegOp("srl", x, y) = ShiftRight(x, y % W)
    BY DEF RegOp
  <2>3. /\ Taken("bltu", a, b) = (a < b) /\ Taken("blt", a, b) = (Signed(a) < Signed(b))
        /\ Taken("bgeu", a, b) = (a >= b) /\ Taken("bge", a, b) = (Signed(a) >= Signed(b))
        /\ Taken("beq", a, b) = (a = b) /\ Taken("bne", a, b) = (a # b)
    BY DEF Taken
  <2>4. RegOp("slt", a, b) = RegOp("sltu", Xor(a, 2^(W - 1)), Xor(b, 2^(W - 1)))
    <3>1. (Signed(a) < Signed(b)) = (Signed(a) + HalfWord < Signed(b) + HalfWord)
      BY <2>1
    <3> QED
      BY <2>1, <2>2, <3>1
  <2>5. Taken("bge", a, b) # Taken("blt", a, b) /\ Taken("bgeu", a, b) # Taken("bltu", a, b)
    BY <2>1, <2>3
  <2>6. Taken("beq", a, b) = (RegOp("sub", a, b) = 0)
    BY <2>2, <2>3, SameDifference
  <2>7. b % W \in Bits
    BY <2>1, CountType
  <2>8. RegOp("sra", a, b) =
          IF Signed(a) < 0 THEN Xor(RegOp("srl", Xor(a, 2^W - 1), b), 2^W - 1) ELSE RegOp("srl", a, b)
    BY <2>2, <2>7, ShiftsAgree
  <2> QED
    BY <2>2, <2>3, <2>4, <2>5, <2>6, <2>8
<1>2. case \in Cases => OrderLaw
  <2> SUFFICES ASSUME case \in Cases, case.kind = "operands" PROVE OrderLaw
    BY DEF OrderLaw
  <2>1. case.a \in Word /\ case.b \in Word
    BY CasesAssumption
  <2> QED
    BY <1>1, <2>1 DEF OrderLaw
<1> QED
  BY <1>2, CaseStays, PTL

-----------------------------------------------------------------------------
(* Immediates: ImmediateLaw *)

\* The bits above an immediate.
LEMMA ValueAbove == ASSUME NEW n \in 0 .. W PROVE Value(n .. W - 1) = 2^W - 2^n
<1> DEFINE low == 0 .. n - 1
           high == n .. W - 1
<1>1. W \in 0 .. W /\ W \in Nat
  BY WidthAssumption
<1>2. low \in SUBSET Bits /\ high \in SUBSET Bits /\ low \cap high = {} /\ low \cup high = 0 .. W - 1
  BY <1>1 DEF Bits
<1>3. Value(low) = 2^n - 1 /\ Value(0 .. W - 1) = 2^W - 1 /\ 2^n \in Int /\ 2^W \in Int
  BY <1>1, ValueAll, PowerPositive
<1> HIDE DEF low, high
<1>4. Value(0 .. W - 1) = Value(low) + Value(high) /\ Value(high) \in Int
  BY <1>2, ValueUnion, ValueOf
<1> DEFINE v == Value(high)
<1>5. 2^W - 1 = 2^n - 1 + v /\ v \in Int
  BY <1>3, <1>4
<1> HIDE DEF v
<1>6. v = 2^W - 2^n
  BY <1>3, <1>5
<1> QED
  BY <1>6 DEF v, high

\* SextImm adds the bits above to a negative immediate.
LEMMA SextImmediate ==
  ASSUME NEW imm \in Imm
  PROVE  SextImm(imm) = IF imm < 2^(ImmBits - 1) THEN imm ELSE imm + Modulus - 2^ImmBits
<1> DEFINE n == ImmBits
           m == n - 1
           p == 2^m
           S == Ones(imm)
           high == n .. W - 1
<1>1. n \in 0 .. W /\ m \in 0 .. W /\ m \in 0 .. W - 1 /\ n = m + 1 /\ W \in Nat
  BY WidthAssumption
<1>2. p \in Nat /\ p > 0 /\ 2^n = 2 * p /\ 2^n \in Int
  <2> HIDE DEF n, m
  <2> QED
    BY <1>1, PowerPositive, PowerAssumption
<1>3. imm \in 0 .. 2^n - 1
  BY DEF Imm
<1>4. Value(S) = imm /\ S \in SUBSET (0 .. n - 1)
  <2> HIDE DEF n
  <2> QED
    BY <1>1, <1>3, ValueOnes
<1>5. SextImm(imm) = IF (imm \div p) % 2 = 1 THEN Value(S \cup high) ELSE imm
  BY DEF SextImm, SEXT
<1>6. Value(high) = Modulus - 2^n
  <2> HIDE DEF n
  <2> QED
    BY <1>1, ValueAbove DEF Modulus
<1>7. /\ S \in SUBSET Bits /\ high \in SUBSET Bits /\ S \cap high = {}
  <2>1. 0 .. n - 1 \in SUBSET Bits /\ high \in SUBSET Bits /\ (0 .. n - 1) \cap high = {}
    BY <1>1 DEF Bits
  <2> HIDE DEF S, high
  <2> QED
    BY <1>4, <2>1
<1> HIDE DEF n, m, p, S, high
<1>8. Value(S \cup high) = imm + (Modulus - 2^n)
  BY <1>4, <1>6, <1>7, ValueUnion
<1>9. imm \in Int /\ Modulus \in Int
  BY <1>2, <1>3, WordFacts
<1>10. CASE imm < p
  <2>1. imm = p * 0 + imm /\ imm \in 0 .. p - 1
    BY <1>2, <1>3, <1>9, <1>10
  <2>2. imm \div p = 0
    BY <1>2, <1>9, <2>1, DivisionUnique
  <2> QED
    BY <1>5, <1>10, <2>2 DEF p, m, n
<1>11. CASE ~(imm < p)
  <2>1. imm = p * 1 + (imm - p) /\ imm - p \in 0 .. p - 1
    BY <1>2, <1>3, <1>9, <1>11
  <2>2. imm \div p = 1
    BY <1>2, <1>9, <2>1, DivisionUnique
  <2>3. 1 % 2 = 1
    OBVIOUS
  <2>4. imm + (Modulus - 2^n) = imm + Modulus - 2^n
    BY <1>2, <1>9
  <2> QED
    BY <1>5, <1>8, <1>11, <2>2, <2>3, <2>4 DEF p, m, n
<1> QED
  BY <1>10, <1>11

\* A shift count does not see the sign.
LEMMA SameCount == ASSUME NEW imm \in Imm PROVE SextImm(imm) % W = imm % W
<1>1. PICK k \in 0 .. ImmBits : W = 2^k
  BY ShiftAssumption
<1> DEFINE i == ImmBits - k
           j == W - k
<1>2. /\ k \in 0 .. W /\ i \in 0 .. W - k /\ j \in 0 .. W - k /\ i \in 0 .. W /\ j \in 0 .. W
      /\ k + i = ImmBits /\ k + j = W /\ W \in Nat /\ W > 0
  BY WidthAssumption
<1> HIDE DEF i, j
<1>3. 2^(k + i) = 2^k * 2^i /\ 2^(k + j) = 2^k * 2^j /\ 2^i \in Int /\ 2^j \in Int
  BY <1>2, PowerSum, PowerPositive
<1>4. 2^ImmBits = W * 2^i /\ Modulus = W * 2^j
  BY <1>1, <1>2, <1>3 DEF Modulus
<1> DEFINE c == 2^j - 2^i
<1>5. c \in Int /\ Modulus - 2^ImmBits = W * c
  <2>1. \A x, y \in Int : W * x - W * y = W * (x - y) /\ x - y \in Int
    BY <1>2
  <2> QED
    BY <1>3, <1>4, <2>1
<1>6. imm \in Int /\ Modulus \in Int /\ 2^ImmBits \in Int
  <2>1. ImmBits \in 0 .. W
    BY WidthAssumption
  <2> QED
    BY <2>1, WordFacts, PowerPositive DEF Imm
<1> HIDE DEF c
<1>7. (imm + W * c) % W = imm % W
  BY <1>2, <1>5, <1>6, SameRemainder
<1>8. imm + Modulus - 2^ImmBits = imm + W * c
  BY <1>5, <1>6
<1> QED
  BY <1>7, <1>8, SextImmediate

\* An instruction with an immediate is the one with a register, for registers
\* and immediates of every width: all operands, and when sltiu is not.
THEOREM ImmediateAlways == Spec => []ImmediateLaw
<1>1. ASSUME NEW a \in Word, NEW imm \in Imm
      PROVE  LET v == SextImm(imm)
                 Same(immOp, regOp) == ImmOp(immOp, a, imm) = RegOp(regOp, a, v)
             IN /\ Signed(v) = IF imm < 2^(ImmBits - 1) THEN imm ELSE imm - 2^ImmBits
                /\ Same("addi", "add") /\ Same("xori", "xor") /\ Same("ori", "or") /\ Same("andi", "and")
                /\ Same("slli", "sll") /\ Same("srli", "srl") /\ Same("srai", "sra") /\ Same("slti", "slt")
                /\ Same("sltiu", "sltu") <=> ~(v # imm /\ imm <= a /\ a < v)
  <2> DEFINE v == SextImm(imm)
             M == Modulus
             H == HalfWord
             p == 2^(ImmBits - 1)
             n == 2^ImmBits
  <2>1. M \in Nat /\ H \in Nat /\ M = 2 * H /\ a \in 0 .. M - 1
    BY WordFacts
  <2>2. p \in Nat /\ p <= H /\ n = 2 * p /\ n <= M /\ imm \in 0 .. n - 1
    <3> DEFINE m == ImmBits - 1
    <3>1. m \in 0 .. W - 1 /\ m \in 0 .. W /\ ImmBits \in 0 .. W /\ m + 1 = ImmBits
          /\ W - 1 \in m .. W /\ W \in ImmBits .. W
      BY WidthAssumption
    <3> HIDE DEF m
    <3>2. 2^m <= 2^(W - 1) /\ 2^ImmBits <= 2^W /\ 2^ImmBits = 2 * 2^m /\ 2^m \in Nat
      BY <3>1, PowerMonotone, PowerAssumption, PowerPositive
    <3> QED
      BY <3>2 DEF Modulus, HalfWord, Imm, m
  <2>3. v = IF imm < p THEN imm ELSE imm + M - n
    BY SextImmediate
  <2>4. \A x : Signed(x) = IF x < H THEN x ELSE x - M
    BY DEF Signed, HalfWord, Modulus
  <2>5. v % W = imm % W
    BY SameCount
  <2>6. /\ ImmOp("addi", a, imm) = RegOp("add", a, v) /\ ImmOp("xori", a, imm) = RegOp("xor", a, v)
        /\ ImmOp("ori", a, imm) = RegOp("or", a, v) /\ ImmOp("andi", a, imm) = RegOp("and", a, v)
        /\ ImmOp("slti", a, imm) = RegOp("slt", a, v)
    BY DEF ImmOp, RegOp
  <2>7. /\ ImmOp("slli", a, imm) = RegOp("sll", a, v) /\ ImmOp("srli", a, imm) = RegOp("srl", a, v)
        /\ ImmOp("srai", a, imm) = RegOp("sra", a, v)
    BY <2>5 DEF ImmOp, RegOp
  <2>8. ImmOp("sltiu", a, imm) = Flag(a < imm) /\ RegOp("sltu", a, v) = Flag(a < v)
    BY DEF ImmOp, RegOp
  <2> HIDE DEF v, M, H, p, n
  <2>9. Signed(v) = IF imm < p THEN imm ELSE imm - n
    BY <2>1, <2>2, <2>3, <2>4
  <2>10. ImmOp("sltiu", a, imm) = RegOp("sltu", a, v) <=> ~(v # imm /\ imm <= a /\ a < v)
    BY <2>1, <2>2, <2>3, <2>8 DEF Flag
  <2> QED
    BY <2>6, <2>7, <2>9, <2>10 DEF v, p, n
<1>2. case \in Cases => ImmediateLaw
  <2> SUFFICES ASSUME case \in Cases, case.kind = "immediate" PROVE ImmediateLaw
    BY DEF ImmediateLaw
  <2>1. case.a \in Word /\ case.imm \in Imm
    BY CasesAssumption
  <2> QED
    BY <1>1, <2>1 DEF ImmediateLaw
<1> QED
  BY <1>2, CaseStays, PTL

-----------------------------------------------------------------------------
(* Folds over sequences: the recursion of FoldLeft, whose step is g here, has *)
(* a solution for every sequence                                              *)

LEMMA MaxMember ==
  ASSUME NEW n \in Nat, NEW s \in SUBSET (1 .. n), s # {}
  PROVE  Max(s) \in s /\ \A y \in s : Max(s) >= y
<1> DEFINE T == {n - x : x \in s}
<1>1. T \subseteq Nat /\ T # {}
  <2>1. \A x \in s : n - x \in Nat
    OBVIOUS
  <2> QED
    BY <2>1
<1>2. PICK k \in T : \A j \in T : k <= j
  <2> HIDE DEF T
  <2> QED
    BY <1>1, SmallestNumber
<1>3. PICK x \in s : k = n - x
  BY <1>2
<1>4. \A y \in s : n - x <= n - y
  BY <1>2, <1>3
<1>5. \A y \in s : x >= y
  BY <1>4
<1> QED
  BY <1>3, <1>5 DEF Max

LEMMA MaxOfFirst ==
  ASSUME NEW n \in Nat, NEW k \in 1 .. n
  PROVE  Max(1 .. k) = k /\ (1 .. k) \ {k} = 1 .. k - 1
<1> DEFINE first == 1 .. k
<1>1. first \in SUBSET (1 .. n) /\ k \in first
  OBVIOUS
<1> HIDE DEF first
<1>2. Max(first) \in first /\ \A y \in first : Max(first) >= y
  BY <1>1, MaxMember
<1> QED
  BY <1>1, <1>2 DEF first

Folds(it, g, base, S) ==
  it = [s \in SUBSET S |-> IF s = {} THEN base ELSE g[<<it[s \ {Max(s)}], Max(s)>>]]

LEMMA FoldsUnique ==
  ASSUME NEW K, IsFiniteSet(K), \A s \in SUBSET K : s # {} => Max(s) \in s, NEW g, NEW base,
         NEW A \in SUBSET K, NEW B \in SUBSET K,
         NEW i, Folds(i, g, base, A), NEW j, Folds(j, g, base, B)
  PROVE  \A s \in SUBSET (A \cap B) : i[s] = j[s]
<1> DEFINE T == {s \in SUBSET (A \cap B) : i[s] # j[s]}
<1> SUFFICES ASSUME T # {} PROVE FALSE
  OBVIOUS
<1>1. T \subseteq SUBSET K
  OBVIOUS
<1>2. PICK s \in T : \A t \in T : ~(t \subseteq s /\ t # s)
  <2> HIDE DEF T
  <2> QED
    BY <1>1, SmallestSubset
<1>3. /\ i[s] = IF s = {} THEN base ELSE g[<<i[s \ {Max(s)}], Max(s)>>]
      /\ j[s] = IF s = {} THEN base ELSE g[<<j[s \ {Max(s)}], Max(s)>>]
  BY DEF Folds
<1>4. s # {}
  BY <1>3
<1>5. Max(s) \in s
  BY <1>1, <1>4
<1>6. i[s \ {Max(s)}] = j[s \ {Max(s)}]
  BY <1>2, <1>5
<1> QED
  BY <1>3, <1>4, <1>6

LEMMA FoldsExist ==
  ASSUME NEW K, IsFiniteSet(K), \A s \in SUBSET K : s # {} => Max(s) \in s, NEW g, NEW base
  PROVE  \A S \in SUBSET K : \E it : Folds(it, g, base, S)
<1> DEFINE T == {S \in SUBSET K : ~ \E it : Folds(it, g, base, S)}
<1> SUFFICES ASSUME T # {} PROVE FALSE
  OBVIOUS
<1>1. PICK S \in T : \A t \in T : ~(t \subseteq S /\ t # S)
  <2>1. T \subseteq SUBSET K
    OBVIOUS
  <2> HIDE DEF T
  <2> QED
    BY <2>1, SmallestSubset
<1> DEFINE of == [t \in SUBSET S |-> CHOOSE it : Folds(it, g, base, t)]
<1>2. ASSUME NEW t \in SUBSET S, t # S PROVE Folds(of[t], g, base, t)
  <2>1. \E it : Folds(it, g, base, t)
    BY <1>1, <1>2
  <2> QED
    BY <2>1
<1> HIDE DEF of
<1>3. ASSUME NEW t \in SUBSET S, t # S, t # {}
      PROVE  of[t][t] = g[<<of[t \ {Max(t)}][t \ {Max(t)}], Max(t)>>]
  <2> DEFINE u == t \ {Max(t)}
  <2>1. Max(t) \in t
    BY <1>1, <1>3
  <2>2. u \in SUBSET S /\ u # S /\ u \in SUBSET K /\ t \in SUBSET K /\ u \in SUBSET (t \cap u)
    BY <1>1, <1>3, <2>1
  <2>3. Folds(of[t], g, base, t) /\ Folds(of[u], g, base, u)
    BY <1>2, <1>3, <2>2
  <2> HIDE DEF u
  <2> DEFINE ot == of[t]
             ou == of[u]
  <2>9. Folds(ot, g, base, t) /\ Folds(ou, g, base, u)
    BY <2>3
  <2> HIDE DEF ot, ou
  <2>10. \A s \in SUBSET (t \cap u) : ot[s] = ou[s]
    BY <2>2, <2>9, FoldsUnique
  <2>4. of[t][u] = of[u][u]
    BY <2>2, <2>10 DEF ot, ou
  <2> QED
    BY <1>3, <2>3, <2>4 DEF Folds, u
<1> DEFINE is == [t \in SUBSET S |-> IF t = {} THEN base ELSE g[<<of[t \ {Max(t)}][t \ {Max(t)}], Max(t)>>]]
<1>4. ASSUME NEW t \in SUBSET S, t # {} PROVE is[t \ {Max(t)}] = of[t \ {Max(t)}][t \ {Max(t)}]
  <2> DEFINE u == t \ {Max(t)}
  <2>1. Max(t) \in t
    BY <1>1, <1>4
  <2>2. u \in SUBSET S /\ u # S
    BY <2>1
  <2>3. is[u] = IF u = {} THEN base ELSE g[<<of[u \ {Max(u)}][u \ {Max(u)}], Max(u)>>]
    BY <2>2
  <2>4. u = {} => of[u][u] = base
    <3>1. Folds(of[u], g, base, u)
      BY <1>2, <2>2
    <3> HIDE DEF u
    <3> QED
      BY <3>1 DEF Folds
  <2> HIDE DEF u, is
  <2>5. is[u] = of[u][u]
    BY <1>3, <2>2, <2>3, <2>4
  <2> QED
    BY <2>5 DEF u
<1>5. Folds(is, g, base, S)
  BY <1>4 DEF Folds
<1> QED
  BY <1>1, <1>5

LEMMA FoldsTyped ==
  ASSUME NEW K, IsFiniteSet(K), \A s \in SUBSET K : s # {} => Max(s) \in s, NEW T, NEW base \in T, NEW g \in [T \X K -> T], NEW it,
         Folds(it, g, base, K)
  PROVE  \A s \in SUBSET K : it[s] \in T
<1> DEFINE Bad == {s \in SUBSET K : it[s] \notin T}
<1> SUFFICES ASSUME Bad # {} PROVE FALSE
  OBVIOUS
<1>1. PICK s \in Bad : \A t \in Bad : ~(t \subseteq s /\ t # s)
  <2>1. Bad \subseteq SUBSET K
    OBVIOUS
  <2> HIDE DEF Bad
  <2> QED
    BY <2>1, SmallestSubset
<1>2. it[s] = IF s = {} THEN base ELSE g[<<it[s \ {Max(s)}], Max(s)>>]
  BY DEF Folds
<1>3. s # {}
  BY <1>2
<1>4. Max(s) \in s
  BY <1>3
<1>5. it[s \ {Max(s)}] \in T
  BY <1>1, <1>4
<1>6. <<it[s \ {Max(s)}], Max(s)>> \in T \X K
  BY <1>4, <1>5
<1> QED
  BY <1>2, <1>3, <1>6

LEMMA FoldTotal ==
  ASSUME NEW n \in Nat, NEW T, NEW base \in T, NEW g \in [T \X (1 .. n) -> T]
  PROVE  \E it : Folds(it, g, base, 1 .. n) /\ \A s \in SUBSET (1 .. n) : it[s] \in T
<1> DEFINE K == 1 .. n
<1>1. IsFiniteSet(K)
  BY FS_Interval
<1>2. \A s \in SUBSET K : s # {} => Max(s) \in s
  BY MaxMember
<1>3. g \in [T \X K -> T]
  OBVIOUS
<1>4. K \in SUBSET K
  OBVIOUS
<1>5. \E it : Folds(it, g, base, K) /\ \A s \in SUBSET K : it[s] \in T
  <2> HIDE DEF K
  <2>1. PICK it : Folds(it, g, base, K)
    BY <1>1, <1>2, <1>4, FoldsExist
  <2>2. \A s \in SUBSET K : it[s] \in T
    BY <1>1, <1>2, <1>3, <2>1, FoldsTyped
  <2> QED
    BY <2>1, <2>2
<1> QED
  BY <1>5

-----------------------------------------------------------------------------
(* Checksum and Decoded as runs over the characters of a packet *)

Bytes == 0 .. 255

SumFold(it, body) ==
  it = [s \in SUBSET DOMAIN body |-> IF s = {} THEN 0 ELSE (it[s \ {Max(s)}] + body[Max(s)]) % 256]

LEMMA SumOver == ASSUME NEW body PROVE Checksum(body) = (CHOOSE it : SumFold(it, body))[DOMAIN body]
  BY DEF Checksum, FoldLeft, MapThenFoldSet, SumFold

Nothing == [escape |-> FALSE, text |-> <<>>]
ReceiveFold(it, body) ==
  it = [s \in SUBSET DOMAIN body |-> IF s = {} THEN Nothing ELSE Receive(it[s \ {Max(s)}], body[Max(s)])]

LEMMA ReceiveOver ==
  ASSUME NEW body PROVE Decoded(body) = (CHOOSE it : ReceiveFold(it, body))[DOMAIN body].text
  BY DEF Decoded, FoldLeft, MapThenFoldSet, ReceiveFold, Nothing

\* The checksum is a byte.
LEMMA ChecksumByte == ASSUME NEW body \in Seq(Bytes) PROVE Checksum(body) \in Bytes
<1> DEFINE n == Len(body)
           g == [p \in Bytes \X (1 .. n) |-> (p[1] + body[p[2]]) % 256]
<1>1. n \in Nat /\ DOMAIN body = 1 .. n /\ \A k \in 1 .. n : body[k] \in Bytes
  BY ElementOfSeq
<1>2. \A x \in Bytes, k \in 1 .. n : (x + body[k]) % 256 \in Bytes
  <2>1. ASSUME NEW x \in Bytes, NEW y \in Bytes PROVE (x + y) % 256 \in Bytes
    BY <2>1 DEF Bytes
  <2> QED
    BY <1>1, <2>1
<1>3. g \in [Bytes \X (1 .. n) -> Bytes] /\ \A x \in Bytes, k \in 1 .. n : g[<<x, k>>] = (x + body[k]) % 256
  BY <1>2
<1> HIDE DEF n, g
<1>4. 0 \in Bytes
  BY DEF Bytes
<1>5. PICK it : Folds(it, g, 0, 1 .. n) /\ \A s \in SUBSET (1 .. n) : it[s] \in Bytes
  BY <1>1, <1>3, <1>4, FoldTotal
<1>6. ASSUME NEW s \in SUBSET (1 .. n), s # {}
      PROVE  g[<<it[s \ {Max(s)}], Max(s)>>] = (it[s \ {Max(s)}] + body[Max(s)]) % 256
  <2>1. Max(s) \in 1 .. n
    BY <1>1, <1>6, MaxMember
  <2>2. s \ {Max(s)} \in SUBSET (1 .. n)
    OBVIOUS
  <2>3. it[s \ {Max(s)}] \in Bytes
    BY <1>5, <2>2
  <2> DEFINE x == it[s \ {Max(s)}]
             k == Max(s)
  <2> HIDE DEF x, k
  <2>4. x \in Bytes /\ k \in 1 .. n
    BY <2>1, <2>3 DEF x, k
  <2>5. g[<<x, k>>] = (x + body[k]) % 256
    BY <1>3, <2>4
  <2> QED
    BY <2>5 DEF x, k
<1>7. SumFold(it, body)
  BY <1>1, <1>5, <1>6 DEF Folds, SumFold
<1> DEFINE c == CHOOSE j : SumFold(j, body)
<1>8. SumFold(c, body)
  BY <1>7
<1> HIDE DEF c
<1>9. \A s \in SUBSET (1 .. n) : c[s] \in Bytes
  <2> DEFINE K == 1 .. n
             Bad == {s \in SUBSET K : c[s] \notin Bytes}
  <2>1. IsFiniteSet(K) /\ \A s \in SUBSET K : s # {} => Max(s) \in s
    <3>1. IsFiniteSet(K)
      BY <1>1, FS_Interval
    <3> QED
      BY <1>1, <3>1, MaxMember
  <2>2. \A s \in SUBSET K : c[s] = IF s = {} THEN 0 ELSE (c[s \ {Max(s)}] + body[Max(s)]) % 256
    BY <1>1, <1>8 DEF SumFold
  <2>3. \A k \in K : body[k] \in Bytes
    BY <1>1
  <2>4. Bad \subseteq SUBSET K
    OBVIOUS
  <2>5. ASSUME Bad # {} PROVE FALSE
    <3> HIDE DEF K
    <3>1. PICK s \in Bad : \A t \in Bad : ~(t \subseteq s /\ t # s)
      <4> HIDE DEF Bad
      <4> QED
        BY <2>1, <2>4, <2>5, SmallestSubset
    <3>2. s # {}
      BY <2>2, <1>4
    <3>3. Max(s) \in s
      BY <2>1, <3>2
    <3>4. c[s \ {Max(s)}] \in Bytes
      BY <3>1, <3>3
    <3>5. body[Max(s)] \in Bytes
      BY <2>3, <3>3
    <3>6. (c[s \ {Max(s)}] + body[Max(s)]) % 256 \in Bytes
      <4> DEFINE x == c[s \ {Max(s)}]
                 y == body[Max(s)]
      <4>1. x \in Bytes /\ y \in Bytes
        BY <3>4, <3>5
      <4> HIDE DEF x, y
      <4>2. (x + y) % 256 \in Bytes
        BY <4>1 DEF Bytes
      <4> QED
        BY <4>2 DEF x, y
    <3> QED
      BY <2>2, <3>2, <3>6
  <2> QED
    BY <2>5
<1>10. DOMAIN body \in SUBSET (1 .. n)
  BY <1>1
<1> QED
  BY <1>9, <1>10, SumOver DEF c

\* What a receiver has after each character.
LEMMA ReceiveRuns ==
  ASSUME NEW body \in Seq(Bytes)
  PROVE  \E r : /\ r[0] = Nothing
                /\ \A k \in 1 .. Len(body) : r[k] = Receive(r[k - 1], body[k])
                /\ Decoded(body) = r[Len(body)].text
<1> DEFINE n == Len(body)
           T == [escape : BOOLEAN, text : Seq(Int)]
           g == [p \in T \X (1 .. n) |-> Receive(p[1], body[p[2]])]
<1>1. n \in Nat /\ DOMAIN body = 1 .. n /\ \A k \in 1 .. n : body[k] \in Bytes
  BY ElementOfSeq
<1>2. ASSUME NEW x \in T, NEW y \in Bytes PROVE Receive(x, y) \in T
  <2>1. FlipBit5(y) \in Int /\ y \in Int
    BY DEF FlipBit5, Bytes
  <2>2. x.text \in Seq(Int)
    OBVIOUS
  <2>3. Append(x.text, FlipBit5(y)) \in Seq(Int) /\ Append(x.text, y) \in Seq(Int)
    BY <2>1, <2>2, AppendProperties
  <2> QED
    BY <2>2, <2>3 DEF Receive
<1>3. /\ g \in [T \X (1 .. n) -> T]
      /\ \A x \in T, k \in 1 .. n : g[<<x, k>>] = Receive(x, body[k])
  BY <1>1, <1>2
<1>4. Nothing \in T
  BY EmptySeq DEF Nothing
<1> HIDE DEF n, g, T
<1>5. PICK it : Folds(it, g, Nothing, 1 .. n) /\ \A s \in SUBSET (1 .. n) : it[s] \in T
  BY <1>1, <1>3, <1>4, FoldTotal
<1>6. \A s \in SUBSET (1 .. n) : s # {} =>
        g[<<it[s \ {Max(s)}], Max(s)>>] = Receive(it[s \ {Max(s)}], body[Max(s)])
  BY <1>1, <1>3, <1>5, MaxMember
<1>7. ReceiveFold(it, body)
  BY <1>1, <1>5, <1>6 DEF Folds, ReceiveFold
<1> DEFINE c == CHOOSE j : ReceiveFold(j, body)
           r == [k \in 0 .. n |-> c[1 .. k]]
<1>8. ReceiveFold(c, body)
  BY <1>7
<1>9. Decoded(body) = c[DOMAIN body].text
  BY ReceiveOver
<1> HIDE DEF c
<1>10. \A s \in SUBSET (1 .. n) : c[s] = IF s = {} THEN Nothing ELSE Receive(c[s \ {Max(s)}], body[Max(s)])
  BY <1>1, <1>8 DEF ReceiveFold
<1>11. r[0] = Nothing
  <2>1. 1 .. 0 = {} /\ {} \in SUBSET (1 .. n)
    OBVIOUS
  <2>2. c[{}] = Nothing
    BY <1>10, <2>1
  <2> QED
    BY <1>1, <2>1, <2>2
<1>12. ASSUME NEW k \in 1 .. n PROVE r[k] = Receive(r[k - 1], body[k])
  <2> DEFINE first == 1 .. k
  <2>1. Max(first) = k /\ first \ {k} = 1 .. k - 1
    BY <1>1, MaxOfFirst
  <2>2. first \in SUBSET (1 .. n) /\ first # {}
    BY <1>1
  <2> HIDE DEF first
  <2>3. c[first] = Receive(c[1 .. k - 1], body[k])
    BY <1>10, <2>1, <2>2
  <2>4. k \in 0 .. n /\ k - 1 \in 0 .. n
    BY <1>1
  <2> QED
    BY <2>3, <2>4 DEF first
<1>13. Decoded(body) = r[n].text
  BY <1>1, <1>9
<1> QED
  BY <1>11, <1>12, <1>13 DEF n

-----------------------------------------------------------------------------
(* FlattenSeq, one part at a time *)

Flattens(f, seqs, n) == f = [i \in 1 .. n |-> IF i = 1 THEN seqs[i] ELSE f[i - 1] \o seqs[i]]

LEMMA FlattensExist == ASSUME NEW seqs PROVE \A n \in Nat : \E f : Flattens(f, seqs, n)
<1> DEFINE Bad == {n \in Nat : ~ \E f : Flattens(f, seqs, n)}
<1> SUFFICES ASSUME Bad # {} PROVE FALSE
  OBVIOUS
<1>1. PICK n \in Bad : \A k \in Bad : n <= k
  <2>1. Bad \subseteq Nat
    OBVIOUS
  <2> HIDE DEF Bad
  <2> QED
    BY <2>1, SmallestNumber
<1>2. CASE n = 0
  <2> DEFINE f == [i \in 1 .. 0 |-> seqs]
  <2>1. Flattens(f, seqs, 0)
    BY DEF Flattens
  <2> QED
    BY <1>1, <1>2, <2>1
<1>3. CASE n > 0
  <2>1. n - 1 \in Nat /\ n - 1 \notin Bad
    BY <1>1, <1>3
  <2>2. PICK f : Flattens(f, seqs, n - 1)
    BY <2>1
  <2> DEFINE h == [i \in 1 .. n |-> IF i = 1 THEN seqs[i] ELSE f[i - 1] \o seqs[i]]
  <2>3. ASSUME NEW i \in 1 .. n, i # 1 PROVE h[i - 1] = f[i - 1]
    <3>1. i - 1 \in 1 .. n - 1 /\ i - 1 \in 1 .. n
      BY <1>1, <2>3
    <3>2. f[i - 1] = IF i - 1 = 1 THEN seqs[i - 1] ELSE f[i - 1 - 1] \o seqs[i - 1]
      BY <2>2, <3>1 DEF Flattens
    <3> QED
      BY <3>1, <3>2
  <2>4. Flattens(h, seqs, n)
    BY <2>3 DEF Flattens
  <2> QED
    BY <1>1, <2>4
<1> QED
  BY <1>1, <1>2, <1>3

\* f[i] is the first i sequences, joined.
Joins(f, seqs, S) ==
  /\ f[0] = <<>>
  /\ \A i \in 1 .. Len(seqs) : f[i] = f[i - 1] \o seqs[i]
  /\ \A i \in 0 .. Len(seqs) : f[i] \in Seq(S)

LEMMA FlattenJoins ==
  ASSUME NEW S, NEW seqs \in Seq(Seq(S))
  PROVE  \E f : Joins(f, seqs, S) /\ FlattenSeq(seqs) = f[Len(seqs)]
<1> DEFINE n == Len(seqs)
<1>1. n \in Nat /\ \A i \in 1 .. n : seqs[i] \in Seq(S)
  BY ElementOfSeq
<1> DEFINE c == CHOOSE f : Flattens(f, seqs, n)
           r == [i \in 0 .. n |-> IF i = 0 THEN <<>> ELSE c[i]]
<1>2. Flattens(c, seqs, n)
  BY <1>1, FlattensExist
<1>3. FlattenSeq(seqs) = IF n = 0 THEN seqs ELSE c[n]
  BY DEF FlattenSeq, Flattens
<1>4. n = 0 => seqs = <<>>
  BY EmptySeq
<1> HIDE DEF c, n
<1>5. r[0] = <<>> /\ FlattenSeq(seqs) = r[n]
  BY <1>1, <1>3, <1>4
<1>6. ASSUME NEW i \in 1 .. n PROVE r[i] = r[i - 1] \o seqs[i]
  <2>1. c[i] = IF i = 1 THEN seqs[i] ELSE c[i - 1] \o seqs[i]
    BY <1>2 DEF Flattens
  <2>2. <<>> \o seqs[i] = seqs[i]
    BY <1>1, ConcatEmptySeq
  <2>3. i \in 0 .. n /\ i - 1 \in 0 .. n /\ i # 0 /\ (i = 1 <=> i - 1 = 0)
    BY <1>1
  <2> QED
    BY <2>1, <2>2, <2>3
<1>7. \A i \in 0 .. n : r[i] \in Seq(S)
  <2> HIDE DEF r
  <2> DEFINE Bad == {i \in 0 .. n : r[i] \notin Seq(S)}
  <2> SUFFICES ASSUME Bad # {} PROVE FALSE
    OBVIOUS
  <2>1. PICK i \in Bad : \A k \in Bad : i <= k
    <3>1. Bad \subseteq Nat
      BY <1>1
    <3> HIDE DEF Bad
    <3> QED
      BY <3>1, SmallestNumber
  <2>2. i # 0
    BY <1>5, EmptySeq
  <2>3. i \in 1 .. n /\ i - 1 \in 0 .. n /\ i - 1 \notin Bad
    BY <1>1, <2>1, <2>2
  <2>4. r[i] = r[i - 1] \o seqs[i] /\ r[i - 1] \in Seq(S) /\ seqs[i] \in Seq(S)
    BY <1>1, <1>6, <2>3
  <2>5. r[i] \in Seq(S)
    BY <2>4, ConcatProperties
  <2> QED
    BY <2>5
<1> QED
  BY <1>5, <1>6, <1>7 DEF n, Joins

-----------------------------------------------------------------------------
(* Bodies *)

\* The characters of a string, and those of a body.
NonNul == Bytes \ {0}
Plain == NonNul \ {Hash, Dollar}

LEMMA FlipTwice ==
  ASSUME NEW c \in Bytes PROVE FlipBit5(c) \in Bytes /\ FlipBit5(FlipBit5(c)) = c
<1>1. c \div 32 \in 0 .. 7 /\ c = 32 * (c \div 32) + (c % 32) /\ c % 32 \in 0 .. 31
  BY DEF Bytes
<1>2. CASE (c \div 32) % 2 = 1
  <2>1. c - 32 >= 0 /\ ((c - 32) \div 32) = c \div 32 - 1
    BY <1>1, <1>2 DEF Bytes
  <2>2. (c \div 32 - 1) % 2 = 0
    BY <1>1, <1>2
  <2> QED
    BY <1>2, <2>1, <2>2 DEF FlipBit5, Bytes
<1>3. CASE (c \div 32) % 2 # 1
  <2>1. c \div 32 # 7
    BY <1>3
  <2>2. c + 32 <= 255 /\ ((c + 32) \div 32) = c \div 32 + 1
    BY <1>1, <2>1 DEF Bytes
  <2>3. (c \div 32 + 1) % 2 = 1
    BY <1>1, <1>3
  <2> QED
    BY <1>3, <2>2, <2>3 DEF FlipBit5, Bytes
<1> QED
  BY <1>2, <1>3

Framing == {Hash, Dollar, Brace}

LEMMA EscapePlain ==
  ASSUME NEW c \in NonNul
  PROVE  /\ Escape(c) \in Seq(Plain)
         /\ c \in Framing => Escape(c) = <<Brace, FlipBit5(c)>>
         /\ c \notin Framing => Escape(c) = <<c>>
<1>1. CASE c \in Framing
  <2>1. FlipBit5(c) \in Plain /\ Brace \in Plain
    BY <1>1 DEF FlipBit5, Plain, NonNul, Bytes, Framing, Hash, Dollar, Brace
  <2>2. Escape(c) = <<Brace, FlipBit5(c)>>
    BY <1>1 DEF Escape, Framing
  <2> QED
    BY <1>1, <2>1, <2>2
<1>2. CASE c \notin Framing
  <2>1. Escape(c) = <<c>> /\ c \in Plain
    BY <1>2 DEF Escape, Framing, Plain
  <2> QED
    BY <1>2, <2>1
<1> QED
  BY <1>1, <1>2

\* What a receiver makes of an escaped character is the character.
LEMMA EscapeReceived ==
  ASSUME NEW c \in NonNul, NEW t
  PROVE  LET d == [escape |-> FALSE, text |-> t]
             e == [escape |-> FALSE, text |-> Append(t, c)]
         IN /\ c \in Framing => Receive(Receive(d, Brace), FlipBit5(c)) = e
            /\ c \notin Framing => Receive(d, c) = e
<1>1. FlipBit5(FlipBit5(c)) = c
  BY FlipTwice DEF NonNul
<1> QED
  BY <1>1 DEF Receive, Framing

\* What is joined stays in front.
Growing(f, n) ==
  \A j \in 0 .. n : \A i \in 0 .. j : Len(f[i]) <= Len(f[j]) /\ \A k \in 1 .. Len(f[i]) : f[j][k] = f[i][k]

LEMMA JoinsGrow ==
  ASSUME NEW S, NEW seqs \in Seq(Seq(S)), NEW f, Joins(f, seqs, S)
  PROVE  Growing(f, Len(seqs))
<1> DEFINE n == Len(seqs)
           Good(j) == \A i \in 0 .. j :
                        Len(f[i]) <= Len(f[j]) /\ \A k \in 1 .. Len(f[i]) : f[j][k] = f[i][k]
           Bad == {j \in 0 .. n : ~Good(j)}
<1>1. n \in Nat /\ (\A i \in 1 .. n : seqs[i] \in Seq(S)) /\ (\A i \in 0 .. n : f[i] \in Seq(S) /\ Len(f[i]) \in Nat)
  BY ElementOfSeq DEF Joins
<1>5. SUFFICES ASSUME Bad # {} PROVE FALSE
  <2>1. Bad = {} => \A j \in 0 .. n : Good(j)
    <3> HIDE DEF Good, n
    <3> QED
      OBVIOUS
  <2> HIDE DEF Bad
  <2>2. \A j \in 0 .. n : Good(j)
    BY <2>1
  <2> QED
    BY <2>2 DEF Growing
<1>2. PICK j \in Bad : \A k \in Bad : j <= k
  <2>1. Bad \subseteq Nat
    BY <1>1
  <2> HIDE DEF Bad
  <2> QED
    BY <1>5, <2>1, SmallestNumber
<1>3. CASE j = 0
  <2>1. Good(0)
    BY <1>1
  <2> QED
    BY <1>3, <2>1
<1>4. CASE j # 0
  <2>1. j \in 1 .. n /\ j - 1 \in 0 .. n
    BY <1>1, <1>4
  <2>2. Good(j - 1)
    <3> HIDE DEF Good
    <3> QED
      BY <1>1, <1>2, <2>1
  <2> DEFINE a == f[j - 1]
             b == seqs[j]
             e == f[j]
  <2>3. e = a \o b /\ a \in Seq(S) /\ b \in Seq(S)
    BY <1>1, <2>1 DEF Joins
  <2>4. /\ Len(a) \in Nat /\ Len(b) \in Nat /\ Len(e) = Len(a) + Len(b)
        /\ \A k \in 1 .. Len(a) : e[k] = a[k]
    <3> HIDE DEF a, b, e
    <3>1. Len(a) \in Nat /\ Len(b) \in Nat
      BY <2>3
    <3> QED
      BY <2>3, <3>1, ConcatProperties
  <2>5. \A i \in 0 .. j - 1 : Len(f[i]) <= Len(a) /\ \A k \in 1 .. Len(f[i]) : a[k] = f[i][k]
    BY <2>2
  <2>6. \A i \in 0 .. n : Len(f[i]) \in Nat
    BY <1>1
  <2>7. ASSUME NEW i \in 0 .. j PROVE Len(f[i]) <= Len(e) /\ \A k \in 1 .. Len(f[i]) : e[k] = f[i][k]
    <3>1. CASE i = j
      BY <2>1, <2>6, <3>1
    <3>2. CASE i # j
      <4> DEFINE h == f[i]
      <4>1. i \in 0 .. j - 1
        BY <2>1, <3>2
      <4>2. Len(h) \in Nat /\ Len(h) <= Len(a) /\ \A k \in 1 .. Len(h) : a[k] = h[k]
        BY <2>1, <2>5, <2>6, <4>1
      <4> HIDE DEF a, b, e, h
      <4>3. Len(h) <= Len(e) /\ \A k \in 1 .. Len(h) : e[k] = h[k]
        BY <2>4, <4>2
      <4> QED
        BY <4>3 DEF h
    <3> QED
      BY <3>1, <3>2
  <2>8. Good(j)
    BY <2>7
  <2> QED
    BY <2>8
<1> QED
  BY <1>3, <1>4

\* What becomes of a string: rsp_packet_append of data is that of the string in
\* it.
Escaped(text) == FlattenSeq([i \in DOMAIN text |-> Escape(text[i])])

\* Decoding restores every string, and no framing character is in the body.
LEMMA BodyDecodes ==
  ASSUME NEW data \in Seq(NonNul)
  PROVE  /\ Escaped(data) \in Seq(Plain)
         /\ Decoded(Escaped(data)) = data
<1> DEFINE n == Len(data)
           seqs == [i \in DOMAIN data |-> Escape(data[i])]
           body == Escaped(data)
<1>1. n \in Nat /\ DOMAIN data = 1 .. n /\ \A i \in 1 .. n : data[i] \in NonNul
  BY ElementOfSeq
<1>2. \A i \in 1 .. n : seqs[i] = Escape(data[i]) /\ seqs[i] \in Seq(Plain)
  BY <1>1, EscapePlain
<1>3. seqs \in Seq(Seq(Plain)) /\ Len(seqs) = n
  BY <1>1, <1>2
<1>4. body = FlattenSeq(seqs)
  BY DEF Escaped
<1> HIDE DEF seqs, body, n
<1>5. PICK f : Joins(f, seqs, Plain) /\ FlattenSeq(seqs) = f[Len(seqs)]
  BY <1>3, FlattenJoins
<1>6. Growing(f, n)
  BY <1>3, <1>5, JoinsGrow
<1>7. body = f[n] /\ body \in Seq(Plain) /\ \A i \in 0 .. n : f[i] \in Seq(Plain) /\ Len(f[i]) \in Nat
  BY <1>1, <1>3, <1>4, <1>5 DEF Joins
<1>8. body \in Seq(Bytes)
  BY <1>7, SeqMonotonic DEF Plain, NonNul
<1>9. PICK r : /\ r[0] = Nothing
               /\ \A k \in 1 .. Len(body) : r[k] = Receive(r[k - 1], body[k])
               /\ Decoded(body) = r[Len(body)].text
  BY <1>8, ReceiveRuns
<1> DEFINE Got(t) == [escape |-> FALSE, text |-> t]
           Good(i) == r[Len(f[i])] = Got(SubSeq(data, 1, i))
           Bad == {i \in 0 .. n : ~Good(i)}
<1>10. Good(0)
  <2>1. SubSeq(data, 1, 0) = <<>>
    BY SubSeqEmpty
  <2>2. Len(f[0]) = 0
    BY <1>5 DEF Joins
  <2> QED
    BY <1>9, <2>1, <2>2 DEF Nothing
<1>11. ASSUME NEW i \in 1 .. n, Good(i - 1) PROVE Good(i)
  <2> DEFINE a == f[i - 1]
             b == Escape(data[i])
             e == f[i]
             la == Len(a)
             t == SubSeq(data, 1, i - 1)
             c == data[i]
  <2>1. e = a \o b /\ a \in Seq(Plain) /\ b \in Seq(Plain)
    <3>1. i \in 1 .. Len(seqs) /\ i - 1 \in 0 .. n
      BY <1>1, <1>3
    <3> QED
      BY <1>2, <1>5, <1>7, <3>1 DEF Joins
  <2>2. /\ la \in Nat /\ Len(b) \in Nat /\ Len(e) = la + Len(b)
        /\ \A k \in 1 .. Len(b) : e[la + k] = b[k]
    <3> HIDE DEF a, b, e
    <3>1. Len(a) \in Nat /\ Len(b) \in Nat
      BY <2>1
    <3>2. /\ Len(e) = Len(a) + Len(b)
          /\ \A k \in 1 .. Len(a) + Len(b) : e[k] = IF k <= Len(a) THEN a[k] ELSE b[k - Len(a)]
      BY <2>1, ConcatProperties
    <3> QED
      BY <3>1, <3>2
  <2>3. Len(e) <= Len(body) /\ \A k \in 1 .. Len(e) : body[k] = e[k]
    <3>1. n \in 0 .. n /\ i \in 0 .. n
      BY <1>1
    <3> QED
      BY <1>6, <1>7, <3>1 DEF Growing
  <2>4. Len(body) \in Nat
    BY <1>7
  <2>5. SubSeq(data, 1, i) = Append(t, c) /\ t \in Seq(NonNul) /\ c \in NonNul
    <3>1. t \in Seq(NonNul)
      <4>1. \A k \in 1 .. i - 1 : data[k] \in NonNul
        BY <1>1
      <4> QED
        BY <1>1, <4>1, SubSeqProperties
    <3>2. SubSeq(data, 1, i) = t \o <<c>>
      <4>1. 1 \in 1 .. Len(data) /\ i \in 1 .. Len(data)
        BY <1>1 DEF n
      <4> QED
        BY <4>1, SubSeqRecursiveSecond
    <3> QED
      BY <1>1, <3>1, <3>2, AppendIsConcat
  <2>6. r[la] = Got(t)
    BY <1>11
  <2>7. \A k \in 1 .. Len(body) : r[k] = Receive(r[k - 1], body[k])
    BY <1>9
  <2>8. /\ c \in Framing => b = <<Brace, FlipBit5(c)>>
        /\ c \notin Framing => b = <<c>>
    BY <2>5, EscapePlain
  <2>9. /\ c \in Framing => Receive(Receive(Got(t), Brace), FlipBit5(c)) = Got(Append(t, c))
        /\ c \notin Framing => Receive(Got(t), c) = Got(Append(t, c))
    BY <2>5, EscapeReceived
  <2> HIDE DEF a, b, e, la, t, c, Got
  <2>10. r[Len(e)] = Got(Append(t, c))
    <3>1. CASE c \in Framing
      <4>1. Len(b) = 2 /\ b[1] = Brace /\ b[2] = FlipBit5(c)
        BY <2>8, <3>1
      <4>2. Len(e) = la + 2 /\ e[la + 1] = Brace /\ e[la + 2] = FlipBit5(c)
        BY <2>2, <4>1
      <4>3. la + 1 \in 1 .. Len(body) /\ la + 2 \in 1 .. Len(body) /\ la + 1 \in 1 .. Len(e) /\ la + 2 \in 1 .. Len(e)
        BY <2>2, <2>3, <2>4, <4>2
      <4>4. r[la + 1] = Receive(r[la], Brace)
        <5>1. r[la + 1] = Receive(r[la + 1 - 1], body[la + 1]) /\ la + 1 - 1 = la
          BY <2>2, <2>7, <4>3
        <5> QED
          BY <2>3, <4>2, <4>3, <5>1
      <4>5. r[la + 2] = Receive(r[la + 1], FlipBit5(c))
        <5>1. r[la + 2] = Receive(r[la + 2 - 1], body[la + 2]) /\ la + 2 - 1 = la + 1
          BY <2>2, <2>7, <4>3
        <5> QED
          BY <2>3, <4>2, <4>3, <5>1
      <4> QED
        BY <2>6, <2>9, <3>1, <4>2, <4>4, <4>5
    <3>2. CASE c \notin Framing
      <4>1. Len(b) = 1 /\ b[1] = c
        BY <2>8, <3>2
      <4>2. Len(e) = la + 1 /\ e[la + 1] = c
        BY <2>2, <4>1
      <4>3. la + 1 \in 1 .. Len(body) /\ la + 1 \in 1 .. Len(e)
        BY <2>2, <2>3, <2>4, <4>2
      <4>4. r[la + 1] = Receive(r[la], c)
        <5>1. r[la + 1] = Receive(r[la + 1 - 1], body[la + 1]) /\ la + 1 - 1 = la
          BY <2>2, <2>7, <4>3
        <5> QED
          BY <2>3, <4>2, <4>3, <5>1
      <4> QED
        BY <2>6, <2>9, <3>2, <4>2, <4>4
    <3> QED
      BY <3>1, <3>2
  <2> QED
    BY <2>5, <2>10 DEF e
<1> HIDE DEF Good
<1>12. ASSUME Bad # {} PROVE FALSE
  <2>1. PICK i \in Bad : \A k \in Bad : i <= k
    <3>1. Bad \subseteq Nat
      BY <1>1
    <3> HIDE DEF Bad
    <3> QED
      BY <1>12, <3>1, SmallestNumber
  <2>2. i # 0
    BY <1>10
  <2>3. i \in 1 .. n /\ i - 1 \in 0 .. n /\ i - 1 \notin Bad
    BY <1>1, <2>1, <2>2
  <2> QED
    BY <1>11, <2>3
<1>13. Good(n)
  BY <1>1, <1>12
<1>14. Decoded(body) = SubSeq(data, 1, n)
  <2>1. r[Len(body)] = Got(SubSeq(data, 1, n))
    BY <1>7, <1>13 DEF Good
  <2>2. Got(SubSeq(data, 1, n)).text = SubSeq(data, 1, n)
    OBVIOUS
  <2> HIDE DEF Got
  <2> QED
    BY <1>9, <2>1, <2>2
<1>15. SubSeq(data, 1, n) = data
  BY SubSeqFull DEF n
<1> QED
  BY <1>7, <1>14, <1>15 DEF body

-----------------------------------------------------------------------------
(* Packets *)

\* Two digits are the byte they were made from.
LEMMA HexByte ==
  ASSUME NEW b \in Bytes
  PROVE  LET h == rsp_packet_append_u8(b)
         IN /\ h \in Seq(Int) /\ Len(h) = 2 /\ rsp_hex_to_u8(h) = b
            /\ rsp_hex_to_u8(<<h[1], h[2]>>) = b
<1>1. ASSUME NEW i \in 0 .. 15 PROVE rsp_to_hex_digit(i) \in Int /\ rsp_from_hex_digit(rsp_to_hex_digit(i)) = i
  <2>1. CASE i < 10
    <3>1. rsp_to_hex_digit(i) = 48 + i /\ 48 + i \in 48 .. 57
      BY <2>1 DEF rsp_to_hex_digit
    <3> QED
      BY <3>1 DEF rsp_from_hex_digit
  <2>2. CASE ~(i < 10)
    <3>1. rsp_to_hex_digit(i) = 97 + i - 10 /\ 97 + i - 10 \in 97 .. 102 /\ 97 + i - 10 \notin 48 .. 57
      BY <2>2 DEF rsp_to_hex_digit
    <3> QED
      BY <3>1 DEF rsp_from_hex_digit
  <2> QED
    BY <2>1, <2>2
<1> DEFINE q == b \div 16
           m == b % 16
<1>2. q \in 0 .. 15 /\ m \in 0 .. 15 /\ q * 16 + m = b
  BY DEF Bytes
<1>3. rsp_packet_append_u8(b) = <<rsp_to_hex_digit(q), rsp_to_hex_digit(m)>>
  BY DEF rsp_packet_append_u8
<1> HIDE DEF q, m
<1>4. /\ rsp_to_hex_digit(q) \in Int /\ rsp_from_hex_digit(rsp_to_hex_digit(q)) = q
      /\ rsp_to_hex_digit(m) \in Int /\ rsp_from_hex_digit(rsp_to_hex_digit(m)) = m
  BY <1>1, <1>2
<1> DEFINE x == rsp_to_hex_digit(q)
           y == rsp_to_hex_digit(m)
<1>5. rsp_packet_append_u8(b) = <<x, y>> /\ x \in Int /\ y \in Int
  BY <1>3, <1>4
<1>6. rsp_from_hex_digit(x) * 16 + rsp_from_hex_digit(y) = b
  BY <1>2, <1>4
<1> HIDE DEF x, y
<1>7. rsp_hex_to_u8(<<x, y>>) = b
  BY <1>6 DEF rsp_hex_to_u8
<1> QED
  BY <1>5, <1>7

\* Where the elements of two joined sequences are.
LEMMA Joined ==
  ASSUME NEW a \in Seq(Int), NEW b \in Seq(Int)
  PROVE  /\ a \o b \in Seq(Int) /\ Len(a \o b) = Len(a) + Len(b)
         /\ \A k \in 1 .. Len(a) : (a \o b)[k] = a[k]
         /\ \A k \in 1 .. Len(b) : (a \o b)[Len(a) + k] = b[k]
<1>1. Len(a) \in Nat /\ Len(b) \in Nat
  OBVIOUS
<1>2. /\ a \o b \in Seq(Int) /\ Len(a \o b) = Len(a) + Len(b)
      /\ \A i \in 1 .. Len(a) + Len(b) : (a \o b)[i] = IF i <= Len(a) THEN a[i] ELSE b[i - Len(a)]
  BY ConcatProperties
<1> DEFINE e == a \o b
<1>3. \A i \in 1 .. Len(a) + Len(b) : e[i] = IF i <= Len(a) THEN a[i] ELSE b[i - Len(a)]
  BY <1>2
<1> HIDE DEF e
<1>4. \A k \in 1 .. Len(a) : e[k] = a[k]
  BY <1>1, <1>3
<1>5. \A k \in 1 .. Len(b) : e[Len(a) + k] = b[k]
  <2>1. ASSUME NEW k \in 1 .. Len(b) PROVE e[Len(a) + k] = b[k]
    <3>1. Len(a) + k \in 1 .. Len(a) + Len(b) /\ ~(Len(a) + k <= Len(a)) /\ Len(a) + k - Len(a) = k
      BY <1>1
    <3> QED
      BY <1>3, <3>1
  <2> QED
    BY <2>1
<1> QED
  BY <1>2, <1>4, <1>5 DEF e

\* The parts of a packet, and where they are.
LEMMA PacketShape ==
  ASSUME NEW body \in Seq(Plain)
  PROVE  LET packet == rsp_packet_end(body)
             n == Len(body)
             h == rsp_packet_append_u8(Checksum(body))
         IN /\ n \in Nat /\ packet \in Seq(Int) /\ Len(packet) = n + 5
            /\ packet[1] = Dollar /\ \A k \in 1 .. n : packet[k + 1] = body[k]
            /\ packet[n + 2] = Hash /\ packet[n + 3] = h[1] /\ packet[n + 4] = h[2] /\ packet[n + 5] = 0
            /\ packet = <<Dollar>> \o body \o <<Hash>> \o h \o <<0>>
            /\ <<Dollar>> \o body \o <<Hash>> \o h \in Seq(Int)
            /\ Len(<<Dollar>> \o body \o <<Hash>> \o h) = n + 4
            /\ \A k \in 1 .. n + 4 : packet[k] = (<<Dollar>> \o body \o <<Hash>> \o h)[k]
<1> DEFINE n == Len(body)
           h == rsp_packet_append_u8(Checksum(body))
           p1 == <<Dollar>> \o body
           p2 == p1 \o <<Hash>>
           p3 == p2 \o h
           p4 == p3 \o <<0>>
<1>1. n \in Nat /\ body \in Seq(Int) /\ body \in Seq(Bytes)
  <2>1. Plain \subseteq Bytes
    BY DEF Plain, NonNul
  <2>2. Bytes \subseteq Int
    BY DEF Bytes
  <2>3. body \in Seq(Bytes)
    BY <2>1, SeqMonotonic
  <2>4. body \in Seq(Int)
    BY <2>2, <2>3, SeqMonotonic
  <2> QED
    BY <2>3, <2>4
<1>2. h \in Seq(Int) /\ Len(h) = 2 /\ h[1] \in Int /\ h[2] \in Int
  <2>1. Checksum(body) \in Bytes
    BY <1>1, ChecksumByte
  <2>2. h \in Seq(Int) /\ Len(h) = 2
    BY <2>1, HexByte
  <2> HIDE DEF h
  <2> QED
    BY <2>2, ElementOfSeq
<1>3. rsp_packet_end(body) = p4
  BY DEF rsp_packet_end
<1>4. <<Dollar>> \in Seq(Int) /\ <<Hash>> \in Seq(Int) /\ <<0>> \in Seq(Int)
  BY DEF Dollar, Hash
<1> HIDE DEF h
<1>5. /\ p1 \in Seq(Int) /\ Len(p1) = n + 1
      /\ p1[1] = Dollar /\ \A k \in 1 .. n : p1[k + 1] = body[k]
  BY <1>1, <1>4, ConcatProperties
<1> HIDE DEF p1, n
<1>6. /\ p2 \in Seq(Int) /\ Len(p2) = n + 2
      /\ (\A k \in 1 .. n + 1 : p2[k] = p1[k]) /\ p2[n + 2] = Hash
  BY <1>1, <1>4, <1>5, ConcatProperties, SMTT(40)
<1> HIDE DEF p2
<1>7. /\ p3 \in Seq(Int) /\ Len(p3) = n + 4
      /\ (\A k \in 1 .. n + 2 : p3[k] = p2[k]) /\ p3[n + 3] = h[1] /\ p3[n + 4] = h[2]
  <2>1. /\ p3 \in Seq(Int) /\ Len(p3) = Len(p2) + Len(h)
        /\ \A k \in 1 .. Len(p2) : p3[k] = p2[k]
        /\ \A k \in 1 .. Len(h) : p3[Len(p2) + k] = h[k]
    <3>1. \A a, b \in Seq(Int) :
            /\ a \o b \in Seq(Int) /\ Len(a \o b) = Len(a) + Len(b)
            /\ \A k \in 1 .. Len(a) : (a \o b)[k] = a[k]
            /\ \A k \in 1 .. Len(b) : (a \o b)[Len(a) + k] = b[k]
      BY Joined
    <3> QED
      BY <1>2, <1>6, <3>1, Zenon
  <2> HIDE DEF p3
  <2>2. p3[n + 2 + 1] = h[1] /\ p3[n + 2 + 2] = h[2]
    BY <1>2, <1>6, <2>1
  <2>3. n + 2 + 1 = n + 3 /\ n + 2 + 2 = n + 4
    BY <1>1
  <2> QED
    BY <1>1, <1>2, <1>6, <2>1, <2>2, <2>3
<1> HIDE DEF p3
<1>10. /\ p4 \in Seq(Int) /\ Len(p4) = n + 5
       /\ (\A k \in 1 .. n + 4 : p4[k] = p3[k]) /\ p4[n + 5] = 0
  BY <1>1, <1>4, <1>7, ConcatProperties
<1> HIDE DEF p4
<1>11. p4[1] = Dollar /\ \A k \in 1 .. n : p4[k + 1] = body[k]
  BY <1>1, <1>5, <1>6, <1>7, <1>10
<1>12. p4[n + 2] = Hash /\ p4[n + 3] = h[1] /\ p4[n + 4] = h[2]
  BY <1>1, <1>6, <1>7, <1>10
<1> QED
  BY <1>1, <1>3, <1>7, <1>10, <1>11, <1>12 DEF n, h, p1, p2, p3, p4

\* The first '#' of a packet ends its body.
LEMMA BodyFound ==
  ASSUME NEW body \in Seq(Plain), NEW packet \in Seq(Int), Len(packet) >= Len(body) + 2,
         packet[1] = Dollar, \A k \in 1 .. Len(body) : packet[k + 1] = body[k],
         packet[Len(body) + 2] = Hash
  PROVE  BodyOf(packet) = body
<1> DEFINE n == Len(body)
           Hashes == {i \in 1 .. Len(packet) : packet[i] = Hash}
<1>1. /\ n \in Nat /\ packet \in Seq(Int) /\ Len(packet) \in Nat /\ Len(packet) >= n + 2
      /\ packet[1] = Dollar /\ (\A k \in 1 .. n : packet[k + 1] = body[k]) /\ packet[n + 2] = Hash
  OBVIOUS
<1>2. \A k \in 1 .. n : body[k] \in Plain
  BY ElementOfSeq
<1> HIDE DEF n
<1>3. n + 2 \in Hashes
  BY <1>1
<1>4. ASSUME NEW i \in Hashes PROVE n + 2 <= i
  <2>1. i \in Nat /\ i >= 1 /\ packet[i] = Hash
    BY <1>1, <1>4
  <2>2. i # 1
    BY <1>1, <2>1 DEF Hash, Dollar
  <2>3. i - 1 \notin 1 .. n
    <3>1. SUFFICES ASSUME i - 1 \in 1 .. n PROVE FALSE
      OBVIOUS
    <3>2. packet[i - 1 + 1] = body[i - 1] /\ i - 1 + 1 = i
      BY <1>1, <2>1, <3>1
    <3> QED
      BY <1>2, <2>1, <3>1, <3>2 DEF Plain
  <2> QED
    BY <1>1, <2>1, <2>2, <2>3
<1>5. Min(Hashes) = n + 2
  <2>1. \A i \in Hashes : i \in Int
    BY <1>1
  <2> HIDE DEF Hashes
  <2> QED
    BY <1>1, <1>3, <1>4, <2>1 DEF Min
<1> DEFINE end == SelectInSeq(packet, LAMBDA c : c = Hash)
<1>6. end = n + 2
  BY <1>3, <1>5 DEF SelectInSeq
<1>14. BodyOf(packet) = SubSeq(packet, 2, end - 1)
  BY DEF BodyOf
<1> HIDE DEF end
<1>7. BodyOf(packet) = SubSeq(packet, 2, n + 1)
  <2>1. end - 1 = n + 1
    BY <1>1, <1>6
  <2> QED
    BY <1>14, <2>1, Zenon
<1> DEFINE s == SubSeq(packet, 2, n + 1)
<1>8. /\ s \in Seq(Plain) /\ Len(s) = n
      /\ \A i \in 1 .. n : s[i] = body[i]
  <2>1. \A i \in 2 .. n + 1 : packet[i] \in Plain
    <3>1. ASSUME NEW i \in 2 .. n + 1 PROVE packet[i] \in Plain
      <4>1. i - 1 \in 1 .. n /\ i - 1 + 1 = i
        BY <1>1
      <4>2. packet[i - 1 + 1] = body[i - 1]
        BY <1>1, <4>1
      <4> QED
        BY <1>2, <4>1, <4>2
    <3> QED
      BY <3>1
  <2> DEFINE from == 2
             to == n + 1
  <2>2. s = SubSeq(packet, from, to) /\ \A i \in from .. to : packet[i] \in Plain
    BY <2>1
  <2> HIDE DEF s
  <2>3. /\ from \in Int /\ to \in Int /\ to - from + 1 = n
        /\ (IF from <= to THEN to - from + 1 ELSE 0) = n
    BY <1>1
  <2>4. \A i \in 1 .. n : from + i - 1 = i + 1
    BY <1>1
  <2> HIDE DEF from, to
  <2>5. /\ SubSeq(packet, from, to) \in Seq(Plain)
        /\ Len(SubSeq(packet, from, to)) = IF from <= to THEN to - from + 1 ELSE 0
        /\ \A i \in 1 .. to - from + 1 : SubSeq(packet, from, to)[i] = packet[from + i - 1]
    BY <2>2, <2>3, SubSeqProperties
  <2>6. /\ s \in Seq(Plain) /\ Len(s) = n
        /\ \A i \in 1 .. n : s[i] = packet[i + 1]
    BY <2>2, <2>5, <2>3, <2>4
  <2> QED
    BY <1>1, <2>6
<1> HIDE DEF s
<1>9. s = body
  BY <1>8, SeqEqual DEF n
<1> QED
  BY <1>7, <1>9 DEF s

\* The string at the start of a buffer, and that of a text with a final 0.
LEMMA StringType ==
  ASSUME NEW data \in Seq(Bytes)
  PROVE  CString(data) \in Seq(NonNul)
<1> DEFINE n == Len(data)
           Nuls == {i \in 1 .. n : data[i] = 0}
           end == SelectInSeq(data, LAMBDA c : c = 0)
<1>1. n \in Nat /\ \A i \in 1 .. n : data[i] \in Bytes
  BY ElementOfSeq
<1>2. CString(data) = IF end = 0 THEN data ELSE SubSeq(data, 1, end - 1)
  BY DEF CString
<1>3. CASE Nuls = {}
  <2>1. end = 0
    BY <1>3 DEF SelectInSeq
  <2>2. \A i \in 1 .. n : data[i] \in NonNul
    BY <1>1, <1>3 DEF NonNul
  <2> HIDE DEF end
  <2> QED
    BY <1>1, <1>2, <2>1, <2>2
<1>4. CASE Nuls # {}
  <2>1. end = Min(Nuls)
    BY <1>4 DEF SelectInSeq
  <2>2. PICK i \in Nuls : \A k \in Nuls : i <= k
    <3>1. Nuls \subseteq Nat
      BY <1>1
    <3> HIDE DEF Nuls
    <3> QED
      BY <1>4, <3>1, SmallestNumber
  <2>3. Min(Nuls) \in Nuls /\ \A k \in Nuls : Min(Nuls) <= k
    <3> HIDE DEF Nuls
    <3> QED
      BY <2>2 DEF Min
  <2> HIDE DEF end
  <2>4. end \in 1 .. n /\ \A k \in 1 .. n : data[k] = 0 => end <= k
    BY <2>1, <2>3
  <2> DEFINE to == end - 1
  <2>5. to \in Int /\ \A k \in 1 .. to : data[k] \in NonNul
    <3>1. ASSUME NEW k \in 1 .. to PROVE data[k] \in NonNul
      <4>1. k \in 1 .. n /\ ~(end <= k)
        BY <1>1, <2>4
      <4> QED
        BY <1>1, <2>4, <4>1 DEF NonNul
    <3> QED
      BY <1>1, <2>4, <3>1
  <2>6. end # 0
    BY <2>4
  <2>7. CString(data) = SubSeq(data, 1, to)
    BY <1>2, <2>6
  <2> HIDE DEF to
  <2>8. SubSeq(data, 1, to) \in Seq(NonNul)
    BY <2>5, SubSeqProperties
  <2> QED
    BY <2>7, <2>8
<1> QED
  BY <1>3, <1>4

LEMMA StringOf ==
  ASSUME NEW s \in Seq(Int), NEW p \in Seq(Int), Len(p) = Len(s) + 1, p[Len(s) + 1] = 0,
         \A k \in 1 .. Len(s) : s[k] # 0 /\ p[k] = s[k]
  PROVE  CString(p) = s
<1> DEFINE n == Len(s)
           Nuls == {i \in 1 .. Len(p) : p[i] = 0}
           end == SelectInSeq(p, LAMBDA c : c = 0)
<1>1. n \in Nat /\ Len(p) = n + 1
  OBVIOUS
<1>2. Nuls = {n + 1}
  <2>1. n + 1 \in Nuls
    BY <1>1
  <2>2. ASSUME NEW i \in Nuls PROVE i = n + 1
    <3>1. i \in 1 .. n + 1 /\ i \notin 1 .. n
      BY <1>1
    <3> QED
      BY <1>1, <3>1
  <2> QED
    BY <2>1, <2>2
<1>3. Min(Nuls) = n + 1
  <2> HIDE DEF n, Nuls
  <2> QED
    BY <1>1, <1>2 DEF Min
<1>4. end = n + 1
  BY <1>2, <1>3 DEF SelectInSeq
<1>5. CString(p) = IF end = 0 THEN p ELSE SubSeq(p, 1, end - 1)
  BY DEF CString
<1> HIDE DEF end
<1> DEFINE t == SubSeq(p, 1, n)
<1>6. CString(p) = t
  <2>1. end # 0 /\ end - 1 = n
    BY <1>1, <1>4
  <2> QED
    BY <1>5, <2>1
<1>7. t \in Seq(Int) /\ Len(t) = n /\ \A i \in 1 .. n : t[i] = p[i]
  <2>1. \A i \in 1 .. n : p[i] \in Int
    BY <1>1
  <2> HIDE DEF n
  <2>2. /\ t \in Seq(Int) /\ Len(t) = IF 1 <= n THEN n - 1 + 1 ELSE 0
        /\ \A i \in 1 .. n - 1 + 1 : t[i] = p[1 + i - 1]
    BY <1>1, <2>1, SubSeqProperties
  <2> HIDE DEF t
  <2>3. n - 1 + 1 = n /\ (1 <= n \/ n = 0) /\ \A i \in 1 .. n : 1 + i - 1 = i
    BY <1>1
  <2> QED
    BY <2>2, <2>3
<1> HIDE DEF t
<1>8. t = s
  BY <1>1, <1>7, SeqEqual
<1> QED
  BY <1>6, <1>8

LEMMA EmptyString == CString(<<>>) = <<>>
<1> DEFINE Nuls == {i \in 1 .. Len(<<>>) : <<>>[i] = 0}
           end == SelectInSeq(<<>>, LAMBDA c : c = 0)
<1>1. Nuls = {}
  <2>1. 1 .. Len(<<>>) = {}
    OBVIOUS
  <2> QED
    BY <2>1
<1>2. end = 0
  BY <1>1 DEF SelectInSeq
<1>3. CString(<<>>) = IF end = 0 THEN <<>> ELSE SubSeq(<<>>, 1, end - 1)
  BY DEF CString
<1> HIDE DEF end
<1> QED
  BY <1>2, <1>3

\* What is sent of a packet: all of it but the final 0, if it fits the buffer.
LEMMA PacketSent ==
  ASSUME NEW body \in Seq(Plain)
  PROVE  LET h == rsp_packet_append_u8(Checksum(body))
             sent == <<Dollar>> \o body \o <<Hash>> \o h
             n == Len(body)
         IN /\ rsp_packet_send(rsp_packet_end(body)) = IF n + 5 <= BufferSize THEN {sent} ELSE {}
            /\ BodyOf(sent) = body
            /\ n \in Nat /\ sent \in Seq(Int) /\ Len(sent) = n + 4
            /\ sent[n + 3] = h[1] /\ sent[n + 4] = h[2]
<1> DEFINE h == rsp_packet_append_u8(Checksum(body))
           sent == <<Dollar>> \o body \o <<Hash>> \o h
           n == Len(body)
           packet == rsp_packet_end(body)
<1>1. /\ n \in Nat /\ packet \in Seq(Int) /\ Len(packet) = n + 5
      /\ packet[1] = Dollar /\ \A k \in 1 .. n : packet[k + 1] = body[k]
      /\ packet[n + 2] = Hash /\ packet[n + 3] = h[1] /\ packet[n + 4] = h[2] /\ packet[n + 5] = 0
      /\ sent \in Seq(Int) /\ Len(sent) = n + 4
      /\ \A k \in 1 .. n + 4 : packet[k] = sent[k]
  BY PacketShape
<1>2. h[1] # 0 /\ h[2] # 0
  <2>1. body \in Seq(Bytes)
    BY SeqMonotonic DEF Plain, NonNul
  <2> DEFINE c == Checksum(body)
  <2>2. c \in Bytes
    BY <2>1, ChecksumByte
  <2>3. \A i \in Nat : rsp_to_hex_digit(i) # 0
    BY DEF rsp_to_hex_digit
  <2> HIDE DEF c
  <2>4. c \div 16 \in Nat /\ c % 16 \in Nat
    BY <2>2 DEF Bytes
  <2>5. h[1] = rsp_to_hex_digit(c \div 16) /\ h[2] = rsp_to_hex_digit(c % 16)
    BY DEF rsp_packet_append_u8, c
  <2> QED
    BY <2>3, <2>4, <2>5
<1>3. \A k \in 1 .. n : body[k] \in Plain
  BY ElementOfSeq
<1> HIDE DEF packet, sent, h, n
<1>4. /\ sent[1] = Dollar /\ sent[n + 2] = Hash /\ sent[n + 3] = h[1] /\ sent[n + 4] = h[2]
      /\ \A k \in 1 .. n : sent[k + 1] = body[k]
  <2>1. ASSUME NEW k \in 1 .. n PROVE sent[k + 1] = body[k]
    <3>1. k + 1 \in 1 .. n + 4
      BY <1>1
    <3> QED
      BY <1>1, <3>1
  <2> QED
    BY <1>1, <2>1
<1>5. ASSUME NEW k \in 1 .. n + 4 PROVE sent[k] # 0
  <2>1. CASE k \in 2 .. n + 1
    <3>1. k - 1 \in 1 .. n /\ k - 1 + 1 = k
      BY <1>1, <2>1
    <3>2. sent[k - 1 + 1] = body[k - 1] /\ body[k - 1] \in Plain
      BY <1>3, <1>4, <3>1
    <3> QED
      BY <3>1, <3>2 DEF Plain, NonNul
  <2>2. CASE k \notin 2 .. n + 1
    <3>1. k = 1 \/ k = n + 2 \/ k = n + 3 \/ k = n + 4
      BY <1>1, <2>2
    <3> QED
      BY <1>2, <1>4, <3>1 DEF Dollar, Hash
  <2> QED
    BY <2>1, <2>2
<1>6. CString(packet) = sent
  <2>1. Len(sent) + 1 = n + 5
    BY <1>1
  <2> QED
    BY <1>1, <1>5, <2>1, StringOf
<1>7. BodyOf(sent) = body
  <2>1. Len(sent) >= n + 2
    BY <1>1
  <2> QED
    BY <1>1, <1>4, <2>1, BodyFound DEF n
<1>8. rsp_packet_send(packet) = IF n + 5 <= BufferSize THEN {sent} ELSE {}
  BY <1>1, <1>6 DEF rsp_packet_send, Fits
<1> QED
  BY <1>1, <1>4, <1>7, <1>8 DEF packet, sent, h, n

LEMMA ShortSubSeq ==
  ASSUME NEW p, NEW m \in Nat, p[m] \in Int, p[m + 1] \in Int
  PROVE  SubSeq(p, m, m + 1) = <<p[m], p[m + 1]>>
<1> DEFINE to == m + 1
           s == SubSeq(p, m, to)
           t == <<p[m], p[to]>>
<1>1. to \in Int /\ m <= to /\ to - m + 1 = 2 /\ m + 1 - 1 = m /\ m + 2 - 1 = to
  OBVIOUS
<1>2. \A i \in m .. to : p[i] \in Int
  <2>1. m .. to = {m, to}
    OBVIOUS
  <2> QED
    BY <2>1
<1>3. t \in Seq(Int) /\ Len(t) = 2 /\ t[1] = p[m] /\ t[2] = p[to]
  OBVIOUS
<1> HIDE DEF to
<1>4. /\ s \in Seq(Int) /\ Len(s) = IF m <= to THEN to - m + 1 ELSE 0
      /\ \A i \in 1 .. to - m + 1 : s[i] = p[m + i - 1]
  BY <1>1, <1>2, SubSeqProperties
<1> HIDE DEF s, t
<1>5. Len(s) = 2 /\ s[1] = p[m] /\ s[2] = p[to]
  <2>1. s[1] = p[m + 1 - 1] /\ s[2] = p[m + 2 - 1]
    BY <1>1, <1>4
  <2> QED
    BY <1>1, <1>4, <2>1
<1>6. \A i \in 1 .. 2 : s[i] = t[i]
  BY <1>3, <1>5
<1>7. s = t
  BY <1>3, <1>4, <1>5, <1>6, SeqEqual
<1> QED
  BY <1>7 DEF s, t, to

\* Every framing character takes two places, every other one.
LEMMA EscapedLength ==
  ASSUME NEW text \in Seq(NonNul)
  PROVE  Len(Escaped(text)) = Len(text) + Cardinality({i \in DOMAIN text : text[i] \in Framing})
<1> DEFINE n == Len(text)
           seqs == [i \in DOMAIN text |-> Escape(text[i])]
           Found(i) == {k \in 1 .. i : text[k] \in Framing}
<1>1. n \in Nat /\ DOMAIN text = 1 .. n /\ \A i \in 1 .. n : text[i] \in NonNul
  BY ElementOfSeq
<1>2. \A i \in 1 .. n : seqs[i] = Escape(text[i]) /\ seqs[i] \in Seq(Plain)
  BY <1>1, EscapePlain
<1>3. seqs \in Seq(Seq(Plain)) /\ Len(seqs) = n
  BY <1>1, <1>2
<1>4. Escaped(text) = FlattenSeq(seqs)
  BY DEF Escaped
<1> HIDE DEF seqs, n
<1>5. PICK f : Joins(f, seqs, Plain) /\ FlattenSeq(seqs) = f[Len(seqs)]
  BY <1>3, FlattenJoins
<1>6. ASSUME NEW i \in 1 .. n
      PROVE  Len(f[i]) = Len(f[i - 1]) + (IF text[i] \in Framing THEN 2 ELSE 1)
  <2> DEFINE a == f[i - 1]
             b == seqs[i]
  <2>1. i - 1 \in 0 .. n /\ i \in 1 .. Len(seqs)
    BY <1>1, <1>3
  <2>2. f[i] = a \o b /\ a \in Seq(Plain) /\ b \in Seq(Plain)
    BY <1>2, <1>3, <1>5, <2>1 DEF Joins
  <2>3. Len(b) = IF text[i] \in Framing THEN 2 ELSE 1
    <3>1. /\ b = Escape(text[i])
          /\ text[i] \in Framing => Escape(text[i]) = <<Brace, FlipBit5(text[i])>>
          /\ text[i] \notin Framing => Escape(text[i]) = <<text[i]>>
      BY <1>1, <1>2, EscapePlain
    <3>2. \A x, y : Len(<<x, y>>) = 2 /\ Len(<<x>>) = 1
      OBVIOUS
    <3> QED
      BY <3>1, <3>2
  <2> HIDE DEF a, b
  <2>4. Len(a \o b) = Len(a) + Len(b)
    BY <2>2, ConcatProperties
  <2> QED
    BY <2>2, <2>3, <2>4 DEF a
<1> DEFINE Good(i) == /\ IsFiniteSet(Found(i)) /\ Cardinality(Found(i)) \in Nat
                      /\ Len(f[i]) = i + Cardinality(Found(i))
           Bad == {i \in 0 .. n : ~Good(i)}
<1>7. Good(0)
  <2>1. Found(0) = {}
    OBVIOUS
  <2>2. Len(f[0]) = 0
    BY <1>5 DEF Joins
  <2> QED
    BY <2>1, <2>2, FS_EmptySet
<1>8. ASSUME NEW i \in 1 .. n, Good(i - 1) PROVE Good(i)
  <2> DEFINE S == Found(i - 1)
             T == Found(i)
  <2>1. i \notin S /\ T = IF text[i] \in Framing THEN S \cup {i} ELSE S
    <3>1. 1 .. i = (1 .. i - 1) \cup {i} /\ i \notin 1 .. i - 1
      BY <1>1
    <3> QED
      BY <3>1
  <2> HIDE DEF S, T
  <2>2. IsFiniteSet(S) /\ Cardinality(S) \in Nat /\ Len(f[i - 1]) = i - 1 + Cardinality(S)
    BY <1>8 DEF S
  <2>3. /\ IsFiniteSet(T) /\ Cardinality(T) \in Nat
        /\ Cardinality(T) = Cardinality(S) + (IF text[i] \in Framing THEN 1 ELSE 0)
    <3>1. IsFiniteSet(S \cup {i}) /\ Cardinality(S \cup {i}) = Cardinality(S) + 1
      BY <2>1, <2>2, FS_AddElement
    <3> QED
      BY <2>1, <2>2, <3>1
  <2>4. Len(f[i]) = i + Cardinality(T)
    <3> DEFINE here == Len(f[i])
               before == Len(f[i - 1])
               u == Cardinality(S)
               v == Cardinality(T)
    <3>1. here = before + (IF text[i] \in Framing THEN 2 ELSE 1)
      BY <1>6
    <3>2. before = i - 1 + u /\ u \in Nat /\ v = u + (IF text[i] \in Framing THEN 1 ELSE 0)
      BY <2>2, <2>3
    <3> HIDE DEF here, before, u, v
    <3>3. here = i + v
      BY <1>1, <3>1, <3>2
    <3> QED
      BY <3>3 DEF here, v
  <2> QED
    BY <2>3, <2>4 DEF T
<1> HIDE DEF Good
<1>9. Bad = {}
  <2> SUFFICES ASSUME Bad # {} PROVE FALSE
    OBVIOUS
  <2>1. PICK i \in Bad : \A k \in Bad : i <= k
    <3>1. Bad \subseteq Nat
      BY <1>1
    <3> HIDE DEF Bad
    <3> QED
      BY <3>1, SmallestNumber
  <2>2. i # 0
    BY <1>7
  <2>3. i \in 1 .. n /\ i - 1 \in 0 .. n /\ i - 1 \notin Bad
    BY <1>1, <2>1, <2>2
  <2> QED
    BY <1>8, <2>3
<1>10. Good(n)
  BY <1>1, <1>9
<1>11. Found(n) = {i \in DOMAIN text : text[i] \in Framing}
  BY <1>1
<1> QED
  BY <1>3, <1>4, <1>5, <1>10, <1>11 DEF Good, n

\* Whatever the data, what is sent is received as the string in them.
LEMMA TextArrives ==
  ASSUME NEW data \in Seq(Bytes)
  PROVE  TextArrivesAs(data)
<1> DEFINE text == CString(data)
           body == Escaped(text)
           h == rsp_packet_append_u8(Checksum(body))
           sent == <<Dollar>> \o body \o <<Hash>> \o h
           digits == SubSeq(sent, Len(sent) - 1, Len(sent))
           escapes == Cardinality({i \in DOMAIN text : text[i] \in {Hash, Dollar, Brace}})
           n == Len(body)
<1>1. text \in Seq(NonNul)
  BY StringType
<1>2. rsp_packet_append(data) = body
  BY DEF rsp_packet_append, Escaped
<1> HIDE DEF text
<1>3. body \in Seq(Plain) /\ Decoded(body) = text
  BY <1>1, BodyDecodes
<1>4. n = Len(text) + escapes
  BY <1>1, EscapedLength DEF Framing
<1> HIDE DEF body, escapes
<1>5. /\ rsp_packet_send(rsp_packet_end(body)) = IF n + 5 <= BufferSize THEN {sent} ELSE {}
      /\ BodyOf(sent) = body
      /\ n \in Nat /\ sent \in Seq(Int) /\ Len(sent) = n + 4
      /\ sent[n + 3] = h[1] /\ sent[n + 4] = h[2]
  BY <1>3, PacketSent
<1>6. rsp_packet_quick_send(data) = IF n + 5 <= BufferSize THEN {sent} ELSE {}
  BY <1>2, <1>5 DEF rsp_packet_quick_send
<1>7. Checksum(body) \in Bytes
  <2>1. body \in Seq(Bytes)
    BY <1>3, SeqMonotonic DEF Plain, NonNul
  <2> QED
    BY <2>1, ChecksumByte
<1>8. rsp_hex_to_u8(h) = Checksum(body) /\ h \in Seq(Int) /\ Len(h) = 2
  BY <1>7, HexByte
<1>9. digits = h
  <2> HIDE DEF sent, h, n
  <2> DEFINE m == n + 3
  <2>1. m \in Nat /\ Len(sent) - 1 = m /\ Len(sent) = m + 1 /\ sent[m] = h[1] /\ sent[m + 1] = h[2]
    <3>1. n + 3 + 1 = n + 4 /\ n + 4 - 1 = n + 3
      BY <1>5
    <3> QED
      BY <1>5, <3>1
  <2>2. h[1] \in Int /\ h[2] \in Int
    <3>1. 1 \in 1 .. Len(h) /\ 2 \in 1 .. Len(h)
      BY <1>8
    <3> QED
      BY <1>8, <3>1, ElementOfSeq
  <2> HIDE DEF m
  <2>3. SubSeq(sent, m, m + 1) = <<sent[m], sent[m + 1]>>
    <3>1. sent[m] \in Int /\ sent[m + 1] \in Int
      BY <2>1, <2>2
    <3> QED
      BY <2>1, <3>1, ShortSubSeq
  <2>4. digits = <<h[1], h[2]>>
    BY <2>1, <2>3
  <2> DEFINE t == <<h[1], h[2]>>
  <2>5. t \in Seq(Int) /\ Len(t) = 2 /\ t[1] = h[1] /\ t[2] = h[2]
    BY <2>2
  <2> HIDE DEF t
  <2>6. \A i \in 1 .. 2 : t[i] = h[i]
    BY <2>5
  <2>7. t = h
    BY <1>8, <2>5, <2>6, SeqEqual
  <2> QED
    BY <2>4, <2>7 DEF t
<1>10. Dollar \notin {body[i] : i \in DOMAIN body}
  <2>1. \A i \in DOMAIN body : body[i] \in Plain
    BY <1>3, ElementOfSeq
  <2> QED
    BY <2>1 DEF Plain
<1>11. rsp_packet_quick_send(data) = {} <=> Len(text) + escapes + 5 > BufferSize
  <2> HIDE DEF n, sent
  <2>1. n + 5 <= BufferSize <=> ~(n + 5 > BufferSize)
    BY <1>5, PacketAssumption
  <2> QED
    BY <1>4, <1>6, <2>1
<1>12. ASSUME NEW packet \in rsp_packet_quick_send(data)
       PROVE  LET b == BodyOf(packet)
                  d == SubSeq(packet, Len(packet) - 1, Len(packet))
              IN /\ Decoded(b) = text
                 /\ packet = <<Dollar>> \o b \o <<Hash>> \o d
                 /\ rsp_hex_to_u8(d) = Checksum(b)
                 /\ Dollar \notin {b[i] : i \in DOMAIN b}
  <2>1. packet = sent
    BY <1>6, <1>12
  <2>2. packet = <<Dollar>> \o body \o <<Hash>> \o h /\ BodyOf(packet) = body
    BY <1>5, <2>1
  <2>3. SubSeq(packet, Len(packet) - 1, Len(packet)) = h
    BY <1>9, <2>1
  <2> QED
    BY <1>3, <1>8, <1>10, <2>2, <2>3
<1> QED
  BY <1>11, <1>12 DEF TextArrivesAs, text, escapes

\* The protocol: the receiver of a packet gets the string that
\* rsp_packet_append was given, for all data, with the checksum rsp_packet_end
\* appended, and every string the buffer has room for is sent.
THEOREM TextsAlwaysArrive == Spec => []TextLaw
<1>1. case \in Cases => TextLaw
  <2>1. ASSUME case \in Cases, case.kind = "text" PROVE case.text \in Seq(Bytes)
    BY <2>1, CasesAssumption DEF Bytes
  <2> QED
    BY <2>1, TextArrives DEF TextLaw
<1> QED
  BY <1>1, CaseStays, PTL

-----------------------------------------------------------------------------
(* Registers and words *)

\* The bits of the bytes of a word, shifted by s for each byte.
LEMMA BytesOfWord ==
  ASSUME NEW w \in SUBSET (0 .. 31)
  PROVE  LET h == rsp_packet_append_u32(w)
         IN /\ LittleEndian(h) = w
            /\ \A x : x \in rsp_hex_to_u32(h) <=>
                 \E i \in ByteIndex : \E b \in ByteBits : 8 * i + b \in w /\ x = 4 * i + b
<1> DEFINE h == rsp_packet_append_u32(w)
<1>1. \A i \in ByteIndex : h[i] = {b \in ByteBits : 8 * i + b \in w}
  BY DEF rsp_packet_append_u32
<1> HIDE DEF h
<1>2. \A x : x \in LittleEndian(h) <=> \E i \in ByteIndex : \E b \in ByteBits : 8 * i + b \in w /\ x = 8 * i + b
  BY <1>1 DEF LittleEndian
<1>3. \A x : x \in rsp_hex_to_u32(h) <=> \E i \in ByteIndex : \E b \in ByteBits : 8 * i + b \in w /\ x = 4 * i + b
  BY <1>1 DEF rsp_hex_to_u32
<1>4. ASSUME NEW x \in w PROVE x \in LittleEndian(h)
  <2>1. x \div 8 \in ByteIndex /\ x % 8 \in ByteBits /\ 8 * (x \div 8) + (x % 8) = x
    BY <1>4 DEF ByteIndex, ByteBits
  <2> QED
    BY <1>2, <2>1
<1>5. LittleEndian(h) = w
  BY <1>2, <1>4
<1> QED
  BY <1>3, <1>5 DEF h

\* Overlapping nibbles: a word of one byte is read back, and none else.
LEMMA NibblesOverlap ==
  ASSUME NEW w \in SUBSET (0 .. 31)
  PROVE  rsp_hex_to_u32(rsp_packet_append_u32(w)) = w <=> w \subseteq ByteBits
<1> DEFINE u == rsp_hex_to_u32(rsp_packet_append_u32(w))
<1>1. \A x : x \in u <=> \E i \in ByteIndex : \E b \in ByteBits : 8 * i + b \in w /\ x = 4 * i + b
  BY BytesOfWord
<1> HIDE DEF u
<1>2. ASSUME w \subseteq ByteBits PROVE u = w
  <2>1. ASSUME NEW x \in w PROVE x \in u
    <3>1. 0 \in ByteIndex /\ x \in ByteBits /\ 8 * 0 + x = x /\ 4 * 0 + x = x
      BY <1>2, <2>1 DEF ByteIndex, ByteBits
    <3> QED
      BY <1>1, <2>1, <3>1
  <2>2. ASSUME NEW x \in u PROVE x \in w
    <3>1. PICK i \in ByteIndex, b \in ByteBits : 8 * i + b \in w /\ x = 4 * i + b
      BY <1>1, <2>2
    <3>2. 8 * i + b \in ByteBits
      BY <1>2, <3>1
    <3>3. i = 0
      BY <3>2 DEF ByteIndex, ByteBits
    <3> QED
      BY <3>1, <3>3 DEF ByteBits
  <2> QED
    BY <2>1, <2>2
<1>3. ASSUME u = w PROVE w \subseteq ByteBits
  <2> SUFFICES ASSUME NEW y \in w, y \notin ByteBits PROVE FALSE
    OBVIOUS
  <2> DEFINE T == {31 - x : x \in w \ ByteBits}
  <2>1. T \subseteq Nat /\ T # {}
    <3>1. \A x \in w \ ByteBits : 31 - x \in Nat
      OBVIOUS
    <3> QED
      BY <3>1
  <2>2. PICK k \in T : \A j \in T : k <= j
    <3> HIDE DEF T
    <3> QED
      BY <2>1, SmallestNumber
  <2>3. PICK x \in w \ ByteBits : k = 31 - x
    BY <2>2
  <2>4. \A z \in w \ ByteBits : 31 - x <= 31 - z
    BY <2>2, <2>3
  <2>5. \A z \in w \ ByteBits : z <= x
    BY <2>4
  <2>6. PICK i \in ByteIndex, b \in ByteBits : 8 * i + b \in w /\ x = 4 * i + b
    BY <1>1, <1>3, <2>3
  <2>7. x >= 8
    <3>1. x \in 0 .. 31 /\ x \notin ByteBits
      BY <2>3
    <3> QED
      BY <3>1 DEF ByteBits
  <2>8. i >= 1
    BY <2>6, <2>7 DEF ByteIndex, ByteBits
  <2>9. 8 * i + b > x /\ 8 * i + b \notin ByteBits
    BY <2>6, <2>8 DEF ByteIndex, ByteBits
  <2> QED
    BY <2>5, <2>6, <2>9 DEF ByteIndex, ByteBits
<1> QED
  BY <1>2, <1>3 DEF u

LEMMA RegistersDistinct ==
  \A j, k \in 1 .. 32 : rv32_register[j] = rv32_register[k] => j = k
  BY SMTT(120) DEF rv32_register

LEMMA NamedRegister == \A i \in 0 .. 31 : AbiName(i) = rv32_register[i + 1]
  BY SMTT(120) DEF rv32_register, AbiName, Temporaries, Saved, Arguments

\* A name of the calling convention has the number of its register.
LEMMA RegisterNumber ==
  ASSUME NEW i \in 0 .. 31, NEW name, name = rv32_register[i + 1], name # "fp"
  PROVE  REG(name) = i
<1> DEFINE Same == {j \in 1 .. Len(rv32_register) : rv32_register[j] = name}
           found == SelectInSeq(rv32_register, LAMBDA n : n = name)
<1>1. Len(rv32_register) = 32
  BY DEF rv32_register
<1>2. i + 1 \in 1 .. 32
  OBVIOUS
<1>3. Same = {i + 1}
  BY <1>1, <1>2, RegistersDistinct
<1> HIDE DEF Same
<1>4. Min(Same) = i + 1
  BY <1>2, <1>3 DEF Min
<1>5. found = i + 1
  BY <1>3, <1>4 DEF SelectInSeq, Same
<1>6. REG(name) = found - 1
  BY DEF REG
<1> HIDE DEF found
<1> QED
  BY <1>5, <1>6

LEMMA NoFp == \A i \in 1 .. 32 : rv32_register[i] # "fp"
  BY SMTT(120) DEF rv32_register

\* Every register is shown under its number, whatever it holds.
LEMMA RegistersShown ==
  ASSUME NEW w \in SUBSET (0 .. 31)
  PROVE  LET r == [i \in 0 .. 31 |-> {(b + i) % 32 : b \in w}]
             shown == [i \in 0 .. 32 |-> LittleEndian(rsp_read_registers(r, w)[i])]
         IN /\ \A i \in 0 .. 31 : shown[i] = r[REG(AbiName(i))]
            /\ shown[32] = w /\ REG("fp") = REG("s0")
<1> DEFINE r == [i \in 0 .. 31 |-> {(b + i) % 32 : b \in w}]
           shown == [i \in 0 .. 32 |-> LittleEndian(rsp_read_registers(r, w)[i])]
<1>1. \A i \in 0 .. 31 : r[i] \in SUBSET (0 .. 31)
  <2>1. \A i \in 0 .. 31 : \A b \in w : (b + i) % 32 \in 0 .. 31
    OBVIOUS
  <2> QED
    BY <2>1
<1> HIDE DEF r
<1>2. \A i \in 0 .. 31 : REG(AbiName(i)) = i
  <2>1. ASSUME NEW i \in 0 .. 31 PROVE REG(AbiName(i)) = i
    <3>1. AbiName(i) = rv32_register[i + 1] /\ i + 1 \in 1 .. 32
      BY NamedRegister
    <3>2. AbiName(i) # "fp"
      BY <3>1, NoFp
    <3> QED
      BY <3>1, <3>2, RegisterNumber
  <2> QED
    BY <2>1
<1>3. \A i \in 0 .. 31 : shown[i] = r[i]
  <2>1. ASSUME NEW i \in 0 .. 31 PROVE shown[i] = r[i]
    <3>1. rsp_read_registers(r, w)[i] = rsp_packet_append_u32(r[i])
      BY DEF rsp_read_registers
    <3>2. LittleEndian(rsp_packet_append_u32(r[i])) = r[i]
      BY <1>1, BytesOfWord
    <3> QED
      BY <3>1, <3>2
  <2> QED
    BY <2>1
<1>4. shown[32] = w
  <2>1. rsp_read_registers(r, w)[32] = rsp_packet_append_u32(w)
    BY DEF rsp_read_registers
  <2>2. LittleEndian(rsp_packet_append_u32(w)) = w
    BY BytesOfWord
  <2> QED
    BY <2>1, <2>2
<1>5. REG("s0") = 8 /\ REG("fp") = 8
  <2>1. rv32_register[8 + 1] = "s0" /\ 8 \in 0 .. 31
    BY DEF rv32_register
  <2>2. REG("s0") = 8
    BY <2>1, RegisterNumber
  <2> QED
    BY <2>2 DEF REG
<1> QED
  BY <1>2, <1>3, <1>4, <1>5 DEF r

\* What gdb is shown, for every word: the registers and pc arrive as they are,
\* each under the number of its name, and what gdb writes arrives exactly when it
\* fits in a byte.
THEOREM WordsAlwaysShown == Spec => []WordLaw
<1>1. case \in Cases => WordLaw
  <2>1. ASSUME case \in Cases, case.kind = "word" PROVE case.bits \in SUBSET (0 .. 31)
    BY <2>1, CasesAssumption
  <2> QED
    BY <2>1, RegistersShown, NibblesOverlap DEF WordLaw
<1> QED
  BY <1>1, CaseStays, PTL

-----------------------------------------------------------------------------
(* Hexadecimal numbers *)

\* The digits the stub and gdb write.
Digit == 48 .. 57 \cup 97 .. 102

LEMMA DigitRead ==
  /\ \A i \in 0 .. 15 : rsp_to_hex_digit(i) \in Digit /\ rsp_from_hex_digit(rsp_to_hex_digit(i)) = i
  /\ \A c \in Digit : rsp_is_hex_digit(c) /\ rsp_from_hex_digit(c) \in 0 .. 15
  /\ ~rsp_is_hex_digit(Comma) /\ ~rsp_is_hex_digit(Colon)
  /\ Digit \subseteq Plain \ {Brace} /\ Digit \subseteq Int
<1>1. ASSUME NEW i \in 0 .. 15
      PROVE  rsp_to_hex_digit(i) \in Digit /\ rsp_from_hex_digit(rsp_to_hex_digit(i)) = i
  <2>1. CASE i < 10
    <3>1. rsp_to_hex_digit(i) = 48 + i /\ 48 + i \in 48 .. 57
      BY <2>1 DEF rsp_to_hex_digit
    <3> QED
      BY <3>1 DEF rsp_from_hex_digit, Digit
  <2>2. CASE ~(i < 10)
    <3>1. rsp_to_hex_digit(i) = 97 + i - 10 /\ 97 + i - 10 \in 97 .. 102 /\ 97 + i - 10 \notin 48 .. 57
      BY <2>2 DEF rsp_to_hex_digit
    <3> QED
      BY <3>1 DEF rsp_from_hex_digit, Digit
  <2> QED
    BY <2>1, <2>2
<1>2. ASSUME NEW c \in Digit PROVE rsp_is_hex_digit(c) /\ rsp_from_hex_digit(c) \in 0 .. 15
  <2>1. CASE c \in 48 .. 57
    <3>1. rsp_from_hex_digit(c) = c - 48
      BY <2>1 DEF rsp_from_hex_digit
    <3> QED
      BY <2>1, <3>1 DEF rsp_is_hex_digit
  <2>2. CASE c \in 97 .. 102
    <3>1. rsp_from_hex_digit(c) = c - 97 + 10
      BY <2>2 DEF rsp_from_hex_digit
    <3> QED
      BY <2>2, <3>1 DEF rsp_is_hex_digit
  <2> QED
    BY <2>1, <2>2 DEF Digit
<1>3. ~rsp_is_hex_digit(Comma) /\ ~rsp_is_hex_digit(Colon)
  BY DEF rsp_is_hex_digit, Comma, Colon
<1>4. Digit \subseteq Plain \ {Brace} /\ Digit \subseteq Int
  BY DEF Digit, Plain, NonNul, Bytes, Hash, Dollar, Brace
<1> QED
  BY <1>1, <1>2, <1>3, <1>4

\* The recursion of Hexadecimal, for the numbers up to n.
Hexes(f, n) ==
  f = [i \in 0 .. n |-> IF i < 16 THEN <<rsp_to_hex_digit(i)>> ELSE Append(f[i \div 16], rsp_to_hex_digit(i % 16))]

LEMMA Sixteenth == \A i \in Nat : i >= 16 => i \div 16 \in 0 .. i - 1
  OBVIOUS

LEMMA HexesUnique ==
  ASSUME NEW m \in Nat, NEW n \in Nat, m <= n, NEW f, Hexes(f, m), NEW g, Hexes(g, n)
  PROVE  \A i \in 0 .. m : f[i] = g[i]
<1> DEFINE Bad == {i \in 0 .. m : f[i] # g[i]}
<1> SUFFICES ASSUME Bad # {} PROVE FALSE
  OBVIOUS
<1>1. PICK i \in Bad : \A k \in Bad : i <= k
  <2>1. Bad \subseteq Nat
    OBVIOUS
  <2> HIDE DEF Bad
  <2> QED
    BY <2>1, SmallestNumber
<1>2. i \in 0 .. m /\ i \in 0 .. n /\ i \in Nat
  OBVIOUS
<1>3. /\ f[i] = IF i < 16 THEN <<rsp_to_hex_digit(i)>> ELSE Append(f[i \div 16], rsp_to_hex_digit(i % 16))
      /\ g[i] = IF i < 16 THEN <<rsp_to_hex_digit(i)>> ELSE Append(g[i \div 16], rsp_to_hex_digit(i % 16))
  BY <1>2, Zenon DEF Hexes
<1>4. ~(i < 16)
  BY <1>1, <1>3
<1>5. i \div 16 \in 0 .. m /\ ~(i <= i \div 16)
  BY <1>2, <1>4, Sixteenth
<1>6. f[i \div 16] = g[i \div 16]
  BY <1>1, <1>5
<1> QED
  BY <1>1, <1>3, <1>4, <1>6

LEMMA HexesExist == \A n \in Nat : \E f : Hexes(f, n)
<1> DEFINE Bad == {n \in Nat : ~ \E f : Hexes(f, n)}
<1> SUFFICES ASSUME Bad # {} PROVE FALSE
  OBVIOUS
<1>1. PICK n \in Bad : \A k \in Bad : n <= k
  <2>1. Bad \subseteq Nat
    OBVIOUS
  <2> HIDE DEF Bad
  <2> QED
    BY <2>1, SmallestNumber
<1>2. n \in Nat
  OBVIOUS
<1> DEFINE of == [k \in 0 .. n - 1 |-> CHOOSE f : Hexes(f, k)]
           d == [i \in 0 .. n |-> of[i \div 16][i \div 16]]
           h == [i \in 0 .. n |-> IF i < 16 THEN <<rsp_to_hex_digit(i)>> ELSE Append(d[i], rsp_to_hex_digit(i % 16))]
<1>3. \A k \in 0 .. n - 1 : Hexes(of[k], k)
  <2>1. ASSUME NEW k \in 0 .. n - 1 PROVE Hexes(of[k], k)
    <3>1. k \in Nat /\ k \notin Bad
      BY <1>1, <1>2
    <3>2. \E f : Hexes(f, k)
      BY <3>1
    <3> QED
      BY <3>2
  <2> QED
    BY <2>1
<1> HIDE DEF of
<1>4. ASSUME NEW i \in 0 .. n, i >= 16 PROVE h[i \div 16] = d[i]
  <2> DEFINE k == i \div 16
  <2>1. k \in 0 .. n - 1 /\ k \in 0 .. n /\ k \in Nat
    BY <1>2, <1>4, Sixteenth
  <2>2. d[i] = of[k][k]
    BY <1>4
  <2>3. h[k] = IF k < 16 THEN <<rsp_to_hex_digit(k)>> ELSE Append(of[k \div 16][k \div 16], rsp_to_hex_digit(k % 16))
    BY <2>1
  <2> HIDE DEF h, d, k
  <2>4. Hexes(of[k], k) /\ k \in 0 .. k
    BY <1>3, <2>1
  <2>5. of[k][k] = IF k < 16 THEN <<rsp_to_hex_digit(k)>> ELSE Append(of[k][k \div 16], rsp_to_hex_digit(k % 16))
    BY <2>4, Zenon DEF Hexes
  <2>6. CASE k < 16
    BY <2>2, <2>3, <2>5, <2>6 DEF k
  <2>7. CASE ~(k < 16)
    <3> DEFINE l == k \div 16
    <3>1. l \in Nat /\ l <= k /\ l \in 0 .. n - 1 /\ l \in 0 .. l
      BY <1>2, <2>1, <2>7, Sixteenth
    <3> HIDE DEF l
    <3> DEFINE ol == of[l]
               ok == of[k]
    <3>2. Hexes(ol, l) /\ Hexes(ok, k)
      BY <1>3, <2>1, <3>1
    <3> HIDE DEF ol, ok
    <3>3. ol[l] = ok[l]
      BY <2>1, <3>1, <3>2, HexesUnique
    <3> QED
      BY <2>2, <2>3, <2>5, <2>7, <3>3 DEF k, l, ol, ok
  <2> QED
    BY <2>6, <2>7
<1> HIDE DEF d
<1>5. Hexes(h, n)
  <2>1. \A i \in 0 .. n : i < 16 \/ i >= 16
    BY <1>2
  <2>2. \A i \in 0 .. n : h[i] = IF i < 16 THEN <<rsp_to_hex_digit(i)>> ELSE Append(h[i \div 16], rsp_to_hex_digit(i % 16))
    BY <1>4, <2>1
  <2>3. h = [i \in 0 .. n |-> h[i]]
    OBVIOUS
  <2> HIDE DEF h
  <2> QED
    BY <2>2, <2>3, Zenon DEF Hexes
<1> QED
  BY <1>1, <1>5

\* Hexadecimal is what its recursion says.
LEMMA HexadecimalOf ==
  \A n \in Nat : Hexadecimal[n] =
    IF n < 16 THEN <<rsp_to_hex_digit(n)>> ELSE Append(Hexadecimal[n \div 16], rsp_to_hex_digit(n % 16))
<1> DEFINE Whole(f) ==
             f = [n \in Nat |-> IF n < 16 THEN <<rsp_to_hex_digit(n)>>
                                ELSE Append(f[n \div 16], rsp_to_hex_digit(n % 16))]
           of == [n \in Nat |-> CHOOSE f : Hexes(f, n)]
           w == [n \in Nat |-> of[n][n]]
<1>1. \A n \in Nat : Hexes(of[n], n)
  BY HexesExist
<1> HIDE DEF of
<1>2. ASSUME NEW n \in Nat
      PROVE  w[n] = IF n < 16 THEN <<rsp_to_hex_digit(n)>> ELSE Append(w[n \div 16], rsp_to_hex_digit(n % 16))
  <2>1. Hexes(of[n], n) /\ n \in 0 .. n
    BY <1>1
  <2>2. of[n][n] = IF n < 16 THEN <<rsp_to_hex_digit(n)>> ELSE Append(of[n][n \div 16], rsp_to_hex_digit(n % 16))
    BY <2>1, Zenon DEF Hexes
  <2>3. CASE n < 16
    BY <2>2, <2>3
  <2>4. CASE ~(n < 16)
    <3> DEFINE l == n \div 16
    <3>1. l \in Nat /\ l <= n /\ l \in 0 .. l
      BY <2>4, Sixteenth
    <3>2. w[l] = of[l][l] /\ w[n] = of[n][n]
      BY <3>1
    <3> HIDE DEF l, w
    <3> DEFINE ol == of[l]
               on == of[n]
    <3>3. Hexes(ol, l) /\ Hexes(on, n)
      BY <1>1, <3>1
    <3> HIDE DEF ol, on
    <3>4. ol[l] = on[l]
      BY <3>1, <3>3, HexesUnique
    <3> QED
      BY <2>2, <2>4, <3>2, <3>4 DEF l, ol, on
  <2> QED
    BY <2>3, <2>4
<1>3. Whole(w)
  <2>1. w = [n \in Nat |-> w[n]]
    OBVIOUS
  <2> HIDE DEF w
  <2> QED
    BY <1>2, <2>1, Zenon
<1>4. Whole(Hexadecimal)
  <2> HIDE DEF w
  <2>1. Hexadecimal = CHOOSE f : Whole(f)
    BY DEF Hexadecimal
  <2> HIDE DEF Whole
  <2> QED
    BY <1>3, <2>1
<1> QED
  BY <1>4, Zenon

LEMMA HexadecimalDigits == \A n \in Nat : Hexadecimal[n] \in Seq(Digit) /\ Len(Hexadecimal[n]) \in Nat \ {0}
<1> DEFINE Good(n) == Hexadecimal[n] \in Seq(Digit) /\ Len(Hexadecimal[n]) \in Nat \ {0}
           Bad == {n \in Nat : ~Good(n)}
<1>1. ASSUME Bad # {} PROVE FALSE
  <2>1. PICK n \in Bad : \A k \in Bad : n <= k
    <3>1. Bad \subseteq Nat
      OBVIOUS
    <3> HIDE DEF Bad
    <3> QED
      BY <1>1, <3>1, SmallestNumber
  <2>2. n \in Nat /\ ~Good(n)
    OBVIOUS
  <2>3. CASE n < 16
    <3> DEFINE d == rsp_to_hex_digit(n)
    <3>1. Hexadecimal[n] = <<d>>
      BY <2>2, <2>3, HexadecimalOf, Zenon
    <3>2. n \in 0 .. 15
      BY <2>2, <2>3
    <3>3. Hexadecimal[n] = <<d>> /\ d \in Digit
      BY <3>1, <3>2, DigitRead
    <3> HIDE DEF d
    <3>4. <<d>> \in Seq(Digit) /\ Len(<<d>>) = 1
      BY <3>3
    <3> QED
      BY <2>2, <3>3, <3>4
  <2>4. CASE ~(n < 16)
    <3> DEFINE l == n \div 16
               d == rsp_to_hex_digit(n % 16)
               h == Hexadecimal[l]
    <3>1. l \in Nat /\ ~(n <= l) /\ n % 16 \in 0 .. 15
      BY <2>2, <2>4, Sixteenth
    <3>2. d \in Digit
      BY <3>1, DigitRead
    <3>3. Hexadecimal[n] = Append(h, d)
      BY <2>2, <2>4, HexadecimalOf, Zenon
    <3>4. h \in Seq(Digit)
      BY <2>1, <3>1
    <3> HIDE DEF h, d
    <3>5. Append(h, d) \in Seq(Digit) /\ Len(Append(h, d)) = Len(h) + 1 /\ Len(h) \in Nat
      BY <3>2, <3>4, AppendProperties, LenProperties
    <3> QED
      BY <2>2, <3>3, <3>5
  <2> QED
    BY <2>3, <2>4
<1> QED
  BY <1>1

\* The loop over the digits of a number, digit by digit.
Reads(r, text) ==
  r[0] = 0 /\ \A k \in 1 .. Len(text) : r[k] = (16 * r[k - 1] + rsp_from_hex_digit(text[k])) % WordSpace

\* A number below 2^32 is read as what it is.
LEMMA HexadecimalRead ==
  \A n \in 0 .. WordSpace - 1 : \A r : Reads(r, Hexadecimal[n]) => r[Len(Hexadecimal[n])] = n
<1> DEFINE Good(n) == \A r : Reads(r, Hexadecimal[n]) => r[Len(Hexadecimal[n])] = n
           Bad == {n \in 0 .. WordSpace - 1 : ~Good(n)}
<1>1. ASSUME Bad # {} PROVE FALSE
  <2>1. PICK n \in Bad : \A k \in Bad : n <= k
    <3>1. Bad \subseteq Nat
      BY PacketAssumption
    <3> HIDE DEF Bad
    <3> QED
      BY <1>1, <3>1, SmallestNumber
  <2>2. n \in Nat /\ n \in 0 .. WordSpace - 1 /\ ~Good(n) /\ WordSpace \in Nat /\ WordSpace > 0
    BY PacketAssumption
  <2>3. PICK r : Reads(r, Hexadecimal[n]) /\ r[Len(Hexadecimal[n])] # n
    BY <2>2
  <2>4. CASE n < 16
    <3> DEFINE d == rsp_to_hex_digit(n)
    <3>1. Hexadecimal[n] = <<d>>
      BY <2>2, <2>4, HexadecimalOf, Zenon
    <3>2. n \in 0 .. 15
      BY <2>2, <2>4
    <3>3. Hexadecimal[n] = <<d>> /\ rsp_from_hex_digit(d) = n
      BY <3>1, <3>2, DigitRead
    <3> HIDE DEF d
    <3>4. Len(<<d>>) = 1 /\ <<d>>[1] = d
      OBVIOUS
    <3>5. r[0] = 0 /\ r[1] = (16 * r[0] + n) % WordSpace
      BY <2>3, <3>3, <3>4 DEF Reads
    <3>6. n % WordSpace = n
      BY <2>2
    <3> QED
      BY <2>2, <2>3, <3>3, <3>4, <3>5, <3>6
  <2>5. CASE ~(n < 16)
    <3> DEFINE l == n \div 16
               m == n % 16
               d == rsp_to_hex_digit(m)
               h == Hexadecimal[l]
               e == Append(h, d)
    <3>1. l \in 0 .. WordSpace - 1 /\ l \in Nat /\ ~(n <= l) /\ m \in 0 .. 15 /\ 16 * l + m = n
      BY <2>2, <2>5, Sixteenth
    <3>2. d \in Digit /\ rsp_from_hex_digit(d) = m
      BY <3>1, DigitRead
    <3>3. Hexadecimal[n] = e
      BY <2>2, <2>5, HexadecimalOf, Zenon
    <3>4. h \in Seq(Digit) /\ Good(l)
      BY <2>1, <3>1, HexadecimalDigits
    <3> HIDE DEF d, m
    <3>5. /\ Len(h) \in Nat /\ Len(e) = Len(h) + 1
          /\ \A k \in 1 .. Len(h) : e[k] = h[k]
          /\ e[Len(h) + 1] = d
      <4> HIDE DEF h
      <4> QED
        BY <3>2, <3>4, AppendProperties, LenProperties
    <3>6. /\ r[0] = 0
          /\ \A k \in 1 .. Len(e) : r[k] = (16 * r[k - 1] + rsp_from_hex_digit(e[k])) % WordSpace
      BY <2>3, <3>3 DEF Reads
    <3> HIDE DEF e, l
    <3>7. Reads(r, h)
      <4>1. \A k \in 1 .. Len(h) : k \in 1 .. Len(e) /\ e[k] = h[k]
        BY <3>5
      <4> HIDE DEF h
      <4> QED
        BY <3>6, <4>1 DEF Reads
    <3>8. r[Len(h)] = l
      BY <3>4, <3>7
    <3> HIDE DEF h
    <3>9. r[Len(e)] = (16 * l + m) % WordSpace
      <4>1. Len(e) \in 1 .. Len(e) /\ Len(e) - 1 = Len(h) /\ e[Len(e)] = d
        BY <3>5
      <4> QED
        BY <3>2, <3>6, <3>8, <4>1
    <3>10. n % WordSpace = n
      BY <2>2
    <3> QED
      BY <2>3, <3>1, <3>3, <3>9, <3>10
  <2> QED
    BY <2>4, <2>5
<1> HIDE DEF Good
<1> QED
  BY <1>1 DEF Good

NumberOf(text) == FoldLeft(LAMBDA n, c : (16 * n + rsp_from_hex_digit(c)) % WordSpace, 0, text)
NumberFold(it, text) ==
  it = [s \in SUBSET DOMAIN text |->
          IF s = {} THEN 0 ELSE (16 * it[s \ {Max(s)}] + rsp_from_hex_digit(text[Max(s)])) % WordSpace]

LEMMA NumberOver ==
  ASSUME NEW text PROVE NumberOf(text) = (CHOOSE it : NumberFold(it, text))[DOMAIN text]
  BY DEF NumberOf, FoldLeft, MapThenFoldSet, NumberFold

LEMMA NumberRuns ==
  ASSUME NEW text \in Seq(Digit)
  PROVE  \E r : Reads(r, text) /\ NumberOf(text) = r[Len(text)]
<1> DEFINE n == Len(text)
           T == 0 .. WordSpace - 1
           g == [p \in T \X (1 .. n) |-> (16 * p[1] + rsp_from_hex_digit(text[p[2]])) % WordSpace]
<1>1. n \in Nat /\ DOMAIN text = 1 .. n /\ \A k \in 1 .. n : text[k] \in Digit
  BY ElementOfSeq
<1>2. \A x \in T, k \in 1 .. n : (16 * x + rsp_from_hex_digit(text[k])) % WordSpace \in T
  <2>1. ASSUME NEW x \in T, NEW y \in 0 .. 15 PROVE (16 * x + y) % WordSpace \in T
    BY PacketAssumption
  <2>2. \A k \in 1 .. n : rsp_from_hex_digit(text[k]) \in 0 .. 15
    BY <1>1, DigitRead
  <2> HIDE DEF T
  <2> QED
    BY <2>1, <2>2
<1>3. 0 \in T
  BY PacketAssumption
<1> HIDE DEF T
<1>4. /\ g \in [T \X (1 .. n) -> T]
      /\ \A x \in T, k \in 1 .. n : g[<<x, k>>] = (16 * x + rsp_from_hex_digit(text[k])) % WordSpace
  BY <1>2
<1> HIDE DEF n, g
<1>5. PICK it : Folds(it, g, 0, 1 .. n) /\ \A s \in SUBSET (1 .. n) : it[s] \in T
  BY <1>1, <1>3, <1>4, FoldTotal
<1>6. ASSUME NEW s \in SUBSET (1 .. n), s # {}
      PROVE  g[<<it[s \ {Max(s)}], Max(s)>>] = (16 * it[s \ {Max(s)}] + rsp_from_hex_digit(text[Max(s)])) % WordSpace
  <2> DEFINE x == it[s \ {Max(s)}]
             k == Max(s)
  <2>1. k \in 1 .. n
    BY <1>1, <1>6, MaxMember
  <2>2. s \ {Max(s)} \in SUBSET (1 .. n)
    OBVIOUS
  <2>3. x \in T
    BY <1>5, <2>2
  <2> HIDE DEF x, k
  <2>4. g[<<x, k>>] = (16 * x + rsp_from_hex_digit(text[k])) % WordSpace
    BY <1>4, <2>1, <2>3
  <2> QED
    BY <2>4 DEF x, k
<1>7. NumberFold(it, text)
  BY <1>1, <1>5, <1>6 DEF Folds, NumberFold
<1> DEFINE c == CHOOSE j : NumberFold(j, text)
           r == [k \in 0 .. n |-> c[1 .. k]]
<1>8. NumberFold(c, text)
  BY <1>7
<1>9. NumberOf(text) = c[DOMAIN text]
  BY NumberOver
<1> HIDE DEF c
<1>10. \A s \in SUBSET (1 .. n) : c[s] =
         IF s = {} THEN 0 ELSE (16 * c[s \ {Max(s)}] + rsp_from_hex_digit(text[Max(s)])) % WordSpace
  BY <1>1, <1>8, Zenon DEF NumberFold
<1>11. r[0] = 0
  <2>1. 1 .. 0 = {} /\ {} \in SUBSET (1 .. n)
    OBVIOUS
  <2>2. c[{}] = 0
    BY <1>10, <2>1
  <2> QED
    BY <1>1, <2>1, <2>2
<1>12. ASSUME NEW k \in 1 .. n PROVE r[k] = (16 * r[k - 1] + rsp_from_hex_digit(text[k])) % WordSpace
  <2> DEFINE first == 1 .. k
  <2>1. Max(first) = k /\ first \ {k} = 1 .. k - 1
    BY <1>1, MaxOfFirst
  <2>2. first \in SUBSET (1 .. n) /\ first # {}
    BY <1>1
  <2> HIDE DEF first
  <2>3. c[first] = (16 * c[first \ {Max(first)}] + rsp_from_hex_digit(text[Max(first)])) % WordSpace
    BY <1>10, <2>2, Zenon
  <2>4. k \in 0 .. n /\ k - 1 \in 0 .. n
    BY <1>1
  <2>5. r[k] = c[first] /\ r[k - 1] = c[1 .. k - 1]
    BY <2>4 DEF first
  <2> HIDE DEF r
  <2> QED
    BY <2>1, <2>3, <2>5
<1>13. NumberOf(text) = r[n]
  BY <1>1, <1>9
<1> HIDE DEF r
<1>14. Reads(r, text)
  BY <1>11, <1>12 DEF Reads, n
<1> QED
  BY <1>13, <1>14 DEF n

LEMMA HexadecimalNumber == \A n \in 0 .. WordSpace - 1 : NumberOf(Hexadecimal[n]) = n
<1>1. ASSUME NEW n \in 0 .. WordSpace - 1 PROVE NumberOf(Hexadecimal[n]) = n
  <2>1. Hexadecimal[n] \in Seq(Digit)
    BY HexadecimalDigits, PacketAssumption
  <2>2. PICK r : Reads(r, Hexadecimal[n]) /\ NumberOf(Hexadecimal[n]) = r[Len(Hexadecimal[n])]
    BY <2>1, NumberRuns
  <2> QED
    BY <2>2, HexadecimalRead
<1> QED
  BY <1>1

\* A number at the front of a text ends where its digits end.
LEMMA NumberParsed ==
  ASSUME NEW n \in 0 .. WordSpace - 1, NEW rest \in Seq(Int), rest = <<>> \/ ~rsp_is_hex_digit(rest[1])
  PROVE  LET text == Hexadecimal[n] \o rest
         IN  NumberEnd(text) # 0 /\ ReadNumber(text) = n /\ AfterNumber(text) = rest
<1> DEFINE h == Hexadecimal[n]
           text == h \o rest
           l == Len(h)
           Others == {i \in 1 .. Len(text) : ~rsp_is_hex_digit(text[i])}
<1>1. h \in Seq(Digit) /\ l \in Nat \ {0} /\ h \in Seq(Int) /\ Len(rest) \in Nat
  <2>1. n \in Nat
    BY PacketAssumption
  <2>2. h \in Seq(Digit) /\ l \in Nat \ {0}
    BY <2>1, HexadecimalDigits
  <2> HIDE DEF h
  <2>3. h \in Seq(Int)
    BY <2>2, DigitRead, SeqMonotonic
  <2> QED
    BY <2>2, <2>3
<1>2. NumberOf(h) = n
  BY HexadecimalNumber
<1> HIDE DEF h
<1>3. /\ text \in Seq(Int) /\ Len(text) = l + Len(rest)
      /\ \A k \in 1 .. l : text[k] = h[k]
      /\ \A k \in 1 .. Len(rest) : text[l + k] = rest[k]
  BY <1>1, Joined
<1>4. \A k \in 1 .. l : rsp_is_hex_digit(h[k])
  BY <1>1, ElementOfSeq, DigitRead
<1>5. NumberEnd(text) = IF Others = {} THEN Len(text) ELSE Min(Others) - 1
  <2>1. SelectInSeq(text, LAMBDA c : ~rsp_is_hex_digit(c)) = IF Others # {} THEN Min(Others) ELSE 0
    BY DEF SelectInSeq
  <2>2. Others # {} => Min(Others) # 0
    <3> SUFFICES ASSUME Others # {} PROVE Min(Others) # 0
      OBVIOUS
    <3>1. Others \subseteq Nat \ {0} /\ Others \subseteq Nat
      BY <1>1, <1>3
    <3>2. PICK i \in Others : \A k \in Others : i <= k
      <4> HIDE DEF Others
      <4> QED
        BY <3>1, SmallestNumber
    <3> HIDE DEF Others
    <3>3. Min(Others) \in Others
      BY <3>2 DEF Min
    <3> QED
      BY <3>1, <3>3
  <2> HIDE DEF Others, text
  <2> QED
    BY <2>1, <2>2 DEF NumberEnd
<1> HIDE DEF text, l
<1>6. NumberEnd(text) = l
  <2>1. CASE rest = <<>>
    <3>1. Len(rest) = 0
      BY <2>1, EmptySeq
    <3>2. Len(text) = l
      BY <1>1, <1>3, <3>1
    <3>3. Others = {}
      BY <1>3, <1>4, <3>2
    <3> QED
      BY <1>5, <3>2, <3>3
  <2>2. CASE rest # <<>>
    <3>1. Len(rest) # 0
      BY <2>2, EmptySeq
    <3>2. 1 \in 1 .. Len(rest) /\ l + 1 \in 1 .. Len(text)
      BY <1>1, <1>3, <3>1
    <3>3. text[l + 1] = rest[1]
      BY <1>3, <3>2
    <3>4. l + 1 \in Others
      BY <2>2, <3>2, <3>3
    <3>5. \A i \in Others : l + 1 <= i /\ i \in Int
      <4>1. ASSUME NEW i \in Others, i <= l PROVE FALSE
        <5>1. i \in 1 .. l
          BY <1>1, <1>3, <4>1
        <5> QED
          BY <1>3, <1>4, <5>1
      <4>2. \A i \in Others : i \in Int
        BY <1>1, <1>3
      <4> QED
        BY <1>1, <4>1, <4>2
    <3> HIDE DEF Others
    <3>6. Min(Others) = l + 1
      BY <1>1, <3>4, <3>5 DEF Min
    <3> QED
      BY <1>1, <1>5, <3>4, <3>6
  <2> QED
    BY <2>1, <2>2
<1>7. SubSeq(text, 1, l) = h
  <2> DEFINE s == SubSeq(text, 1, l)
  <2>1. \A i \in 1 .. l : text[i] \in Digit
    BY <1>1, <1>3, ElementOfSeq DEF l
  <2> DEFINE from == 1
  <2>2. from \in Int /\ l \in Int /\ from <= l /\ l - from + 1 = l /\ \A i \in 1 .. l : from + i - 1 = i
    BY <1>1
  <2>3. s = SubSeq(text, from, l) /\ \A i \in from .. l : text[i] \in Digit
    BY <2>1
  <2> HIDE DEF s, from
  <2>4. /\ SubSeq(text, from, l) \in Seq(Digit)
        /\ Len(SubSeq(text, from, l)) = IF from <= l THEN l - from + 1 ELSE 0
        /\ \A i \in 1 .. l - from + 1 : SubSeq(text, from, l)[i] = text[from + i - 1]
    BY <2>2, <2>3, SubSeqProperties
  <2>5. s \in Seq(Digit) /\ Len(s) = l /\ \A i \in 1 .. l : s[i] = h[i]
    BY <1>3, <2>2, <2>3, <2>4
  <2>6. Len(h) = l
    BY DEF l
  <2>7. s = h
    BY <1>1, <2>5, <2>6, SeqEqual
  <2> QED
    BY <2>7 DEF s
<1>8. ReadNumber(text) = n
  <2>1. ReadNumber(text) = NumberOf(SubSeq(text, 1, NumberEnd(text)))
    BY DEF ReadNumber, NumberOf
  <2> QED
    BY <1>2, <1>6, <1>7, <2>1
<1>9. AfterNumber(text) = rest
  <2> DEFINE from == l + 1
             to == Len(text)
             s == SubSeq(text, from, to)
             m == Len(rest)
  <2>1. /\ from \in Int /\ to \in Int /\ to - from + 1 = m /\ m \in Nat
        /\ (IF from <= to THEN to - from + 1 ELSE 0) = m
    BY <1>1, <1>3
  <2>2. \A i \in 1 .. m : from + i - 1 = l + i
    BY <1>1
  <2>3. \A i \in from .. to : text[i] \in Int
    <3>1. \A i \in from .. to : i \in 1 .. Len(text)
      BY <1>1, <1>3
    <3> QED
      BY <1>3, <3>1, ElementOfSeq
  <2>4. AfterNumber(text) = s
    BY <1>6, Zenon DEF AfterNumber
  <2> HIDE DEF from, to
  <2>5. /\ s \in Seq(Int) /\ Len(s) = IF from <= to THEN to - from + 1 ELSE 0
        /\ \A i \in 1 .. to - from + 1 : s[i] = text[from + i - 1]
    BY <2>1, <2>3, SubSeqProperties
  <2> HIDE DEF s
  <2>6. Len(s) = m /\ m = Len(rest)
    BY <2>1, <2>5
  <2> HIDE DEF m
  <2>7. ASSUME NEW i \in 1 .. m PROVE s[i] = rest[i]
    <3> DEFINE at == from + i - 1
    <3>1. at = l + i /\ s[i] = text[at]
      BY <2>1, <2>2, <2>5
    <3> HIDE DEF at
    <3> QED
      BY <1>3, <2>6, <3>1
  <2>8. s = rest
    BY <2>5, <2>6, <2>7, SeqEqual
  <2> QED
    BY <2>4, <2>8
<1> QED
  BY <1>1, <1>6, <1>8, <1>9 DEF text, h

LEMMA Associative == \A x, y, z \in Seq(Int) : (x \o y) \o z = x \o (y \o z)
<1>1. ASSUME NEW x \in Seq(Int), NEW y \in Seq(Int), NEW z \in Seq(Int) PROVE (x \o y) \o z = x \o (y \o z)
  BY ConcatAssociative
<1> QED
  BY <1>1

\* The start and the length of a range, and what follows them.
LEMMA RangeParsed ==
  ASSUME NEW start \in 0 .. WordSpace - 1, NEW length \in 0 .. WordSpace - 1,
         NEW more \in Seq(Int), more = <<>> \/ ~rsp_is_hex_digit(more[1])
  PROVE  /\ ReadRange(Request(start, length) \o more) = {[start |-> start, length |-> length, rest |-> more]}
         /\ Request(start, length) \in Seq(Int)
         /\ Len(Request(start, length)) \in Nat \ {0}
<1> DEFINE a == Hexadecimal[start]
           b == Hexadecimal[length]
           bm == b \o more
           tail == <<Comma>> \o bm
           text == a \o tail
<1>1. /\ a \in Seq(Int) /\ b \in Seq(Int) /\ Len(a) \in Nat \ {0} /\ Len(b) \in Nat \ {0}
      /\ a \in Seq(Digit) /\ b \in Seq(Digit)
  <2>1. start \in Nat /\ length \in Nat
    BY PacketAssumption
  <2>2. a \in Seq(Digit) /\ Len(a) \in Nat \ {0} /\ b \in Seq(Digit) /\ Len(b) \in Nat \ {0}
    BY <2>1, HexadecimalDigits
  <2> HIDE DEF a, b
  <2> QED
    BY <2>2, DigitRead, SeqMonotonic
<1>2. <<Comma>> \in Seq(Int)
  BY DEF Comma
<1>3. NumberEnd(bm) # 0 /\ ReadNumber(bm) = length /\ AfterNumber(bm) = more
  BY NumberParsed
<1>4. \A rest \in Seq(Int) : rest = <<>> \/ ~rsp_is_hex_digit(rest[1]) =>
        NumberEnd(a \o rest) # 0 /\ ReadNumber(a \o rest) = start /\ AfterNumber(a \o rest) = rest
  BY NumberParsed
<1> DEFINE comma == <<Comma>>
<1> HIDE DEF a, b
<1>5. bm \in Seq(Int) /\ Len(bm) \in Nat
  BY <1>1, ConcatProperties
<1>6. /\ tail \in Seq(Int) /\ tail # <<>> /\ Head(tail) = Comma /\ Tail(tail) = bm /\ tail[1] = Comma
  <2>1. Len(comma) = 1 /\ comma[1] = Comma /\ comma \in Seq(Int)
    BY <1>2
  <2> DEFINE t == comma \o bm
  <2> HIDE DEF comma, bm
  <2>2. /\ t \in Seq(Int) /\ Len(t) = 1 + Len(bm)
        /\ t[1] = Comma
        /\ \A k \in 1 .. Len(bm) : t[1 + k] = bm[k]
    <3>1. \A x, y \in Seq(Int) :
            /\ x \o y \in Seq(Int) /\ Len(x \o y) = Len(x) + Len(y)
            /\ \A k \in 1 .. Len(x) : (x \o y)[k] = x[k]
            /\ \A k \in 1 .. Len(y) : (x \o y)[Len(x) + k] = y[k]
      BY Joined
    <3>2. /\ t \in Seq(Int) /\ Len(t) = Len(comma) + Len(bm)
          /\ \A k \in 1 .. Len(comma) : t[k] = comma[k]
          /\ \A k \in 1 .. Len(bm) : t[Len(comma) + k] = bm[k]
      BY <1>5, <2>1, <3>1, Zenon
    <3> HIDE DEF t
    <3> QED
      BY <2>1, <3>2
  <2> HIDE DEF t
  <2>3. t # <<>>
    BY <1>5, <2>2, EmptySeq
  <2>4. Head(t) = Comma
    <3>1. \A s \in Seq(Int) : s # <<>> => Head(s) = s[1]
      OBVIOUS
    <3> QED
      BY <2>2, <2>3, <3>1, Zenon
  <2>5. Tail(t) \in Seq(Int) /\ Len(Tail(t)) = Len(bm) /\ \A k \in 1 .. Len(Tail(t)) : Tail(t)[k] = t[k + 1]
    BY <1>5, <2>2, <2>3, HeadTailProperties
  <2>6. \A k \in 1 .. Len(Tail(t)) : Tail(t)[k] = bm[k]
    <3>1. \A k \in 1 .. Len(bm) : k + 1 = 1 + k
      BY <1>5
    <3> QED
      BY <2>2, <2>5, <3>1
  <2>7. Tail(t) = bm
    BY <1>5, <2>5, <2>6, SeqEqual
  <2> QED
    BY <2>2, <2>3, <2>4, <2>7 DEF t, comma
<1>7. NumberEnd(text) # 0 /\ ReadNumber(text) = start /\ AfterNumber(text) = tail
  BY <1>4, <1>6, DigitRead
<1>8. Request(start, length) \o more = text
  <2> DEFINE x == a \o comma
  <2>1. Request(start, length) = x \o b
    BY DEF Request, a, b
  <2>2. comma \in Seq(Int) /\ more \in Seq(Int)
    BY <1>2
  <2> HIDE DEF comma
  <2>3. x \in Seq(Int)
    BY <1>1, <2>2, ConcatProperties
  <2>4. x \o bm = text
    <3>1. a \in Seq(Int) /\ comma \in Seq(Int) /\ bm \in Seq(Int)
      BY <1>1, <1>5, <2>2
    <3> HIDE DEF bm
    <3> QED
      BY <3>1, Associative DEF comma
  <2> HIDE DEF x
  <2>5. (x \o b) \o more = x \o (b \o more)
    <3>1. b \in Seq(Int) /\ more \in Seq(Int)
      BY <1>1, <2>2
    <3> QED
      BY <2>3, <3>1, Associative
  <2> QED
    BY <2>1, <2>4, <2>5
<1>9. Request(start, length) \in Seq(Int) /\ Len(Request(start, length)) \in Nat \ {0}
  <2>1. Request(start, length) = (a \o comma) \o b
    BY DEF Request, a, b
  <2>2. comma \in Seq(Int)
    BY <1>2
  <2> HIDE DEF comma
  <2>3. a \o comma \in Seq(Int) /\ Len(a \o comma) = Len(a) + Len(comma) /\ Len(comma) \in Nat
    BY <1>1, <2>2, ConcatProperties
  <2> DEFINE ac == a \o comma
  <2> HIDE DEF ac
  <2>4. ac \o b \in Seq(Int) /\ Len(ac \o b) = Len(ac) + Len(b)
    BY <1>1, <2>3, ConcatProperties DEF ac
  <2> QED
    BY <1>1, <2>1, <2>3, <2>4 DEF ac
<1> HIDE DEF text, tail, bm
<1>10. ReadRange(text) = {[start |-> start, length |-> length, rest |-> more]}
  BY <1>3, <1>6, <1>7 DEF ReadRange
<1> QED
  BY <1>8, <1>9, <1>10

-----------------------------------------------------------------------------
(* The digits of bytes *)

LEMMA PairSubSeq ==
  ASSUME NEW p, NEW m \in Nat, p[m] \in Int, p[m + 1] \in Int
  PROVE  SubSeq(p, m, m + 1) = <<p[m], p[m + 1]>>
<1> DEFINE to == m + 1
           s == SubSeq(p, m, to)
           t == <<p[m], p[m + 1]>>
<1>1. to \in Int /\ m <= to /\ to - m + 1 = 2 /\ \A i \in m .. to : p[i] \in Int
  <2>1. \A i \in m .. to : i \in {m, m + 1}
    OBVIOUS
  <2> QED
    BY <2>1
<1>2. t \in Seq(Int) /\ Len(t) = 2 /\ t[1] = p[m] /\ t[2] = p[m + 1]
  OBVIOUS
<1>3. p[to] = p[m + 1]
  OBVIOUS
<1>4. m + 1 - 1 = m /\ m + 2 - 1 = to
  OBVIOUS
<1> HIDE DEF to, t
<1>5. /\ s \in Seq(Int) /\ Len(s) = IF m <= to THEN to - m + 1 ELSE 0
      /\ \A i \in 1 .. to - m + 1 : s[i] = p[m + i - 1]
  BY <1>1, SubSeqProperties
<1> HIDE DEF s
<1>6. Len(s) = 2 /\ s[1] = p[m] /\ s[2] = p[to]
  BY <1>1, <1>4, <1>5
<1>7. \A i \in 1 .. Len(s) : s[i] = t[i]
  BY <1>2, <1>3, <1>6
<1>8. s = t
  BY <1>2, <1>5, <1>6, <1>7, SeqEqual
<1> QED
  BY <1>8 DEF s, t, to

LEMMA ByteDigits ==
  ASSUME NEW b \in Bytes
  PROVE  LET h == rsp_packet_append_u8(b)
         IN  h \in Seq(Digit) /\ Len(h) = 2 /\ rsp_hex_to_u8(<<h[1], h[2]>>) = b
<1> DEFINE x == rsp_to_hex_digit(b \div 16)
           y == rsp_to_hex_digit(b % 16)
<1>1. b \div 16 \in 0 .. 15 /\ b % 16 \in 0 .. 15
  BY DEF Bytes
<1>2. x \in Digit /\ y \in Digit
  BY <1>1, DigitRead
<1>3. rsp_packet_append_u8(b) = <<x, y>>
  BY DEF rsp_packet_append_u8
<1> HIDE DEF x, y
<1>4. <<x, y>> \in Seq(Digit) /\ Len(<<x, y>>) = 2
  BY <1>2
<1> QED
  BY <1>3, <1>4, HexByte

LEMMA DigitsShape ==
  ASSUME NEW length \in Nat, NEW bytes, \A k \in 0 .. length - 1 : bytes[k] \in Bytes
  PROVE  LET d == DigitsOf(bytes, length)
         IN  /\ d \in Seq(Digit) /\ Len(d) = 2 * length
             /\ \A k \in 0 .. length - 1 : rsp_hex_to_u8(<<d[2 * k + 1], d[2 * k + 2]>>) = bytes[k]
<1> DEFINE d == DigitsOf(bytes, length)
           seqs == [k \in 1 .. length |-> rsp_packet_append_u8(bytes[k - 1])]
<1>1. ASSUME NEW k \in 1 .. length
      PROVE  /\ seqs[k] \in Seq(Digit) /\ Len(seqs[k]) = 2
             /\ rsp_hex_to_u8(<<seqs[k][1], seqs[k][2]>>) = bytes[k - 1]
  <2>1. k - 1 \in 0 .. length - 1
    OBVIOUS
  <2>2. bytes[k - 1] \in Bytes
    BY <2>1
  <2> QED
    BY <2>2, ByteDigits
<1>2. seqs \in Seq(Seq(Digit)) /\ Len(seqs) = length
  <2>1. seqs \in [1 .. length -> Seq(Digit)]
    BY <1>1
  <2> HIDE DEF seqs
  <2> QED
    BY <2>1
<1>3. d = FlattenSeq(seqs)
  BY DEF DigitsOf
<1> HIDE DEF d, seqs
<1>4. PICK f : Joins(f, seqs, Digit) /\ FlattenSeq(seqs) = f[Len(seqs)]
  BY <1>2, FlattenJoins
<1>5. Growing(f, length)
  BY <1>2, <1>4, JoinsGrow
<1>6. /\ f[0] = <<>>
      /\ \A i \in 1 .. length : f[i] = f[i - 1] \o seqs[i]
      /\ \A i \in 0 .. length : f[i] \in Seq(Digit)
  BY <1>2, <1>4 DEF Joins
<1>7. ASSUME NEW i \in 1 .. length
      PROVE  /\ Len(f[i]) = Len(f[i - 1]) + 2 /\ Len(f[i - 1]) \in Nat
             /\ f[i][Len(f[i - 1]) + 1] = seqs[i][1] /\ f[i][Len(f[i - 1]) + 2] = seqs[i][2]
  <2> DEFINE a == f[i - 1]
             b == seqs[i]
             e == f[i]
  <2>1. i - 1 \in 0 .. length
    OBVIOUS
  <2>2. e = a \o b /\ a \in Seq(Digit) /\ b \in Seq(Digit) /\ Len(b) = 2
    BY <1>1, <1>6, <2>1
  <2> HIDE DEF a, b, e
  <2>3. a \in Seq(Int) /\ b \in Seq(Int) /\ Len(a) \in Nat
    <3>1. Digit \subseteq Int
      BY DigitRead
    <3>2. a \in Seq(Int) /\ b \in Seq(Int)
      BY <2>2, <3>1, SeqMonotonic
    <3> QED
      BY <3>2, LenProperties
  <2>4. Len(e) = Len(a) + Len(b) /\ \A k \in 1 .. Len(b) : e[Len(a) + k] = b[k]
    BY <2>2, <2>3, Joined
  <2>5. Len(e) = Len(a) + 2 /\ e[Len(a) + 1] = b[1] /\ e[Len(a) + 2] = b[2]
    BY <2>2, <2>4
  <2> QED
    BY <2>3, <2>5 DEF a, b, e
<1> DEFINE Bad == {i \in 0 .. length : Len(f[i]) # 2 * i}
<1>8. ASSUME Bad # {} PROVE FALSE
  <2>1. PICK i \in Bad : \A k \in Bad : i <= k
    <3>1. Bad \subseteq Nat
      OBVIOUS
    <3> HIDE DEF Bad
    <3> QED
      BY <1>8, <3>1, SmallestNumber
  <2>2. i # 0
    BY <1>6, EmptySeq
  <2>3. i \in 1 .. length /\ i - 1 \in 0 .. length /\ ~(i <= i - 1)
    BY <2>2
  <2>4. Len(f[i - 1]) = 2 * (i - 1)
    BY <2>1, <2>3
  <2>5. Len(f[i]) = 2 * i
    BY <1>7, <2>3, <2>4
  <2> QED
    BY <2>1, <2>5
<1>9. \A i \in 0 .. length : Len(f[i]) = 2 * i
  BY <1>8
<1>10. d = f[length] /\ d \in Seq(Digit) /\ Len(d) = 2 * length
  BY <1>2, <1>3, <1>4, <1>6, <1>9
<1>11. ASSUME NEW k \in 0 .. length - 1 PROVE rsp_hex_to_u8(<<d[2 * k + 1], d[2 * k + 2]>>) = bytes[k]
  <2> DEFINE i == k + 1
             e == f[i]
  <2>1. i \in 1 .. length /\ i \in 0 .. length /\ i - 1 \in 0 .. length /\ i - 1 = k /\ length \in 0 .. length
    OBVIOUS
  <2>2. Len(e) = 2 * k + 2 /\ Len(f[i - 1]) = 2 * k
    <3>1. 2 * i = 2 * k + 2
      OBVIOUS
    <3> QED
      BY <1>9, <2>1, <3>1
  <2>3. e[2 * k + 1] = seqs[i][1] /\ e[2 * k + 2] = seqs[i][2]
    BY <1>7, <2>1, <2>2
  <2>4. \A j \in 1 .. Len(e) : d[j] = e[j]
    <3>1. \A j \in 1 .. Len(f[i]) : f[length][j] = f[i][j]
      BY <1>5, <2>1 DEF Growing
    <3> QED
      BY <1>10, <3>1
  <2>5. 2 * k + 1 \in 1 .. Len(e) /\ 2 * k + 2 \in 1 .. Len(e)
    BY <2>2
  <2> HIDE DEF e
  <2>6. d[2 * k + 1] = seqs[i][1] /\ d[2 * k + 2] = seqs[i][2]
    BY <2>3, <2>4, <2>5
  <2>7. rsp_hex_to_u8(<<seqs[i][1], seqs[i][2]>>) = bytes[i - 1]
    BY <1>1, <2>1
  <2> QED
    BY <2>1, <2>6, <2>7
<1> QED
  BY <1>10, <1>11 DEF d

\* The bytes M reads are the ones whose digits follow its colon.
LEMMA BytesRead ==
  ASSUME NEW length \in Nat, NEW bytes, \A k \in 0 .. length - 1 : bytes[k] \in Bytes
  PROVE  LET rest == <<Colon>> \o DigitsOf(bytes, length)
         IN  /\ rest \in Seq(Int) /\ rest # <<>> /\ Head(rest) = Colon /\ rest[1] = Colon
             /\ Len(rest) = 2 * length + 1
             /\ \A k \in 0 .. length - 1 : rsp_hex_to_u8(SubSeq(rest, 2 * k + 2, 2 * k + 3)) = bytes[k]
<1> DEFINE d == DigitsOf(bytes, length)
           colon == <<Colon>>
           rest == colon \o d
<1>1. /\ d \in Seq(Digit) /\ Len(d) = 2 * length
      /\ \A k \in 0 .. length - 1 : rsp_hex_to_u8(<<d[2 * k + 1], d[2 * k + 2]>>) = bytes[k]
  BY DigitsShape
<1>2. colon \in Seq(Int) /\ Len(colon) = 1 /\ colon[1] = Colon
  BY DEF Colon
<1> HIDE DEF d, colon
<1>3. d \in Seq(Int)
  BY <1>1, DigitRead, SeqMonotonic
<1>4. /\ rest \in Seq(Int) /\ Len(rest) = Len(colon) + Len(d)
      /\ \A k \in 1 .. Len(colon) : rest[k] = colon[k]
      /\ \A k \in 1 .. Len(d) : rest[Len(colon) + k] = d[k]
  BY <1>2, <1>3, Joined
<1> HIDE DEF rest
<1>5. Len(rest) = 2 * length + 1 /\ rest[1] = Colon
  BY <1>1, <1>2, <1>4
<1>6. rest # <<>>
  BY <1>5, EmptySeq
<1>7. Head(rest) = Colon
  <2>1. \A s \in Seq(Int) : s # <<>> => Head(s) = s[1]
    OBVIOUS
  <2> QED
    BY <1>4, <1>5, <1>6, <2>1, Zenon
<1>8. ASSUME NEW k \in 0 .. length - 1
      PROVE  rsp_hex_to_u8(SubSeq(rest, 2 * k + 2, 2 * k + 3)) = bytes[k]
  <2> DEFINE m == 2 * k + 2
  <2>1. m \in Nat /\ m + 1 = 2 * k + 3 /\ m \in 1 .. Len(rest) /\ m + 1 \in 1 .. Len(rest)
    BY <1>5
  <2>2. 2 * k + 1 \in 1 .. Len(d) /\ 2 * k + 2 \in 1 .. Len(d) /\ 1 + (2 * k + 1) = m /\ 1 + (2 * k + 2) = m + 1
    BY <1>1
  <2>3. rest[m] = d[2 * k + 1] /\ rest[m + 1] = d[2 * k + 2]
    BY <1>2, <1>4, <2>2
  <2> HIDE DEF m
  <2>4. rest[m] \in Int /\ rest[m + 1] \in Int
    BY <1>4, <2>1, ElementOfSeq
  <2>5. SubSeq(rest, m, m + 1) = <<rest[m], rest[m + 1]>>
    BY <2>1, <2>4, PairSubSeq
  <2>6. rsp_hex_to_u8(<<rest[m], rest[m + 1]>>) = bytes[k]
    BY <1>1, <2>3
  <2> QED
    BY <2>1, <2>5, <2>6 DEF m
<1> QED
  BY <1>4, <1>5, <1>6, <1>7, <1>8 DEF rest, colon, d

\* A body of digits is received as it is.
LEMMA DigitsDecoded ==
  ASSUME NEW body \in Seq(Digit) PROVE body \in Seq(Plain) /\ Decoded(body) = body
<1> DEFINE n == Len(body)
           Got(t) == [escape |-> FALSE, text |-> t]
<1>1. body \in Seq(Plain) /\ body \in Seq(Bytes) /\ n \in Nat
  <2>1. Digit \subseteq Plain /\ Digit \subseteq Bytes
    BY DigitRead DEF Plain, NonNul
  <2> QED
    BY <2>1, SeqMonotonic, LenProperties
<1>2. \A i \in 1 .. n : body[i] \in Digit
  BY ElementOfSeq
<1> HIDE DEF n
<1>3. PICK r : /\ r[0] = Nothing
               /\ \A k \in 1 .. n : r[k] = Receive(r[k - 1], body[k])
               /\ Decoded(body) = r[n].text
  BY <1>1, ReceiveRuns DEF n
<1> DEFINE Good(i) == r[i] = Got(SubSeq(body, 1, i))
           Bad == {i \in 0 .. n : ~Good(i)}
<1>4. Good(0)
  <2>1. SubSeq(body, 1, 0) = <<>>
    BY SubSeqEmpty
  <2> QED
    BY <1>3, <2>1 DEF Nothing
<1>5. ASSUME NEW i \in 1 .. n, Good(i - 1) PROVE Good(i)
  <2> DEFINE t == SubSeq(body, 1, i - 1)
             c == body[i]
  <2>1. t \in Seq(Digit)
    <3>1. \A k \in 1 .. i - 1 : body[k] \in Digit
      BY <1>1, <1>2
    <3>2. 1 \in Int /\ i - 1 \in Int
      OBVIOUS
    <3> QED
      BY <3>1, <3>2, SubSeqProperties
  <2>2. SubSeq(body, 1, i) = t \o <<c>>
    <3>1. 1 \in 1 .. Len(body) /\ i \in 1 .. Len(body)
      BY <1>1 DEF n
    <3> QED
      BY <3>1, SubSeqRecursiveSecond
  <2>3. c \in Digit
    BY <1>2
  <2>4. r[i] = Receive(r[i - 1], c) /\ r[i - 1] = Got(t)
    BY <1>3, <1>5
  <2> HIDE DEF t, c
  <2>5. t \o <<c>> = Append(t, c)
    BY <2>1, <2>3, AppendIsConcat
  <2>6. c # Brace
    BY <2>3, DigitRead
  <2>7. Receive(Got(t), c) = Got(Append(t, c))
    BY <2>6 DEF Receive
  <2> QED
    BY <2>2, <2>4, <2>5, <2>7
<1> HIDE DEF Good
<1>6. ASSUME Bad # {} PROVE FALSE
  <2>1. PICK i \in Bad : \A k \in Bad : i <= k
    <3>1. Bad \subseteq Nat
      BY <1>1
    <3> HIDE DEF Bad
    <3> QED
      BY <1>6, <3>1, SmallestNumber
  <2>2. i # 0
    BY <1>4
  <2>3. i \in 1 .. n /\ i - 1 \in 0 .. n /\ i - 1 \notin Bad
    BY <1>1, <2>1, <2>2
  <2> QED
    BY <1>5, <2>3
<1>7. Good(n)
  BY <1>1, <1>6
<1>8. SubSeq(body, 1, n) = body
  BY SubSeqFull DEF n
<1>9. Decoded(body) = SubSeq(body, 1, n)
  <2>1. r[n] = Got(SubSeq(body, 1, n))
    BY <1>7 DEF Good
  <2>2. Got(SubSeq(body, 1, n)).text = SubSeq(body, 1, n)
    OBVIOUS
  <2> HIDE DEF Got
  <2> QED
    BY <1>3, <2>1, <2>2
<1> QED
  BY <1>1, <1>8, <1>9

-----------------------------------------------------------------------------
(* m and M *)

Command(start, length, bytes) == Request(start, length) \o <<Colon>> \o DigitsOf(bytes, length)

LEMMA CommandParsed ==
  ASSUME NEW start \in 0 .. WordSpace - 1, NEW length \in 0 .. WordSpace - 1,
         NEW bytes, \A k \in 0 .. length - 1 : bytes[k] \in Bytes
  PROVE  /\ ReadRange(Command(start, length, bytes)) =
              {[start |-> start, length |-> length, rest |-> <<Colon>> \o DigitsOf(bytes, length)]}
         /\ Len(Command(start, length, bytes)) \in Nat /\ Len(Command(start, length, bytes)) > 2 * length
<1> DEFINE ask == Request(start, length)
           colon == <<Colon>>
           d == DigitsOf(bytes, length)
           rest == colon \o d
<1>1. length \in Nat /\ start \in Nat
  BY PacketAssumption
<1>2. rest \in Seq(Int) /\ rest[1] = Colon /\ Len(rest) = 2 * length + 1
  BY <1>1, BytesRead
<1>3. d \in Seq(Int)
  <2>1. d \in Seq(Digit)
    BY <1>1, DigitsShape
  <2> HIDE DEF d
  <2> QED
    BY <2>1, DigitRead, SeqMonotonic
<1>4. colon \in Seq(Int)
  BY DEF Colon
<1> HIDE DEF d, colon
<1>5. \A more \in Seq(Int) : ~rsp_is_hex_digit(more[1]) =>
        /\ ReadRange(ask \o more) = {[start |-> start, length |-> length, rest |-> more]}
        /\ ask \in Seq(Int) /\ Len(ask) \in Nat \ {0}
  BY RangeParsed
<1> HIDE DEF ask
<1>6. /\ ReadRange(ask \o rest) = {[start |-> start, length |-> length, rest |-> rest]}
      /\ ask \in Seq(Int) /\ Len(ask) \in Nat \ {0}
  BY <1>2, <1>5, DigitRead
<1>7. (ask \o colon) \o d = ask \o rest
  BY <1>3, <1>4, <1>6, Associative, ZenonT(40)
<1>8. Command(start, length, bytes) = ask \o rest
  BY <1>7 DEF Command, ask, colon, d
<1> HIDE DEF rest
<1>9. Len(ask \o rest) = Len(ask) + Len(rest)
  BY <1>2, <1>6, ConcatProperties
<1>10. Len(ask \o rest) \in Nat /\ Len(ask \o rest) > 2 * length
  BY <1>1, <1>2, <1>6, <1>9
<1> QED
  BY <1>6, <1>8, <1>10 DEF rest, colon, d

\* A range that the stub grants without its end wrapping is inside the RAM.
LEMMA GrantedRange ==
  ASSUME NEW start \in 0 .. WordSpace - 1, NEW length \in 0 .. WordSpace - 1
  PROVE  LET end == start + length
             wraps == start < RamSize /\ end \in WordSpace .. WordSpace + RamSize - 1
         IN  /\ ChunkGranted(start, length, RamSize, WordSpace) <=> ~(end >= RamSize /\ ~wraps)
             /\ 2 * length < BufferSize => (ChunkGranted(start, length, RamSize, WordSpace) <=> end < RamSize)
             /\ 2 * length < BufferSize => ~wraps
<1> DEFINE end == start + length
           wraps == start < RamSize /\ end \in WordSpace .. WordSpace + RamSize - 1
<1>1. /\ WordSpace \in Nat /\ BufferSize \in Nat /\ BufferSize > 0 /\ RamSize \in Nat
      /\ RamSize + BufferSize <= WordSpace /\ end \in 0 .. 2 * WordSpace - 2
      /\ start \in Nat /\ length \in Nat /\ start <= end
  BY PacketAssumption, RamAssumption
<1>2. CASE end < WordSpace
  <2>1. end % WordSpace = end
    BY <1>1, <1>2
  <2>2. ChunkGranted(start, length, RamSize, WordSpace) <=> end < RamSize
    BY <1>1, <2>1 DEF ChunkGranted
  <2>3. ~wraps
    BY <1>1, <1>2
  <2> QED
    BY <1>1, <2>2, <2>3
<1>3. CASE ~(end < WordSpace)
  <2>1. end % WordSpace = end - WordSpace
    <3>1. end = WordSpace * 1 + (end - WordSpace) /\ end - WordSpace \in 0 .. WordSpace - 1
      BY <1>1, <1>3
    <3> HIDE DEF end
    <3> QED
      BY <1>1, <3>1, DivisionUnique
  <2>2. ChunkGranted(start, length, RamSize, WordSpace) <=> start < RamSize /\ end - WordSpace < RamSize
    BY <2>1 DEF ChunkGranted
  <2>3. wraps <=> start < RamSize /\ end - WordSpace < RamSize
    BY <1>1, <1>3
  <2>4. 2 * length < BufferSize => ~(start < RamSize) /\ ~(end < RamSize)
    BY <1>1, <1>3
  <2>5. end >= RamSize
    BY <1>1, <1>3
  <2> QED
    BY <1>1, <2>2, <2>3, <2>4, <2>5
<1> QED
  BY <1>2, <1>3

\* What M writes when its command fits the input buffer.
LEMMA Written ==
  ASSUME NEW start \in 0 .. WordSpace - 1, NEW length \in 0 .. WordSpace - 1,
         NEW bytes \in [0 .. length - 1 -> Bytes], NEW ram,
         Len(Command(start, length, bytes)) < BufferSize
  PROVE  rsp_write_memory(Command(start, length, bytes), ram, RamSize)
           = {IF start + length < RamSize THEN Overwrite(ram, start, bytes) ELSE ram}
<1> DEFINE command == Command(start, length, bytes)
           rest == <<Colon>> \o DigitsOf(bytes, length)
           q == [start |-> start, length |-> length, rest |-> rest]
           read == [k \in 0 .. length - 1 |-> rsp_hex_to_u8(SubSeq(rest, 2 * k + 2, 2 * k + 3))]
<1>1. length \in Nat /\ \A k \in 0 .. length - 1 : bytes[k] \in Bytes
  BY PacketAssumption
<1>2. ReadRange(command) = {q} /\ Len(command) \in Nat /\ Len(command) > 2 * length
  BY <1>1, CommandParsed
<1>3. /\ rest \in Seq(Int) /\ rest # <<>> /\ Head(rest) = Colon
      /\ Len(rest) = 2 * length + 1
      /\ \A k \in 0 .. length - 1 : rsp_hex_to_u8(SubSeq(rest, 2 * k + 2, 2 * k + 3)) = bytes[k]
  BY <1>1, BytesRead
<1> HIDE DEF rest
<1>4. read = bytes
  BY <1>3
<1>5. 2 * length < BufferSize
  BY <1>1, <1>2, PacketAssumption
<1>6. Len(rest) - 1 = (2 * length) % WordSpace
  <2>1. 2 * length \in 0 .. WordSpace - 1 /\ WordSpace \in Nat /\ WordSpace > 0
    BY <1>1, <1>5, PacketAssumption, RamAssumption
  <2> DEFINE n == 2 * length
  <2>2. n \in Nat /\ n < WordSpace
    BY <2>1
  <2> HIDE DEF n
  <2>3. n % WordSpace = n
    BY <2>1, <2>2
  <2> QED
    BY <1>1, <1>3, <2>3 DEF n
<1>7. ChunkGranted(start, length, RamSize, WordSpace) <=> start + length < RamSize
  BY <1>5, GrantedRange
<1> HIDE DEF command
<1>8. {x \in ReadRange(command) : /\ x.rest # <<>> /\ Head(x.rest) = Colon
                                  /\ Len(x.rest) - 1 = (2 * x.length) % WordSpace} = {q}
  BY <1>2, <1>3, <1>6
<1> DEFINE Made(x) ==
             IF ~ChunkGranted(x.start, x.length, RamSize, WordSpace) THEN ram
             ELSE Overwrite(ram, x.start, [k \in 0 .. x.length - 1 |-> rsp_hex_to_u8(SubSeq(x.rest, 2 * k + 2, 2 * k + 3))])
<1>9. rsp_write_memory(command, ram, RamSize) = {Made(x) : x \in {q}}
  BY <1>8 DEF rsp_write_memory
<1>10. Made(q) = IF ~ChunkGranted(start, length, RamSize, WordSpace) THEN ram ELSE Overwrite(ram, start, read)
  OBVIOUS
<1> HIDE DEF Made, q, read
<1> QED
  BY <1>4, <1>7, <1>9, <1>10 DEF command

\* What a receiver takes from the answers to m.
LEMMA ReadBack ==
  ASSUME NEW start \in 0 .. WordSpace - 1, NEW length \in 0 .. WordSpace - 1,
         NEW ram \in [0 .. RamSize - 1 -> Bytes]
  PROVE  {Decoded(BodyOf(reply)) : reply \in rsp_read_memory(Request(start, length), ram, RamSize)}
           = IF ~ChunkGranted(start, length, RamSize, WordSpace) THEN {<<>>}
             ELSE IF ~ReplyFits(length, BufferSize) THEN {}
             ELSE {DigitsOf(BytesAt(ram, start, length), length)}
<1> DEFINE ask == Request(start, length)
           q == [start |-> start, length |-> length, rest |-> <<>>]
           granted == ChunkGranted(start, length, RamSize, WordSpace)
           Reply(x) ==
             IF ~ChunkGranted(x.start, x.length, RamSize, WordSpace) THEN rsp_packet_quick_send(<<>>)
             ELSE IF ~ReplyFits(x.length, BufferSize) THEN {}
             ELSE rsp_packet_send(rsp_packet_end(
                    FlattenSeq([k \in 1 .. x.length |-> rsp_packet_append_u8(ram[x.start + k - 1])])))
           dump == FlattenSeq([k \in 1 .. length |-> rsp_packet_append_u8(ram[start + k - 1])])
           replies == rsp_read_memory(ask, ram, RamSize)
<1>1. start \in Nat /\ length \in Nat
  BY PacketAssumption
<1>2. ReadRange(ask) = {q}
  <2>1. <<>> \in Seq(Int)
    BY EmptySeq
  <2>2. ReadRange(ask \o <<>>) = {q} /\ ask \in Seq(Int)
    BY <2>1, RangeParsed
  <2> HIDE DEF ask, q
  <2>3. ask \o <<>> = ask
    BY <2>2, ConcatEmptySeq
  <2> QED
    BY <2>2, <2>3
<1> HIDE DEF ask
<1>3. replies = UNION {Reply(x) : x \in {q}}
  <2>1. {x \in ReadRange(ask) : x.rest = <<>>} = {q}
    BY <1>2
  <2> QED
    BY <2>1 DEF rsp_read_memory
<1>4. Reply(q) = IF ~granted THEN rsp_packet_quick_send(<<>>)
                 ELSE IF ~ReplyFits(length, BufferSize) THEN {} ELSE rsp_packet_send(rsp_packet_end(dump))
  OBVIOUS
<1> HIDE DEF Reply, replies, dump
<1>5. replies = IF ~granted THEN rsp_packet_quick_send(<<>>)
                ELSE IF ~ReplyFits(length, BufferSize) THEN {} ELSE rsp_packet_send(rsp_packet_end(dump))
  <2>1. replies = Reply(q)
    BY <1>3
  <2> QED
    BY <1>4, <2>1
<1>6. {Decoded(BodyOf(reply)) : reply \in rsp_packet_quick_send(<<>>)} = {<<>>}
  <2> DEFINE nothing == <<>>
             framed == <<Dollar>> \o nothing \o <<Hash>> \o rsp_packet_append_u8(Checksum(nothing))
  <2>1. nothing \in Seq(NonNul) /\ Len(nothing) = 0 /\ nothing \in Seq(Plain)
    BY EmptySeq
  <2>2. rsp_packet_append(<<>>) = nothing
    BY EmptyString DEF rsp_packet_append, FlattenSeq
  <2>3. Decoded(nothing) = nothing
    <3>1. Escaped(nothing) = nothing
      BY <2>2, EmptyString DEF rsp_packet_append, Escaped
    <3> HIDE DEF nothing
    <3> QED
      BY <2>1, <3>1, BodyDecodes
  <2> HIDE DEF nothing
  <2>4. rsp_packet_send(rsp_packet_end(nothing)) = {framed} /\ BodyOf(framed) = nothing
    <3>1. /\ rsp_packet_send(rsp_packet_end(nothing)) = IF Len(nothing) + 5 <= BufferSize THEN {framed} ELSE {}
          /\ BodyOf(framed) = nothing
      BY <2>1, PacketSent, Zenon
    <3> HIDE DEF framed
    <3>2. Len(nothing) + 5 <= BufferSize
      BY <2>1, PacketAssumption
    <3> QED
      BY <3>1, <3>2
  <2> HIDE DEF framed
  <2>5. rsp_packet_quick_send(<<>>) = {framed}
    BY <2>2, <2>4 DEF rsp_packet_quick_send
  <2> QED
    BY <2>3, <2>4, <2>5 DEF nothing
<1>7. dump = DigitsOf(BytesAt(ram, start, length), length)
  <2> DEFINE b == BytesAt(ram, start, length)
  <2>1. \A k \in 1 .. length : b[k - 1] = ram[start + k - 1]
    <3>1. ASSUME NEW k \in 1 .. length PROVE b[k - 1] = ram[start + k - 1]
      <4>1. k - 1 \in 0 .. length - 1 /\ start + (k - 1) = start + k - 1
        BY <1>1
      <4>2. b[k - 1] = ram[start + (k - 1)]
        BY <4>1 DEF BytesAt
      <4> QED
        BY <4>1, <4>2
    <3> QED
      BY <3>1
  <2> HIDE DEF b
  <2>2. [k \in 1 .. length |-> rsp_packet_append_u8(b[k - 1])]
          = [k \in 1 .. length |-> rsp_packet_append_u8(ram[start + k - 1])]
    BY <2>1
  <2> QED
    BY <2>2 DEF DigitsOf, dump, b
<1>8. ASSUME granted, ReplyFits(length, BufferSize)
      PROVE  {Decoded(BodyOf(reply)) : reply \in rsp_packet_send(rsp_packet_end(dump))} = {dump}
  <2>1. start + length < RamSize
    <3>1. 2 * length < BufferSize
      BY <1>1, <1>8, PacketAssumption DEF ReplyFits
    <3> QED
      BY <1>8, <3>1, GrantedRange
  <2> DEFINE b == BytesAt(ram, start, length)
  <2>2. \A k \in 0 .. length - 1 : b[k] \in Bytes
    <3>1. ASSUME NEW k \in 0 .. length - 1 PROVE b[k] \in Bytes
      <4>1. start + k \in 0 .. RamSize - 1
        BY <1>1, <2>1, RamAssumption
      <4>2. b[k] = ram[start + k]
        BY DEF BytesAt
      <4> QED
        BY <4>1, <4>2
    <3> QED
      BY <3>1
  <2> HIDE DEF b
  <2>3. DigitsOf(b, length) \in Seq(Digit)
    BY <1>1, <2>2, DigitsShape
  <2>4. dump \in Seq(Digit)
    BY <1>7, <2>3 DEF b
  <2>5. dump \in Seq(Plain) /\ Decoded(dump) = dump
    BY <2>4, DigitsDecoded
  <2>6. Len(dump) + 5 <= BufferSize
    <3>1. Len(dump) = 2 * length
      BY <1>1, <1>7, <2>2, DigitsShape DEF b
    <3> QED
      BY <1>1, <1>8, <3>1, PacketAssumption DEF ReplyFits
  <2> DEFINE framed == <<Dollar>> \o dump \o <<Hash>> \o rsp_packet_append_u8(Checksum(dump))
  <2>7. rsp_packet_send(rsp_packet_end(dump)) = {framed} /\ BodyOf(framed) = dump
    <3>1. /\ rsp_packet_send(rsp_packet_end(dump)) = IF Len(dump) + 5 <= BufferSize THEN {framed} ELSE {}
          /\ BodyOf(framed) = dump
      BY <2>5, PacketSent, Zenon
    <3> HIDE DEF framed
    <3> QED
      BY <2>6, <3>1
  <2> HIDE DEF framed
  <2> QED
    BY <2>5, <2>7
<1> HIDE DEF granted
<1>9. {Decoded(BodyOf(reply)) : reply \in replies} =
        IF ~granted THEN {<<>>} ELSE IF ~ReplyFits(length, BufferSize) THEN {} ELSE {dump}
  <2>1. CASE ~granted
    BY <1>5, <1>6, <2>1
  <2>2. CASE granted /\ ~ReplyFits(length, BufferSize)
    BY <1>5, <2>2
  <2>3. CASE granted /\ ReplyFits(length, BufferSize)
    BY <1>5, <1>8, <2>3
  <2> QED
    BY <2>1, <2>2, <2>3
<1> QED
  BY <1>7, <1>9 DEF replies, granted, ask

\* What is read where it was written.
LEMMA OverwrittenRead ==
  ASSUME NEW start \in Nat, NEW length \in Nat, start + length <= RamSize,
         NEW bytes \in [0 .. length - 1 -> Bytes], NEW ram \in [0 .. RamSize - 1 -> Bytes]
  PROVE  /\ BytesAt(Overwrite(ram, start, bytes), start, length) = bytes
         /\ Overwrite(ram, start, bytes) \in [0 .. RamSize - 1 -> Bytes]
<1> DEFINE w == Overwrite(ram, start, bytes)
<1>1. \A i \in 0 .. RamSize - 1 : w[i] = IF i - start \in 0 .. length - 1 THEN bytes[i - start] ELSE ram[i]
  BY DEF Overwrite
<1>2. w \in [0 .. RamSize - 1 -> Bytes]
  <2>1. w = [i \in 0 .. RamSize - 1 |-> w[i]]
    BY DEF Overwrite
  <2> HIDE DEF w
  <2>2. \A i \in 0 .. RamSize - 1 : w[i] \in Bytes
    BY <1>1
  <2> QED
    BY <2>1, <2>2
<1> HIDE DEF w
<1>3. ASSUME NEW k \in 0 .. length - 1 PROVE w[start + k] = bytes[k]
  <2>1. start + k \in 0 .. RamSize - 1 /\ start + k - start = k
    BY RamAssumption
  <2> QED
    BY <1>1, <2>1
<1>4. BytesAt(w, start, length) = bytes
  BY <1>3 DEF BytesAt
<1> QED
  BY <1>2, <1>4 DEF w

\* m (rsp_read_memory) reads what is in RAM, so what M (rsp_write_memory) has
\* written, for every RAM, every range of 32-bit numbers and all bytes, with the
\* exceptions ReadBackAs names.
THEOREM MemoryReturns ==
  ASSUME NEW start \in 0 .. WordSpace - 1, NEW length \in 0 .. WordSpace - 1,
         NEW bytes \in [0 .. length - 1 -> Bytes], NEW ram \in [0 .. RamSize - 1 -> Bytes]
  PROVE  ReadBackAs(start, length, bytes, ram)
<1> DEFINE end == start + length
           wraps == start < RamSize /\ end \in WordSpace .. WordSpace + RamSize - 1
           ask == Request(start, length)
           command == Command(start, length, bytes)
           received == 1 + Len(command) <= BufferSize
           written == IF received THEN rsp_write_memory(command, ram, RamSize) ELSE {}
           new == IF end < RamSize THEN Overwrite(ram, start, bytes) ELSE ram
           granted == ChunkGranted(start, length, RamSize, WordSpace)
           Answers(now) == {Decoded(BodyOf(reply)) : reply \in rsp_read_memory(ask, now, RamSize)}
           Answered(content) == IF end >= RamSize /\ ~wraps THEN {<<>>}
                                ELSE IF ~Fits(rsp_packet_end(DigitsOf(bytes, length))) THEN {}
                                ELSE {DigitsOf(content, length)}
<1>1. start \in Nat /\ length \in Nat /\ \A k \in 0 .. length - 1 : bytes[k] \in Bytes
  BY PacketAssumption
<1>2. received => Len(command) < BufferSize /\ 2 * length < BufferSize
  <2>1. Len(command) \in Nat /\ Len(command) > 2 * length
    BY <1>1, CommandParsed
  <2> HIDE DEF command
  <2> QED
    BY <1>1, <2>1, PacketAssumption
<1>3. received => written = {new}
  BY <1>2, Written
<1>4. new \in [0 .. RamSize - 1 -> Bytes]
  <2>1. end < RamSize => Overwrite(ram, start, bytes) \in [0 .. RamSize - 1 -> Bytes]
    BY <1>1, OverwrittenRead, RamAssumption
  <2> QED
    BY <2>1
<1>5. granted <=> ~(end >= RamSize /\ ~wraps)
  BY GrantedRange
<1>6. 2 * length < BufferSize => (granted <=> end < RamSize)
  BY GrantedRange
<1>7. Fits(rsp_packet_end(DigitsOf(bytes, length))) <=> ReplyFits(length, BufferSize)
  <2> DEFINE d == DigitsOf(bytes, length)
  <2>1. d \in Seq(Digit) /\ Len(d) = 2 * length
    BY <1>1, DigitsShape
  <2> HIDE DEF d
  <2>2. d \in Seq(Plain)
    BY <2>1, DigitsDecoded
  <2>3. Len(rsp_packet_end(d)) = 2 * length + 5
    BY <2>1, <2>2, PacketShape
  <2>4. Fits(rsp_packet_end(d)) <=> ReplyFits(length, BufferSize)
    BY <1>1, <2>3, PacketAssumption DEF Fits, ReplyFits
  <2> QED
    BY <2>4 DEF d
<1>8. ASSUME NEW now \in [0 .. RamSize - 1 -> Bytes], NEW content,
             granted /\ ReplyFits(length, BufferSize) => BytesAt(now, start, length) = content
      PROVE  Answers(now) = Answered(content)
  <2>1. Answers(now) = IF ~granted THEN {<<>>} ELSE IF ~ReplyFits(length, BufferSize) THEN {}
                       ELSE {DigitsOf(BytesAt(now, start, length), length)}
    BY ReadBack
  <2> HIDE DEF Answers, granted, end, wraps
  <2>2. CASE ~granted
    BY <1>5, <2>1, <2>2
  <2>3. CASE granted /\ ~ReplyFits(length, BufferSize)
    BY <1>5, <1>7, <2>1, <2>3
  <2>4. CASE granted /\ ReplyFits(length, BufferSize)
    BY <1>5, <1>7, <1>8, <2>1, <2>4
  <2> QED
    BY <2>2, <2>3, <2>4
<1>9. Answers(ram) = Answered(BytesAt(ram, start, length))
  <2> HIDE DEF Answers, Answered, granted
  <2> QED
    BY <1>8
<1>10. ASSUME received, granted PROVE BytesAt(new, start, length) = bytes
  <2>1. end < RamSize
    BY <1>2, <1>6, <1>10
  <2>2. new = Overwrite(ram, start, bytes) /\ start + length <= RamSize
    BY <1>1, <2>1, RamAssumption
  <2> HIDE DEF new
  <2> QED
    BY <1>1, <2>2, OverwrittenRead
<1>11. ASSUME NEW now \in written PROVE Answers(now) = Answered(bytes)
  <2> HIDE DEF Answers, Answered, granted, received, new
  <2>1. received
    BY <1>11
  <2>2. now = new
    <3> HIDE DEF written
    <3> QED
      BY <1>3, <1>11, <2>1
  <2> QED
    BY <1>4, <1>8, <1>10, <2>1, <2>2
<1>12. command = ask \o <<Colon>> \o DigitsOf(bytes, length)
  BY DEF Command
<1> HIDE DEF new, command, ask, Answers, Answered, written, received
<1> QED
  BY <1>3, <1>9, <1>11, <1>12 DEF ReadBackAs, written, received, new, ask, Answers, Answered

\* What gdb writes with M is what it reads back with m, in a RAM of any size,
\* with the exceptions the law names.
THEOREM MemoryAlwaysReturns == Spec => []MemoryLaw
<1>1. case \in Cases => MemoryLaw
  <2> SUFFICES ASSUME case \in Cases, case.kind = "range" PROVE MemoryLaw
    BY DEF MemoryLaw
  <2> DEFINE bytes == [k \in 0 .. case.length - 1 |-> (37 * k + 200) % 256]
             ram == [i \in 0 .. RamSize - 1 |-> i % 256]
  <2>1. case.start \in 0 .. WordSpace - 1 /\ case.length \in 0 .. WordSpace - 1
    BY CasesAssumption
  <2>2. bytes \in [0 .. case.length - 1 -> Bytes]
    <3>1. \A k \in Int : (37 * k + 200) % 256 \in Bytes
      BY DEF Bytes
    <3> QED
      BY <3>1
  <2>3. ram \in [0 .. RamSize - 1 -> Bytes]
    <3>1. \A i \in Int : i % 256 \in Bytes
      BY DEF Bytes
    <3> QED
      BY <3>1
  <2> HIDE DEF bytes, ram
  <2>4. ReadBackAs(case.start, case.length, bytes, ram)
    BY <2>1, <2>2, <2>3, MemoryReturns
  <2> QED
    BY <2>4 DEF MemoryLaw, ReadBackAs, bytes, ram
<1> QED
  BY <1>1, CaseStays, PTL

-----------------------------------------------------------------------------
(* ELF files *)

\* The loop over the sizes of fields or segments, one by one.
AddedUp(r, sizes) == r[0] = 0 /\ \A k \in 1 .. Len(sizes) : r[k] = r[k - 1] + sizes[k]

SizesFold(it, sizes) ==
  it = [s \in SUBSET DOMAIN sizes |-> IF s = {} THEN 0 ELSE it[s \ {Max(s)}] + sizes[Max(s)]]

LEMMA SizesOver ==
  ASSUME NEW sizes PROVE SizesTogether(sizes) = (CHOOSE it : SizesFold(it, sizes))[DOMAIN sizes]
  BY DEF SizesTogether, FoldLeft, MapThenFoldSet, SizesFold

LEMMA SizesRuns ==
  ASSUME NEW sizes \in Seq(Nat)
  PROVE  \E r : AddedUp(r, sizes) /\ SizesTogether(sizes) = r[Len(sizes)] /\ \A k \in 0 .. Len(sizes) : r[k] \in Nat
<1> DEFINE n == Len(sizes)
           g == [p \in Nat \X (1 .. n) |-> p[1] + sizes[p[2]]]
<1>1. n \in Nat /\ DOMAIN sizes = 1 .. n /\ \A k \in 1 .. n : sizes[k] \in Nat
  BY ElementOfSeq
<1>2. \A x \in Nat, k \in 1 .. n : x + sizes[k] \in Nat
  BY <1>1
<1>3. /\ g \in [Nat \X (1 .. n) -> Nat]
      /\ \A x \in Nat, k \in 1 .. n : g[<<x, k>>] = x + sizes[k]
  BY <1>2
<1> HIDE DEF n, g
<1>4. PICK it : Folds(it, g, 0, 1 .. n) /\ \A s \in SUBSET (1 .. n) : it[s] \in Nat
  BY <1>1, <1>3, FoldTotal
<1>5. ASSUME NEW s \in SUBSET (1 .. n), s # {}
      PROVE  g[<<it[s \ {Max(s)}], Max(s)>>] = it[s \ {Max(s)}] + sizes[Max(s)]
  <2> DEFINE x == it[s \ {Max(s)}]
             k == Max(s)
  <2>1. k \in 1 .. n
    BY <1>1, <1>5, MaxMember
  <2>2. s \ {Max(s)} \in SUBSET (1 .. n)
    OBVIOUS
  <2>3. x \in Nat
    BY <1>4, <2>2
  <2> HIDE DEF x, k
  <2>4. g[<<x, k>>] = x + sizes[k]
    BY <1>3, <2>1, <2>3
  <2> QED
    BY <2>4 DEF x, k
<1>6. SizesFold(it, sizes)
  BY <1>1, <1>4, <1>5 DEF Folds, SizesFold
<1> DEFINE c == CHOOSE j : SizesFold(j, sizes)
           r == [k \in 0 .. n |-> c[1 .. k]]
<1>7. SizesFold(c, sizes)
  BY <1>6
<1>8. SizesTogether(sizes) = c[DOMAIN sizes]
  BY SizesOver
<1> HIDE DEF c
<1>9. \A s \in SUBSET (1 .. n) : c[s] = IF s = {} THEN 0 ELSE c[s \ {Max(s)}] + sizes[Max(s)]
  BY <1>1, <1>7, Zenon DEF SizesFold
<1>10. r[0] = 0
  <2>1. 1 .. 0 = {} /\ {} \in SUBSET (1 .. n)
    OBVIOUS
  <2>2. c[{}] = 0
    BY <1>9, <2>1
  <2> QED
    BY <1>1, <2>1, <2>2
<1>11. ASSUME NEW k \in 1 .. n PROVE r[k] = r[k - 1] + sizes[k]
  <2> DEFINE first == 1 .. k
  <2>1. Max(first) = k /\ first \ {k} = 1 .. k - 1
    BY <1>1, MaxOfFirst
  <2>2. first \in SUBSET (1 .. n) /\ first # {}
    BY <1>1
  <2> HIDE DEF first
  <2>3. c[first] = c[first \ {Max(first)}] + sizes[Max(first)]
    BY <1>9, <2>2, Zenon
  <2>4. k \in 0 .. n /\ k - 1 \in 0 .. n
    BY <1>1
  <2>5. r[k] = c[first] /\ r[k - 1] = c[1 .. k - 1]
    BY <2>4 DEF first
  <2> HIDE DEF r
  <2> QED
    BY <2>1, <2>3, <2>5
<1>12. SizesTogether(sizes) = r[n]
  BY <1>1, <1>8
<1> HIDE DEF r
<1> DEFINE Bad == {k \in 0 .. n : r[k] \notin Nat}
<1>13. ASSUME Bad # {} PROVE FALSE
  <2>1. PICK k \in Bad : \A j \in Bad : k <= j
    <3>1. Bad \subseteq Nat
      OBVIOUS
    <3> HIDE DEF Bad
    <3> QED
      BY <1>13, <3>1, SmallestNumber
  <2>2. k # 0
    BY <1>10
  <2>3. k \in 1 .. n /\ k - 1 \in 0 .. n /\ ~(k <= k - 1)
    BY <1>1, <2>2
  <2>4. r[k - 1] \in Nat
    BY <2>1, <2>3
  <2> QED
    BY <1>1, <1>11, <2>3, <2>4
<1>14. AddedUp(r, sizes)
  BY <1>10, <1>11 DEF AddedUp, n
<1> QED
  BY <1>12, <1>13, <1>14 DEF n

\* One more size.
LEMMA SizesStep ==
  ASSUME NEW v \in Seq(Nat), NEW w \in Seq(Nat), Len(w) = Len(v) + 1, \A k \in 1 .. Len(v) : w[k] = v[k]
  PROVE  SizesTogether(w) = SizesTogether(v) + w[Len(v) + 1] /\ SizesTogether(v) \in Nat
<1> DEFINE n == Len(v)
<1>1. n \in Nat
  OBVIOUS
<1>2. PICK r : AddedUp(r, v) /\ SizesTogether(v) = r[n] /\ \A k \in 0 .. n : r[k] \in Nat
  BY SizesRuns
<1>3. PICK q : AddedUp(q, w) /\ SizesTogether(w) = q[n + 1]
  BY SizesRuns
<1>4. /\ r[0] = 0 /\ \A k \in 1 .. n : r[k] = r[k - 1] + v[k]
      /\ q[0] = 0 /\ \A k \in 1 .. n + 1 : q[k] = q[k - 1] + w[k]
  BY <1>2, <1>3 DEF AddedUp
<1>5. \A k \in 1 .. n : w[k] = v[k]
  OBVIOUS
<1> HIDE DEF n
<1> DEFINE Bad == {k \in 0 .. n : q[k] # r[k]}
<1>6. ASSUME Bad # {} PROVE FALSE
  <2>1. PICK k \in Bad : \A j \in Bad : k <= j
    <3>1. Bad \subseteq Nat
      OBVIOUS
    <3> HIDE DEF Bad
    <3> QED
      BY <1>6, <3>1, SmallestNumber
  <2>2. k # 0
    BY <1>4
  <2>3. k \in 1 .. n /\ k \in 1 .. n + 1 /\ k - 1 \in 0 .. n /\ ~(k <= k - 1)
    BY <1>1, <2>2
  <2>4. q[k - 1] = r[k - 1]
    BY <2>1, <2>3
  <2>5. q[k] = r[k]
    BY <1>4, <1>5, <2>3, <2>4
  <2> QED
    BY <2>1, <2>5
<1>7. n \in 0 .. n /\ n + 1 \in 1 .. n + 1 /\ n + 1 - 1 = n
  BY <1>1
<1>8. q[n] = r[n] /\ q[n + 1] = q[n] + w[n + 1] /\ r[n] \in Nat
  BY <1>2, <1>4, <1>6, <1>7
<1> QED
  BY <1>2, <1>3, <1>8 DEF n

LEMMA NoSizes == SizesTogether([i \in 1 .. 0 |-> 0]) = 0 /\ SizesTogether(<<>>) = 0
<1>1. [i \in 1 .. 0 |-> 0] = <<>> /\ <<>> \in Seq(Nat) /\ Len(<<>>) = 0
  BY EmptySeq
<1>2. PICK r : AddedUp(r, <<>>) /\ SizesTogether(<<>>) = r[Len(<<>>)]
  BY <1>1, SizesRuns
<1> QED
  BY <1>1, <1>2 DEF AddedUp

LEMMA SizesPrefixes ==
  ASSUME NEW n \in Nat, NEW g, \A k \in 1 .. n : g[k] \in Nat
  PROVE  /\ SizesTogether([i \in 1 .. 0 |-> g[i]]) = 0
         /\ \A k \in 1 .. n :
              /\ SizesTogether([i \in 1 .. k |-> g[i]]) = SizesTogether([i \in 1 .. k - 1 |-> g[i]]) + g[k]
              /\ SizesTogether([i \in 1 .. k - 1 |-> g[i]]) \in Nat
<1>1. SizesTogether([i \in 1 .. 0 |-> g[i]]) = 0
  <2>1. [i \in 1 .. 0 |-> g[i]] = [i \in 1 .. 0 |-> 0]
    OBVIOUS
  <2> QED
    BY <2>1, NoSizes
<1>2. ASSUME NEW k \in 1 .. n
      PROVE  /\ SizesTogether([i \in 1 .. k |-> g[i]]) = SizesTogether([i \in 1 .. k - 1 |-> g[i]]) + g[k]
             /\ SizesTogether([i \in 1 .. k - 1 |-> g[i]]) \in Nat
  <2> DEFINE m == k - 1
             v == [i \in 1 .. m |-> g[i]]
             w == [i \in 1 .. k |-> g[i]]
  <2>1. m \in Nat /\ k \in Nat /\ m + 1 = k /\ (\A i \in 1 .. m : i \in 1 .. n) /\ (\A i \in 1 .. k : i \in 1 .. n)
    OBVIOUS
  <2> HIDE DEF m
  <2>2. v \in Seq(Nat) /\ Len(v) = m
    <3>1. v \in [1 .. m -> Nat]
      BY <2>1
    <3> HIDE DEF v
    <3> QED
      BY <2>1, <3>1
  <2>3. w \in Seq(Nat) /\ Len(w) = k
    <3>1. w \in [1 .. k -> Nat]
      BY <2>1
    <3> HIDE DEF w
    <3> QED
      BY <2>1, <3>1
  <2>4. (\A i \in 1 .. m : w[i] = v[i]) /\ w[k] = g[k]
    <3>1. (\A i \in 1 .. m : i \in 1 .. k) /\ k \in 1 .. k
      BY <2>1
    <3> QED
      BY <3>1
  <2> HIDE DEF v, w
  <2>5. SizesTogether(w) = SizesTogether(v) + w[k] /\ SizesTogether(v) \in Nat
    BY <2>1, <2>2, <2>3, <2>4, SizesStep
  <2> QED
    BY <2>4, <2>5 DEF v, w, m
<1> QED
  BY <1>1, <1>2

\* Where the k-th of some sequences begins in all of them.
Starts(seqs, k) == SizesTogether([i \in 1 .. k - 1 |-> Len(seqs[i])])

LEMMA StartsStep ==
  ASSUME NEW S, NEW seqs \in Seq(Seq(S))
  PROVE  /\ Starts(seqs, 1) = 0
         /\ \A k \in 1 .. Len(seqs) :
              Starts(seqs, k) \in Nat /\ Starts(seqs, k + 1) = Starts(seqs, k) + Len(seqs[k])
<1> DEFINE n == Len(seqs)
           g == [i \in 1 .. n |-> Len(seqs[i])]
           Of(m) == SizesTogether([i \in 1 .. m |-> g[i]])
<1>1. n \in Nat /\ \A i \in 1 .. n : seqs[i] \in Seq(S) /\ Len(seqs[i]) \in Nat
  BY ElementOfSeq, LenProperties
<1> HIDE DEF n
<1>2. \A k \in 1 .. n : g[k] = Len(seqs[k]) /\ g[k] \in Nat
  BY <1>1
<1>3. ASSUME NEW m \in 0 .. n PROVE [i \in 1 .. m |-> Len(seqs[i])] = [i \in 1 .. m |-> g[i]]
  <2>1. \A i \in 1 .. m : i \in 1 .. n
    BY <1>1
  <2>2. \A i \in 1 .. m : Len(seqs[i]) = g[i]
    BY <1>2, <2>1
  <2> HIDE DEF g
  <2> QED
    BY <2>2
<1> HIDE DEF g
<1>4. Of(0) = 0 /\ \A k \in 1 .. n : Of(k) = Of(k - 1) + g[k] /\ Of(k - 1) \in Nat
  BY <1>1, <1>2, SizesPrefixes
<1>5. ASSUME NEW m \in 0 .. n PROVE Starts(seqs, m + 1) = Of(m)
  <2> DEFINE top == m + 1 - 1
  <2>1. top = m
    BY <1>1
  <2>2. Starts(seqs, m + 1) = SizesTogether([i \in 1 .. top |-> Len(seqs[i])])
    BY DEF Starts
  <2> HIDE DEF top
  <2>3. Starts(seqs, m + 1) = SizesTogether([i \in 1 .. m |-> Len(seqs[i])])
    BY <2>1, <2>2
  <2> QED
    BY <1>3, <2>3
<1> HIDE DEF Of
<1>6. Starts(seqs, 1) = 0
  <2> DEFINE m == 0
  <2>1. m \in 0 .. n /\ m + 1 = 1 /\ Of(m) = 0
    BY <1>1, <1>4
  <2> HIDE DEF m
  <2>2. Starts(seqs, m + 1) = Of(m)
    BY <1>5, <2>1
  <2> QED
    BY <2>1, <2>2
<1>7. ASSUME NEW k \in 1 .. n
      PROVE  Starts(seqs, k) \in Nat /\ Starts(seqs, k + 1) = Starts(seqs, k) + Len(seqs[k])
  <2> DEFINE m == k - 1
  <2>1. m \in 0 .. n /\ k \in 0 .. n /\ m + 1 = k
    BY <1>1
  <2>2. Of(k) = Of(m) + g[k] /\ Of(m) \in Nat
    BY <1>4
  <2> HIDE DEF m
  <2>3. Starts(seqs, m + 1) = Of(m) /\ Starts(seqs, k + 1) = Of(k)
    BY <1>5, <2>1
  <2> QED
    BY <1>2, <2>1, <2>2, <2>3
<1> QED
  BY <1>6, <1>7 DEF n

\* What is where in some sequences, one after the other.
Flat(flat, seqs, S) ==
  /\ flat \in Seq(S) /\ Len(flat) = Starts(seqs, Len(seqs) + 1)
  /\ \A k \in 1 .. Len(seqs) :
       /\ Starts(seqs, k) + Len(seqs[k]) <= Len(flat)
       /\ \A i \in 1 .. Len(seqs[k]) : flat[Starts(seqs, k) + i] = seqs[k][i]

LEMMA FlatPlaces ==
  ASSUME NEW S, S \subseteq Int, NEW seqs \in Seq(Seq(S))
  PROVE  Flat(FlattenSeq(seqs), seqs, S)
<1> DEFINE n == Len(seqs)
           flat == FlattenSeq(seqs)
<1>1. n \in Nat /\ \A i \in 1 .. n : seqs[i] \in Seq(S) /\ seqs[i] \in Seq(Int) /\ Len(seqs[i]) \in Nat
  BY ElementOfSeq, LenProperties, SeqMonotonic
<1>2. PICK f : Joins(f, seqs, S) /\ flat = f[n]
  BY FlattenJoins
<1>3. Growing(f, n)
  BY <1>2, JoinsGrow
<1>4. /\ f[0] = <<>>
      /\ \A i \in 1 .. n : f[i] = f[i - 1] \o seqs[i]
      /\ \A i \in 0 .. n : f[i] \in Seq(S)
  BY <1>2 DEF Joins
<1>5. Starts(seqs, 1) = 0 /\ \A k \in 1 .. n :
        Starts(seqs, k) \in Nat /\ Starts(seqs, k + 1) = Starts(seqs, k) + Len(seqs[k])
  BY StartsStep
<1> HIDE DEF n, flat
<1>6. ASSUME NEW i \in 1 .. n
      PROVE  /\ Len(f[i]) = Len(f[i - 1]) + Len(seqs[i]) /\ Len(f[i - 1]) \in Nat
             /\ \A k \in 1 .. Len(seqs[i]) : f[i][Len(f[i - 1]) + k] = seqs[i][k]
  <2> DEFINE a == f[i - 1]
             b == seqs[i]
             e == f[i]
  <2>1. i - 1 \in 0 .. n
    BY <1>1
  <2>2. e = a \o b /\ a \in Seq(S) /\ b \in Seq(Int)
    BY <1>1, <1>4, <2>1
  <2> HIDE DEF a, b, e
  <2>3. a \in Seq(Int) /\ Len(a) \in Nat
    BY <2>2, SeqMonotonic, LenProperties
  <2>4. Len(e) = Len(a) + Len(b) /\ \A k \in 1 .. Len(b) : e[Len(a) + k] = b[k]
    BY <2>2, <2>3, Joined
  <2> QED
    BY <2>3, <2>4 DEF a, b, e
<1> DEFINE Bad == {i \in 0 .. n : Len(f[i]) # Starts(seqs, i + 1)}
<1>7. ASSUME Bad # {} PROVE FALSE
  <2>1. PICK i \in Bad : \A k \in Bad : i <= k
    <3>1. Bad \subseteq Nat
      BY <1>1
    <3> HIDE DEF Bad
    <3> QED
      BY <1>7, <3>1, SmallestNumber
  <2>2. i # 0
    BY <1>4, <1>5, EmptySeq
  <2>3. i \in 1 .. n /\ i - 1 \in 0 .. n /\ ~(i <= i - 1) /\ i - 1 + 1 = i
    BY <1>1, <2>2
  <2>4. Len(f[i - 1]) = Starts(seqs, i)
    <3> DEFINE m == i - 1
    <3>1. m \in 0 .. n /\ m \notin Bad /\ m + 1 = i
      BY <2>1, <2>3
    <3> HIDE DEF m
    <3>2. Len(f[m]) = Starts(seqs, m + 1)
      BY <3>1
    <3> QED
      BY <3>1, <3>2 DEF m
  <2>5. Len(f[i]) = Starts(seqs, i + 1)
    BY <1>5, <1>6, <2>3, <2>4
  <2> QED
    BY <2>1, <2>5
<1>8. \A i \in 0 .. n : Len(f[i]) = Starts(seqs, i + 1)
  BY <1>7
<1> HIDE DEF Bad
<1>9. flat \in Seq(S) /\ Len(flat) = Starts(seqs, n + 1)
  BY <1>1, <1>2, <1>4, <1>8
<1>10. ASSUME NEW k \in 1 .. n
       PROVE  /\ Starts(seqs, k) + Len(seqs[k]) <= Len(flat)
              /\ \A i \in 1 .. Len(seqs[k]) : flat[Starts(seqs, k) + i] = seqs[k][i]
  <2> DEFINE e == f[k]
             start == Starts(seqs, k)
             size == Len(seqs[k])
  <2>1. k \in 0 .. n /\ k - 1 \in 0 .. n /\ k - 1 + 1 = k /\ n \in 0 .. n /\ k \in 0 .. n
    BY <1>1
  <2>2. Len(f[k - 1]) = start
    <3> DEFINE m == k - 1
    <3>1. m \in 0 .. n /\ m + 1 = k
      BY <2>1
    <3> HIDE DEF m
    <3>2. Len(f[m]) = Starts(seqs, m + 1)
      BY <1>8, <3>1
    <3> QED
      BY <3>1, <3>2 DEF m
  <2>3. start \in Nat /\ size \in Nat /\ Len(e) = start + size
    BY <1>1, <1>6, <2>2
  <2>4. \A i \in 1 .. size : e[start + i] = seqs[k][i]
    BY <1>6, <2>2
  <2>5. Len(e) <= Len(flat) /\ \A j \in 1 .. Len(e) : flat[j] = e[j]
    <3>1. \A i \in 0 .. n : Len(f[i]) <= Len(f[n]) /\ \A j \in 1 .. Len(f[i]) : f[n][j] = f[i][j]
      BY <1>3, <2>1 DEF Growing
    <3> QED
      BY <1>2, <2>1, <3>1
  <2> HIDE DEF e, start, size
  <2>6. ASSUME NEW i \in 1 .. size PROVE flat[start + i] = seqs[k][i]
    <3>1. start + i \in 1 .. Len(e)
      BY <2>3
    <3> QED
      BY <2>4, <2>5, <3>1
  <2> QED
    BY <2>3, <2>5, <2>6 DEF start, size
<1> QED
  BY <1>9, <1>10 DEF n, flat, Flat

\* The two bytes of a number of 16 bits, and the four of one of 32.
LEMMA HighLow == \A x \in Nat : x = 256 * High(x) + (x % 256) /\ High(x) \in Nat /\ x % 256 \in 0 .. 255
<1>1. ASSUME NEW x \in Nat
      PROVE  x = 256 * High(x) + (x % 256) /\ High(x) \in Nat /\ x % 256 \in 0 .. 255
  <2> DEFINE q == x \div 256
             r == x % 256
  <2>1. x = 256 * q + r /\ q \in Int /\ r \in 0 .. 255
    BY Division
  <2> HIDE DEF q, r
  <2>2. q \in Nat
    BY <2>1
  <2> QED
    BY <2>1, <2>2 DEF q, r, High
<1> QED
  BY <1>1

LEMMA ByteItself == \A x \in 0 .. 255 : x % 256 = x
  OBVIOUS

LEMMA LittleBytes ==
  ASSUME NEW x \in Nat, NEW width \in Nat
  PROVE  Little(x, width) \in Seq(Bytes) /\ Len(Little(x, width)) = width
<1> DEFINE p == <<x, High(x), High(High(x)), High(High(High(x)))>>
           t == Little(x, width)
<1>1. \A k \in 1 .. 4 : p[k] \in Nat
  <2>1. High(x) \in Nat
    BY HighLow
  <2>2. High(High(x)) \in Nat
    BY <2>1, HighLow
  <2>3. High(High(High(x))) \in Nat
    BY <2>2, HighLow
  <2> QED
    BY <2>1, <2>2, <2>3
<1>2. ASSUME NEW k \in 1 .. width PROVE (IF k > 4 THEN 0 ELSE p[k] % 256) \in Bytes
  <2>1. CASE k > 4
    BY <2>1 DEF Bytes
  <2>2. CASE ~(k > 4)
    <3> DEFINE d == p[k]
    <3>1. k \in 1 .. 4
      BY <2>2
    <3>2. d \in Nat
      BY <1>1, <3>1
    <3> HIDE DEF d
    <3>3. d % 256 \in Bytes
      BY <3>2, HighLow DEF Bytes
    <3> QED
      BY <2>2, <3>3 DEF d
  <2> QED
    BY <2>1, <2>2
<1> HIDE DEF p
<1>3. t = [k \in 1 .. width |-> IF k > 4 THEN 0 ELSE p[k] % 256]
  BY DEF Little, p
<1>4. t \in [1 .. width -> Bytes]
  BY <1>2, <1>3
<1> HIDE DEF t
<1>5. t \in Seq(Bytes) /\ Len(t) = width
  BY <1>4
<1> QED
  BY <1>5 DEF t

LEMMA LittleRead ==
  ASSUME NEW x \in Nat
  PROVE  /\ High(x) < 256 => Little(x, 2)[1] + 256 * Little(x, 2)[2] = x
         /\ High(High(High(x))) < 256 =>
              (Little(x, 4)[1] + 256 * Little(x, 4)[2]) + 256 * 256 * (Little(x, 4)[3] + 256 * Little(x, 4)[4]) = x
<1> DEFINE y == High(x)
           z == High(y)
           h == High(z)
           p == <<x, y, z, h>>
           t == Little(x, 2)
           f == Little(x, 4)
<1>1. /\ x = 256 * y + (x % 256) /\ y \in Nat /\ x % 256 \in 0 .. 255
      /\ y = 256 * z + (y % 256) /\ z \in Nat /\ y % 256 \in 0 .. 255
      /\ z = 256 * h + (z % 256) /\ h \in Nat /\ z % 256 \in 0 .. 255
  <2>1. x = 256 * y + (x % 256) /\ y \in Nat /\ x % 256 \in 0 .. 255
    BY HighLow
  <2> HIDE DEF y
  <2>2. y = 256 * z + (y % 256) /\ z \in Nat /\ y % 256 \in 0 .. 255
    BY <2>1, HighLow
  <2> HIDE DEF z
  <2>3. z = 256 * h + (z % 256) /\ h \in Nat /\ z % 256 \in 0 .. 255
    BY <2>2, HighLow
  <2> QED
    BY <2>1, <2>2, <2>3
<1>2. t = [k \in 1 .. 2 |-> IF k > 4 THEN 0 ELSE p[k] % 256]
  BY DEF Little
<1>3. f = [k \in 1 .. 4 |-> IF k > 4 THEN 0 ELSE p[k] % 256]
  BY DEF Little
<1>4. p[1] = x /\ p[2] = y /\ p[3] = z /\ p[4] = h
  OBVIOUS
<1> HIDE DEF y, z, h, p, t, f
<1>5. t[1] = x % 256 /\ t[2] = y % 256
  BY <1>2, <1>4
<1>6. f[1] = x % 256 /\ f[2] = y % 256 /\ f[3] = z % 256 /\ f[4] = h % 256
  BY <1>3, <1>4
<1> DEFINE a == x % 256
           b == y % 256
           c == z % 256
<1>7. /\ x = 256 * y + a /\ a \in 0 .. 255 /\ y = 256 * z + b /\ b \in 0 .. 255
      /\ z = 256 * h + c /\ c \in 0 .. 255
  BY <1>1
<1>8. t[1] = a /\ t[2] = b /\ f[1] = a /\ f[2] = b /\ f[3] = c
  BY <1>5, <1>6
<1>9. y < 256 => b = y
  BY <1>1, ByteItself
<1>10. h < 256 => h % 256 = h
  BY <1>1, ByteItself
<1> HIDE DEF a, b, c
<1>11. y < 256 => t[1] + 256 * t[2] = x
  BY <1>7, <1>8, <1>9
<1>12. ASSUME h < 256 PROVE (f[1] + 256 * f[2]) + 256 * 256 * (f[3] + 256 * f[4]) = x
  <2>1. f[4] = h
    BY <1>6, <1>10, <1>12
  <2>2. f[3] + 256 * f[4] = z
    BY <1>1, <1>7, <1>8, <2>1
  <2>3. f[1] + 256 * f[2] = a + 256 * b
    BY <1>8
  <2>4. a + 256 * b + 256 * 256 * z = x
    BY <1>1, <1>7
  <2> QED
    BY <2>2, <2>3, <2>4
<1> QED
  BY <1>11, <1>12 DEF y, z, h, t, f

\* A structure of n fields and their values, and what is where in it.
Fielded(n, struct, values) ==
  DOMAIN struct = 1 .. n /\ \A k \in 1 .. n : struct[k][2] \in Nat /\ values[k] \in Nat
Placed(laid, n, struct, values) ==
  /\ laid \in Seq(Bytes) /\ Len(laid) = OffsetOf(struct, n + 1)
  /\ \A k \in 1 .. n : \A i \in 1 .. struct[k][2] :
       laid[OffsetOf(struct, k) + i] = Little(values[k], struct[k][2])[i]

LEMMA LaidPlaces ==
  ASSUME NEW n \in Nat, NEW struct, NEW values, Fielded(n, struct, values)
  PROVE  Placed(Laid(struct, values), n, struct, values)
<1> DEFINE seqs == [k \in 1 .. n |-> Little(values[k], struct[k][2])]
           laid == Laid(struct, values)
<1> USE DEF Fielded
<1>1. laid = FlattenSeq(seqs)
  BY DEF Laid
<1>2. ASSUME NEW k \in 1 .. n
      PROVE  seqs[k] = Little(values[k], struct[k][2]) /\ seqs[k] \in Seq(Bytes) /\ Len(seqs[k]) = struct[k][2]
  BY LittleBytes
<1>3. seqs \in Seq(Seq(Bytes)) /\ Len(seqs) = n
  <2>1. seqs \in [1 .. n -> Seq(Bytes)]
    BY <1>2
  <2> HIDE DEF seqs
  <2> QED
    BY <2>1
<1> HIDE DEF seqs, laid
<1>4. ASSUME NEW k \in 1 .. n + 1 PROVE Starts(seqs, k) = OffsetOf(struct, k)
  <2> DEFINE m == k - 1
  <2>1. \A i \in 1 .. m : i \in 1 .. n
    OBVIOUS
  <2>2. OffsetOf(struct, k) = SizesTogether([i \in 1 .. m |-> struct[i][2]])
    BY DEF OffsetOf
  <2>3. Starts(seqs, k) = SizesTogether([i \in 1 .. m |-> Len(seqs[i])])
    BY DEF Starts
  <2> HIDE DEF m
  <2>4. [i \in 1 .. m |-> Len(seqs[i])] = [i \in 1 .. m |-> struct[i][2]]
    BY <1>2, <2>1
  <2> QED
    BY <2>2, <2>3, <2>4
<1>5. Bytes \subseteq Int
  BY DEF Bytes
<1>6. /\ laid \in Seq(Bytes) /\ Len(laid) = Starts(seqs, n + 1)
      /\ \A k \in 1 .. n : \A i \in 1 .. Len(seqs[k]) : laid[Starts(seqs, k) + i] = seqs[k][i]
  <2>1. Flat(laid, seqs, Bytes)
    BY <1>1, <1>3, <1>5, FlatPlaces
  <2> QED
    BY <1>3, <2>1 DEF Flat
<1>7. n + 1 \in 1 .. n + 1
  OBVIOUS
<1>8. ASSUME NEW k \in 1 .. n
      PROVE  \A i \in 1 .. struct[k][2] : laid[OffsetOf(struct, k) + i] = Little(values[k], struct[k][2])[i]
  <2>1. k \in 1 .. n + 1
    OBVIOUS
  <2>2. Starts(seqs, k) = OffsetOf(struct, k)
    BY <1>4, <2>1
  <2> QED
    BY <1>2, <1>6, <2>2
<1> QED
  BY <1>4, <1>6, <1>7, <1>8 DEF laid, Placed

LEMMA FileHeaderFields ==
  /\ DOMAIN Elf32_Ehdr = 1 .. 14
  /\ \A k \in 1 .. 14 : Elf32_Ehdr[k][2] = <<16, 2, 2, 4, 4, 4, 4, 4, 2, 2, 2, 2, 2, 2>>[k]
  /\ \A k \in 1 .. 14 : /\ Elf32_Ehdr[k][1] = "e_entry" <=> k = 5
                        /\ Elf32_Ehdr[k][1] = "e_phoff" <=> k = 6
                        /\ Elf32_Ehdr[k][1] = "e_phnum" <=> k = 11
<1>1. DOMAIN Elf32_Ehdr = 1 .. 14
  BY DEF Elf32_Ehdr
<1>2. \A k \in 1 .. 14 : k \in {1, 2, 3, 4, 5, 6, 7, 8, 9, 10, 11, 12, 13, 14}
  OBVIOUS
<1>3. \A k \in {1, 2, 3, 4, 5, 6, 7, 8, 9, 10, 11, 12, 13, 14} :
        /\ Elf32_Ehdr[k][2] = <<16, 2, 2, 4, 4, 4, 4, 4, 2, 2, 2, 2, 2, 2>>[k]
        /\ Elf32_Ehdr[k][1] = "e_entry" <=> k = 5
        /\ Elf32_Ehdr[k][1] = "e_phoff" <=> k = 6
        /\ Elf32_Ehdr[k][1] = "e_phnum" <=> k = 11
  BY SMTT(40) DEF Elf32_Ehdr
<1>4. ASSUME NEW k \in 1 .. 14
      PROVE  /\ Elf32_Ehdr[k][2] = <<16, 2, 2, 4, 4, 4, 4, 4, 2, 2, 2, 2, 2, 2>>[k]
             /\ Elf32_Ehdr[k][1] = "e_entry" <=> k = 5
             /\ Elf32_Ehdr[k][1] = "e_phoff" <=> k = 6
             /\ Elf32_Ehdr[k][1] = "e_phnum" <=> k = 11
  BY <1>2, <1>3
<1> QED
  BY <1>1, <1>4

LEMMA SegmentHeaderFields ==
  /\ DOMAIN Elf32_Phdr = 1 .. 8
  /\ \A k \in 1 .. 8 : Elf32_Phdr[k][2] = 4
  /\ \A k \in 1 .. 8 : /\ Elf32_Phdr[k][1] = "p_offset" <=> k = 2
                       /\ Elf32_Phdr[k][1] = "p_vaddr" <=> k = 3
                       /\ Elf32_Phdr[k][1] = "p_filesz" <=> k = 5
                       /\ Elf32_Phdr[k][1] = "p_memsz" <=> k = 6
                       /\ Elf32_Phdr[k][1] = "p_flags" <=> k = 7
<1>1. DOMAIN Elf32_Phdr = 1 .. 8
  BY DEF Elf32_Phdr
<1>2. \A k \in 1 .. 8 : k \in {1, 2, 3, 4, 5, 6, 7, 8}
  OBVIOUS
<1>3. \A k \in {1, 2, 3, 4, 5, 6, 7, 8} :
        /\ Elf32_Phdr[k][2] = 4
        /\ Elf32_Phdr[k][1] = "p_offset" <=> k = 2
        /\ Elf32_Phdr[k][1] = "p_vaddr" <=> k = 3
        /\ Elf32_Phdr[k][1] = "p_filesz" <=> k = 5
        /\ Elf32_Phdr[k][1] = "p_memsz" <=> k = 6
        /\ Elf32_Phdr[k][1] = "p_flags" <=> k = 7
  BY SMTT(40) DEF Elf32_Phdr
<1> QED
  BY <1>1, <1>2, <1>3, Zenon

\* A field begins where the one before it ends.
LEMMA FieldByField ==
  ASSUME NEW n \in Nat, NEW struct, DOMAIN struct = 1 .. n, \A k \in 1 .. n : struct[k][2] \in Nat
  PROVE  OffsetOf(struct, 1) = 0 /\ \A k \in 1 .. n : OffsetOf(struct, k + 1) = OffsetOf(struct, k) + struct[k][2]
<1> DEFINE g == [k \in 1 .. n |-> struct[k][2]]
           Of(m) == SizesTogether([i \in 1 .. m |-> g[i]])
<1>1. \A k \in 1 .. n : g[k] = struct[k][2] /\ g[k] \in Nat
  OBVIOUS
<1>2. ASSUME NEW m \in 0 .. n PROVE [i \in 1 .. m |-> struct[i][2]] = [i \in 1 .. m |-> g[i]]
  <2>1. \A i \in 1 .. m : i \in 1 .. n
    OBVIOUS
  <2>2. \A i \in 1 .. m : struct[i][2] = g[i]
    BY <1>1, <2>1
  <2> HIDE DEF g
  <2> QED
    BY <2>2
<1> HIDE DEF g
<1>3. Of(0) = 0 /\ \A k \in 1 .. n : Of(k) = Of(k - 1) + g[k]
  BY <1>1, SizesPrefixes
<1>4. ASSUME NEW m \in 0 .. n PROVE OffsetOf(struct, m + 1) = Of(m)
  <2> DEFINE top == m + 1 - 1
  <2>1. top = m
    OBVIOUS
  <2>2. OffsetOf(struct, m + 1) = SizesTogether([i \in 1 .. top |-> struct[i][2]])
    BY DEF OffsetOf
  <2> HIDE DEF top
  <2>3. OffsetOf(struct, m + 1) = SizesTogether([i \in 1 .. m |-> struct[i][2]])
    BY <2>1, <2>2
  <2> QED
    BY <1>2, <2>3
<1> HIDE DEF Of
<1>5. OffsetOf(struct, 1) = 0
  <2> DEFINE m == 0
  <2>1. m \in 0 .. n /\ m + 1 = 1 /\ Of(m) = 0
    BY <1>3
  <2> HIDE DEF m
  <2>2. OffsetOf(struct, m + 1) = Of(m)
    BY <1>4, <2>1
  <2> QED
    BY <2>1, <2>2
<1>6. ASSUME NEW k \in 1 .. n PROVE OffsetOf(struct, k + 1) = OffsetOf(struct, k) + struct[k][2]
  <2> DEFINE m == k - 1
  <2>1. m \in 0 .. n /\ k \in 0 .. n /\ m + 1 = k
    OBVIOUS
  <2>2. Of(k) = Of(m) + g[k]
    BY <1>3
  <2> HIDE DEF m
  <2>3. OffsetOf(struct, m + 1) = Of(m) /\ OffsetOf(struct, k + 1) = Of(k)
    BY <1>4, <2>1
  <2> QED
    BY <1>1, <2>1, <2>2, <2>3
<1> QED
  BY <1>5, <1>6

LEMMA FileHeaderOffsets ==
  /\ OffsetOf(Elf32_Ehdr, 5) = 24 /\ OffsetOf(Elf32_Ehdr, 6) = 28 /\ OffsetOf(Elf32_Ehdr, 11) = 44
  /\ OffsetOf(Elf32_Ehdr, 15) = 52
<1> DEFINE O(k) == OffsetOf(Elf32_Ehdr, k)
           n == 14
           s == <<16, 2, 2, 4, 4, 4, 4, 4, 2, 2, 2, 2, 2, 2>>
<1>1. n \in Nat /\ DOMAIN Elf32_Ehdr = 1 .. n
  BY FileHeaderFields
<1>2. \A k \in 1 .. 14 : Elf32_Ehdr[k][2] = s[k] /\ s[k] \in Nat
  <2>1. \A k \in 1 .. 14 : s[k] \in Nat
    OBVIOUS
  <2> QED
    BY <2>1, FileHeaderFields
<1> HIDE DEF s
<1>3. O(1) = 0 /\ \A k \in 1 .. 14 : O(k + 1) = O(k) + Elf32_Ehdr[k][2]
  <2>1. \A k \in 1 .. n : Elf32_Ehdr[k][2] \in Nat
    BY <1>2
  <2> HIDE DEF n
  <2>2. O(1) = 0 /\ \A k \in 1 .. n : O(k + 1) = O(k) + Elf32_Ehdr[k][2]
    BY <1>1, <2>1, FieldByField
  <2> QED
    BY <2>2 DEF n
<1>4. O(1) = 0 /\ \A k \in 1 .. 14 : O(k + 1) = O(k) + s[k]
  BY <1>2, <1>3
<1> HIDE DEF O
<1>5. /\ O(2) = O(1) + s[1] /\ O(3) = O(2) + s[2] /\ O(4) = O(3) + s[3] /\ O(5) = O(4) + s[4]
      /\ O(6) = O(5) + s[5] /\ O(7) = O(6) + s[6] /\ O(8) = O(7) + s[7] /\ O(9) = O(8) + s[8]
      /\ O(10) = O(9) + s[9] /\ O(11) = O(10) + s[10] /\ O(12) = O(11) + s[11] /\ O(13) = O(12) + s[12]
      /\ O(14) = O(13) + s[13] /\ O(15) = O(14) + s[14]
  BY <1>4
<1>6. /\ s[1] = 16 /\ s[2] = 2 /\ s[3] = 2 /\ s[4] = 4 /\ s[5] = 4 /\ s[6] = 4 /\ s[7] = 4 /\ s[8] = 4
      /\ s[9] = 2 /\ s[10] = 2 /\ s[11] = 2 /\ s[12] = 2 /\ s[13] = 2 /\ s[14] = 2
  BY DEF s
<1> QED
  BY <1>4, <1>5, <1>6 DEF O

LEMMA SegmentHeaderOffsets ==
  /\ \A k \in 1 .. 9 : OffsetOf(Elf32_Phdr, k) = 4 * (k - 1)
  /\ SizeOf(Elf32_Phdr) = 32
<1> DEFINE O(k) == OffsetOf(Elf32_Phdr, k)
           n == 8
<1>1. n \in Nat /\ DOMAIN Elf32_Phdr = 1 .. n /\ \A k \in 1 .. n : Elf32_Phdr[k][2] \in Nat
  BY SegmentHeaderFields
<1>2. O(1) = 0 /\ \A k \in 1 .. 8 : O(k + 1) = O(k) + Elf32_Phdr[k][2]
  <2> HIDE DEF n
  <2>1. O(1) = 0 /\ \A k \in 1 .. n : O(k + 1) = O(k) + Elf32_Phdr[k][2]
    BY <1>1, FieldByField
  <2> QED
    BY <2>1 DEF n
<1>3. O(1) = 0 /\ \A k \in 1 .. 8 : O(k + 1) = O(k) + 4
  BY <1>2, SegmentHeaderFields
<1> HIDE DEF O
<1>4. /\ O(2) = O(1) + 4 /\ O(3) = O(2) + 4 /\ O(4) = O(3) + 4 /\ O(5) = O(4) + 4
      /\ O(6) = O(5) + 4 /\ O(7) = O(6) + 4 /\ O(8) = O(7) + 4 /\ O(9) = O(8) + 4
  BY <1>3
<1>5. /\ O(1) = 0 /\ O(2) = 4 /\ O(3) = 8 /\ O(4) = 12 /\ O(5) = 16 /\ O(6) = 20 /\ O(7) = 24 /\ O(8) = 28
      /\ O(9) = 32
  BY <1>3, <1>4
<1>6. ASSUME NEW k \in 1 .. 9 PROVE O(k) = 4 * (k - 1)
  <2>1. k \in {1, 2, 3, 4, 5, 6, 7, 8, 9}
    OBVIOUS
  <2> QED
    BY <1>5, <2>1
<1>7. Len(Elf32_Phdr) + 1 = 9
  BY DEF Elf32_Phdr
<1>8. SizeOf(Elf32_Phdr) = O(9)
  BY <1>7 DEF SizeOf, O
<1> QED
  BY <1>5, <1>6, <1>8 DEF O

\* The only field of that name is the one that is read.
Only(k, struct, name) ==
  k \in 1 .. Len(struct) /\ Len(struct) \in Nat /\ \A i \in 1 .. Len(struct) : struct[i][1] = name <=> i = k

LEMMA FieldFound ==
  ASSUME NEW struct, NEW name, NEW k, Only(k, struct, name), NEW buffer, NEW at
  PROVE  LET from == at + OffsetOf(struct, k)
         IN  Member(buffer, at, struct, name)
               = IF struct[k][2] = 2 THEN Short(buffer, from) ELSE Long(buffer, from)
<1> DEFINE I == {i \in 1 .. Len(struct) : struct[i][1] = name}
           found == IF I # {} THEN Min(I) ELSE 0
           At(j) == IF struct[j][2] = 2 THEN Short(buffer, at + OffsetOf(struct, j))
                    ELSE Long(buffer, at + OffsetOf(struct, j))
<1>1. I = {k} /\ k \in Nat
  BY DEF Only
<1>2. Min({k}) = k
  BY <1>1 DEF Min
<1>3. Member(buffer, at, struct, name) = At(found)
  BY DEF Member, SelectInSeq
<1> HIDE DEF I
<1>4. found = k
  BY <1>1, <1>2
<1> HIDE DEF found
<1>5. Member(buffer, at, struct, name) = At(k)
  BY <1>3, <1>4
<1> QED
  BY <1>5

\* Three sequences, one after the other.
Parts(e, a, b, c) ==
  /\ e \in Seq(Int) /\ Len(e) = Len(a) + Len(b) + Len(c)
  /\ \A j \in 1 .. Len(a) : e[j] = a[j]
  /\ \A j \in 1 .. Len(b) : e[Len(a) + j] = b[j]
  /\ \A j \in 1 .. Len(c) : e[Len(a) + Len(b) + j] = c[j]

LEMMA ThreeJoined ==
  ASSUME NEW a \in Seq(Int), NEW b \in Seq(Int), NEW c \in Seq(Int)
  PROVE  Parts(a \o b \o c, a, b, c)
<1> DEFINE d == a \o b
           e == d \o c
           x == Len(a)
           y == Len(b)
           z == Len(c)
<1>1. x \in Nat /\ y \in Nat /\ z \in Nat
  BY LenProperties
<1>2. /\ d \in Seq(Int) /\ Len(d) = x + y
      /\ \A j \in 1 .. x : d[j] = a[j]
      /\ \A j \in 1 .. y : d[x + j] = b[j]
  BY Joined
<1> HIDE DEF d
<1>3. /\ e \in Seq(Int) /\ Len(e) = Len(d) + z
      /\ \A j \in 1 .. Len(d) : e[j] = d[j]
      /\ \A j \in 1 .. z : e[Len(d) + j] = c[j]
  BY <1>2, Joined
<1> HIDE DEF e, x, y, z
<1>4. ASSUME NEW j \in 1 .. x PROVE e[j] = a[j]
  <2>1. j \in 1 .. Len(d)
    BY <1>1, <1>2
  <2> QED
    BY <1>2, <1>3, <2>1
<1>5. ASSUME NEW j \in 1 .. y PROVE e[x + j] = b[j]
  <2>1. x + j \in 1 .. Len(d)
    BY <1>1, <1>2
  <2> QED
    BY <1>2, <1>3, <2>1
<1>6. e \in Seq(Int) /\ Len(e) = x + y + z /\ \A j \in 1 .. z : e[x + y + j] = c[j]
  BY <1>2, <1>3
<1> QED
  BY <1>4, <1>5, <1>6 DEF d, e, x, y, z, Parts

\* The bytes of the segments of a file.
Segment == [flags : 0 .. 7, bytes : Seq(0 .. 255)]
Bodies(segments) == [k \in DOMAIN segments |-> segments[k].bytes]

LEMMA BodiesApart ==
  ASSUME NEW segments \in Seq(Segment)
  PROVE  /\ Bodies(segments) \in Seq(Seq(Bytes)) /\ Len(Bodies(segments)) = Len(segments)
         /\ \A k \in 1 .. Len(segments) : Bodies(segments)[k] = segments[k].bytes
         /\ \A k \in 1 .. Len(segments) + 1 : Starts(Bodies(segments), k) = Before(segments, k)
<1> DEFINE n == Len(segments)
           b == Bodies(segments)
<1>1. n \in Nat /\ DOMAIN segments = 1 .. n /\ \A k \in 1 .. n : segments[k].bytes \in Seq(Bytes)
  <2>1. \A k \in 1 .. n : segments[k] \in Segment
    BY ElementOfSeq
  <2> QED
    BY <2>1 DEF Segment, Bytes
<1> HIDE DEF n
<1>2. b = [k \in 1 .. n |-> segments[k].bytes]
  BY <1>1 DEF Bodies
<1> HIDE DEF b
<1>3. b \in Seq(Seq(Bytes)) /\ Len(b) = n /\ \A k \in 1 .. n : b[k] = segments[k].bytes
  <2>1. b \in [1 .. n -> Seq(Bytes)]
    BY <1>1, <1>2
  <2> QED
    BY <1>1, <1>2, <2>1
<1>4. ASSUME NEW k \in 1 .. n + 1 PROVE Starts(b, k) = Before(segments, k)
  <2> DEFINE m == k - 1
  <2>1. \A i \in 1 .. m : i \in 1 .. n
    BY <1>1
  <2>2. Before(segments, k) = SizesTogether([i \in 1 .. m |-> Len(segments[i].bytes)])
    BY DEF Before
  <2>3. Starts(b, k) = SizesTogether([i \in 1 .. m |-> Len(b[i])])
    BY DEF Starts
  <2> HIDE DEF m
  <2>4. [i \in 1 .. m |-> Len(b[i])] = [i \in 1 .. m |-> Len(segments[i].bytes)]
    BY <1>3, <2>1
  <2> QED
    BY <2>2, <2>3, <2>4
<1> QED
  BY <1>3, <1>4 DEF b, n

\* The values of the headers are numbers.
LEMMA HeaderValues ==
  ASSUME NEW segments \in Seq(Segment)
  PROVE  /\ \A i \in 1 .. 14 : FileHeader(segments)[i] \in Nat
         /\ \A k \in 1 .. Len(segments) :
              /\ Before(segments, k) \in Nat /\ Len(segments[k].bytes) \in Nat /\ segments[k].flags \in 0 .. 7
              /\ \A i \in 1 .. 8 : SegmentHeader(segments, k)[i] \in Nat
<1> DEFINE n == Len(segments)
<1>1. n \in Nat
  OBVIOUS
<1> HIDE DEF n
<1>2. \A i \in 1 .. 14 : FileHeader(segments)[i] \in Nat
  <2>1. FileHeader(segments) = <<0, 0, 0, 0, 4100, 52, 0, 0, 0, 0, n, 0, 0, 0>>
    BY DEF FileHeader, n
  <2> QED
    BY <1>1, <2>1
<1>3. ASSUME NEW k \in 1 .. n
      PROVE  /\ Before(segments, k) \in Nat /\ Len(segments[k].bytes) \in Nat /\ segments[k].flags \in 0 .. 7
             /\ \A i \in 1 .. 8 : SegmentHeader(segments, k)[i] \in Nat
  <2> DEFINE size == Len(segments[k].bytes)
             before == Before(segments, k)
             flags == segments[k].flags
  <2>1. k \in Nat /\ k \in 1 .. Len(segments)
    BY <1>1 DEF n
  <2>2. segments[k] \in Segment
    BY <2>1, ElementOfSeq
  <2>3. size \in Nat /\ flags \in 0 .. 7
    BY <2>2 DEF Segment
  <2>4. before \in Nat
    <3> DEFINE b == Bodies(segments)
    <3>1. b \in Seq(Seq(Bytes)) /\ k \in 1 .. Len(b) /\ k \in 1 .. Len(segments) + 1
      BY <2>1, BodiesApart
    <3>2. Starts(b, k) = before
      BY <3>1, BodiesApart
    <3> HIDE DEF b, before
    <3>3. Starts(b, k) \in Nat
      BY <3>1, StartsStep
    <3> QED
      BY <3>2, <3>3
  <2>5. SegmentHeader(segments, k) = <<0, 52 + 32 * n + before, 4096 * k, 0, size, size + k, flags, 0>>
    BY DEF SegmentHeader, n
  <2> HIDE DEF size, before, flags
  <2>6. \A i \in 1 .. 8 : SegmentHeader(segments, k)[i] \in Nat
    BY <1>1, <2>1, <2>3, <2>4, <2>5
  <2> QED
    BY <2>3, <2>4, <2>6 DEF size, before, flags
<1> QED
  BY <1>2, <1>3 DEF n

\* The headers of a file are as long as it says.
LEMMA FileHeaderPlaced ==
  ASSUME NEW segments \in Seq(Segment)
  PROVE  LET h == Laid(Elf32_Ehdr, FileHeader(segments))
         IN  Placed(h, 14, Elf32_Ehdr, FileHeader(segments)) /\ h \in Seq(Bytes) /\ Len(h) = 52
<1> DEFINE n == 14
           values == FileHeader(segments)
           h == Laid(Elf32_Ehdr, values)
<1>1. Fielded(n, Elf32_Ehdr, values)
  <2>1. \A k \in 1 .. 14 : Elf32_Ehdr[k][2] \in Nat
    <3>1. \A k \in 1 .. 14 : <<16, 2, 2, 4, 4, 4, 4, 4, 2, 2, 2, 2, 2, 2>>[k] \in Nat
      OBVIOUS
    <3> QED
      BY <3>1, FileHeaderFields
  <2>2. \A k \in 1 .. 14 : values[k] \in Nat
    BY HeaderValues
  <2> QED
    BY <2>1, <2>2, FileHeaderFields DEF Fielded
<1>2. n \in Nat
  OBVIOUS
<1> HIDE DEF n
<1>3. Placed(h, n, Elf32_Ehdr, values)
  BY <1>1, <1>2, LaidPlaces
<1>4. h \in Seq(Bytes) /\ Len(h) = OffsetOf(Elf32_Ehdr, n + 1)
  BY <1>3 DEF Placed
<1>5. n + 1 = 15
  BY DEF n
<1>6. Len(h) = 52
  BY <1>4, <1>5, FileHeaderOffsets
<1> QED
  BY <1>3, <1>4, <1>6 DEF n

LEMMA SegmentHeaderPlaced ==
  ASSUME NEW segments \in Seq(Segment), NEW k \in 1 .. Len(segments)
  PROVE  LET h == Laid(Elf32_Phdr, SegmentHeader(segments, k))
         IN  Placed(h, 8, Elf32_Phdr, SegmentHeader(segments, k)) /\ h \in Seq(Bytes) /\ Len(h) = 32
<1> DEFINE n == 8
           values == SegmentHeader(segments, k)
           h == Laid(Elf32_Phdr, values)
<1>1. Fielded(n, Elf32_Phdr, values)
  <2>1. \A i \in 1 .. 8 : Elf32_Phdr[i][2] \in Nat
    BY SegmentHeaderFields
  <2>2. \A i \in 1 .. 8 : values[i] \in Nat
    BY HeaderValues
  <2> QED
    BY <2>1, <2>2, SegmentHeaderFields DEF Fielded
<1>2. n \in Nat
  OBVIOUS
<1> HIDE DEF n
<1>3. Placed(h, n, Elf32_Phdr, values)
  BY <1>1, <1>2, LaidPlaces
<1>4. h \in Seq(Bytes) /\ Len(h) = OffsetOf(Elf32_Phdr, n + 1)
  BY <1>3 DEF Placed
<1>5. n + 1 = 9
  BY DEF n
<1>6. Len(h) = 32
  <2>1. OffsetOf(Elf32_Phdr, 9) = 4 * (9 - 1)
    BY SegmentHeaderOffsets
  <2> QED
    BY <1>4, <1>5, <2>1
<1> QED
  BY <1>3, <1>4, <1>6 DEF n

\* The headers of the segments follow each other, 32 bytes each.
Table(segments) == [k \in DOMAIN segments |-> Laid(Elf32_Phdr, SegmentHeader(segments, k))]

LEMMA TablePlaces ==
  ASSUME NEW segments \in Seq(Segment)
  PROVE  LET t == FlattenSeq(Table(segments))
         IN  /\ t \in Seq(Bytes) /\ Len(t) = 32 * Len(segments)
             /\ \A k \in 1 .. Len(segments) : \A j \in 1 .. 32 :
                  t[32 * (k - 1) + j] = Laid(Elf32_Phdr, SegmentHeader(segments, k))[j]
<1> DEFINE n == Len(segments)
           H(k) == Laid(Elf32_Phdr, SegmentHeader(segments, k))
           seqs == Table(segments)
           t == FlattenSeq(seqs)
<1>1. n \in Nat /\ DOMAIN segments = 1 .. n
  OBVIOUS
<1>2. \A k \in 1 .. n : H(k) \in Seq(Bytes) /\ Len(H(k)) = 32
  BY SegmentHeaderPlaced
<1>3. seqs = [k \in 1 .. n |-> H(k)]
  BY <1>1 DEF Table
<1>4. t = FlattenSeq(seqs)
  OBVIOUS
<1> HIDE DEF n, H, seqs, t
<1>5. seqs \in Seq(Seq(Bytes)) /\ Len(seqs) = n /\ \A k \in 1 .. n : seqs[k] = H(k) /\ Len(seqs[k]) = 32
  <2>1. seqs \in [1 .. n -> Seq(Bytes)]
    BY <1>2, <1>3
  <2> QED
    BY <1>1, <1>2, <1>3, <2>1
<1>6. Starts(seqs, 1) = 0 /\ \A k \in 1 .. n :
        Starts(seqs, k) \in Nat /\ Starts(seqs, k + 1) = Starts(seqs, k) + 32
  <2>1. Starts(seqs, 1) = 0 /\ \A k \in 1 .. Len(seqs) :
          Starts(seqs, k) \in Nat /\ Starts(seqs, k + 1) = Starts(seqs, k) + Len(seqs[k])
    BY <1>5, StartsStep
  <2> QED
    BY <1>5, <2>1
<1> DEFINE Bad == {k \in 0 .. n : Starts(seqs, k + 1) # 32 * k}
<1>7. ASSUME Bad # {} PROVE FALSE
  <2>1. PICK k \in Bad : \A j \in Bad : k <= j
    <3>1. Bad \subseteq Nat
      OBVIOUS
    <3> HIDE DEF Bad
    <3> QED
      BY <1>7, <3>1, SmallestNumber
  <2>2. k # 0
    BY <1>6
  <2> DEFINE m == k - 1
  <2>3. k \in 1 .. n /\ m \in 0 .. n /\ ~(k <= m) /\ m + 1 = k
    BY <1>1, <2>2
  <2> HIDE DEF m
  <2>4. Starts(seqs, k) = 32 * m
    <3>1. m \notin Bad
      BY <2>1, <2>3
    <3> QED
      BY <2>3, <3>1
  <2>5. Starts(seqs, k + 1) = 32 * m + 32
    BY <1>6, <2>3, <2>4
  <2>6. Starts(seqs, k + 1) = 32 * k
    BY <2>3, <2>5
  <2> QED
    BY <2>1, <2>6
<1>8. \A k \in 0 .. n : Starts(seqs, k + 1) = 32 * k
  BY <1>7
<1> HIDE DEF Bad
<1>9. ASSUME NEW k \in 1 .. n PROVE Starts(seqs, k) = 32 * (k - 1)
  <2> DEFINE m == k - 1
  <2>1. m \in 0 .. n /\ m + 1 = k
    BY <1>1
  <2> HIDE DEF m
  <2>2. Starts(seqs, m + 1) = 32 * m
    BY <1>8, <2>1
  <2> QED
    BY <2>1, <2>2 DEF m
<1>10. Bytes \subseteq Int
  BY DEF Bytes
<1>11. /\ t \in Seq(Bytes) /\ Len(t) = Starts(seqs, Len(seqs) + 1)
       /\ \A k \in 1 .. Len(seqs) : \A i \in 1 .. Len(seqs[k]) : t[Starts(seqs, k) + i] = seqs[k][i]
  <2>1. Flat(t, seqs, Bytes)
    BY <1>5, <1>10, <1>4, FlatPlaces
  <2> QED
    BY <2>1 DEF Flat
<1>12. Len(t) = 32 * n
  BY <1>1, <1>5, <1>8, <1>11
<1>13. ASSUME NEW k \in 1 .. n, NEW j \in 1 .. 32 PROVE t[32 * (k - 1) + j] = H(k)[j]
  <2> DEFINE start == Starts(seqs, k)
  <2>1. start = 32 * (k - 1) /\ seqs[k] = H(k) /\ k \in 1 .. Len(seqs) /\ j \in 1 .. Len(seqs[k])
    BY <1>5, <1>9
  <2>2. t[start + j] = seqs[k][j]
    BY <1>11, <2>1
  <2> HIDE DEF start
  <2> QED
    BY <2>1, <2>2
<1> QED
  BY <1>11, <1>12, <1>13 DEF n, H, seqs, t

\* What the loader reads where a field's bytes are is the field's value.
Held(buffer, from, v, width) == \A j \in 1 .. width : buffer[from + j] = Little(v, width)[j]

LEMMA ShortRead ==
  ASSUME NEW buffer, NEW from \in Nat, NEW v \in Nat, High(v) < 256, Held(buffer, from, v, 2)
  PROVE  Short(buffer, from) = v
<1> DEFINE t == Little(v, 2)
<1>1. t[1] + 256 * t[2] = v
  BY LittleRead
<1> HIDE DEF t
<1>2. buffer[from + 1] = t[1] /\ buffer[from + 2] = t[2]
  BY DEF Held, t
<1> QED
  BY <1>1, <1>2 DEF Short

LEMMA LongRead ==
  ASSUME NEW buffer, NEW from \in Nat, NEW v \in Nat, High(High(High(v))) < 256, Held(buffer, from, v, 4)
  PROVE  Long(buffer, from) = v
<1> DEFINE f == Little(v, 4)
<1>1. (f[1] + 256 * f[2]) + 256 * 256 * (f[3] + 256 * f[4]) = v
  BY LittleRead
<1> HIDE DEF f
<1>2. buffer[from + 1] = f[1] /\ buffer[from + 2] = f[2] /\ buffer[from + 3] = f[3] /\ buffer[from + 4] = f[4]
  BY DEF Held, f
<1>3. Short(buffer, from) = f[1] + 256 * f[2]
  BY <1>2 DEF Short
<1>4. Short(buffer, from + 2) = f[3] + 256 * f[4]
  <2> DEFINE at == from + 2
  <2>1. at + 1 = from + 3 /\ at + 2 = from + 4
    OBVIOUS
  <2> HIDE DEF at
  <2>2. Short(buffer, at) = f[3] + 256 * f[4]
    BY <1>2, <2>1 DEF Short
  <2> QED
    BY <2>2 DEF at
<1>5. Long(buffer, from) = Short(buffer, from) + 256 * 256 * Short(buffer, from + 2)
  BY DEF Long
<1> QED
  BY <1>1, <1>3, <1>4, <1>5

Counted(v, width) == (width = 2 /\ High(v) < 256) \/ (width = 4 /\ High(High(High(v))) < 256)

LEMMA MemberRead ==
  ASSUME NEW struct, NEW name, NEW k, Only(k, struct, name), NEW buffer, NEW at \in Nat,
         NEW offset \in Nat, OffsetOf(struct, k) = offset, NEW v \in Nat, Counted(v, struct[k][2]),
         Held(buffer, at + offset, v, struct[k][2])
  PROVE  Member(buffer, at, struct, name) = v
<1> DEFINE from == at + offset
<1>1. Member(buffer, at, struct, name) = IF struct[k][2] = 2 THEN Short(buffer, from) ELSE Long(buffer, from)
  BY FieldFound
<1>2. from \in Nat
  OBVIOUS
<1> HIDE DEF from
<1>3. CASE struct[k][2] = 2
  <2>1. High(v) < 256 /\ Held(buffer, from, v, 2)
    BY <1>3 DEF Counted, from
  <2>2. Short(buffer, from) = v
    BY <1>2, <2>1, ShortRead
  <2> QED
    BY <1>1, <1>3, <2>2
<1>4. CASE struct[k][2] # 2
  <2>1. High(High(High(v))) < 256 /\ Held(buffer, from, v, 4)
    BY <1>4 DEF Counted, from
  <2>2. Long(buffer, from) = v
    BY <1>2, <2>1, LongRead
  <2> QED
    BY <1>1, <1>4, <2>2
<1> QED
  BY <1>3, <1>4

\* What is where in a file.
FileHeaderHeld(file, n) ==
  Held(file, 24, 4100, 4) /\ Held(file, 28, 52, 4) /\ Held(file, 44, n, 2)
SegmentHeaderHeld(file, segments, k) ==
  \A i \in 1 .. 8 : Held(file, 52 + 32 * (k - 1) + 4 * (i - 1), SegmentHeader(segments, k)[i], 4)
BodyHeld(file, segments, k) ==
  LET start == 52 + 32 * Len(segments) + Before(segments, k)
      size == Len(segments[k].bytes)
  IN start + size <= Len(file) /\ \A j \in 1 .. size : file[start + j] = segments[k].bytes[j]

LEMMA FileHeaderRead ==
  ASSUME NEW segments \in Seq(Segment)
  PROVE  FileHeaderHeld(Laid(Elf32_Ehdr, FileHeader(segments)), Len(segments))
<1> DEFINE h == Laid(Elf32_Ehdr, FileHeader(segments))
           n == Len(segments)
           values == FileHeader(segments)
<1>1. \A k \in 1 .. 14 : Held(h, OffsetOf(Elf32_Ehdr, k), values[k], Elf32_Ehdr[k][2])
  BY FileHeaderPlaced DEF Placed, Held
<1>2. Elf32_Ehdr[5][2] = 4 /\ Elf32_Ehdr[6][2] = 4 /\ Elf32_Ehdr[11][2] = 2
  BY FileHeaderFields
<1>3. values[5] = 4100 /\ values[6] = 52 /\ values[11] = n
  BY DEF FileHeader
<1> HIDE DEF h, n, values
<1>4. 5 \in 1 .. 14 /\ 6 \in 1 .. 14 /\ 11 \in 1 .. 14
  OBVIOUS
<1>5. Held(h, 24, 4100, 4)
  <2>1. Held(h, OffsetOf(Elf32_Ehdr, 5), values[5], Elf32_Ehdr[5][2])
    BY <1>1, <1>4
  <2> QED
    BY <1>2, <1>3, <2>1, FileHeaderOffsets
<1>6. Held(h, 28, 52, 4)
  <2>1. Held(h, OffsetOf(Elf32_Ehdr, 6), values[6], Elf32_Ehdr[6][2])
    BY <1>1, <1>4
  <2> QED
    BY <1>2, <1>3, <2>1, FileHeaderOffsets
<1>7. Held(h, 44, n, 2)
  <2>1. Held(h, OffsetOf(Elf32_Ehdr, 11), values[11], Elf32_Ehdr[11][2])
    BY <1>1, <1>4
  <2> QED
    BY <1>2, <1>3, <2>1, FileHeaderOffsets
<1> QED
  BY <1>5, <1>6, <1>7 DEF FileHeaderHeld, h, n

LEMMA SegmentHeaderRead ==
  ASSUME NEW segments \in Seq(Segment), NEW k \in 1 .. Len(segments), NEW i \in 1 .. 8
  PROVE  Held(Laid(Elf32_Phdr, SegmentHeader(segments, k)), 4 * (i - 1), SegmentHeader(segments, k)[i], 4)
<1> DEFINE values == SegmentHeader(segments, k)
           h == Laid(Elf32_Phdr, values)
<1>1. \A m \in 1 .. 8 : \A j \in 1 .. Elf32_Phdr[m][2] :
        h[OffsetOf(Elf32_Phdr, m) + j] = Little(values[m], Elf32_Phdr[m][2])[j]
  BY SegmentHeaderPlaced DEF Placed
<1>2. Elf32_Phdr[i][2] = 4 /\ OffsetOf(Elf32_Phdr, i) = 4 * (i - 1)
  <2>1. i \in 1 .. 9
    OBVIOUS
  <2> QED
    BY <2>1, SegmentHeaderFields, SegmentHeaderOffsets
<1> HIDE DEF values, h
<1>3. \A j \in 1 .. 4 : h[4 * (i - 1) + j] = Little(values[i], 4)[j]
  BY <1>1, <1>2
<1> QED
  BY <1>3 DEF Held, values, h

\* A part of a file holds what it holds wherever it begins.
Carries(file, start, part, size) == \A j \in 1 .. size : file[start + j] = part[j]

LEMMA HeldFurther ==
  ASSUME NEW part, NEW file, NEW start \in Nat, NEW size \in Nat, NEW at \in Nat, NEW v, NEW width \in Nat,
         at + width <= size, Carries(file, start, part, size), Held(part, at, v, width)
  PROVE  Held(file, start + at, v, width)
<1>1. ASSUME NEW j \in 1 .. width PROVE file[start + at + j] = Little(v, width)[j]
  <2> DEFINE m == at + j
             x == Little(v, width)
  <2>1. part[m] = x[j]
    BY DEF Held
  <2>2. m \in 1 .. size /\ start + at + j = start + m
    OBVIOUS
  <2> HIDE DEF m, x
  <2>3. file[start + m] = x[j]
    BY <2>1, <2>2 DEF Carries
  <2> QED
    BY <2>2, <2>3 DEF x
<1> QED
  BY <1>1 DEF Held

LEMMA ElfPlaces ==
  ASSUME NEW segments \in Seq(Segment)
  PROVE  LET file == ElfFile(segments)
         IN  /\ file \in Seq(Int) /\ FileHeaderHeld(file, Len(segments))
             /\ Len(file) >= 52 + 32 * Len(segments)
             /\ \A k \in 1 .. Len(segments) : SegmentHeaderHeld(file, segments, k) /\ BodyHeld(file, segments, k)
<1> DEFINE n == Len(segments)
           a == Laid(Elf32_Ehdr, FileHeader(segments))
           b == FlattenSeq(Table(segments))
           c == FlattenSeq(Bodies(segments))
           file == ElfFile(segments)
           top == Len(b)
<1>1. file = a \o b \o c
  BY DEF ElfFile, Table, Bodies
<1>2. n \in Nat
  OBVIOUS
<1>3. a \in Seq(Bytes) /\ Len(a) = 52
  BY FileHeaderPlaced
<1>4. FileHeaderHeld(a, n)
  BY FileHeaderRead
<1>5. b \in Seq(Bytes) /\ top = 32 * n
  BY TablePlaces
<1>6. \A k \in 1 .. n : \A j \in 1 .. 32 : b[32 * (k - 1) + j] = Laid(Elf32_Phdr, SegmentHeader(segments, k))[j]
  BY TablePlaces
<1>7. Bytes \subseteq Int
  BY DEF Bytes
<1>8. Flat(c, Bodies(segments), Bytes)
  BY <1>7, BodiesApart, FlatPlaces
<1>9. c \in Seq(Bytes) /\ \A k \in 1 .. n :
        /\ Before(segments, k) + Len(segments[k].bytes) <= Len(c)
        /\ \A j \in 1 .. Len(segments[k].bytes) : c[Before(segments, k) + j] = segments[k].bytes[j]
  <2>1. c \in Seq(Bytes)
    BY <1>8 DEF Flat
  <2>2. ASSUME NEW k \in 1 .. n
        PROVE  /\ Before(segments, k) + Len(segments[k].bytes) <= Len(c)
               /\ \A j \in 1 .. Len(segments[k].bytes) : c[Before(segments, k) + j] = segments[k].bytes[j]
    <3> DEFINE bodies == Bodies(segments)
    <3>1. k \in 1 .. Len(bodies) /\ bodies[k] = segments[k].bytes
      BY BodiesApart
    <3>2. Starts(bodies, k) = Before(segments, k)
      <4>1. k \in 1 .. Len(segments) + 1
        BY <1>2
      <4> QED
        BY <4>1, BodiesApart
    <3> HIDE DEF bodies, c
    <3>3. /\ Starts(bodies, k) + Len(bodies[k]) <= Len(c)
          /\ \A j \in 1 .. Len(bodies[k]) : c[Starts(bodies, k) + j] = bodies[k][j]
      BY <1>8, <3>1 DEF Flat, bodies
    <3> QED
      BY <3>1, <3>2, <3>3
  <2> QED
    BY <2>1, <2>2
<1> HIDE DEF n, a, b, c, file
<1>10. a \in Seq(Int) /\ b \in Seq(Int) /\ c \in Seq(Int) /\ Len(c) \in Nat
  BY <1>3, <1>5, <1>7, <1>9, SeqMonotonic, LenProperties
<1>11. /\ file \in Seq(Int) /\ Len(file) = 52 + top + Len(c)
       /\ \A j \in 1 .. 52 : file[j] = a[j]
       /\ \A j \in 1 .. top : file[52 + j] = b[j]
       /\ \A j \in 1 .. Len(c) : file[52 + top + j] = c[j]
  <2>1. Parts(file, a, b, c)
    BY <1>1, <1>10, ThreeJoined
  <2> QED
    BY <1>3, <2>1 DEF Parts
<1> HIDE DEF top
<1>12. FileHeaderHeld(file, n)
  <2> DEFINE zero == 0
             fifty2 == 52
  <2>1. zero \in Nat /\ fifty2 \in Nat /\ Carries(file, zero, a, fifty2)
    BY <1>11 DEF Carries
  <2>2. \A at, width \in Nat : at + width <= 52 => at + width <= fifty2 /\ zero + at = at
    OBVIOUS
  <2> HIDE DEF zero, fifty2
  <2>3. ASSUME NEW at \in Nat, NEW width \in Nat, NEW v, at + width <= 52, Held(a, at, v, width)
        PROVE  Held(file, at, v, width)
    <3>1. Held(file, zero + at, v, width)
      BY <2>1, <2>2, <2>3, HeldFurther
    <3> QED
      BY <2>2, <2>3, <3>1
  <2>4. Held(file, 24, 4100, 4)
    BY <1>4, <2>3 DEF FileHeaderHeld
  <2>5. Held(file, 28, 52, 4)
    BY <1>4, <2>3 DEF FileHeaderHeld
  <2>6. Held(file, 44, n, 2)
    BY <1>4, <2>3 DEF FileHeaderHeld
  <2> QED
    BY <2>4, <2>5, <2>6 DEF FileHeaderHeld
<1>13. ASSUME NEW k \in 1 .. n PROVE SegmentHeaderHeld(file, segments, k)
  <2> DEFINE h == Laid(Elf32_Phdr, SegmentHeader(segments, k))
             start == 52 + 32 * (k - 1)
  <2>1. \A j \in 1 .. 32 : b[32 * (k - 1) + j] = h[j]
    BY <1>6
  <2>2. start \in Nat /\ \A j \in 1 .. 32 : 32 * (k - 1) + j \in 1 .. top /\ 52 + (32 * (k - 1) + j) = start + j
    BY <1>2, <1>5
  <2>3. \A j \in 1 .. 32 : file[start + j] = h[j]
    <3> SUFFICES ASSUME NEW j \in 1 .. 32 PROVE file[start + j] = h[j]
      OBVIOUS
    <3> DEFINE m == 32 * (k - 1) + j
    <3>1. m \in 1 .. top /\ 52 + m = start + j /\ b[m] = h[j]
      BY <2>1, <2>2
    <3> HIDE DEF m, start, h
    <3> QED
      BY <1>11, <3>1
  <2>4. k \in 1 .. Len(segments) /\ Carries(file, start, h, 32)
    BY <2>3 DEF n, Carries
  <2>5. ASSUME NEW i \in 1 .. 8 PROVE Held(file, start + 4 * (i - 1), SegmentHeader(segments, k)[i], 4)
    <3> DEFINE at == 4 * (i - 1)
               v == SegmentHeader(segments, k)[i]
    <3>1. Held(h, at, v, 4)
      BY <2>4, SegmentHeaderRead
    <3>2. at \in Nat /\ at + 4 <= 32
      OBVIOUS
    <3> HIDE DEF start, h, at, v
    <3>3. Held(file, start + at, v, 4)
      BY <2>2, <2>4, <3>1, <3>2, HeldFurther
    <3> QED
      BY <3>3 DEF at, v
  <2> QED
    BY <2>5 DEF SegmentHeaderHeld
<1>14. ASSUME NEW k \in 1 .. n PROVE BodyHeld(file, segments, k)
  <2> DEFINE size == Len(segments[k].bytes)
             before == Before(segments, k)
  <2>1. before \in Nat /\ size \in Nat
    <3>1. k \in 1 .. Len(segments)
      BY DEF n
    <3> QED
      BY <3>1, HeaderValues
  <2>2. before + size <= Len(c) /\ \A j \in 1 .. size : c[before + j] = segments[k].bytes[j]
    BY <1>9
  <2> HIDE DEF before, size
  <2>3. ASSUME NEW j \in 1 .. size PROVE file[52 + 32 * n + before + j] = segments[k].bytes[j]
    <3> DEFINE m == before + j
    <3>1. m \in 1 .. Len(c) /\ 52 + top + m = 52 + 32 * n + before + j
      BY <1>2, <1>5, <1>10, <2>1, <2>2
    <3>2. c[m] = segments[k].bytes[j]
      BY <2>2
    <3> HIDE DEF m
    <3>3. file[52 + top + m] = c[m]
      BY <1>11, <3>1
    <3> QED
      BY <3>1, <3>2, <3>3
  <2>4. 52 + 32 * n + before + size <= Len(file)
    BY <1>2, <1>5, <1>10, <1>11, <2>1, <2>2
  <2> QED
    BY <2>3, <2>4 DEF BodyHeld, before, size, n
<1>15. Len(file) >= 52 + 32 * n
  BY <1>2, <1>5, <1>10, <1>11
<1> QED
  BY <1>11, <1>12, <1>13, <1>14, <1>15 DEF file, n

LEMMA HighRest ==
  ASSUME NEW x \in Nat PROVE High(x) \in Nat /\ \E r \in 0 .. 255 : x = 256 * High(x) + r
<1> DEFINE r == x % 256
<1>1. x = 256 * High(x) + r /\ r \in 0 .. 255 /\ High(x) \in Nat
  BY HighLow
<1> HIDE DEF r
<1> QED
  BY <1>1

\* Numbers that fit where a larger one does.
LEMMA HighMonotone == \A x \in Nat, y \in Nat : x <= y => High(x) <= High(y)
<1>1. ASSUME NEW x \in Nat, NEW y \in Nat, x <= y PROVE High(x) <= High(y)
  <2> DEFINE a == High(x)
             b == High(y)
  <2>1. /\ a \in Nat /\ \E r \in 0 .. 255 : x = 256 * a + r
        /\ b \in Nat /\ \E r \in 0 .. 255 : y = 256 * b + r
    BY HighRest
  <2> HIDE DEF a, b
  <2>2. a <= b
    BY <1>1, <2>1
  <2> QED
    BY <2>2 DEF a, b
<1> QED
  BY <1>1

LEMMA SmallerFits ==
  ASSUME NEW y \in Nat, High(High(High(y))) < 256, NEW x \in Nat, x <= y
  PROVE  Counted(x, 4)
<1>1. High(x) \in Nat /\ High(y) \in Nat /\ High(x) <= High(y)
  BY HighLow, HighMonotone
<1>2. High(High(x)) \in Nat /\ High(High(y)) \in Nat /\ High(High(x)) <= High(High(y))
  BY <1>1, HighLow, HighMonotone
<1>3. High(High(High(x))) \in Nat /\ High(High(High(y))) \in Nat /\ High(High(High(x))) <= High(High(High(y)))
  BY <1>2, HighLow, HighMonotone
<1>4. High(High(High(x))) < 256
  BY <1>3
<1> QED
  BY <1>4 DEF Counted

LEMMA AddressFits ==
  ASSUME NEW k \in Nat, High(k) < 256
  PROVE  4096 * k \in Nat /\ Counted(4096 * k, 4)
<1> DEFINE x == 4096 * k
           y == High(x)
           z == High(y)
<1>1. x \in Nat /\ x = 4096 * k
  OBVIOUS
<1> HIDE DEF x
<1>2. y \in Nat /\ \E r \in 0 .. 255 : x = 256 * y + r
  BY <1>1, HighRest
<1> HIDE DEF y
<1>3. z \in Nat /\ \E r \in 0 .. 255 : y = 256 * z + r
  BY <1>2, HighRest
<1> HIDE DEF z
<1>4. y = 16 * k
  BY <1>1, <1>2
<1>5. z <= k
  BY <1>3, <1>4
<1>6. High(z) \in Nat /\ High(k) \in Nat /\ High(z) <= High(k)
  <2>1. High(z) \in Nat /\ High(k) \in Nat
    BY <1>3, HighRest
  <2> QED
    BY <1>3, <1>5, <2>1, HighMonotone
<1>7. High(z) < 256
  BY <1>6
<1> QED
  BY <1>1, <1>7 DEF Counted, x, y, z

LEMMA LowFits == \A x \in 0 .. 255 : Counted(x, 4)
<1>1. High(0) = 0
  BY DEF High
<1>2. ASSUME NEW x \in 0 .. 255 PROVE Counted(x, 4)
  <2> DEFINE y == High(x)
  <2>1. x \in Nat /\ y \in Nat /\ \E r \in 0 .. 255 : x = 256 * y + r
    BY HighRest
  <2> HIDE DEF y
  <2>2. y = 0
    BY <2>1
  <2>3. High(High(High(x))) = 0
    BY <1>1, <2>2 DEF y
  <2> QED
    BY <2>3 DEF Counted
<1> QED
  BY <1>2

\* What loadelf reads of the header of a file, and of those of its segments.
LEMMA FileRead ==
  ASSUME NEW segments \in Seq(Segment), High(Len(segments)) < 256
  PROVE  LET file == ElfFile(segments)
         IN  /\ Member(file, 0, Elf32_Ehdr, "e_entry") = 4100
             /\ Member(file, 0, Elf32_Ehdr, "e_phoff") = 52
             /\ Member(file, 0, Elf32_Ehdr, "e_phnum") = Len(segments)
<1> DEFINE file == ElfFile(segments)
           n == Len(segments)
           zero == 0
<1>1. FileHeaderHeld(file, n)
  BY ElfPlaces
<1>2. n \in Nat /\ Counted(n, 2)
  BY DEF Counted
<1>3. Counted(4100, 4)
  <2> DEFINE x == 1
  <2>1. 4100 = 4096 * 1 + 4 /\ High(4100) = 16
    BY DEF High
  <2>2. High(16) = 0 /\ High(0) = 0
    BY DEF High
  <2> QED
    BY <2>1, <2>2 DEF Counted
<1>4. Counted(52, 4)
  BY LowFits
<1>5. Elf32_Ehdr[5][2] = 4 /\ Elf32_Ehdr[6][2] = 4 /\ Elf32_Ehdr[11][2] = 2
  BY FileHeaderFields
<1>6. Only(5, Elf32_Ehdr, "e_entry") /\ Only(6, Elf32_Ehdr, "e_phoff") /\ Only(11, Elf32_Ehdr, "e_phnum")
  <2>1. Len(Elf32_Ehdr) = 14
    BY DEF Elf32_Ehdr
  <2> QED
    BY <2>1, FileHeaderFields DEF Only
<1>7. zero \in Nat /\ zero + 24 = 24 /\ zero + 28 = 28 /\ zero + 44 = 44
  OBVIOUS
<1> HIDE DEF file, n, zero
<1>8. Held(file, zero + 24, 4100, 4) /\ Held(file, zero + 28, 52, 4) /\ Held(file, zero + 44, n, 2)
  BY <1>1, <1>7 DEF FileHeaderHeld
<1>9. Member(file, zero, Elf32_Ehdr, "e_entry") = 4100
  BY <1>3, <1>5, <1>6, <1>7, <1>8, FileHeaderOffsets, MemberRead
<1>10. Member(file, zero, Elf32_Ehdr, "e_phoff") = 52
  BY <1>4, <1>5, <1>6, <1>7, <1>8, FileHeaderOffsets, MemberRead
<1>11. Member(file, zero, Elf32_Ehdr, "e_phnum") = n
  BY <1>2, <1>5, <1>6, <1>7, <1>8, FileHeaderOffsets, MemberRead
<1> QED
  BY <1>9, <1>10, <1>11 DEF file, n, zero

LEMMA SegmentFits ==
  ASSUME NEW segments \in Seq(Segment), High(Len(segments)) < 256,
         High(High(High(Len(ElfFile(segments))))) < 256, NEW k \in 1 .. Len(segments), NEW i \in 1 .. 8
  PROVE  Counted(SegmentHeader(segments, k)[i], 4)
<1> DEFINE n == Len(segments)
           size == Len(segments[k].bytes)
           before == Before(segments, k)
           flags == segments[k].flags
           all == Len(ElfFile(segments))
           h == SegmentHeader(segments, k)
<1>1. n \in Nat /\ High(n) < 256 /\ k \in 1 .. n
  OBVIOUS
<1>2. before \in Nat /\ size \in Nat /\ flags \in 0 .. 7
  BY HeaderValues
<1>3. all \in Nat /\ High(High(High(all))) < 256
  BY ElfPlaces, LenProperties
<1>4. 52 + 32 * n + before + size <= all
  BY ElfPlaces DEF BodyHeld
<1>5. h = <<0, 52 + 32 * n + before, 4096 * k, 0, size, size + k, flags, 0>>
  BY DEF SegmentHeader
<1> HIDE DEF n, size, before, flags, all, h
<1>6. Counted(52 + 32 * n + before, 4) /\ Counted(size, 4) /\ Counted(size + k, 4)
  <2> DEFINE x == 52 + 32 * n + before
             y == size + k
  <2>1. x \in Nat /\ y \in Nat /\ x <= all /\ y <= all /\ size <= all
    BY <1>1, <1>2, <1>3, <1>4
  <2> HIDE DEF x, y
  <2>2. Counted(x, 4) /\ Counted(y, 4) /\ Counted(size, 4)
    BY <1>2, <1>3, <2>1, SmallerFits
  <2> QED
    BY <2>2 DEF x, y
<1>7. Counted(4096 * k, 4)
  <2>1. k \in Nat /\ k <= n
    BY <1>1
  <2>2. High(k) \in Nat /\ High(n) \in Nat /\ High(k) <= High(n)
    BY <1>1, <2>1, HighLow, HighMonotone
  <2>3. High(k) < 256
    BY <1>1, <2>2
  <2> QED
    BY <2>1, <2>3, AddressFits
<1>8. Counted(0, 4) /\ Counted(flags, 4)
  <2>1. flags \in 0 .. 255 /\ 0 \in 0 .. 255
    BY <1>2
  <2> QED
    BY <2>1, LowFits
<1>9. /\ h[1] = 0 /\ h[2] = 52 + 32 * n + before /\ h[3] = 4096 * k /\ h[4] = 0 /\ h[5] = size
      /\ h[6] = size + k /\ h[7] = flags /\ h[8] = 0
  BY <1>5
<1>10. /\ Counted(h[1], 4) /\ Counted(h[2], 4) /\ Counted(h[3], 4) /\ Counted(h[4], 4) /\ Counted(h[5], 4)
       /\ Counted(h[6], 4) /\ Counted(h[7], 4) /\ Counted(h[8], 4)
  <2> DEFINE x == 52 + 32 * n + before
             y == size + k
             a == 4096 * k
  <2>1. h[2] = x /\ h[3] = a /\ h[6] = y /\ Counted(x, 4) /\ Counted(y, 4) /\ Counted(a, 4)
    BY <1>6, <1>7, <1>9
  <2>2. h[1] = 0 /\ h[4] = 0 /\ h[5] = size /\ h[7] = flags /\ h[8] = 0
    BY <1>9
  <2> HIDE DEF x, y, a
  <2> QED
    BY <1>6, <1>8, <2>1, <2>2
<1>11. i \in {1, 2, 3, 4, 5, 6, 7, 8}
  OBVIOUS
<1> QED
  BY <1>10, <1>11 DEF h

LEMMA SegmentRead ==
  ASSUME NEW segments \in Seq(Segment), High(Len(segments)) < 256,
         High(High(High(Len(ElfFile(segments))))) < 256, NEW k \in 1 .. Len(segments)
  PROVE  LET Of(name) == Member(ElfFile(segments), Header(52, k), Elf32_Phdr, name)
             size == Len(segments[k].bytes)
         IN  /\ Of("p_offset") = 52 + 32 * Len(segments) + Before(segments, k) /\ Of("p_vaddr") = 4096 * k
             /\ Of("p_filesz") = size /\ Of("p_memsz") = size + k /\ Of("p_flags") = segments[k].flags
<1> DEFINE file == ElfFile(segments)
           h == SegmentHeader(segments, k)
           start == 52 + 32 * (k - 1)
<1>1. start \in Nat /\ Header(52, k) = start
  BY SegmentHeaderOffsets DEF Header
<1>2. /\ h[2] = 52 + 32 * Len(segments) + Before(segments, k) /\ h[3] = 4096 * k
      /\ h[5] = Len(segments[k].bytes) /\ h[6] = Len(segments[k].bytes) + k /\ h[7] = segments[k].flags
  BY DEF SegmentHeader
<1>3. /\ Only(2, Elf32_Phdr, "p_offset") /\ Only(3, Elf32_Phdr, "p_vaddr") /\ Only(5, Elf32_Phdr, "p_filesz")
      /\ Only(6, Elf32_Phdr, "p_memsz") /\ Only(7, Elf32_Phdr, "p_flags")
  <2>1. Len(Elf32_Phdr) = 8
    BY DEF Elf32_Phdr
  <2> QED
    BY <2>1, SegmentHeaderFields DEF Only
<1>4. SegmentHeaderHeld(file, segments, k)
  BY ElfPlaces
<1>5. ASSUME NEW i \in 1 .. 8, NEW name, Only(i, Elf32_Phdr, name)
      PROVE  Member(file, start, Elf32_Phdr, name) = h[i]
  <2> DEFINE offset == 4 * (i - 1)
             v == h[i]
  <2>1. offset \in Nat /\ OffsetOf(Elf32_Phdr, i) = offset
    <3>1. i \in 1 .. 9
      OBVIOUS
    <3> QED
      BY <3>1, SegmentHeaderOffsets
  <2>2. Elf32_Phdr[i][2] = 4
    BY SegmentHeaderFields
  <2>3. v \in Nat
    BY HeaderValues
  <2>4. Counted(v, 4)
    BY SegmentFits
  <2>5. Held(file, start + offset, v, 4)
    BY <1>4 DEF SegmentHeaderHeld
  <2> HIDE DEF file, start, offset, v
  <2>6. Member(file, start, Elf32_Phdr, name) = v
    BY <1>1, <1>5, <2>1, <2>2, <2>3, <2>4, <2>5, MemberRead
  <2> QED
    BY <2>6 DEF v
<1> DEFINE Of(name) == Member(file, Header(52, k), Elf32_Phdr, name)
<1>6. ASSUME NEW i \in 1 .. 8, NEW name, Only(i, Elf32_Phdr, name) PROVE Of(name) = h[i]
  BY <1>1, <1>5, <1>6
<1> HIDE DEF h, Of
<1>7. /\ Of("p_offset") = h[2] /\ Of("p_vaddr") = h[3] /\ Of("p_filesz") = h[5]
      /\ Of("p_memsz") = h[6] /\ Of("p_flags") = h[7]
  BY <1>3, <1>6
<1> QED
  BY <1>2, <1>7 DEF Of

LEMMA OddFlags == \A x \in 0 .. 7 : x % 2 = 1 <=> x \in {1, 3, 5, 7}
  OBVIOUS

\* The bytes of a segment are those from its offset on.
LEMMA BodyRead ==
  ASSUME NEW segments \in Seq(Segment), NEW k \in 1 .. Len(segments)
  PROVE  LET offset == 52 + 32 * Len(segments) + Before(segments, k)
             size == Len(segments[k].bytes)
         IN  SubSeq(ElfFile(segments), offset + 1, offset + size) = segments[k].bytes
<1> DEFINE file == ElfFile(segments)
           body == segments[k].bytes
           size == Len(body)
           offset == 52 + 32 * Len(segments) + Before(segments, k)
           m == offset + 1
           last == offset + size
           t == SubSeq(file, m, last)
<1>1. body \in Seq(Int)
  <2>1. segments[k] \in Segment
    BY ElementOfSeq
  <2>2. body \in Seq(0 .. 255)
    BY <2>1 DEF Segment
  <2>3. 0 .. 255 \subseteq Int
    OBVIOUS
  <2> HIDE DEF body
  <2> QED
    BY <2>2, <2>3, SeqMonotonic
<1>2. offset \in Nat /\ size \in Nat /\ Len(segments) \in Nat
  <2> DEFINE before == Before(segments, k)
  <2>1. before \in Nat /\ size \in Nat
    BY HeaderValues
  <2>2. Len(segments) \in Nat
    OBVIOUS
  <2> HIDE DEF before
  <2>3. 52 + 32 * Len(segments) + before \in Nat
    BY <2>1, <2>2
  <2> QED
    BY <2>1, <2>2, <2>3 DEF before
<1>3. \A j \in 1 .. size : file[offset + j] = body[j]
  BY ElfPlaces DEF BodyHeld
<1>4. \A j \in 1 .. size : body[j] \in Int
  BY <1>1, ElementOfSeq
<1> HIDE DEF file, body, size, offset
<1>5. m \in Int /\ last \in Int /\ m = offset + 1 /\ last = offset + size
  BY <1>2
<1>6. ASSUME NEW j \in m .. last PROVE file[j] \in Int
  <2> DEFINE i == j - offset
  <2>1. i \in 1 .. size /\ offset + i = j
    BY <1>2, <1>5
  <2> HIDE DEF i
  <2>2. file[offset + i] = body[i] /\ body[i] \in Int
    BY <1>3, <1>4, <2>1
  <2> QED
    BY <2>1, <2>2
<1> HIDE DEF m, last
<1>7. /\ t \in Seq(Int) /\ Len(t) = (IF m <= last THEN last - m + 1 ELSE 0)
      /\ \A j \in 1 .. last - m + 1 : t[j] = file[m + j - 1]
  BY <1>5, <1>6, SubSeqProperties
<1> HIDE DEF t
<1>8. Len(t) = size /\ last - m + 1 = size
  BY <1>2, <1>5, <1>7
<1>9. ASSUME NEW j \in 1 .. size PROVE t[j] = body[j]
  <2>1. m + j - 1 = offset + j
    BY <1>2, <1>5
  <2>2. t[j] = file[m + j - 1]
    BY <1>7, <1>8
  <2> DEFINE at == m + j - 1
             here == offset + j
  <2>3. t[j] = file[at] /\ at = here /\ file[here] = body[j]
    BY <1>3, <2>1, <2>2
  <2> HIDE DEF at, here
  <2> QED
    BY <2>3
<1>10. size = Len(body)
  BY DEF size
<1>11. t = body
  BY <1>1, <1>7, <1>8, <1>9, <1>10, SeqEqual
<1> QED
  BY <1>11 DEF t, file, body, size, offset, m, last

Listed(segments) == {k \in DOMAIN segments : segments[k].flags \in {1, 3, 5, 7}}

LEMMA ExecutableListed ==
  ASSUME NEW segments \in Seq(Segment), High(Len(segments)) < 256,
         High(High(High(Len(ElfFile(segments))))) < 256
  PROVE  Executable(ElfFile(segments), 52) = Listed(segments)
<1> DEFINE file == ElfFile(segments)
           n == Len(segments)
           Flags(k) == Member(file, Header(52, k), Elf32_Phdr, "p_flags")
<1>1. Headers(file) = 1 .. n
  BY FileRead DEF Headers
<1>2. DOMAIN segments = 1 .. n
  OBVIOUS
<1>3. ASSUME NEW k \in 1 .. n PROVE Flags(k) = segments[k].flags /\ segments[k].flags \in 0 .. 7
  <2>1. Flags(k) = segments[k].flags
    BY SegmentRead
  <2>2. segments[k].flags \in 0 .. 7
    BY HeaderValues
  <2> QED
    BY <2>1, <2>2
<1>4. Executable(file, 52) = {k \in Headers(file) : Flags(k) % 2 = 1}
  BY DEF Executable
<1>5. Listed(segments) = {k \in DOMAIN segments : segments[k].flags \in {1, 3, 5, 7}}
  BY DEF Listed
<1> HIDE DEF file, n, Flags
<1>6. ASSUME NEW k \in 1 .. n PROVE Flags(k) % 2 = 1 <=> segments[k].flags \in {1, 3, 5, 7}
  <2> DEFINE x == Flags(k)
  <2>1. x \in 0 .. 7 /\ segments[k].flags = x
    BY <1>3
  <2> HIDE DEF x
  <2>2. x % 2 = 1 <=> x \in {1, 3, 5, 7}
    BY <2>1, OddFlags
  <2> QED
    BY <2>1, <2>2 DEF x
<1>7. Executable(file, 52) = Listed(segments)
  BY <1>1, <1>2, <1>4, <1>5, <1>6, Zenon
<1> QED
  BY <1>7 DEF file

\* What loadelf lists of a file are its executable segments.
THEOREM FileListed ==
  ASSUME NEW segments \in Seq(Segment), High(Len(segments)) < 256,
         High(High(High(Len(ElfFile(segments))))) < 256
  PROVE  LET found == LoadElf(ElfFile(segments))
         IN  /\ found.entry = 4100
             /\ found.dumps = [k \in Listed(segments) |->
                  <<4096 * k, Len(segments[k].bytes) + k, segments[k].bytes>>]
<1> DEFINE file == ElfFile(segments)
           found == LoadElf(file)
           phoff == Member(file, 0, Elf32_Ehdr, "e_phoff")
           Of(i, name) == Member(file, Header(phoff, i), Elf32_Phdr, name)
           Dump(i) == <<Of(i, "p_vaddr"), Of(i, "p_memsz"),
                        SubSeq(file, Of(i, "p_offset") + 1, Of(i, "p_offset") + Of(i, "p_filesz"))>>
           Segmented(k) == <<4096 * k, Len(segments[k].bytes) + k, segments[k].bytes>>
<1>1. Member(file, 0, Elf32_Ehdr, "e_entry") = 4100 /\ phoff = 52
  BY FileRead
<1>2. /\ found.entry = Member(file, 0, Elf32_Ehdr, "e_entry")
      /\ found.dumps = [i \in Executable(file, phoff) |-> Dump(i)]
  BY DEF LoadElf
<1>3. Executable(file, phoff) = Listed(segments)
  BY <1>1, ExecutableListed
<1>4. ASSUME NEW k \in Listed(segments) PROVE Dump(k) = Segmented(k)
  <2> DEFINE offset == 52 + 32 * Len(segments) + Before(segments, k)
             size == Len(segments[k].bytes)
  <2>1. k \in 1 .. Len(segments)
    BY DEF Listed
  <2>2. /\ Of(k, "p_offset") = offset /\ Of(k, "p_vaddr") = 4096 * k
        /\ Of(k, "p_filesz") = size /\ Of(k, "p_memsz") = size + k
    BY <1>1, <2>1, SegmentRead
  <2>3. SubSeq(file, offset + 1, offset + size) = segments[k].bytes
    BY <2>1, BodyRead
  <2> HIDE DEF Of, offset
  <2> QED
    BY <2>2, <2>3
<1> HIDE DEF file, found, phoff, Dump, Segmented
<1>5. found.dumps = [k \in Listed(segments) |-> Segmented(k)]
  BY <1>2, <1>3, <1>4
<1> QED
  BY <1>1, <1>2, <1>5 DEF found, file, Segmented

\* loadelf lists the executable segments of a file, each with its own bytes,
\* whatever the segments are and however many.
THEOREM FilesAlwaysListed == Spec => []ElfLaw
<1>1. case \in Cases => ElfLaw
  <2> SUFFICES ASSUME case \in Cases, case.kind = "elf" PROVE ElfLaw
    BY DEF ElfLaw
  <2> DEFINE segments == case.segments
  <2>1. /\ segments \in Seq(Segment) /\ High(Len(segments)) < 256
        /\ High(High(High(Len(ElfFile(segments))))) < 256
    BY FilesAssumption DEF Segment
  <2> HIDE DEF segments
  <2>2. LET found == LoadElf(ElfFile(segments))
        IN  /\ found.entry = 4100
            /\ found.dumps = [k \in Listed(segments) |->
                 <<4096 * k, Len(segments[k].bytes) + k, segments[k].bytes>>]
    BY <2>1, FileListed
  <2> QED
    BY <2>2 DEF ElfLaw, Listed, segments
<1> QED
  BY <1>1, CaseStays, PTL
=============================================================================
