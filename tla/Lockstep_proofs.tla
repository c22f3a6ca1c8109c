-------------------------- MODULE Lockstep_proofs ---------------------------
(***************************************************************************)
(* The machines of Lockstep.tla, for every width, memory, program and      *)
(* value: registers hold words and RAM bytes on both; x0, which rv32_cycle *)
(* clears before an instruction and not after it, is zero to every         *)
(* instruction; the fork does what the header does until they part; and    *)
(* the header's machine implements the hart of Rv32Hart.tla.               *)
(***************************************************************************)
EXTENDS Lockstep, Rv32Isa_proofs

-----------------------------------------------------------------------------
(* Words and their bytes *)

Quarter == W \div 4

LEMMA QuarterFacts ==
  /\ W = 4 * Quarter /\ Quarter \in 0 .. W /\ Quarter \in Nat
  /\ 2^Quarter \in Nat /\ 2^Quarter > 0 /\ Byte = 0 .. 2^Quarter - 1
  /\ \A k \in 0 .. 4 : k * Quarter \in 0 .. W /\ 2^(k * Quarter) \in Nat /\ 2^(k * Quarter) > 0
  /\ 2^(0 * Quarter) = 1
  /\ \A k \in 0 .. 3 : 2^((k + 1) * Quarter) = 2^(k * Quarter) * 2^Quarter
<1>1. W \in Nat /\ W % 4 = 0
  BY WidthAssumption, MachineAssumption
<1>2. W = 4 * Quarter /\ Quarter \in Nat
  <2> DEFINE q == W \div 4
             r == W % 4
  <2>1. 4 \in Nat /\ 4 > 0 /\ W \in Int
    BY <1>1
  <2>2. W = 4 * q + r /\ q \in Int /\ r \in 0 .. 4 - 1
    BY <2>1, Division
  <2> QED
    BY <1>1, <2>2 DEF Quarter
<1>3. Quarter \in 0 .. W /\ \A k \in 0 .. 4 : k * Quarter \in 0 .. W
  BY <1>1, <1>2
<1>4. 2^Quarter \in Nat /\ 2^Quarter > 0
  BY <1>3, PowerPositive
<1>5. \A k \in 0 .. 4 : 2^(k * Quarter) \in Nat /\ 2^(k * Quarter) > 0
  BY <1>3, PowerPositive
<1>6. 2^(0 * Quarter) = 1
  <2>1. 0 * Quarter = 0
    BY <1>2
  <2> QED
    BY <2>1, PowerAssumption
<1>7. ASSUME NEW k \in 0 .. 3 PROVE 2^((k + 1) * Quarter) = 2^(k * Quarter) * 2^Quarter
  <2> DEFINE i == k * Quarter
  <2>1. i \in 0 .. W /\ Quarter \in 0 .. W - i /\ (k + 1) * Quarter = i + Quarter
    BY <1>2
  <2> HIDE DEF i
  <2>2. 2^(i + Quarter) = 2^i * 2^Quarter
    BY <2>1, PowerSum
  <2> QED
    BY <2>1, <2>2 DEF i
<1>8. Byte = 0 .. 2^Quarter - 1
  BY DEF Byte, Quarter
<1> QED
  BY <1>2, <1>3, <1>4, <1>5, <1>6, <1>7, <1>8

Summands(bytes, n) == [k \in 0 .. n - 1 |-> bytes[k] * 2^(k * Quarter)]

LEMMA SummandsType ==
  ASSUME NEW n \in 0 .. 4, NEW bytes \in [0 .. n - 1 -> Byte]
  PROVE  IsFiniteSet(0 .. n - 1) /\ Summands(bytes, n) \in [0 .. n - 1 -> Int]
<1>1. IsFiniteSet(0 .. n - 1)
  BY FS_Interval
<1>2. ASSUME NEW k \in 0 .. n - 1 PROVE bytes[k] * 2^(k * Quarter) \in Int
  <2>1. bytes[k] \in Int /\ k \in 0 .. 4
    BY QuarterFacts
  <2>2. 2^(k * Quarter) \in Int
    BY <2>1, QuarterFacts
  <2> QED
    BY <2>1, <2>2
<1> QED
  BY <1>1, <1>2 DEF Summands

\* What MapThenSumSet chooses for WordOf.
WordFold(it, bytes, K) ==
  it = [s \in SUBSET K |->
          IF s = {} THEN 0
          ELSE bytes[CHOOSE x \in s : TRUE] * 2^((CHOOSE x \in s : TRUE) * (W \div 4))
                 + it[s \ {CHOOSE x \in s : TRUE}]]

LEMMA WordOfTotal ==
  ASSUME NEW n \in 0 .. 4, NEW bytes \in [0 .. n - 1 -> Byte]
  PROVE  WordOf(bytes) = Total(Summands(bytes, n), 0 .. n - 1)
<1> DEFINE K == 0 .. n - 1
           f == Summands(bytes, n)
<1>1. WordOf(bytes) = (CHOOSE it : WordFold(it, bytes, K))[K]
  <2>1. DOMAIN bytes = K
    OBVIOUS
  <2>2. WordOf(bytes) = MapThenSumSet(LAMBDA k : bytes[k] * 2^(k * (W \div 4)), K)
    BY <2>1 DEF WordOf
  <2> HIDE DEF K
  <2> QED
    BY <2>2 DEF MapThenSumSet, MapThenFoldSet, WordFold
<1>2. ASSUME NEW it PROVE WordFold(it, bytes, K) <=> Sums(it, f, K)
  <2>1. ASSUME NEW s \in SUBSET K, s # {}
        PROVE  bytes[CHOOSE x \in s : TRUE] * 2^((CHOOSE x \in s : TRUE) * (W \div 4)) = f[Some(s)]
    <3>1. Some(s) \in K
      BY <2>1 DEF Some
    <3> QED
      BY <3>1 DEF Summands, Some, Quarter
  <2>2. \A s \in SUBSET K : s # {} =>
          bytes[CHOOSE x \in s : TRUE] * 2^((CHOOSE x \in s : TRUE) * (W \div 4))
            + it[s \ {CHOOSE x \in s : TRUE}] = f[Some(s)] + it[s \ {Some(s)}]
    BY <2>1 DEF Some
  <2> HIDE DEF K, f
  <2>3. [s \in SUBSET K |->
           IF s = {} THEN 0
           ELSE bytes[CHOOSE x \in s : TRUE] * 2^((CHOOSE x \in s : TRUE) * (W \div 4))
                  + it[s \ {CHOOSE x \in s : TRUE}]]
        = [s \in SUBSET K |-> IF s = {} THEN 0 ELSE f[Some(s)] + it[s \ {Some(s)}]]
    BY <2>2
  <2> QED
    BY <2>3 DEF Sums, WordFold
<1>3. IsFiniteSet(K) /\ f \in [K -> Int]
  BY SummandsType
<1> HIDE DEF K, f
<1>4. (CHOOSE it : WordFold(it, bytes, K))[K] = (CHOOSE it : Sums(it, f, K))[K]
  <2> DEFINE r == CHOOSE it : WordFold(it, bytes, K)
             t == CHOOSE it : Sums(it, f, K)
  <2>1. \E it : Sums(it, f, K)
    BY <1>3, SumsExist
  <2>2. Sums(t, f, K)
    BY <2>1
  <2>3. Sums(r, f, K)
    <3>1. WordFold(r, bytes, K)
      BY <1>2, <2>1
    <3> QED
      BY <1>2, <3>1
  <2> HIDE DEF r, t
  <2>5. K \in SUBSET (K \cap K) /\ K \in SUBSET K
    OBVIOUS
  <2>6. r[K] = t[K]
    BY <1>3, <2>2, <2>3, <2>5, SumsUnique
  <2> QED
    BY <2>6 DEF r, t
<1> QED
  BY <1>1, <1>4 DEF Total, K, f

\* n bytes make a number of n bytes.
LEMMA WordOfBytes ==
  ASSUME NEW n \in 0 .. 4, NEW bytes \in [0 .. n - 1 -> Byte]
  PROVE  WordOf(bytes) \in 0 .. 2^(n * Quarter) - 1
<1> DEFINE K == 0 .. n - 1
           f == Summands(bytes, n)
<1>1. IsFiniteSet(K) /\ f \in [K -> Int] /\ \A k \in K : f[k] = bytes[k] * 2^(k * Quarter)
  BY SummandsType DEF Summands
<1> HIDE DEF f
<1> DEFINE T == {j \in 0 .. n : Total(f, 0 .. j - 1) \notin 0 .. 2^(j * Quarter) - 1}
<1>2. T = {}
  <2> SUFFICES ASSUME T # {} PROVE FALSE
    OBVIOUS
  <2>1. PICK j \in T : \A k \in T : j <= k
    <3>1. T \subseteq Nat
      OBVIOUS
    <3> HIDE DEF T
    <3> QED
      BY <3>1, SmallestNumber
  <2>2. CASE j = 0
    <3>1. 0 .. j - 1 = {}
      BY <2>2
    <3>2. Total(f, {}) = 0
      BY <1>1, TotalEmpty
    <3>3. 2^(0 * Quarter) = 1
      BY QuarterFacts
    <3> QED
      BY <2>2, <3>1, <3>2, <3>3
  <2>3. CASE j # 0
    <3> DEFINE m == j - 1
    <3>1. m \in K /\ m \in 0 .. 3 /\ m \in 0 .. n /\ j = m + 1 /\ ~(j <= m) /\ 0 .. j - 1 \in SUBSET K
      BY <2>3
    <3>2. m \notin T
      BY <2>1, <3>1
    <3>3. Total(f, 0 .. m - 1) \in 0 .. 2^(m * Quarter) - 1
      BY <3>1, <3>2
    <3>4. m \in 0 .. j - 1 /\ (0 .. j - 1) \ {m} = 0 .. m - 1
      BY <3>1
    <3> HIDE DEF m, K, T
    <3>5. Total(f, 0 .. j - 1) = f[m] + Total(f, 0 .. m - 1)
      <4>1. Total(f, 0 .. j - 1) = f[m] + Total(f, (0 .. j - 1) \ {m})
        <5> DEFINE U == 0 .. j - 1
        <5>1. U \in SUBSET K /\ m \in U
          BY <3>1, <3>4
        <5> HIDE DEF U
        <5>2. Total(f, U) = f[m] + Total(f, U \ {m})
          BY <1>1, <5>1, TotalAny
        <5> QED
          BY <5>2 DEF U
      <4> QED
        BY <3>4, <4>1
    <3>6. bytes[m] \in 0 .. 2^Quarter - 1
      BY <3>1, QuarterFacts DEF K
    <3> DEFINE c == 2^Quarter
               p == 2^(m * Quarter)
    <3>7. 2^(j * Quarter) = p * c /\ p \in Nat /\ c \in Nat /\ c > 0
      <4>1. 2^((m + 1) * Quarter) = p * c
        BY <3>1, QuarterFacts
      <4>2. m \in 0 .. 4
        BY <3>1
      <4>3. p \in Nat
        BY <4>2, QuarterFacts
      <4>4. c \in Nat /\ c > 0
        BY QuarterFacts
      <4> QED
        BY <3>1, <4>1, <4>3, <4>4
    <3>8. f[m] = bytes[m] * p
      BY <1>1, <3>1
    <3> HIDE DEF c, p
    <3>9. bytes[m] * p \in Int /\ bytes[m] * p >= 0 /\ bytes[m] * p <= p * c - p
      <4>1. c - 1 - bytes[m] \in Nat /\ bytes[m] \in Nat
        BY <3>6, <3>7 DEF c
      <4>2. p * c - p - bytes[m] * p = (c - 1 - bytes[m]) * p
        BY <3>7, <4>1
      <4>3. \A x \in Nat : x * p >= 0 /\ x * p \in Int
        BY <3>7
      <4>4. p * c \in Int
        BY <3>7
      <4> QED
        BY <3>7, <4>1, <4>2, <4>3, <4>4, SMTT(40)
    <3>10. Total(f, 0 .. j - 1) \in 0 .. p * c - 1
      BY <3>3, <3>5, <3>7, <3>8, <3>9 DEF p
    <3> QED
      BY <2>1, <3>7, <3>10 DEF T
  <2> QED
    BY <2>2, <2>3
<1>3. Total(f, 0 .. n - 1) \in 0 .. 2^(n * Quarter) - 1
  <2>1. n \in 0 .. n
    OBVIOUS
  <2>2. n \notin T
    <3> HIDE DEF T
    <3> QED
      BY <1>2
  <2> QED
    BY <2>1, <2>2
<1>4. WordOf(bytes) = Total(f, 0 .. n - 1)
  BY WordOfTotal DEF f
<1> QED
  BY <1>3, <1>4

LEMMA BytesMakeWord ==
  ASSUME NEW n \in 0 .. 4, NEW bytes \in [0 .. n - 1 -> Byte] PROVE WordOf(bytes) \in Word
<1>1. n * Quarter \in 0 .. W /\ W \in n * Quarter .. W
  BY QuarterFacts
<1> DEFINE e == n * Quarter
<1> HIDE DEF e
<1>2. 2^e <= 2^W /\ 2^e \in Int /\ 2^W \in Int
  BY <1>1, PowerMonotone, PowerPositive DEF e
<1>3. WordOf(bytes) \in 0 .. 2^e - 1
  BY WordOfBytes DEF e
<1> QED
  BY <1>2, <1>3 DEF Word

LEMMA BytesOfWord ==
  ASSUME NEW w \in Word, NEW n \in 0 .. 4 PROVE BytesOf(w, n) \in [0 .. n - 1 -> Byte]
<1>1. ASSUME NEW k \in 0 .. n - 1
      PROVE  (w \div 2^(k * Quarter)) % 2^Quarter \in Byte
  <2> DEFINE c == 2^Quarter
             p == 2^(k * Quarter)
             q == w \div p
  <2>1. c \in Nat /\ c > 0 /\ p \in Nat /\ p > 0 /\ Byte = 0 .. c - 1
    BY QuarterFacts
  <2> HIDE DEF c, p
  <2>2. q \in Int
    BY <2>1, QuotientWord, WordFacts
  <2> HIDE DEF q
  <2>3. q % c \in 0 .. c - 1
    BY <2>1, <2>2
  <2> QED
    BY <2>1, <2>3 DEF c, p, q
<1> QED
  BY <1>1 DEF BytesOf, Quarter

-----------------------------------------------------------------------------
(* What instructions compute *)

LEMMA MulDivWord ==
  ASSUME NEW op \in MulOp, NEW a \in Word, NEW b \in Word PROVE MulDiv(op, a, b) \in Word
<1> DEFINE M == Modulus
           sa == Signed(a)
           sb == Signed(b)
           h1 == (sa * sb) \div M
           h2 == (sa * b) \div M
           h3 == (a * b) \div M
           Q == Quotient(sa, sb)
           R == Remainder(sa, sb)
<1>1. M \in Nat /\ M > 0 /\ M - 1 \in Word /\ 0 \in Word /\ a \in Nat /\ b \in Nat
  BY WordFacts
<1>2. sa \in Int /\ sb \in Int
  BY SignedType
<1>3. sb # 0 <=> b # 0
  BY SignedRange
<1> HIDE DEF M, sa, sb
<1>4. h1 \in Int /\ h2 \in Int /\ h3 \in Int /\ a * b \in Int
  <2>1. sa * sb \in Int /\ sa * b \in Int /\ a * b \in Int
    BY <1>1, <1>2
  <2>2. \A x \in Int : x \div M \in Int
    BY <1>1
  <2> QED
    BY <2>1, <2>2
<1>5. b # 0 => Q \in Int /\ R \in Int
  <2>1. ASSUME b # 0 PROVE Q \in Int /\ R \in Int
    <3>1. sb # 0
      BY <1>3, <2>1
    <3>2. Q = Quotient(sa, sb) /\ R = Remainder(sa, sb)
      OBVIOUS
    <3> HIDE DEF Q, R
    <3>3. TowardsZero(Q, R, sa, sb)
      BY <1>2, <3>1, <3>2, Truncated
    <3> QED
      BY <3>3 DEF TowardsZero
  <2> QED
    BY <2>1
<1> HIDE DEF h1, h2, h3, Q, R
<1>6. Wrap(a * b) \in Word /\ Wrap(h1) \in Word /\ Wrap(h2) \in Word /\ Wrap(h3) \in Word
  BY <1>4, WrapType
<1>7. b # 0 => Wrap(Q) \in Word /\ Wrap(R) \in Word
  BY <1>5, WrapType
<1>8. b # 0 => a \div b \in Word
  BY <1>1, QuotientWord
<1>9. b # 0 => a % b \in Word
  <2>1. ASSUME b # 0 PROVE a % b \in 0 .. b - 1
    BY <1>1, <2>1
  <2>2. \A r \in 0 .. b - 1 : r \in Word
    BY WordFacts
  <2> QED
    BY <2>1, <2>2
<1>10. M = 2^W
  BY DEF M, Modulus
<1>11. \/ op = "mul" /\ MulDiv(op, a, b) = Wrap(a * b)
       \/ op = "mulh" /\ MulDiv(op, a, b) = Wrap(h1)
       \/ op = "mulhsu" /\ MulDiv(op, a, b) = Wrap(h2)
       \/ op = "mulhu" /\ MulDiv(op, a, b) = Wrap(h3)
       \/ op = "div" /\ MulDiv(op, a, b) \in {M - 1, a, Wrap(Q)} /\ (b = 0 => MulDiv(op, a, b) = M - 1)
       \/ op = "rem" /\ MulDiv(op, a, b) \in {a, 0, Wrap(R)} /\ (b = 0 => MulDiv(op, a, b) = a)
       \/ op = "divu" /\ MulDiv(op, a, b) = IF b = 0 THEN M - 1 ELSE a \div b
       \/ op = "remu" /\ MulDiv(op, a, b) = IF b = 0 THEN a ELSE a % b
  BY <1>10 DEF MulDiv, MulOp, h1, h2, h3, Q, R, sa, sb
<1> QED
  BY <1>1, <1>6, <1>7, <1>8, <1>9, <1>11

LEMMA FlagWord == ASSUME NEW cond PROVE Flag(cond) \in Word
<1>1. 0 \in Word /\ 1 \in Word
  BY WordFacts
<1> QED
  BY <1>1 DEF Flag

LEMMA RegOpWord ==
  ASSUME NEW op \in AluOp, NEW a \in Word, NEW b \in Word PROVE RegOp(op, a, b) \in Word
<1>1. a \in Int /\ b \in Int /\ a + b \in Int /\ a - b \in Int
  BY WordFacts
<1>2. b % W \in Bits
  BY <1>1, CountType
<1> DEFINE s == b % W
<1> HIDE DEF s
<1>3. Wrap(a + b) \in Word /\ Wrap(a - b) \in Word
  BY <1>1, WrapType
<1>4. ShiftLeft(a, s) \in Word /\ ShiftRight(a, s) \in Word /\ ShiftArith(a, s) \in Word
  BY <1>2, ShiftWord DEF s
<1>5. Flag(Signed(a) < Signed(b)) \in Word /\ Flag(a < b) \in Word
  BY FlagWord
<1>6. Xor(a, b) \in Word /\ Or(a, b) \in Word /\ And(a, b) \in Word
  BY BitwiseWord
<1> QED
  BY <1>3, <1>4, <1>5, <1>6 DEF RegOp, AluOp, s

LEMMA ImmOpWord ==
  ASSUME NEW op \in AluImmOp, NEW a \in Word, NEW imm \in Word PROVE ImmOp(op, a, imm) \in Word
<1> DEFINE v == SextImm(imm)
           s == imm % W
<1>1. v \in Word
  BY SextWord, WidthAssumption DEF SextImm
<1> HIDE DEF v
<1>2. a \in Int /\ imm \in Int /\ a + v \in Int
  BY <1>1, WordFacts
<1>3. s \in Bits
  BY <1>2, CountType
<1> HIDE DEF s
<1>4. Wrap(a + v) \in Word
  BY <1>2, WrapType
<1>5. ShiftLeft(a, s) \in Word /\ ShiftRight(a, s) \in Word /\ ShiftArith(a, s) \in Word
  BY <1>3, ShiftWord
<1>6. Flag(Signed(a) < Signed(v)) \in Word /\ Flag(a < imm) \in Word
  BY FlagWord
<1>7. Xor(a, v) \in Word /\ Or(a, v) \in Word /\ And(a, v) \in Word
  BY BitwiseWord
<1> QED
  BY <1>4, <1>5, <1>6, <1>7 DEF ImmOp, AluImmOp, s, v

-----------------------------------------------------------------------------
(* Types: registers hold words, RAM holds bytes *)

LEMMA PieceTypes ==
  ASSUME NEW m \in Machine, NEW rd \in Reg, NEW v \in Word, NEW s \in Status
  PROVE  /\ SetReg(m, rd, v) \in Machine /\ Advance(m) \in Machine /\ Jump(m, v) \in Machine
         /\ StopWith(m, s) \in Machine
<1>1. Wrap(m.pc + 4) \in Word
  <2>1. m.pc \in Word
    BY DEF Machine
  <2>2. m.pc + 4 \in Int
    BY <2>1, WordFacts
  <2> QED
    BY <2>2, WrapType
<1> QED
  BY <1>1 DEF SetReg, Advance, Jump, StopWith, Machine

LEMMA ForkPieceTypes ==
  ASSUME NEW f \in Fork, NEW rd \in Reg, NEW v \in Word, NEW x \in Result
  PROVE  /\ SetReg(f, rd, v) \in Fork /\ Advance(f) \in Fork /\ Jump(f, v) \in Fork
         /\ ForkFail(f, x) \in Fork
<1>1. Wrap(f.pc + 4) \in Word
  <2>1. f.pc \in Word
    BY DEF Fork
  <2>2. f.pc + 4 \in Int
    BY <2>1, WordFacts
  <2> QED
    BY <2>2, WrapType
<1> QED
  BY <1>1 DEF SetReg, Advance, Jump, ForkFail, Fork

LEMMA AddressWord ==
  ASSUME NEW m, m.r \in [Reg -> Word], NEW i \in Insn PROVE Address(m, i) \in Word
<1> DEFINE v == SextImm(i.imm)
<1>1. v \in Word
  BY SextWord, WidthAssumption DEF SextImm, Insn
<1> HIDE DEF v
<1>2. m.r[i.rs1] \in Word
  BY DEF Insn
<1>3. m.r[i.rs1] + v \in Int
  BY <1>1, <1>2, WordFacts
<1> QED
  BY <1>3, WrapType DEF Address, v

\* A branch or jump goes to a word, and so does the link.
LEMMA TargetWord == ASSUME NEW pc \in Word, NEW imm \in Word PROVE Wrap(pc + imm) \in Word /\ Wrap(pc + 4) \in Word
<1>1. pc + imm \in Int /\ pc + 4 \in Int
  BY WordFacts
<1> QED
  BY <1>1, WrapType

LEMMA WidthType == \A op \in LoadOp \cup StoreOp : Width[op] \in {1, 2, 4}
  BY DEF Width

\* Bytes inside RAM, and RAM with some bytes replaced.
LEMMA BytesAtType ==
  ASSUME NEW size \in Nat, NEW ram \in [0 .. size - 1 -> Byte], NEW addr \in Nat, NEW n \in 0 .. 4,
         addr + n <= size
  PROVE  BytesAt(ram, addr, n) \in [0 .. n - 1 -> Byte]
<1>1. \A k \in 0 .. n - 1 : addr + k \in 0 .. size - 1
  OBVIOUS
<1> QED
  BY <1>1 DEF BytesAt

LEMMA OverwriteType ==
  ASSUME NEW D, NEW ram \in [D -> Byte], NEW addr \in Nat, NEW n \in 0 .. 4, NEW bytes \in [0 .. n - 1 -> Byte]
  PROVE  Overwrite(ram, addr, bytes) \in [D -> Byte]
  BY DEF Overwrite

LEMMA LoadType ==
  ASSUME NEW m \in Machine, NEW addr \in Word, NEW n \in {1, 2, 4},
         NEW bytes \in rv32_load(m, addr, n, MemSize, IcAddr)
  PROVE  bytes \in [0 .. n - 1 -> Byte]
<1>1. m.ram \in [0 .. MemSize - 1 -> Byte] /\ m.ie \in [0 .. 3 -> Byte] /\ addr \in Nat /\ MemSize \in Nat
  BY MachineAssumption, WordFacts DEF Machine
<1>2. CASE Granted(addr, n, MemSize)
  <2>1. addr + n <= MemSize /\ n \in 0 .. 4
    BY <1>1, <1>2, MachineAssumption DEF Granted
  <2>2. bytes = BytesAt(m.ram, addr, n)
    BY <1>2 DEF rv32_load
  <2> QED
    BY <1>1, <2>1, <2>2, BytesAtType
<1>3. CASE ~Granted(addr, n, MemSize)
  <2>1. n = 4 /\ bytes = m.ie
    BY <1>3 DEF rv32_load
  <2>2. 0 .. n - 1 = 0 .. 3
    BY <2>1
  <2> QED
    BY <1>1, <2>1, <2>2
<1> QED
  BY <1>2, <1>3

LEMMA LoadedWord ==
  ASSUME NEW op \in LoadOp, NEW bytes \in [0 .. Width[op] - 1 -> Byte] PROVE Loaded(op, bytes) \in Word
<1>1. Width[op] \in 0 .. 4 /\ Width[op] * (W \div 4) \in Nat
  <2> DEFINE n == Width[op]
  <2>1. n \in {1, 2, 4}
    BY WidthType
  <2>2. Quarter \in Nat
    BY QuarterFacts
  <2> HIDE DEF n
  <2>3. n \in 0 .. 4 /\ n * Quarter \in Nat
    BY <2>1, <2>2
  <2> QED
    BY <2>3 DEF n, Quarter
<1>2. WordOf(bytes) \in Word
  BY <1>1, BytesMakeWord
<1> QED
  BY <1>1, <1>2, SextWord DEF Loaded

LEMMA StoreType ==
  ASSUME NEW m \in Machine, NEW addr \in Word, NEW n \in {1, 2, 4}, NEW bytes \in [0 .. n - 1 -> Byte],
         NEW o \in rv32_store(m, addr, bytes, n, MemSize, IcAddr, ConsoleAddr)
  PROVE  o \in Machine
<1>1. m.ram \in [0 .. MemSize - 1 -> Byte] /\ addr \in Nat /\ n \in 0 .. 4
  BY WordFacts DEF Machine
<1>2. Overwrite(m.ram, addr, bytes) \in [0 .. MemSize - 1 -> Byte]
  BY <1>1, OverwriteType
<1>3. \/ o = [m EXCEPT !.ram = Overwrite(m.ram, addr, bytes)]
      \/ n = 4 /\ o = [m EXCEPT !.ie = bytes]
      \/ o = m
  BY DEF rv32_store
<1> QED
  BY <1>2, <1>3, SMTT(40) DEF Machine

\* What each class of instructions does; the four of opcode 0x73 that only the
\* header has apart.
InstructionCases(m, i) ==
  LET a == m.r[i.rs1]
      b == m.r[i.rs2]
  IN /\ i.op \in MulOp => Execute(m, i) = {Advance(SetReg(m, i.rd, MulDiv(i.op, a, b)))}
     /\ i.op \in AluOp => Execute(m, i) = {Advance(SetReg(m, i.rd, RegOp(i.op, a, b)))}
     /\ i.op \in AluImmOp => Execute(m, i) = {Advance(SetReg(m, i.rd, ImmOp(i.op, a, i.imm)))}
     /\ i.op \in LoadOp => Execute(m, i) = ExecLoad(m, i)
     /\ i.op \in StoreOp => Execute(m, i) = ExecStore(m, i)
     /\ i.op \in BranchOp =>
          Execute(m, i) = {IF Taken(i.op, a, b) THEN Jump(m, Wrap(m.pc + i.imm)) ELSE Advance(m)}
     /\ i.op = "jal" => Execute(m, i) = {Jump(SetReg(m, i.rd, Wrap(m.pc + 4)), Wrap(m.pc + i.imm))}
     /\ i.op = "jalr" => Execute(m, i) = {ExecJalr(m, i)}
     /\ i.op = "lui" => Execute(m, i) = {Advance(SetReg(m, i.rd, i.imm))}
     /\ i.op = "auipc" => Execute(m, i) = {Advance(SetReg(m, i.rd, Wrap(m.pc + i.imm)))}
     /\ i.op = "ecall" =>
          Execute(m, i) = {IF m.r[RegA7] = ExitCall THEN StopWith(m, "HALTED") ELSE Advance(m)}
     /\ i.op = "ebreak" => Execute(m, i) = {StopWith(Advance(m), "EBREAK")}

SystemCases(m, i) ==
  /\ i.op = "mret" => Execute(m, i) = {ExecMret(m)}
  /\ i.op = "wfi" => Execute(m, i) = {Advance([m EXCEPT !.wfi = TRUE])}
  /\ i.op \in CsrOp => Execute(m, i) = {ExecCsr(m, i)}
  /\ i.op \in {"system4", "illegal"} => Execute(m, i) = {StopWith(m, "INVALID_INSTRUCTION")}

LEMMA ExecuteSplit == ASSUME NEW m, NEW i PROVE InstructionCases(m, i) /\ SystemCases(m, i)
<1> DEFINE op == i.op
           a == m.r[i.rs1]
           b == m.r[i.rs2]
           MulOut == {Advance(SetReg(m, i.rd, MulDiv(op, a, b)))}
           AluOut == {Advance(SetReg(m, i.rd, RegOp(op, a, b)))}
           ImmOut == {Advance(SetReg(m, i.rd, ImmOp(op, a, i.imm)))}
           LoadOut == ExecLoad(m, i)
           StoreOut == ExecStore(m, i)
           BranchOut == {IF Taken(op, a, b) THEN Jump(m, Wrap(m.pc + i.imm)) ELSE Advance(m)}
           JalOut == {Jump(SetReg(m, i.rd, Wrap(m.pc + 4)), Wrap(m.pc + i.imm))}
           JalrOut == {ExecJalr(m, i)}
           LuiOut == {Advance(SetReg(m, i.rd, i.imm))}
           AuipcOut == {Advance(SetReg(m, i.rd, Wrap(m.pc + i.imm)))}
           EcallOut == {IF m.r[RegA7] = ExitCall THEN StopWith(m, "HALTED") ELSE Advance(m)}
           EbreakOut == {StopWith(Advance(m), "EBREAK")}
           MretOut == {ExecMret(m)}
           WfiOut == {Advance([m EXCEPT !.wfi = TRUE])}
           CsrOut == {ExecCsr(m, i)}
           IllegalOut == {StopWith(m, "INVALID_INSTRUCTION")}
           Out == CASE op \in MulOp -> MulOut
                    [] op \in AluOp -> AluOut
                    [] op \in AluImmOp -> ImmOut
                    [] op \in LoadOp -> LoadOut
                    [] op \in StoreOp -> StoreOut
                    [] op \in BranchOp -> BranchOut
                    [] op = "jal" -> JalOut
                    [] op = "jalr" -> JalrOut
                    [] op = "lui" -> LuiOut
                    [] op = "auipc" -> AuipcOut
                    [] op = "ecall" -> EcallOut
                    [] op = "ebreak" -> EbreakOut
                    [] op = "mret" -> MretOut
                    [] op = "wfi" -> WfiOut
                    [] op \in CsrOp -> CsrOut
                    [] op \in {"system4", "illegal"} -> IllegalOut
<1>1. Execute(m, i) = Out
  BY DEF Execute
<1> HIDE DEF op, MulOut, AluOut, ImmOut, LoadOut, StoreOut, BranchOut, JalOut, JalrOut, LuiOut, AuipcOut,
             EcallOut, EbreakOut, MretOut, WfiOut, CsrOut, IllegalOut
<1>2. op \in MulOp => Out = MulOut
  BY DEF MulOp, AluOp, AluImmOp, BranchOp, LoadOp, StoreOp, CsrOp, CsrImmOp
<1>3. op \in AluOp => Out = AluOut
  BY DEF MulOp, AluOp, AluImmOp, BranchOp, LoadOp, StoreOp, CsrOp, CsrImmOp
<1>4. op \in AluImmOp => Out = ImmOut
  BY DEF MulOp, AluOp, AluImmOp, BranchOp, LoadOp, StoreOp, CsrOp, CsrImmOp
<1>5. op \in LoadOp => Out = LoadOut
  BY DEF MulOp, AluOp, AluImmOp, BranchOp, LoadOp, StoreOp, CsrOp, CsrImmOp
<1>6. op \in StoreOp => Out = StoreOut
  BY DEF MulOp, AluOp, AluImmOp, BranchOp, LoadOp, StoreOp, CsrOp, CsrImmOp
<1>7. op \in BranchOp => Out = BranchOut
  BY DEF MulOp, AluOp, AluImmOp, BranchOp, LoadOp, StoreOp, CsrOp, CsrImmOp
<1>8. /\ op = "jal" => Out = JalOut
      /\ op = "jalr" => Out = JalrOut
      /\ op = "lui" => Out = LuiOut
      /\ op = "auipc" => Out = AuipcOut
      /\ op = "ecall" => Out = EcallOut
      /\ op = "ebreak" => Out = EbreakOut
      /\ op = "mret" => Out = MretOut
      /\ op = "wfi" => Out = WfiOut
      /\ op \in {"system4", "illegal"} => Out = IllegalOut
  BY DEF MulOp, AluOp, AluImmOp, BranchOp, LoadOp, StoreOp, CsrOp, CsrImmOp
<1>9. op \in CsrOp => Out = CsrOut
  BY DEF MulOp, AluOp, AluImmOp, BranchOp, LoadOp, StoreOp, CsrOp, CsrImmOp
<1> HIDE DEF Out
<1>10. /\ op \in MulOp => Execute(m, i) = MulOut
       /\ op \in AluOp => Execute(m, i) = AluOut
       /\ op \in AluImmOp => Execute(m, i) = ImmOut
       /\ op \in LoadOp => Execute(m, i) = LoadOut
       /\ op \in StoreOp => Execute(m, i) = StoreOut
       /\ op \in BranchOp => Execute(m, i) = BranchOut
       /\ op = "jal" => Execute(m, i) = JalOut
       /\ op = "jalr" => Execute(m, i) = JalrOut
       /\ op = "lui" => Execute(m, i) = LuiOut
       /\ op = "auipc" => Execute(m, i) = AuipcOut
       /\ op = "ecall" => Execute(m, i) = EcallOut
       /\ op = "ebreak" => Execute(m, i) = EbreakOut
  BY <1>1, <1>2, <1>3, <1>4, <1>5, <1>6, <1>7, <1>8
<1>11. /\ op = "mret" => Execute(m, i) = MretOut
       /\ op = "wfi" => Execute(m, i) = WfiOut
       /\ op \in CsrOp => Execute(m, i) = CsrOut
       /\ op \in {"system4", "illegal"} => Execute(m, i) = IllegalOut
  BY <1>1, <1>8, <1>9
<1> QED
  BY ONLY <1>10, <1>11, Zenon
     DEF op, a, b, MulOut, AluOut, ImmOut, LoadOut, StoreOut, BranchOut, JalOut, JalrOut, LuiOut, AuipcOut,
         EcallOut, EbreakOut, MretOut, WfiOut, CsrOut, IllegalOut, InstructionCases, SystemCases

LEMMA ExecuteCases ==
  ASSUME NEW m, NEW i
  PROVE  LET a == m.r[i.rs1]
             b == m.r[i.rs2]
         IN /\ i.op \in MulOp => Execute(m, i) = {Advance(SetReg(m, i.rd, MulDiv(i.op, a, b)))}
            /\ i.op \in AluOp => Execute(m, i) = {Advance(SetReg(m, i.rd, RegOp(i.op, a, b)))}
            /\ i.op \in AluImmOp => Execute(m, i) = {Advance(SetReg(m, i.rd, ImmOp(i.op, a, i.imm)))}
            /\ i.op \in LoadOp => Execute(m, i) = ExecLoad(m, i)
            /\ i.op \in StoreOp => Execute(m, i) = ExecStore(m, i)
            /\ i.op \in BranchOp =>
                 Execute(m, i) = {IF Taken(i.op, a, b) THEN Jump(m, Wrap(m.pc + i.imm)) ELSE Advance(m)}
            /\ i.op = "jal" => Execute(m, i) = {Jump(SetReg(m, i.rd, Wrap(m.pc + 4)), Wrap(m.pc + i.imm))}
            /\ i.op = "jalr" => Execute(m, i) = {ExecJalr(m, i)}
            /\ i.op = "lui" => Execute(m, i) = {Advance(SetReg(m, i.rd, i.imm))}
            /\ i.op = "auipc" => Execute(m, i) = {Advance(SetReg(m, i.rd, Wrap(m.pc + i.imm)))}
            /\ i.op = "ecall" =>
                 Execute(m, i) = {IF m.r[RegA7] = ExitCall THEN StopWith(m, "HALTED") ELSE Advance(m)}
            /\ i.op = "ebreak" => Execute(m, i) = {StopWith(Advance(m), "EBREAK")}
<1>1. InstructionCases(m, i)
  BY ExecuteSplit
<1> QED
  BY ONLY <1>1 DEF InstructionCases

LEMMA ExecuteSystem ==
  ASSUME NEW m, NEW i
  PROVE  /\ i.op = "mret" => Execute(m, i) = {ExecMret(m)}
         /\ i.op = "wfi" => Execute(m, i) = {Advance([m EXCEPT !.wfi = TRUE])}
         /\ i.op \in CsrOp => Execute(m, i) = {ExecCsr(m, i)}
         /\ i.op \in {"system4", "illegal"} => Execute(m, i) = {StopWith(m, "INVALID_INSTRUCTION")}
  BY ExecuteSplit, Zenon DEF SystemCases

LEMMA FetchedInsn == ASSUME NEW m \in Machine, NEW i \in Fetch(m) PROVE i \in Insn
<1>1. PICK bytes \in rv32_load(m, m.pc, 4, MemSize, IcAddr) : i = Code[WordOf(bytes)]
  BY DEF Fetch
<1>2. bytes \in [0 .. 4 - 1 -> Byte]
  BY LoadType DEF Machine
<1>3. WordOf(bytes) \in Word
  BY <1>2, BytesMakeWord
<1> QED
  BY <1>1, <1>3, MachineAssumption

\* An address without its low bit.
LEMMA EvenWord == ASSUME NEW t \in Word PROVE 2 * (t \div 2) \in Word
<1> DEFINE q == t \div 2
           r == t % 2
<1>1. t \in Nat /\ \A x \in 0 .. t : x \in Word
  BY WordFacts
<1>2. t = 2 * q + r /\ q \in Int /\ r \in 0 .. 1
  BY <1>1
<1> HIDE DEF q, r
<1>3. 2 * q \in 0 .. t
  BY <1>1, <1>2
<1> QED
  BY <1>1, <1>3 DEF q

\* Returning from a trap leaves a machine, and so does a csr instruction.
LEMMA MretType == ASSUME NEW m \in Machine PROVE ExecMret(m) \in Machine
<1> DEFINE bits == Ones(m.csr.mstatus)
           returned == IF BitOf.MPIE \in bits THEN bits \cup {BitOf.MIE} ELSE bits \ {BitOf.MIE}
           n == [m EXCEPT !.csr.mstatus = Value(returned)]
<1>1. m.csr \in [Csr -> Word] /\ "mstatus" \in Csr /\ "mepc" \in Csr
  BY DEF Machine, Csr
<1>2. BitOf.MIE \in 0 .. W - 1
  BY MachineAssumption DEF CsrBit
<1>3. bits \in SUBSET (0 .. W - 1)
  BY DEF Ones
<1> HIDE DEF bits
<1>4. returned \in SUBSET (0 .. W - 1)
  BY <1>2, <1>3
<1>5. Value(returned) \in Word
  BY <1>4, ValueWord DEF Bits
<1> HIDE DEF returned
<1>6. n \in Machine
  BY <1>1, <1>5 DEF Machine
<1>7. m.csr.mepc \in Word /\ ExecMret(m) = Jump(n, m.csr.mepc)
  BY <1>1 DEF ExecMret, bits, returned
<1> HIDE DEF n
<1> QED
  BY <1>6, <1>7 DEF Jump, Machine

LEMMA CsrOutcome ==
  ASSUME NEW m \in Machine, NEW i \in Insn, i.op \in CsrOp
  PROVE  LET o == ExecCsr(m, i)
         IN /\ o \in Machine
            /\ o.status = m.status /\ o.ie = m.ie /\ o.ram = m.ram /\ o.wfi = m.wfi /\ o.pc = Wrap(m.pc + 4)
            /\ \A y \in Csr : y # CsrAt[i.imm] => o.csr[y] = m.csr[y]
<1> DEFINE old == rv32_read_csr(m, i.imm)
           operand == IF i.op \in CsrImmOp THEN i.rs1 ELSE m.r[i.rs1]
           v == CsrValue(i.op, old, operand)
           written == rv32_write_csr(m, i.imm, v)
<1>1. /\ m.csr \in [Csr -> Word] /\ m.r \in [Reg -> Word] /\ m.pc \in Word
      /\ i.rs1 \in Reg /\ i.rd \in Reg /\ i.imm \in Word /\ 0 \in Word
  BY WordFacts DEF Machine, Insn
<1>2. old \in Word
  BY <1>1 DEF rv32_read_csr
<1>3. operand \in Word
  BY <1>1, MachineAssumption
<1> HIDE DEF old, operand
<1>4. v \in Word
  <2>1. Or(old, operand) \in Word /\ And(old, 2^W - 1 - operand) \in Word
    BY BitwiseWord
  <2> QED
    BY <1>3, <2>1 DEF CsrValue, CsrOp, CsrImmOp
<1> HIDE DEF v
<1>5. written \in Machine
  BY <1>1, <1>4 DEF rv32_write_csr, Machine
<1>8. /\ written.status = m.status /\ written.ie = m.ie /\ written.ram = m.ram /\ written.wfi = m.wfi
      /\ written.pc = m.pc /\ \A y \in Csr : y # CsrAt[i.imm] => written.csr[y] = m.csr[y]
  BY <1>1 DEF rv32_write_csr, Machine
<1> HIDE DEF written
<1>6. SetReg(written, i.rd, old) \in Machine
  BY <1>1, <1>2, <1>5, PieceTypes DEF Status
<1>7. Advance(SetReg(written, i.rd, old)) \in Machine
  BY <1>1, <1>6, PieceTypes DEF Status
<1> DEFINE o == Advance(SetReg(written, i.rd, old))
<1>9. /\ o.status = m.status /\ o.ie = m.ie /\ o.ram = m.ram /\ o.wfi = m.wfi /\ o.pc = Wrap(m.pc + 4)
      /\ \A y \in Csr : y # CsrAt[i.imm] => o.csr[y] = m.csr[y]
  BY <1>5, <1>8 DEF SetReg, Advance, Machine
<1>10. ExecCsr(m, i) = o
  BY Zenon DEF ExecCsr, old, operand, v, written
<1>11. o \in Machine
  BY <1>7
<1> HIDE DEF o
<1> QED
  BY <1>9, <1>10, <1>11

LEMMA CsrType ==
  ASSUME NEW m \in Machine, NEW i \in Insn, i.op \in CsrOp PROVE ExecCsr(m, i) \in Machine
  BY CsrOutcome

LEMMA CsrLeaves ==
  ASSUME NEW m \in Machine, NEW i \in Insn, i.op \in CsrOp
  PROVE  LET o == ExecCsr(m, i)
         IN /\ o.status = m.status /\ o.ie = m.ie /\ o.ram = m.ram /\ o.wfi = m.wfi /\ o.pc = Wrap(m.pc + 4)
            /\ \A y \in Csr : y # CsrAt[i.imm] => o.csr[y] = m.csr[y]
  BY CsrOutcome

\* What one instruction leaves is a machine.
LEMMA ExecuteType ==
  ASSUME NEW m \in Machine, NEW i \in Insn, NEW o \in Execute(m, i) PROVE o \in Machine
<1> DEFINE a == m.r[i.rs1]
           b == m.r[i.rs2]
<1>1. /\ i.op \in Ops /\ i.rd \in Reg /\ i.rs1 \in Reg /\ i.rs2 \in Reg /\ i.imm \in Word
      /\ m.r \in [Reg -> Word] /\ m.pc \in Word
  BY DEF Insn, Machine
<1>2. a \in Word /\ b \in Word /\ Address(m, i) \in Word
  BY <1>1, AddressWord
<1>3. Wrap(m.pc + i.imm) \in Word /\ Wrap(m.pc + 4) \in Word
  BY <1>1, TargetWord
<1>4. Advance(m) \in Machine /\ \A s \in Status : StopWith(m, s) \in Machine
  <2>1. 0 \in Reg /\ 0 \in Word /\ "RUNNING" \in Status
    BY MachineAssumption, WordFacts DEF Status
  <2>2. ASSUME NEW s \in Status PROVE StopWith(m, s) \in Machine
    BY <2>1, PieceTypes
  <2> QED
    BY <2>1, <2>2, PieceTypes
<1>5. ASSUME NEW v \in Word PROVE Advance(SetReg(m, i.rd, v)) \in Machine /\ Jump(m, v) \in Machine
  <2>1. SetReg(m, i.rd, v) \in Machine /\ Jump(m, v) \in Machine
    BY <1>1, PieceTypes DEF Status
  <2> QED
    BY <1>1, <2>1, PieceTypes DEF Status
<1>6. ASSUME NEW v \in Word, NEW w \in Word PROVE Jump(SetReg(m, i.rd, v), w) \in Machine
  <2>1. SetReg(m, i.rd, v) \in Machine
    BY <1>1, PieceTypes DEF Status
  <2> QED
    BY <1>1, <2>1, PieceTypes DEF Status
<1>7. CASE i.op \in MulOp
  <2>1. o = Advance(SetReg(m, i.rd, MulDiv(i.op, a, b)))
    BY <1>7, ExecuteCases
  <2> QED
    BY <1>2, <1>5, <1>7, <2>1, MulDivWord
<1>8. CASE i.op \in AluOp
  <2>1. o = Advance(SetReg(m, i.rd, RegOp(i.op, a, b)))
    BY <1>8, ExecuteCases
  <2> QED
    BY <1>2, <1>5, <1>8, <2>1, RegOpWord
<1>9. CASE i.op \in AluImmOp
  <2>1. o = Advance(SetReg(m, i.rd, ImmOp(i.op, a, i.imm)))
    BY <1>9, ExecuteCases
  <2> QED
    BY <1>1, <1>2, <1>5, <1>9, <2>1, ImmOpWord
<1>10. CASE i.op \in LoadOp
  <2>1. o \in ExecLoad(m, i)
    BY <1>10, ExecuteCases
  <2>2. ASSUME NEW bytes \in rv32_load(m, Address(m, i), Width[i.op], MemSize, IcAddr)
        PROVE  Advance(SetReg(m, i.rd, Loaded(i.op, bytes))) \in Machine
    <3>1. Width[i.op] \in {1, 2, 4}
      BY <1>10, WidthType
    <3>2. bytes \in [0 .. Width[i.op] - 1 -> Byte]
      BY <1>2, <3>1, LoadType
    <3>3. Loaded(i.op, bytes) \in Word
      BY <1>10, <3>2, LoadedWord
    <3> QED
      BY <1>5, <3>3
  <2> QED
    BY <1>4, <2>1, <2>2 DEF ExecLoad, OrFault, Status
<1>11. CASE i.op \in StoreOp
  <2>1. o \in ExecStore(m, i)
    BY <1>11, ExecuteCases
  <2>2. ASSUME NEW stored \in rv32_store(m, Address(m, i), BytesOf(b, Width[i.op]), Width[i.op],
                                         MemSize, IcAddr, ConsoleAddr)
        PROVE  Advance(stored) \in Machine
    <3>1. Width[i.op] \in {1, 2, 4} /\ Width[i.op] \in 0 .. 4
      BY <1>11, WidthType
    <3>2. BytesOf(b, Width[i.op]) \in [0 .. Width[i.op] - 1 -> Byte]
      BY <1>2, <3>1, BytesOfWord
    <3>3. stored \in Machine
      BY <1>2, <3>1, <3>2, StoreType
    <3> QED
      BY <1>1, <3>3, PieceTypes DEF Status
  <2> QED
    BY <1>4, <2>1, <2>2 DEF ExecStore, OrFault, Status
<1>12. CASE i.op \in BranchOp
  <2>1. o = Jump(m, Wrap(m.pc + i.imm)) \/ o = Advance(m)
    BY <1>12, ExecuteCases
  <2> QED
    BY <1>3, <1>4, <1>5, <2>1
<1>13. CASE i.op \in {"jal", "jalr"}
  <2>1. 2 * (Address(m, i) \div 2) \in Word
    BY <1>2, EvenWord
  <2>2. \/ o = Jump(SetReg(m, i.rd, Wrap(m.pc + 4)), Wrap(m.pc + i.imm))
        \/ o = Jump(SetReg(m, i.rd, Wrap(m.pc + 4)), 2 * (Address(m, i) \div 2))
    BY <1>13, ExecuteCases DEF ExecJalr
  <2> QED
    BY <1>3, <1>6, <2>1, <2>2
<1>14. CASE i.op \in {"lui", "auipc"}
  <2>1. \/ o = Advance(SetReg(m, i.rd, i.imm))
        \/ o = Advance(SetReg(m, i.rd, Wrap(m.pc + i.imm)))
    BY <1>14, ExecuteCases
  <2> QED
    BY <1>1, <1>3, <1>5, <2>1
<1>15. CASE i.op \in {"ecall", "ebreak", "system4", "illegal"}
  <2>1. \/ o = Advance(m) \/ o = StopWith(m, "HALTED") \/ o = StopWith(m, "INVALID_INSTRUCTION")
        \/ o = StopWith(Advance(m), "EBREAK")
    <3>1. CASE i.op \in {"ecall", "ebreak"}
      BY <3>1, ExecuteCases
    <3>2. CASE i.op \in {"system4", "illegal"}
      BY <3>2, ExecuteSystem
    <3> QED
      BY <1>15, <3>1, <3>2
  <2>2. StopWith(Advance(m), "EBREAK") \in Machine
    BY <1>1, <1>4, PieceTypes DEF Status
  <2> QED
    BY <1>4, <2>1, <2>2 DEF Status
<1>16. CASE i.op = "mret"
  <2>1. o = ExecMret(m)
    BY <1>16, ExecuteSystem
  <2> QED
    BY <2>1, MretType
<1>17. CASE i.op = "wfi"
  <2>1. o = Advance([m EXCEPT !.wfi = TRUE])
    BY <1>17, ExecuteSystem
  <2>2. [m EXCEPT !.wfi = TRUE] \in Machine
    BY DEF Machine
  <2> QED
    BY <1>1, <2>1, <2>2, PieceTypes DEF Status
<1>18. CASE i.op \in CsrOp
  <2>1. o = ExecCsr(m, i)
    BY <1>18, ExecuteSystem
  <2> QED
    BY <1>18, <2>1, CsrType
<1> QED
  BY <1>1, <1>7, <1>8, <1>9, <1>10, <1>11, <1>12, <1>13, <1>14, <1>15, <1>16, <1>17, <1>18 DEF Ops, SystemOp

\* What one cycle leaves is a machine.
LEMMA CycleType == ASSUME NEW m \in Machine, NEW o \in Cycle(m) PROVE o \in Machine
<1>1. 0 \in Reg /\ 0 \in Word
  BY MachineAssumption, WordFacts
<1>2. SetReg(m, 0, 0) \in Machine /\ \A s \in Status : StopWith(m, s) \in Machine
  BY <1>1, PieceTypes DEF Status
<1>3. \A i \in Fetch(m) : \A p \in Execute(SetReg(m, 0, 0), i) : p \in Machine
  BY <1>2, FetchedInsn, ExecuteType
<1> QED
  BY <1>2, <1>3 DEF Cycle, OrFault, Status

-----------------------------------------------------------------------------
(* The fork *)

LEMMA ForkExecuteCases ==
  ASSUME NEW f, NEW i
  PROVE  LET a == f.r[i.rs1]
             b == f.r[i.rs2]
         IN /\ i.op \in MulOp => ForkExecute(f, i) = {Advance(SetReg(f, i.rd, MulDiv(i.op, a, b)))}
            /\ i.op \in AluOp => ForkExecute(f, i) = {Advance(SetReg(f, i.rd, v)) : v \in ForkRegOp(i.op, a, b)}
            /\ i.op \in AluImmOp => ForkExecute(f, i) = {Advance(SetReg(f, i.rd, ImmOp(i.op, a, i.imm)))}
            /\ i.op \in LoadOp => ForkExecute(f, i) = {ForkLoad(f, i)}
            /\ i.op \in StoreOp => ForkExecute(f, i) = {ForkStore(f, i)}
            /\ i.op \in BranchOp =>
                 ForkExecute(f, i) = {IF Taken(i.op, a, b) THEN Jump(f, Wrap(f.pc + i.imm)) ELSE Advance(f)}
            /\ i.op = "jal" => ForkExecute(f, i) = {Jump(SetReg(f, i.rd, Wrap(f.pc + 4)), Wrap(f.pc + i.imm))}
            /\ i.op = "jalr" => ForkExecute(f, i) = {ForkJalr(f, i)}
            /\ i.op = "lui" => ForkExecute(f, i) = {Advance(SetReg(f, i.rd, i.imm))}
            /\ i.op = "auipc" => ForkExecute(f, i) = {Advance(SetReg(f, i.rd, Wrap(f.pc + i.imm)))}
            /\ i.op \in {"ecall", "ebreak"} => ForkExecute(f, i) = {Advance(f)}
            /\ i.op \in CsrOp \cup {"mret", "wfi", "system4"} =>
                 ForkExecute(f, i) = {IF PassesForCall(i) THEN Advance(f) ELSE ForkFail(f, "INVALID_INSTRUCTION")}
            /\ i.op = "illegal" =>
                 ForkExecute(f, i) = {ForkFail(f, x) : x \in {"INVALID_OPCODE", "INVALID_INSTRUCTION"}}
<1> DEFINE op == i.op
           a == f.r[i.rs1]
           b == f.r[i.rs2]
           MulOut == {Advance(SetReg(f, i.rd, MulDiv(op, a, b)))}
           AluOut == {Advance(SetReg(f, i.rd, v)) : v \in ForkRegOp(op, a, b)}
           ImmOut == {Advance(SetReg(f, i.rd, ImmOp(op, a, i.imm)))}
           LoadOut == {ForkLoad(f, i)}
           StoreOut == {ForkStore(f, i)}
           BranchOut == {IF Taken(op, a, b) THEN Jump(f, Wrap(f.pc + i.imm)) ELSE Advance(f)}
           JalOut == {Jump(SetReg(f, i.rd, Wrap(f.pc + 4)), Wrap(f.pc + i.imm))}
           JalrOut == {ForkJalr(f, i)}
           LuiOut == {Advance(SetReg(f, i.rd, i.imm))}
           AuipcOut == {Advance(SetReg(f, i.rd, Wrap(f.pc + i.imm)))}
           CallOut == {Advance(f)}
           SystemOut == {IF PassesForCall(i) THEN Advance(f) ELSE ForkFail(f, "INVALID_INSTRUCTION")}
           IllegalOut == {ForkFail(f, x) : x \in {"INVALID_OPCODE", "INVALID_INSTRUCTION"}}
           Out == CASE op \in MulOp -> MulOut
                    [] op \in AluOp -> AluOut
                    [] op \in AluImmOp -> ImmOut
                    [] op \in LoadOp -> LoadOut
                    [] op \in StoreOp -> StoreOut
                    [] op \in BranchOp -> BranchOut
                    [] op = "jal" -> JalOut
                    [] op = "jalr" -> JalrOut
                    [] op = "lui" -> LuiOut
                    [] op = "auipc" -> AuipcOut
                    [] op \in SystemOp -> IF op \in {"ecall", "ebreak"} THEN CallOut ELSE SystemOut
                    [] op = "illegal" -> IllegalOut
<1>1. ForkExecute(f, i) = Out
  <2>1. i.op \in {"ecall", "ebreak"} \/ PassesForCall(i) <=>
          \/ i.op \in {"ecall", "ebreak"}
          \/ i.op \notin {"ecall", "ebreak"} /\ PassesForCall(i)
    OBVIOUS
  <2> QED
    BY <2>1 DEF ForkExecute, ForkMulDiv, ForkImmOp, ForkTaken
<1> HIDE DEF op, MulOut, AluOut, ImmOut, LoadOut, StoreOut, BranchOut, JalOut, JalrOut, LuiOut, AuipcOut,
             CallOut, SystemOut, IllegalOut
<1>2. op \in MulOp => Out = MulOut
  BY DEF MulOp, AluOp, AluImmOp, BranchOp, LoadOp, StoreOp, SystemOp, CsrOp, CsrImmOp
<1>3. op \in AluOp => Out = AluOut
  BY DEF MulOp, AluOp, AluImmOp, BranchOp, LoadOp, StoreOp, SystemOp, CsrOp, CsrImmOp
<1>4. op \in AluImmOp => Out = ImmOut
  BY DEF MulOp, AluOp, AluImmOp, BranchOp, LoadOp, StoreOp, SystemOp, CsrOp, CsrImmOp
<1>5. op \in LoadOp => Out = LoadOut
  BY DEF MulOp, AluOp, AluImmOp, BranchOp, LoadOp, StoreOp, SystemOp, CsrOp, CsrImmOp
<1>6. op \in StoreOp => Out = StoreOut
  BY DEF MulOp, AluOp, AluImmOp, BranchOp, LoadOp, StoreOp, SystemOp, CsrOp, CsrImmOp
<1>7. op \in BranchOp => Out = BranchOut
  BY DEF MulOp, AluOp, AluImmOp, BranchOp, LoadOp, StoreOp, SystemOp, CsrOp, CsrImmOp
<1>8. /\ op = "jal" => Out = JalOut
      /\ op = "jalr" => Out = JalrOut
      /\ op = "lui" => Out = LuiOut
      /\ op = "auipc" => Out = AuipcOut
      /\ op \in {"ecall", "ebreak"} => Out = CallOut
      /\ op \in CsrOp \cup {"mret", "wfi", "system4"} => Out = SystemOut
      /\ op = "illegal" => Out = IllegalOut
  BY DEF MulOp, AluOp, AluImmOp, BranchOp, LoadOp, StoreOp, SystemOp, CsrOp, CsrImmOp
<1> HIDE DEF Out
<1>9. /\ op \in MulOp => ForkExecute(f, i) = MulOut
      /\ op \in AluOp => ForkExecute(f, i) = AluOut
      /\ op \in AluImmOp => ForkExecute(f, i) = ImmOut
      /\ op \in LoadOp => ForkExecute(f, i) = LoadOut
      /\ op \in StoreOp => ForkExecute(f, i) = StoreOut
      /\ op \in BranchOp => ForkExecute(f, i) = BranchOut
      /\ op = "jal" => ForkExecute(f, i) = JalOut
      /\ op = "jalr" => ForkExecute(f, i) = JalrOut
      /\ op = "lui" => ForkExecute(f, i) = LuiOut
      /\ op = "auipc" => ForkExecute(f, i) = AuipcOut
      /\ op \in {"ecall", "ebreak"} => ForkExecute(f, i) = CallOut
      /\ op \in CsrOp \cup {"mret", "wfi", "system4"} => ForkExecute(f, i) = SystemOut
      /\ op = "illegal" => ForkExecute(f, i) = IllegalOut
  BY <1>1, <1>2, <1>3, <1>4, <1>5, <1>6, <1>7, <1>8
<1> QED
  BY ONLY <1>9, Zenon
     DEF op, a, b, MulOut, AluOut, ImmOut, LoadOut, StoreOut, BranchOut, JalOut, JalrOut, LuiOut, AuipcOut,
         CallOut, SystemOut, IllegalOut

\* Whatever the processor does with a large shift count, a word comes out.
LEMMA ForkRegOpWord ==
  ASSUME NEW op \in AluOp, NEW a \in Word, NEW b \in Word, NEW v \in ForkRegOp(op, a, b) PROVE v \in Word
<1>1. b % W \in Word
  <2> DEFINE s == b % W
  <2>1. b \in Nat /\ \A x \in 0 .. b : x \in Word
    BY WordFacts
  <2>2. s \in 0 .. b
    BY <2>1, WidthAssumption
  <2> QED
    BY <2>1, <2>2
<1>2. RegOp(op, a, b) \in Word /\ RegOp(op, a, b % W) \in Word
  BY <1>1, RegOpWord
<1>3. 0 \in Word /\ 2^W - 1 \in Word
  BY WordFacts DEF Modulus
<1>4. v = RegOp(op, a, b) \/ v = RegOp(op, a, b % W) \/ v = 0 \/ v = 2^W - 1
  BY DEF ForkRegOp, ForkShift
<1> QED
  BY <1>2, <1>3, <1>4

\* The structure's padding behind the RAM takes what sh writes there.
LEMMA ForkStoreType ==
  ASSUME NEW f \in Fork, NEW i \in Insn, i.op \in StoreOp PROVE ForkStore(f, i) \in Fork
<1> DEFINE n == Width[i.op]
           D == 0 .. MemSize + ForkSpare - 1
           ram == Overwrite(f.ram, Address(f, i), BytesOf(f.r[i.rs2], n))
<1>1. n \in 0 .. 4
  BY WidthType
<1>2. f.r \in [Reg -> Word] /\ f.ram \in [D -> Byte] /\ i.rs2 \in Reg
  BY DEF Fork, Insn
<1>3. Address(f, i) \in Nat /\ f.r[i.rs2] \in Word
  BY <1>2, AddressWord, WordFacts
<1>4. BytesOf(f.r[i.rs2], n) \in [0 .. n - 1 -> Byte]
  BY <1>1, <1>3, BytesOfWord
<1>5. ram \in [D -> Byte]
  <2> HIDE DEF n, D
  <2> QED
    BY <1>1, <1>2, <1>3, <1>4, OverwriteType
<1> DEFINE stored == [f EXCEPT !.ram = ram]
<1>6. stored \in Fork
  <2> HIDE DEF ram
  <2> QED
    BY <1>5 DEF Fork
<1>7. 0 \in Reg /\ 0 \in Word /\ "INVALID_MEMORY_ACCESS" \in Result
  BY MachineAssumption, WordFacts DEF Result
<1>8. Advance(stored) \in Fork /\ ForkFail(f, "INVALID_MEMORY_ACCESS") \in Fork
  <2> HIDE DEF stored
  <2> QED
    BY <1>6, <1>7, ForkPieceTypes
<1>9. ForkStore(f, i) = Advance(stored) \/ ForkStore(f, i) = ForkFail(f, "INVALID_MEMORY_ACCESS")
  BY DEF ForkStore
<1> QED
  BY <1>8, <1>9

LEMMA ForkLoadType ==
  ASSUME NEW f \in Fork, NEW i \in Insn, i.op \in LoadOp PROVE ForkLoad(f, i) \in Fork
<1> DEFINE n == Width[i.op]
           addr == Address(f, i)
           v == Loaded(i.op, BytesAt(f.ram, addr, n))
<1>1. n \in 1 .. 4
  BY WidthType
<1>2. f.r \in [Reg -> Word] /\ f.ram \in [0 .. MemSize + ForkSpare - 1 -> Byte] /\ i.rd \in Reg
  BY DEF Fork, Insn
<1>3. addr \in Word /\ addr \in Nat
  BY <1>2, AddressWord, WordFacts
<1>4. 0 \in Reg /\ 0 \in Word /\ "INVALID_MEMORY_ACCESS" \in Result
  BY MachineAssumption, WordFacts DEF Result
<1>5. ForkFail(f, "INVALID_MEMORY_ACCESS") \in Fork
  BY <1>4, ForkPieceTypes
<1>6. ASSUME ForkGranted(addr, n, MemSize) PROVE Advance(SetReg(f, i.rd, v)) \in Fork
  <2>1. addr + n <= MemSize + ForkSpare /\ MemSize + ForkSpare \in Nat
    <3> HIDE DEF addr, n
    <3> QED
      BY <1>1, <1>3, <1>6, MachineAssumption DEF ForkGranted, ForkSpare
  <2>2. BytesAt(f.ram, addr, n) \in [0 .. n - 1 -> Byte]
    <3> HIDE DEF addr, n
    <3> DEFINE size == MemSize + ForkSpare
    <3>1. size \in Nat /\ f.ram \in [0 .. size - 1 -> Byte]
      BY <1>2, MachineAssumption DEF ForkSpare
    <3>2. addr + n <= size /\ n \in 0 .. 4
      BY <1>1, <2>1
    <3> HIDE DEF size
    <3> QED
      BY <1>3, <3>1, <3>2, BytesAtType
  <2>3. v \in Word
    BY <2>2, LoadedWord
  <2> HIDE DEF v
  <2>4. SetReg(f, i.rd, v) \in Fork
    BY <1>2, <1>4, <2>3, ForkPieceTypes
  <2> QED
    BY <1>4, <2>4, ForkPieceTypes
<1> QED
  BY <1>5, <1>6 DEF ForkLoad

LEMMA ForkExecuteType ==
  ASSUME NEW f \in Fork, NEW i \in Insn, NEW o \in ForkExecute(f, i) PROVE o \in Fork
<1> DEFINE a == f.r[i.rs1]
           b == f.r[i.rs2]
<1>1. /\ i.op \in Ops /\ i.rd \in Reg /\ i.rs1 \in Reg /\ i.rs2 \in Reg /\ i.imm \in Word
      /\ f.r \in [Reg -> Word] /\ f.pc \in Word
  BY DEF Insn, Fork
<1>2. a \in Word /\ b \in Word /\ Address(f, i) \in Word
  BY <1>1, AddressWord
<1>3. Wrap(f.pc + i.imm) \in Word /\ Wrap(f.pc + 4) \in Word
  BY <1>1, TargetWord
<1>4. Advance(f) \in Fork /\ \A x \in Result : ForkFail(f, x) \in Fork
  <2>1. 0 \in Reg /\ 0 \in Word /\ "OK" \in Result
    BY MachineAssumption, WordFacts DEF Result
  <2>2. ASSUME NEW x \in Result PROVE ForkFail(f, x) \in Fork
    BY <2>1, ForkPieceTypes
  <2> QED
    BY <2>1, <2>2, ForkPieceTypes
<1>5. ASSUME NEW v \in Word
      PROVE  /\ SetReg(f, i.rd, v) \in Fork /\ Advance(SetReg(f, i.rd, v)) \in Fork /\ Jump(f, v) \in Fork
  <2>1. SetReg(f, i.rd, v) \in Fork /\ Jump(f, v) \in Fork
    BY <1>1, ForkPieceTypes DEF Result
  <2> QED
    BY <1>1, <2>1, ForkPieceTypes DEF Result
<1>6. ASSUME NEW v \in Word, NEW w \in Word PROVE Jump(SetReg(f, i.rd, v), w) \in Fork
  <2>1. SetReg(f, i.rd, v) \in Fork
    BY <1>5
  <2> QED
    BY <1>1, <2>1, ForkPieceTypes DEF Result
<1>7. CASE i.op \in MulOp
  <2>1. o = Advance(SetReg(f, i.rd, MulDiv(i.op, a, b)))
    BY <1>7, ForkExecuteCases
  <2> QED
    BY <1>2, <1>5, <1>7, <2>1, MulDivWord
<1>8. CASE i.op \in AluOp
  <2>1. PICK v \in ForkRegOp(i.op, a, b) : o = Advance(SetReg(f, i.rd, v))
    BY <1>8, ForkExecuteCases
  <2> QED
    BY <1>2, <1>5, <1>8, <2>1, ForkRegOpWord
<1>9. CASE i.op \in AluImmOp
  <2>1. o = Advance(SetReg(f, i.rd, ImmOp(i.op, a, i.imm)))
    BY <1>9, ForkExecuteCases
  <2> QED
    BY <1>1, <1>2, <1>5, <1>9, <2>1, ImmOpWord
<1>10. CASE i.op \in LoadOp
  BY <1>10, ForkExecuteCases, ForkLoadType
<1>11. CASE i.op \in StoreOp
  BY <1>11, ForkExecuteCases, ForkStoreType
<1>12. CASE i.op \in BranchOp
  <2>1. o = Jump(f, Wrap(f.pc + i.imm)) \/ o = Advance(f)
    BY <1>12, ForkExecuteCases
  <2> QED
    BY <1>3, <1>4, <1>5, <2>1
<1>13. CASE i.op = "jal"
  <2>1. o = Jump(SetReg(f, i.rd, Wrap(f.pc + 4)), Wrap(f.pc + i.imm))
    BY <1>13, ForkExecuteCases
  <2> QED
    BY <1>3, <1>6, <2>1
<1>14. CASE i.op = "jalr"
  <2> DEFINE linked == SetReg(f, i.rd, Wrap(f.pc + 4))
  <2>1. linked \in Fork
    BY <1>3, <1>5
  <2>2. o = Jump(linked, Address(linked, i))
    BY <1>14, ForkExecuteCases DEF ForkJalr
  <2> HIDE DEF linked
  <2>3. Address(linked, i) \in Word
    BY <2>1, AddressWord DEF Fork
  <2> QED
    BY <1>1, <2>1, <2>2, <2>3, ForkPieceTypes DEF Result
<1>15. CASE i.op \in {"lui", "auipc"}
  <2>1. \/ o = Advance(SetReg(f, i.rd, i.imm))
        \/ o = Advance(SetReg(f, i.rd, Wrap(f.pc + i.imm)))
    BY <1>15, ForkExecuteCases
  <2> QED
    BY <1>1, <1>3, <1>5, <2>1
<1>16. CASE i.op \in {"ecall", "ebreak", "illegal"}
  <2>1. o = Advance(f) \/ \E x \in Result : o = ForkFail(f, x)
    BY <1>16, ForkExecuteCases DEF Result
  <2> QED
    BY <1>4, <2>1
<1>17. CASE i.op \in CsrOp \cup {"mret", "wfi", "system4"}
  <2>1. o = Advance(f) \/ o = ForkFail(f, "INVALID_INSTRUCTION")
    BY <1>17, ForkExecuteCases
  <2> QED
    BY <1>4, <2>1 DEF Result
<1> QED
  BY <1>1, <1>7, <1>8, <1>9, <1>10, <1>11, <1>12, <1>13, <1>14, <1>15, <1>16, <1>17 DEF Ops, SystemOp

\* The fetch has the bound of a byte: the three bytes behind it may lie in the
\* padding, and still are bytes.
LEMMA ForkCycleType == ASSUME NEW f \in Fork, NEW o \in ForkCycle(f) PROVE o \in Fork
<1>1. 0 \in Reg /\ 0 \in Word /\ "INVALID_MEMORY_ACCESS" \in Result
  BY MachineAssumption, WordFacts DEF Result
<1>2. SetReg(f, 0, 0) \in Fork /\ ForkFail(f, "INVALID_MEMORY_ACCESS") \in Fork
  BY <1>1, ForkPieceTypes
<1>3. ASSUME ForkGrantedFetch(f.pc, MemSize) PROVE Code[WordOf(BytesAt(f.ram, f.pc, 4))] \in Insn
  <2>1. f.ram \in [0 .. MemSize + ForkSpare - 1 -> Byte] /\ f.pc \in Nat /\ MemSize \in Nat
    BY WordFacts, MachineAssumption DEF Fork
  <2>2. f.pc + 4 <= MemSize + ForkSpare /\ MemSize + ForkSpare \in Nat /\ 4 \in 0 .. 4
    BY <1>3, <2>1 DEF ForkGrantedFetch, ForkSpare
  <2>3. BytesAt(f.ram, f.pc, 4) \in [0 .. 4 - 1 -> Byte]
    <3> DEFINE size == MemSize + ForkSpare
    <3>1. size \in Nat /\ f.ram \in [0 .. size - 1 -> Byte] /\ f.pc + 4 <= size
      BY <2>1, <2>2 DEF ForkSpare
    <3> HIDE DEF size
    <3> QED
      BY <2>1, <2>2, <3>1, BytesAtType
  <2>4. WordOf(BytesAt(f.ram, f.pc, 4)) \in Word
    BY <2>2, <2>3, BytesMakeWord
  <2> QED
    BY <2>4, MachineAssumption
<1> QED
  BY <1>2, <1>3, ForkExecuteType DEF ForkCycle

-----------------------------------------------------------------------------
(* Type correctness of the two machines *)

\* Init for one program and one choice of register values.
Start(p, v) ==
  LET r == [x \in Reg |-> IF x = 0 THEN 0 ELSE v[x]]
      ram == [k \in 0 .. MemSize - 1 |-> BytesOf(p[k \div 4], 4)[k % 4]]
  IN /\ hdr = [r |-> r, pc |-> 0, ram |-> ram, ie |-> BytesOf(0, 4),
                csr |-> [x \in Csr |-> 0], wfi |-> FALSE, status |-> "RUNNING"]
     /\ fork = [r |-> r, pc |-> 0,
                ram |-> [k \in 0 .. MemSize + ForkSpare - 1 |-> IF k < MemSize THEN ram[k] ELSE 0],
                result |-> "OK"]
     /\ lock = "together"

LEMMA InitTyped == Init => TypeOK
<1> SUFFICES ASSUME Init PROVE TypeOK
  OBVIOUS
<1>1. PICK p \in Programs, v \in [Reg \ {0} -> Values] : Start(p, v)
  BY DEF Init, Start
<1> DEFINE r == [x \in Reg |-> IF x = 0 THEN 0 ELSE v[x]]
           ram == [k \in 0 .. MemSize - 1 |-> BytesOf(p[k \div 4], 4)[k % 4]]
           spare == [k \in 0 .. MemSize + ForkSpare - 1 |-> IF k < MemSize THEN ram[k] ELSE 0]
<1>2. 0 \in Word /\ 0 \in Byte /\ MemSize \in Nat
  BY WordFacts, QuarterFacts, MachineAssumption
<1>3. r \in [Reg -> Word]
  BY <1>2, LockstepAssumption
<1>4. \A k \in 0 .. MemSize - 1 : ram[k] \in Byte
  <2> TAKE k \in 0 .. MemSize - 1
  <2>1. k \div 4 \in 0 .. (MemSize - 1) \div 4 /\ k % 4 \in 0 .. 4 - 1
    BY <1>2
  <2>2. p[k \div 4] \in Word
    BY <2>1, LockstepAssumption
  <2>3. BytesOf(p[k \div 4], 4) \in [0 .. 4 - 1 -> Byte]
    BY <2>2, BytesOfWord
  <2>4. BytesOf(p[k \div 4], 4)[k % 4] \in Byte
    BY <2>1, <2>3
  <2> QED
    BY <2>4
<1>5. ram \in [0 .. MemSize - 1 -> Byte]
  BY <1>4
<1>6. spare \in [0 .. MemSize + ForkSpare - 1 -> Byte]
  <2>1. \A k \in 0 .. MemSize + ForkSpare - 1 : k < MemSize => k \in 0 .. MemSize - 1
    BY <1>2 DEF ForkSpare
  <2> QED
    BY <1>2, <1>4, <2>1
<1>7. BytesOf(0, 4) \in [0 .. 3 -> Byte]
  <2>1. BytesOf(0, 4) \in [0 .. 4 - 1 -> Byte]
    BY <1>2, BytesOfWord
  <2> QED
    BY <2>1
<1>8. /\ hdr = [r |-> r, pc |-> 0, ram |-> ram, ie |-> BytesOf(0, 4),
                csr |-> [x \in Csr |-> 0], wfi |-> FALSE, status |-> "RUNNING"]
      /\ fork = [r |-> r, pc |-> 0, ram |-> spare, result |-> "OK"]
      /\ lock = "together"
  BY <1>1 DEF Start
<1> HIDE DEF r, ram, spare
<1> QED
  BY <1>8, <1>2, <1>3, <1>5, <1>6, <1>7 DEF TypeOK, Machine, Fork, Status, Result

LEMMA StepTyped == TypeOK /\ [Next]_vars => TypeOK'
<1> SUFFICES ASSUME TypeOK, [Next]_vars PROVE TypeOK'
  OBVIOUS
<1>1. CASE Next
  <2>1. hdr' \in Cycle(hdr) /\ fork' \in ForkCycle(fork) /\ lock' \in {"together", "parted"}
    BY <1>1 DEF Next, Step
  <2> QED
    BY <2>1, CycleType, ForkCycleType DEF TypeOK
<1>2. CASE UNCHANGED vars
  BY <1>2 DEF TypeOK, vars
<1> QED
  BY <1>1, <1>2

\* Registers and RAM hold words and bytes, whatever the program and whatever the
\* width: no load, store, shift or division leaves anything else in them.
THEOREM LockstepTypeCorrect == Spec => []TypeOK
  BY InitTyped, StepTyped, PTL DEF Spec

-----------------------------------------------------------------------------
(* The fork does what the header's machine does *)

\* Both at the same point, with the same registers and the same RAM.
Level(m, f) ==
  /\ f.r = m.r /\ f.pc = m.pc
  /\ \A k \in 0 .. MemSize - 1 : f.ram[k] = m.ram[k]

\* ForkAgrees of two machines that have not parted.
Agree(m, f) ==
  /\ Level(m, f)
  /\ f.result = "OK" <=> m.status = "RUNNING"
  /\ f.result = "INVALID_MEMORY_ACCESS" <=> m.status = "INVALID_MEMORY_ACCESS"

Going(m, f) == Level(m, f) /\ m.status = "RUNNING" /\ f.result = "OK"

LEMMA PiecesAgree ==
  ASSUME NEW m \in Machine, NEW f \in Fork, Going(m, f), NEW rd \in Reg, NEW v, NEW w
  PROVE  /\ Going(SetReg(m, rd, v), SetReg(f, rd, v)) /\ Going(Advance(m), Advance(f))
         /\ Going(Jump(m, v), Jump(f, v))
         /\ Going(Advance(SetReg(m, rd, v)), Advance(SetReg(f, rd, v)))
         /\ Going(Jump(SetReg(m, rd, v), w), Jump(SetReg(f, rd, v), w))
         /\ Agree(StopWith(m, "INVALID_MEMORY_ACCESS"), ForkFail(f, "INVALID_MEMORY_ACCESS"))
         /\ \A x \in {"INVALID_OPCODE", "INVALID_INSTRUCTION"} :
              Agree(StopWith(m, "INVALID_INSTRUCTION"), ForkFail(f, x))
  BY DEF Going, Agree, Level, SetReg, Advance, Jump, StopWith, ForkFail, Machine, Fork

LEMMA GoingAgrees == ASSUME NEW m, NEW f, Going(m, f) PROVE Agree(m, f)
  BY DEF Going, Agree

\* Inside RAM the two read the same bytes, and bounds other than the fetch's
\* and sh's are the same.
LEMMA SameBytes ==
  ASSUME NEW m \in Machine, NEW f \in Fork, Level(m, f), NEW addr \in Nat, NEW n \in {1, 2, 4}
  PROVE  /\ Granted(addr, n, MemSize) <=> ForkGranted(addr, n, MemSize)
         /\ Granted(addr, n, MemSize) <=> addr + n <= MemSize
         /\ Granted(addr, n, MemSize) => BytesAt(f.ram, addr, n) = BytesAt(m.ram, addr, n)
<1>1. MemSize \in Nat /\ MemSize >= 4 /\ n \in 1 .. 4
  BY MachineAssumption
<1>2. Granted(addr, n, MemSize) <=> addr + n <= MemSize
  BY <1>1 DEF Granted
<1>3. ForkGranted(addr, n, MemSize) <=> addr + n <= MemSize
  BY <1>1 DEF ForkGranted
<1>4. ASSUME addr + n <= MemSize PROVE BytesAt(f.ram, addr, n) = BytesAt(m.ram, addr, n)
  <2>1. \A k \in 0 .. n - 1 : f.ram[addr + k] = m.ram[addr + k]
    BY <1>1, <1>4 DEF Level
  <2> QED
    BY <2>1 DEF BytesAt
<1> QED
  BY <1>2, <1>3, <1>4

\* The same bytes stored at the same place leave the same RAM.
LEMMA SameStore ==
  ASSUME NEW m \in Machine, NEW f \in Fork, Going(m, f), NEW addr, NEW bytes
  PROVE  Going([m EXCEPT !.ram = Overwrite(m.ram, addr, bytes)], [f EXCEPT !.ram = Overwrite(f.ram, addr, bytes)])
<1> DEFINE mr == Overwrite(m.ram, addr, bytes)
           fr == Overwrite(f.ram, addr, bytes)
<1>1. \A k \in 0 .. MemSize - 1 : fr[k] = mr[k]
  <2>1. DOMAIN m.ram = 0 .. MemSize - 1 /\ DOMAIN f.ram = 0 .. MemSize + ForkSpare - 1
    BY DEF Machine, Fork
  <2>2. 0 .. MemSize - 1 \subseteq 0 .. MemSize + ForkSpare - 1
    BY MachineAssumption DEF ForkSpare
  <2> QED
    BY <2>1, <2>2 DEF Overwrite, Going, Level
<1> HIDE DEF mr, fr
<1> DEFINE mm == [m EXCEPT !.ram = mr]
           ff == [f EXCEPT !.ram = fr]
<1>2. mm.r = m.r /\ mm.pc = m.pc /\ mm.status = m.status /\ mm.ram = mr
  BY DEF Machine
<1>3. ff.r = f.r /\ ff.pc = f.pc /\ ff.result = f.result /\ ff.ram = fr
  BY DEF Fork
<1> HIDE DEF mm, ff
<1>4. Going(mm, ff)
  BY <1>1, <1>2, <1>3 DEF Going, Level
<1> QED
  BY <1>4 DEF mm, ff, mr, fr

LEMMA LoadsAgree ==
  ASSUME NEW m \in Machine, NEW f \in Fork, Going(m, f), NEW i \in Insn, i.op \in LoadOp,
         ~PartsAt(m, i), NEW o \in ExecLoad(m, i)
  PROVE  Agree(o, ForkLoad(f, i))
<1> DEFINE addr == Address(m, i)
           n == Width[i.op]
           v == Loaded(i.op, BytesAt(m.ram, addr, n))
<1>1. Address(f, i) = addr /\ Level(m, f)
  BY DEF Address, Going, Level
<1>2. addr \in Nat /\ n \in {1, 2, 4} /\ i.rd \in Reg
  BY AddressWord, WidthType, WordFacts DEF Machine, Insn
<1>3. ~(n = 4 /\ addr = IcAddr)
  BY DEF PartsAt, Width, LoadOp, StoreOp
<1>4. CASE Granted(addr, n, MemSize)
  <2>1. o = Advance(SetReg(m, i.rd, v))
    BY <1>4 DEF ExecLoad, rv32_load, OrFault
  <2>2. ForkGranted(addr, n, MemSize) /\ BytesAt(f.ram, addr, n) = BytesAt(m.ram, addr, n)
    <3> HIDE DEF addr, n
    <3> QED
      BY <1>1, <1>2, <1>4, SameBytes
  <2>3. ForkLoad(f, i) = Advance(SetReg(f, i.rd, v))
    BY <1>1, <2>2 DEF ForkLoad
  <2> HIDE DEF v
  <2> QED
    BY <1>2, <2>1, <2>3, PiecesAgree, GoingAgrees
<1>5. CASE ~Granted(addr, n, MemSize)
  <2>1. rv32_load(m, addr, n, MemSize, IcAddr) = {}
    BY <1>3, <1>5 DEF rv32_load
  <2>2. o = StopWith(m, "INVALID_MEMORY_ACCESS")
    BY <2>1 DEF ExecLoad, OrFault
  <2>3. ~ForkGranted(addr, n, MemSize)
    <3> HIDE DEF addr, n
    <3> QED
      BY <1>1, <1>2, <1>5, SameBytes
  <2>4. ForkLoad(f, i) = ForkFail(f, "INVALID_MEMORY_ACCESS")
    BY <1>1, <2>3 DEF ForkLoad
  <2> QED
    BY <1>2, <2>2, <2>4, PiecesAgree
<1> QED
  BY <1>4, <1>5

LEMMA StoresAgree ==
  ASSUME NEW m \in Machine, NEW f \in Fork, Going(m, f), NEW i \in Insn, i.op \in StoreOp,
         ~PartsAt(m, i), NEW o \in ExecStore(m, i)
  PROVE  Agree(o, ForkStore(f, i))
<1> DEFINE addr == Address(m, i)
           n == Width[i.op]
           bytes == BytesOf(m.r[i.rs2], n)
           mstored == [m EXCEPT !.ram = Overwrite(m.ram, addr, bytes)]
           fstored == [f EXCEPT !.ram = Overwrite(f.ram, addr, bytes)]
           forkGranted == IF i.op = "sh" THEN ForkGrantedHalf(addr, MemSize) ELSE ForkGranted(addr, n, MemSize)
<1>1. Address(f, i) = addr /\ BytesOf(f.r[i.rs2], n) = bytes /\ Level(m, f)
  BY DEF Address, Going, Level
<1>2. addr \in Nat /\ n \in {1, 2, 4} /\ n \in 0 .. 4 /\ i.rd \in Reg /\ m.r[i.rs2] \in Word
  BY AddressWord, WidthType, WordFacts DEF Machine, Insn
<1>3. ~(n = 4 /\ addr = IcAddr) /\ ~(n = 1 /\ addr = ConsoleAddr) /\ ~(i.op = "sh" /\ addr = MemSize - 1)
  BY DEF PartsAt, Width, LoadOp, StoreOp
<1>4. Granted(addr, n, MemSize) <=> forkGranted
  <2>1. CASE i.op = "sh"
    <3>1. n = 2
      BY <2>1 DEF Width, LoadOp, StoreOp
    <3> HIDE DEF addr, n
    <3> QED
      BY <1>2, <1>3, <2>1, <3>1, MachineAssumption DEF Granted, ForkGrantedHalf
  <2>2. CASE i.op # "sh"
    <3> HIDE DEF addr, n
    <3> QED
      BY <1>1, <1>2, <2>2, SameBytes
  <2> QED
    BY <2>1, <2>2
<1>5. CASE Granted(addr, n, MemSize)
  <2>1. o = Advance(mstored)
    BY <1>5 DEF ExecStore, rv32_store, OrFault
  <2>2. ForkStore(f, i) = Advance(fstored)
    BY <1>1, <1>4, <1>5 DEF ForkStore
  <2>3. Going(mstored, fstored)
    <3> HIDE DEF addr, bytes
    <3> QED
      BY SameStore
  <2>4. mstored \in Machine /\ fstored \in Fork
    <3>1. bytes \in [0 .. n - 1 -> Byte]
      BY <1>2, BytesOfWord
    <3> HIDE DEF addr, bytes, n
    <3>2. Overwrite(m.ram, addr, bytes) \in [0 .. MemSize - 1 -> Byte]
      BY <1>2, <3>1, OverwriteType DEF Machine
    <3>3. Overwrite(f.ram, addr, bytes) \in [0 .. MemSize + ForkSpare - 1 -> Byte]
      BY <1>2, <3>1, OverwriteType DEF Fork
    <3> QED
      BY <3>2, <3>3 DEF Machine, Fork
  <2> HIDE DEF mstored, fstored
  <2> QED
    BY <1>2, <2>1, <2>2, <2>3, <2>4, PiecesAgree, GoingAgrees
<1>6. CASE ~Granted(addr, n, MemSize)
  <2>1. rv32_store(m, addr, bytes, n, MemSize, IcAddr, ConsoleAddr) = {}
    BY <1>3, <1>6 DEF rv32_store
  <2>2. o = StopWith(m, "INVALID_MEMORY_ACCESS")
    BY <2>1 DEF ExecStore, OrFault
  <2>3. ForkStore(f, i) = ForkFail(f, "INVALID_MEMORY_ACCESS")
    BY <1>1, <1>4, <1>6 DEF ForkStore
  <2> QED
    BY <1>2, <2>2, <2>3, PiecesAgree
<1> QED
  BY <1>5, <1>6

\* jalr: read before or after rd is written, with or without the low bit.
LEMMA JumpsAgree ==
  ASSUME NEW m \in Machine, NEW f \in Fork, Going(m, f), NEW i \in Insn, i.op = "jalr", ~PartsAt(m, i)
  PROVE  Agree(ExecJalr(m, i), ForkJalr(f, i))
<1> DEFINE addr == Address(m, i)
           link == Wrap(m.pc + 4)
           linked == SetReg(f, i.rd, link)
<1>1. i.rd # i.rs1 /\ addr % 2 # 1
  BY DEF PartsAt
<1>2. addr \in Nat /\ i.rd \in Reg /\ i.rs1 \in Reg /\ f.r = m.r /\ f.pc = m.pc /\ m.r \in [Reg -> Word]
  <2>1. addr \in Nat
    <3> m.r \in [Reg -> Word]
      BY DEF Machine
    <3>1. addr \in Word
      BY AddressWord
    <3> QED
      BY ONLY <3>1, WordFacts
  <2>2. i.rd \in Reg /\ i.rs1 \in Reg
    BY DEF Insn
  <2>3. f.r = m.r /\ f.pc = m.pc /\ m.r \in [Reg -> Word]
    BY DEF Machine, Going, Level
  <2> QED
    BY <2>1, <2>2, <2>3
<1>3. 2 * (addr \div 2) = addr
  <2> HIDE DEF addr
  <2> QED
    BY <1>1, <1>2
<1>4. Address(linked, i) = addr
  <2> HIDE DEF link
  <2>1. linked.r[i.rs1] = m.r[i.rs1]
    BY <1>1, <1>2 DEF SetReg, Fork
  <2> QED
    BY <2>1 DEF Address
<1>5. ForkJalr(f, i) = Jump(SetReg(f, i.rd, link), addr)
  BY <1>2, <1>4 DEF ForkJalr
<1>6. ExecJalr(m, i) = Jump(SetReg(m, i.rd, link), addr)
  BY <1>3 DEF ExecJalr
<1> HIDE DEF addr, link
<1> QED
  BY <1>2, <1>5, <1>6, PiecesAgree, GoingAgrees

LEMMA ExecutesAgree ==
  ASSUME NEW m \in Machine, NEW f \in Fork, Going(m, f), NEW i \in Insn, ~PartsAt(m, i),
         NEW o \in Execute(m, i), NEW p \in ForkExecute(f, i)
  PROVE  Agree(o, p)
<1> DEFINE a == m.r[i.rs1]
           b == m.r[i.rs2]
<1>1. f.r = m.r /\ f.pc = m.pc
  BY DEF Going, Level
<1>2. i.op \in Ops /\ i.rd \in Reg /\ b \in Nat
  BY WordFacts DEF Insn, Machine
<1>3. ASSUME NEW v, o = Advance(SetReg(m, i.rd, v)), p = Advance(SetReg(f, i.rd, v)) PROVE Agree(o, p)
  BY <1>2, <1>3, PiecesAgree, GoingAgrees
<1>4. CASE i.op \in MulOp
  BY <1>1, <1>3, <1>4, ExecuteCases, ForkExecuteCases
<1>5. CASE i.op \in AluOp
  <2>1. ForkRegOp(i.op, a, b) = {RegOp(i.op, a, b)}
    <3>1. i.op \in {"sll", "srl", "sra"} => b < W
      BY <1>2, WidthAssumption DEF PartsAt
    <3> QED
      BY <3>1 DEF ForkRegOp, ForkShift
  <2>2. o = Advance(SetReg(m, i.rd, RegOp(i.op, a, b)))
    BY <1>5, ExecuteCases
  <2>3. p = Advance(SetReg(f, i.rd, RegOp(i.op, a, b)))
    <3>1. ForkExecute(f, i) = {Advance(SetReg(f, i.rd, v)) : v \in ForkRegOp(i.op, a, b)}
      BY <1>1, <1>5, ForkExecuteCases
    <3> QED
      BY <2>1, <3>1
  <2> QED
    BY <1>3, <2>2, <2>3
<1>6. CASE i.op \in AluImmOp
  BY <1>1, <1>3, <1>6, ExecuteCases, ForkExecuteCases
<1>7. CASE i.op \in LoadOp
  BY <1>7, ExecuteCases, ForkExecuteCases, LoadsAgree
<1>8. CASE i.op \in StoreOp
  BY <1>8, ExecuteCases, ForkExecuteCases, StoresAgree
<1>9. CASE i.op \in BranchOp
  <2>1. o = IF Taken(i.op, a, b) THEN Jump(m, Wrap(m.pc + i.imm)) ELSE Advance(m)
    BY <1>9, ExecuteCases
  <2>2. p = IF Taken(i.op, a, b) THEN Jump(f, Wrap(m.pc + i.imm)) ELSE Advance(f)
    BY <1>1, <1>9, ForkExecuteCases
  <2>3. Going(Jump(m, Wrap(m.pc + i.imm)), Jump(f, Wrap(m.pc + i.imm))) /\ Going(Advance(m), Advance(f))
    BY <1>2, PiecesAgree
  <2> QED
    BY <2>1, <2>2, <2>3, GoingAgrees
<1>10. CASE i.op = "jal"
  <2>1. o = Jump(SetReg(m, i.rd, Wrap(m.pc + 4)), Wrap(m.pc + i.imm))
    BY <1>10, ExecuteCases
  <2>2. p = Jump(SetReg(f, i.rd, Wrap(m.pc + 4)), Wrap(m.pc + i.imm))
    BY <1>1, <1>10, ForkExecuteCases
  <2> QED
    BY <1>2, <2>1, <2>2, PiecesAgree, GoingAgrees
<1>11. CASE i.op = "jalr"
  BY <1>11, ExecuteCases, ForkExecuteCases, JumpsAgree
<1>12. CASE i.op = "lui"
  BY <1>3, <1>12, ExecuteCases, ForkExecuteCases
<1>13. CASE i.op = "auipc"
  BY <1>1, <1>3, <1>13, ExecuteCases, ForkExecuteCases
<1>14. CASE i.op \in {"ecall", "ebreak"}
  <2>1. o = Advance(m)
    BY <1>14, ExecuteCases DEF PartsAt
  <2>2. p = Advance(f)
    BY <1>14, ForkExecuteCases
  <2> QED
    BY <1>2, <2>1, <2>2, PiecesAgree, GoingAgrees
<1>15. CASE i.op = "illegal"
  <2>1. o = StopWith(m, "INVALID_INSTRUCTION")
    BY <1>15, ExecuteSystem
  <2>2. \E x \in {"INVALID_OPCODE", "INVALID_INSTRUCTION"} : p = ForkFail(f, x)
    BY <1>15, ForkExecuteCases
  <2> QED
    BY <1>2, <2>1, <2>2, PiecesAgree
<1>16. CASE i.op = "system4"
  <2>1. o = StopWith(m, "INVALID_INSTRUCTION")
    BY <1>16, ExecuteSystem
  <2>2. p = ForkFail(f, "INVALID_INSTRUCTION")
    BY <1>16, ForkExecuteCases DEF PartsAt
  <2> QED
    BY <1>2, <2>1, <2>2, PiecesAgree
<1>17. i.op \notin CsrOp \cup {"mret", "wfi"}
  BY DEF PartsAt
<1> QED
  BY <1>2, <1>4, <1>5, <1>6, <1>7, <1>8, <1>9, <1>10, <1>11, <1>12, <1>13, <1>14, <1>15, <1>16, <1>17
     DEF Ops, SystemOp

\* An instruction always has an outcome, be it a fault.
LEMMA ExecuteSomething == ASSUME NEW m, NEW i \in Insn PROVE Execute(m, i) # {}
<1>1. i.op \in Ops
  BY DEF Insn
<1>2. ExecLoad(m, i) # {} /\ ExecStore(m, i) # {}
  BY DEF ExecLoad, ExecStore, OrFault
<1> QED
  <2>1. CASE i.op \in {"mret", "wfi", "system4", "illegal"} \cup CsrOp
    <3>1. \E o : Execute(m, i) = {o}
      BY <2>1, ExecuteSystem, Zenon
    <3> QED
      BY <3>1
  <2>2. CASE i.op \notin {"mret", "wfi", "system4", "illegal"} \cup CsrOp
    BY <1>1, <1>2, <2>2, ExecuteCases, SMTT(40) DEF Ops, SystemOp
  <2> QED
    BY <2>1, <2>2

\* Only mret, wfi and the csr instructions change what the fork has not.
Kept(m, o) == o.csr = m.csr /\ o.wfi = m.wfi

LEMMA PiecesKeep ==
  ASSUME NEW m \in Machine, NEW rd, NEW v, NEW w, NEW s
  PROVE  /\ Kept(m, Advance(SetReg(m, rd, v))) /\ Kept(m, Advance(m)) /\ Kept(m, SetReg(m, rd, v))
         /\ Kept(m, Jump(SetReg(m, rd, v), w)) /\ Kept(m, Jump(m, w))
         /\ Kept(m, StopWith(m, s)) /\ Kept(m, StopWith(Advance(m), s))
         /\ Kept(m, Advance([m EXCEPT !.ram = v])) /\ Kept(m, Advance([m EXCEPT !.ie = v]))
  BY DEF Kept, SetReg, Advance, Jump, StopWith, Machine

LEMMA RegisterKeeps == ASSUME NEW m \in Machine, NEW rd, NEW v PROVE Kept(m, Advance(SetReg(m, rd, v)))
  BY DEF Kept, SetReg, Advance, Machine

LEMMA ExecuteKeeps ==
  ASSUME NEW m \in Machine, NEW i \in Insn, i.op \notin CsrOp \cup {"mret", "wfi"}, NEW o \in Execute(m, i)
  PROVE  Kept(m, o)
<1>1. i.op \in Ops
  BY DEF Insn
<1>2. CASE i.op \in MulOp \cup AluOp \cup AluImmOp \cup {"lui", "auipc"}
  <2>1. \E v : o = Advance(SetReg(m, i.rd, v))
    BY <1>2, ExecuteCases
  <2> QED
    BY ONLY <2>1, RegisterKeeps
<1>3. CASE i.op \in LoadOp
  <2>1. (\E v : o = Advance(SetReg(m, i.rd, v))) \/ o = StopWith(m, "INVALID_MEMORY_ACCESS")
    BY <1>3, ExecuteCases DEF ExecLoad, OrFault
  <2>2. Kept(m, StopWith(m, "INVALID_MEMORY_ACCESS"))
    BY PiecesKeep
  <2> QED
    BY ONLY <2>1, <2>2, RegisterKeeps
<1>4. CASE i.op \in StoreOp
  <2> DEFINE bytes == BytesOf(m.r[i.rs2], Width[i.op])
             ram == Overwrite(m.ram, Address(m, i), bytes)
  <2>1. \/ o = Advance([m EXCEPT !.ram = ram])
        \/ o = Advance([m EXCEPT !.ie = bytes])
        \/ o = Advance(m)
        \/ o = StopWith(m, "INVALID_MEMORY_ACCESS")
    BY <1>4, ExecuteCases DEF ExecStore, OrFault, rv32_store
  <2> QED
    BY <2>1, PiecesKeep
<1>5. CASE i.op \in BranchOp
  <2>1. o = Jump(m, Wrap(m.pc + i.imm)) \/ o = Advance(m)
    BY <1>5, ExecuteCases
  <2> QED
    BY <2>1, PiecesKeep
<1>6. CASE i.op \in {"jal", "jalr"}
  <2>1. \E v : \E w : o = Jump(SetReg(m, i.rd, v), w)
    BY <1>6, ExecuteCases DEF ExecJalr
  <2> QED
    BY <2>1, PiecesKeep
<1>7. CASE i.op \in {"ecall", "ebreak"}
  <2>1. o = Advance(m) \/ o = StopWith(m, "HALTED") \/ o = StopWith(Advance(m), "EBREAK")
    BY <1>7, ExecuteCases
  <2> QED
    BY <2>1, PiecesKeep
<1>8. CASE i.op \in {"system4", "illegal"}
  <2>1. o = StopWith(m, "INVALID_INSTRUCTION")
    BY <1>8, ExecuteSystem
  <2> QED
    BY <2>1, PiecesKeep
<1> QED
  BY <1>1, <1>2, <1>3, <1>4, <1>5, <1>6, <1>7, <1>8 DEF Ops, SystemOp

\* One cycle of each, from an instruction the two treat alike.
LEMMA CyclesAgree ==
  ASSUME NEW m \in Machine, NEW f \in Fork, Going(m, f), ~Parts(m), ~m.wfi,
         NEW o \in Cycle(m), NEW p \in ForkCycle(f)
  PROVE  Agree(o, p)
<1> DEFINE m0 == SetReg(m, 0, 0)
           f0 == SetReg(f, 0, 0)
<1>1. 0 \in Reg /\ 0 \in Word /\ MemSize \in Nat /\ MemSize >= 4 /\ "RUNNING" \in Status /\ "OK" \in Result
  BY MachineAssumption, WordFacts DEF Status, Result
<1>2. m0 \in Machine /\ f0 \in Fork /\ Going(m0, f0)
  BY <1>1, PieceTypes, ForkPieceTypes, PiecesAgree
<1>3. m.pc \in Nat /\ f.pc = m.pc /\ Level(m, f) /\ m.status = "RUNNING" /\ f.result = "OK"
  BY WordFacts DEF Machine, Going, Level
<1>4. m.pc \notin MemSize - 3 .. MemSize - 1 /\ m.pc # IcAddr /\ \A i \in Fetch(m) : ~PartsAt(m0, i)
  BY DEF Parts
<1>5. CASE m.pc < MemSize
  <2> DEFINE bytes == BytesAt(m.ram, m.pc, 4)
             i == Code[WordOf(bytes)]
  <2>1. Granted(m.pc, 4, MemSize) /\ ForkGrantedFetch(f.pc, MemSize)
    BY <1>1, <1>3, <1>4, <1>5 DEF Granted, ForkGrantedFetch
  <2>2. BytesAt(f.ram, f.pc, 4) = bytes
    BY <1>3, <2>1, SameBytes
  <2>3. Fetch(m) = {i}
    BY <2>1 DEF Fetch, rv32_load
  <2>4. i \in Insn
    BY <2>3, FetchedInsn
  <2> HIDE DEF i
  <2>5. UNION {Execute(m0, j) : j \in Fetch(m)} = Execute(m0, i)
    BY <2>3
  <2>6. o \in Execute(m0, i)
    BY <1>3, <2>4, <2>5, ExecuteSomething DEF Cycle, OrFault
  <2>7. p \in ForkExecute(f0, i)
    BY <1>3, <2>1, <2>2 DEF ForkCycle, i
  <2>8. ~PartsAt(m0, i)
    BY <1>4, <2>3
  <2> HIDE DEF m0, f0
  <2> QED
    BY <1>2, <2>4, <2>6, <2>7, <2>8, ExecutesAgree
<1>6. CASE ~(m.pc < MemSize)
  <2>1. ~Granted(m.pc, 4, MemSize) /\ ~ForkGrantedFetch(f.pc, MemSize)
    BY <1>1, <1>3, <1>6 DEF Granted, ForkGrantedFetch
  <2>2. Fetch(m) = {}
    BY <1>4, <2>1 DEF Fetch, rv32_load
  <2>3. UNION {Execute(m0, j) : j \in Fetch(m)} = {}
    BY <2>2
  <2>4. o = StopWith(m, "INVALID_MEMORY_ACCESS")
    BY <1>3, <2>3 DEF Cycle, OrFault
  <2>5. p = ForkFail(f, "INVALID_MEMORY_ACCESS")
    BY <1>3, <2>1 DEF ForkCycle
  <2> QED
    BY <1>1, <2>4, <2>5, PiecesAgree
<1> QED
  BY <1>5, <1>6

\* While they are together the csrs are as the program found them, and nobody
\* sleeps: this is what makes a machine without csrs one to compare with.
Fresh(m) == m.csr = [x \in Csr |-> 0] /\ m.wfi = FALSE

Unparted == lock = "together" => Fresh(hdr)

LEMMA CycleFresh ==
  ASSUME NEW m \in Machine, Fresh(m), m.status = "RUNNING", ~Parts(m), NEW o \in Cycle(m) PROVE Fresh(o)
<1> DEFINE m0 == SetReg(m, 0, 0)
           outcomes == UNION {Execute(m0, i) : i \in Fetch(m)}
<1>1. m0 \in Machine
  <2>1. 0 \in Reg /\ 0 \in Word /\ "RUNNING" \in Status
    BY MachineAssumption, WordFacts DEF Status
  <2> QED
    BY <2>1, PieceTypes
<1>2. Cycle(m) = OrFault(m, outcomes)
  BY DEF Cycle, Fresh
<1>3. \A i \in Fetch(m) : i \in Insn /\ i.op \notin CsrOp \cup {"mret", "wfi"}
  BY FetchedInsn DEF Parts, PartsAt
<1>4. Kept(m, m0) /\ Kept(m, StopWith(m, "INVALID_MEMORY_ACCESS"))
  BY PiecesKeep
<1> HIDE DEF m0
<1>5. \A x \in outcomes : Kept(m0, x)
  BY <1>1, <1>3, ExecuteKeeps
<1> HIDE DEF outcomes
<1>6. o \in outcomes \/ o = StopWith(m, "INVALID_MEMORY_ACCESS")
  BY <1>2 DEF OrFault
<1> QED
  BY <1>4, <1>5, <1>6 DEF Kept, Fresh

LEMMA StartsFresh == Init => Unparted
  BY DEF Init, Unparted, Fresh

LEMMA StaysFresh == TypeOK /\ Unparted /\ [Next]_vars => Unparted'
<1> SUFFICES ASSUME TypeOK, Unparted, [Next]_vars, lock' = "together" PROVE Fresh(hdr')
  BY DEF Unparted, Fresh
<1>1. CASE Next
  <2>1. lock = "together" /\ hdr.status = "RUNNING" /\ hdr' \in Cycle(hdr) /\ ~Parts(hdr)
    BY <1>1 DEF Next, Step
  <2> QED
    BY <2>1, CycleFresh DEF TypeOK, Unparted
<1>2. CASE UNCHANGED vars
  BY <1>2 DEF Unparted, vars
<1> QED
  BY <1>1, <1>2

LEMMA InitAgrees == Init => ForkAgrees
<1> SUFFICES ASSUME Init PROVE ForkAgrees
  OBVIOUS
<1>1. PICK p \in Programs, v \in [Reg \ {0} -> Values] : Start(p, v)
  BY DEF Init, Start
<1> DEFINE r == [x \in Reg |-> IF x = 0 THEN 0 ELSE v[x]]
           ram == [k \in 0 .. MemSize - 1 |-> BytesOf(p[k \div 4], 4)[k % 4]]
           spare == [k \in 0 .. MemSize + ForkSpare - 1 |-> IF k < MemSize THEN ram[k] ELSE 0]
<1>2. \A k \in 0 .. MemSize - 1 : spare[k] = ram[k]
  <2> HIDE DEF ram
  <2>1. \A k \in 0 .. MemSize - 1 : k \in 0 .. MemSize + ForkSpare - 1 /\ k < MemSize
    BY MachineAssumption DEF ForkSpare
  <2> QED
    BY <2>1
<1>3. /\ hdr = [r |-> r, pc |-> 0, ram |-> ram, ie |-> BytesOf(0, 4),
                csr |-> [x \in Csr |-> 0], wfi |-> FALSE, status |-> "RUNNING"]
      /\ fork = [r |-> r, pc |-> 0, ram |-> spare, result |-> "OK"]
      /\ lock = "together"
  BY <1>1 DEF Start
<1> HIDE DEF r, ram, spare
<1> QED
  BY <1>2, <1>3 DEF ForkAgrees

LEMMA StepAgrees == TypeOK /\ Unparted /\ ForkAgrees /\ [Next]_vars => ForkAgrees'
<1> SUFFICES ASSUME TypeOK, Unparted, ForkAgrees, [Next]_vars, lock' = "together" PROVE ForkAgrees'
  BY DEF ForkAgrees
<1>1. CASE Next
  <2>1. /\ lock = "together" /\ hdr.status = "RUNNING" /\ hdr' \in Cycle(hdr) /\ fork' \in ForkCycle(fork)
        /\ ~Parts(hdr)
    BY <1>1 DEF Next, Step
  <2>2. hdr \in Machine /\ fork \in Fork /\ Going(hdr, fork) /\ ~hdr.wfi
    BY <2>1 DEF TypeOK, ForkAgrees, Going, Level, Unparted, Fresh
  <2>3. Agree(hdr', fork')
    BY <2>1, <2>2, CyclesAgree
  <2> QED
    BY <2>3 DEF ForkAgrees, Agree, Level
<1>2. CASE UNCHANGED vars
  BY <1>2 DEF ForkAgrees, vars
<1> QED
  BY <1>1, <1>2

\* A program that runs on the header's machine runs on the fork's, with the same
\* registers, pc and RAM after every instruction and a fault in one when there
\* is a fault in the other, until an instruction the two are known to treat
\* differently: there is no other difference between them.
THEOREM ForkAlwaysAgrees == Spec => []ForkAgrees
<1>1. TypeOK /\ Unparted /\ ForkAgrees /\ [Next]_vars => (TypeOK /\ Unparted /\ ForkAgrees)'
  BY StepTyped, StaysFresh, StepAgrees
<1>2. Init => TypeOK /\ Unparted /\ ForkAgrees
  BY InitTyped, StartsFresh, InitAgrees
<1> QED
  BY <1>1, <1>2, PTL DEF Spec

-----------------------------------------------------------------------------
(* Register x0 *)

\* What x0 holds is forgotten when it is cleared.
LEMMA ClearingForgets ==
  ASSUME NEW m \in Machine, NEW v PROVE SetReg(SetReg(m, 0, v), 0, 0) = SetReg(m, 0, 0)
<1>1. m.r \in [Reg -> Word]
  BY DEF Machine
<1>2. [[m.r EXCEPT ![0] = v] EXCEPT ![0] = 0] = [m.r EXCEPT ![0] = 0]
  BY <1>1
<1> QED
  BY <1>2 DEF SetReg, Machine

\* The fetch does not read registers, nor do the tests before it.
LEMMA FetchIgnoresRegisters ==
  ASSUME NEW m \in Machine, NEW v
  PROVE  Fetch(SetReg(m, 0, v)) = Fetch(m) /\ SetReg(m, 0, v).status = m.status
         /\ SetReg(m, 0, v).wfi = m.wfi
<1>1. /\ SetReg(m, 0, v).ram = m.ram /\ SetReg(m, 0, v).ie = m.ie
      /\ SetReg(m, 0, v).pc = m.pc /\ SetReg(m, 0, v).status = m.status
      /\ SetReg(m, 0, v).wfi = m.wfi
  BY DEF SetReg, Machine
<1> QED
  BY <1>1 DEF Fetch, rv32_load

LEMMA ZeroIsZero == TypeOK => ZeroReadsZero
<1> SUFFICES ASSUME TypeOK, hdr.status = "RUNNING", ~hdr.wfi, Fetch(hdr) # {}, NEW v \in Values
             PROVE  Cycle(SetReg(hdr, 0, v)) = Cycle(hdr)
  BY DEF ZeroReadsZero
<1>1. hdr \in Machine
  BY DEF TypeOK
<1> DEFINE other == SetReg(hdr, 0, v)
           outcomes == UNION {Execute(SetReg(hdr, 0, 0), i) : i \in Fetch(hdr)}
<1>2. Fetch(other) = Fetch(hdr) /\ other.status = "RUNNING" /\ ~other.wfi /\ SetReg(other, 0, 0) = SetReg(hdr, 0, 0)
  BY <1>1, ClearingForgets, FetchIgnoresRegisters
<1>3. Cycle(hdr) = OrFault(hdr, outcomes)
  BY DEF Cycle
<1>4. Cycle(other) = OrFault(other, outcomes)
  BY <1>2 DEF Cycle
<1>5. outcomes # {}
  <2>1. PICK i \in Fetch(hdr) : TRUE
    OBVIOUS
  <2>2. Execute(SetReg(hdr, 0, 0), i) # {}
    BY <1>1, <2>1, FetchedInsn, ExecuteSomething
  <2> QED
    BY <2>1, <2>2
<1> QED
  BY <1>3, <1>4, <1>5 DEF OrFault

\* Register x0, which rv32_cycle clears before an instruction and not after it,
\* is zero to every instruction: whatever the last one left in it, the next
\* cycle does the same.
THEOREM ZeroAlwaysReadsZero == Spec => []ZeroReadsZero
  BY LockstepTypeCorrect, ZeroIsZero, PTL

-----------------------------------------------------------------------------
(* The hart of Rv32Hart.tla *)

\* What that module sees of a machine.
HartOf(m) ==
  [status |-> m.status, bpMask |-> {}, bp |-> [s \in {0} |-> 0], pc |-> m.pc \div 4,
   mstatus |-> NamedBits({"MIE", "MPIE"}, m.csr.mstatus),
   mie |-> NamedBits({"MSI", "MTI", "MEI"}, m.csr.mie), mip |-> NamedBits({"MSI", "MTI", "MEI"}, m.csr.mip),
   mtvec |-> Vector(m.csr.mtvec), mepc |-> m.csr.mepc \div 4, mcause |-> CauseOf(m.csr.mcause),
   wfi |-> m.wfi, ie |-> Ones(WordOf(m.ie)), ip |-> {}]

MemOf(m) == [a \in 0 .. MemSize \div 4 - 1 |-> Class(Code[WordOf(BytesAt(m.ram, 4 * a, 4))])]

\* A hart by the fields a program can change: no slot is in use and no line is
\* raised.
NoSlot == {}
IdleSlots == [s \in {0} |-> 0]
SeenWith(status, pc, ie, mstatus, mie, mip, mtvec, mepc, mcause, wfi) ==
  [status |-> status, bpMask |-> NoSlot, bp |-> IdleSlots, pc |-> pc,
   mstatus |-> mstatus, mie |-> mie, mip |-> mip, mtvec |-> mtvec,
   mepc |-> mepc, mcause |-> mcause, wfi |-> wfi, ie |-> ie, ip |-> NoSlot]

\* A hart whose csrs are as rv32_new left them.
NoVector == [base |-> 0, vectored |-> FALSE]
Seen(status, pc, ie) == SeenWith(status, pc, ie, {}, {}, {}, NoVector, 0, 0, FALSE)

LEMMA NoOnes == Ones(0) = {} /\ Value({}) = 0
<1>1. Ones(0) = {}
  <2> SUFFICES ASSUME NEW i \in 0 .. W - 1 PROVE (0 \div 2^i) % 2 # 1
    BY DEF Ones
  <2>1. 2^i \in Nat /\ 2^i > 0
    BY PowerPositive, WidthAssumption
  <2> DEFINE p == 2^i
  <2> HIDE DEF p
  <2>2. p \in Nat /\ p > 0
    BY <2>1 DEF p
  <2>3. (0 \div p) % 2 # 1
    <3>1. 0 \div p = 0
      BY <2>2, SMT
    <3> QED
      BY <3>1
  <2> QED
    BY <2>3 DEF p
<1>2. Value({}) = 0
  <2>1. {} \in SUBSET Bits
    OBVIOUS
  <2> QED
    BY <2>1, ValueOf
<1> QED
  BY <1>1, <1>2

\* What a csr that holds zero is to the hart.
LEMMA ZeroViews ==
  /\ \A names : NamedBits(names, 0) = {}
  /\ Vector(0) = [base |-> 0, vectored |-> FALSE] /\ 0 \div 4 = 0 /\ CauseOf(0) = 0
<1>1. Ones(0) = {}
  BY NoOnes
<1>2. \A names : NamedBits(names, 0) = {}
  BY <1>1 DEF NamedBits
<1>3. 0 \div 4 = 0 /\ ~(0 % 2 = 1)
  OBVIOUS
<1>4. CauseOf(0) = 0
  <2> DEFINE p == 2^(W - 1)
  <2>1. p \in Nat /\ p > 0
    BY PowerPositive, WidthAssumption
  <2> HIDE DEF p
  <2>2. 0 % p = 0
    BY <2>1, SMT
  <2> QED
    BY <2>2 DEF CauseOf, p
<1> QED
  BY <1>2, <1>3, <1>4 DEF Vector

LEMMA HartSeen ==
  ASSUME NEW m
  PROVE  /\ HartOf(m) = SeenWith(m.status, m.pc \div 4, Ones(WordOf(m.ie)),
                                 NamedBits({"MIE", "MPIE"}, m.csr.mstatus),
                                 NamedBits({"MSI", "MTI", "MEI"}, m.csr.mie),
                                 NamedBits({"MSI", "MTI", "MEI"}, m.csr.mip),
                                 Vector(m.csr.mtvec), m.csr.mepc \div 4, CauseOf(m.csr.mcause), m.wfi)
         /\ Fresh(m) => HartOf(m) = Seen(m.status, m.pc \div 4, Ones(WordOf(m.ie)))
<1>1. HartOf(m) = SeenWith(m.status, m.pc \div 4, Ones(WordOf(m.ie)),
                           NamedBits({"MIE", "MPIE"}, m.csr.mstatus),
                           NamedBits({"MSI", "MTI", "MEI"}, m.csr.mie),
                           NamedBits({"MSI", "MTI", "MEI"}, m.csr.mip),
                           Vector(m.csr.mtvec), m.csr.mepc \div 4, CauseOf(m.csr.mcause), m.wfi)
  BY DEF HartOf, SeenWith, NoSlot, IdleSlots
<1>2. ASSUME Fresh(m) PROVE HartOf(m) = Seen(m.status, m.pc \div 4, Ones(WordOf(m.ie)))
  <2>1. /\ m.csr.mstatus = 0 /\ m.csr.mie = 0 /\ m.csr.mip = 0 /\ m.csr.mtvec = 0 /\ m.csr.mepc = 0
        /\ m.csr.mcause = 0 /\ m.wfi = FALSE
    BY <1>2 DEF Fresh, Csr
  <2> DEFINE ie == Ones(WordOf(m.ie))
             pc == m.pc \div 4
  <2> HIDE DEF ie, pc
  <2>2. HartOf(m) = SeenWith(m.status, pc, ie, {}, {}, {}, [base |-> 0, vectored |-> FALSE], 0, 0, FALSE)
    BY <1>1, <2>1, ZeroViews DEF ie, pc
  <2> QED
    BY <2>2 DEF Seen, NoVector, ie, pc
<1> QED
  BY <1>1, <1>2

LEMMA HartFetches ==
  ASSUME Fresh(hdr), hdr.status = "RUNNING", NEW i \in Hart!Fetched(HartOf(hdr)), Hart!Execute(HartOf(hdr), i)
  PROVE  Hart!rv32_cycle
<1> DEFINE h == HartOf(hdr)
<1>1. h.mstatus = {} /\ h.wfi = FALSE /\ h.status = "RUNNING" /\ h.bpMask = {}
  BY HartSeen DEF Seen, SeenWith, NoSlot
<1>2. Hart!rv32_handle_interrupt(h) = {h}
  BY <1>1 DEF Hart!rv32_handle_interrupt
<1>3. Hart!Active(h) /\ h.pc \notin Hart!Armed(h)
  BY <1>1 DEF Hart!Active, Hart!Armed
<1>4. Hart!FetchAndExecute(h)
  BY <1>3 DEF Hart!FetchAndExecute
<1> HIDE DEF h
<1>5. \E hh \in {h} : Hart!FetchAndExecute(hh)
  BY <1>4
<1> QED
  BY <1>2, <1>5 DEF Hart!rv32_cycle, h, HartOf

LEMMA HartFaultsThere ==
  ASSUME Fresh(hdr), hdr.status = "RUNNING", Hart!Fetched(HartOf(hdr)) = {},
         HartOf(hdr') = Hart!Stop(HartOf(hdr), "INVALID_MEMORY_ACCESS"), MemOf(hdr') = MemOf(hdr)
  PROVE  Hart!rv32_cycle
<1> DEFINE h == HartOf(hdr)
<1>1. h.mstatus = {} /\ h.wfi = FALSE /\ h.status = "RUNNING" /\ h.bpMask = {}
  BY HartSeen DEF Seen, SeenWith, NoSlot
<1>2. Hart!rv32_handle_interrupt(h) = {h}
  BY <1>1 DEF Hart!rv32_handle_interrupt
<1>3. Hart!Active(h) /\ h.pc \notin Hart!Armed(h)
  BY <1>1 DEF Hart!Active, Hart!Armed
<1>4. Hart!FetchFault(h)
  BY <1>3 DEF Hart!FetchFault, HartOf, MemOf
<1> HIDE DEF h
<1>5. \E hh \in {h} : Hart!FetchFault(hh)
  BY <1>4
<1> QED
  BY <1>2, <1>5 DEF Hart!rv32_cycle, h, HartOf

\* Words of bytes: what uint32_t addresses become when they are counted in words.
LEMMA Quarters ==
  /\ 2^W \div 4 \in Nat /\ 2^W \div 4 > 0 /\ 2^W = 4 * (2^W \div 4)
  /\ \A x \in Word : x \in Nat /\ x \div 4 \in 0 .. (2^W \div 4) - 1
<1> DEFINE S == 2^(W - 2)
<1>1. W \in Nat /\ W >= 4
  <2>1. W \in Nat /\ W > 0 /\ W % 4 = 0
    BY WidthAssumption, MachineAssumption
  <2> QED
    BY <2>1
<1>2. S \in Nat /\ S > 0
  BY <1>1, PowerPositive
<1>3. 2^W = 4 * S
  <2>1. W - 2 \in 0 .. W /\ 2 \in 0 .. W - (W - 2) /\ (W - 2) + 2 = W
    BY <1>1
  <2>2. 2^((W - 2) + 2) = 2^(W - 2) * 2^2
    BY <2>1, PowerSum
  <2>3. 2^2 = 4
    <3>1. 0 \in 0 .. W - 1 /\ 1 \in 0 .. W - 1 /\ 0 + 1 = 1 /\ 1 + 1 = 2
      BY <1>1
    <3>2. 2^0 = 1 /\ 2^(0 + 1) = 2 * 2^0 /\ 2^(1 + 1) = 2 * 2^1
      BY <3>1, PowerAssumption
    <3> QED
      BY <3>1, <3>2
  <2> HIDE DEF S
  <2>4. 2^W = S * 4
    BY <2>1, <2>2, <2>3 DEF S
  <2> QED
    BY <1>2, <2>4
<1> HIDE DEF S
<1> DEFINE M == 2^W
<1>4. M = 4 * S
  BY <1>3
<1>5. Word = 0 .. M - 1
  BY DEF Word
<1> HIDE DEF M
<1>6. M \div 4 = S
  BY <1>2, <1>4
<1>7. \A x \in Word : x \in Nat /\ x \div 4 \in 0 .. S - 1
  BY <1>2, <1>4, <1>5
<1> QED
  BY <1>2, <1>4, <1>6, <1>7 DEF M

LEMMA PcStep ==
  ASSUME NEW pc \in Word, pc % 4 = 0
  PROVE  Wrap(pc + 4) \div 4 = Hart!Plus(pc \div 4, 1) /\ 4 * (pc \div 4) = pc
<1> DEFINE S == 2^W \div 4
           M == 2^W
           q == pc \div 4
<1>1. S \in Nat /\ S > 0 /\ M = 4 * S /\ q \in 0 .. S - 1 /\ pc \in Nat
  BY Quarters
<1>2. pc = 4 * q
  <2> HIDE DEF S, M
  <2> QED
    BY <1>1
<1>3. Wrap(pc + 4) = (pc + 4) % M /\ Hart!Plus(q, 1) = (q + 1) % S
  BY DEF Wrap, Hart!Plus
<1> HIDE DEF S, M, q
<1>4. CASE q + 1 < S
  <2>1. (pc + 4) % M = pc + 4
    <3>1. pc + 4 = M * 0 + (pc + 4) /\ pc + 4 \in 0 .. M - 1 /\ M \in Nat /\ M > 0
      BY <1>1, <1>2, <1>4
    <3> QED
      BY <3>1, DivisionUnique
  <2>2. (q + 1) % S = q + 1
    <3>1. q + 1 = S * 0 + (q + 1) /\ q + 1 \in 0 .. S - 1
      BY <1>1, <1>4
    <3> QED
      BY <1>1, <3>1, DivisionUnique
  <2>3. (pc + 4) \div 4 = q + 1
    BY <1>1, <1>2
  <2> QED
    BY <1>2, <1>3, <2>1, <2>2, <2>3 DEF q
<1>5. CASE q + 1 = S
  <2>1. (pc + 4) % M = 0
    <3>1. pc + 4 = M * 1 + 0 /\ 0 \in 0 .. M - 1 /\ M \in Nat /\ M > 0 /\ pc + 4 \in Int
      BY <1>1, <1>2, <1>5
    <3> QED
      BY <3>1, DivisionUnique
  <2>2. (q + 1) % S = 0
    <3>1. q + 1 = S * 1 + 0 /\ 0 \in 0 .. S - 1 /\ q + 1 \in Int
      BY <1>1, <1>5
    <3> QED
      BY <1>1, <3>1, DivisionUnique
  <2>3. 0 \div 4 = 0
    OBVIOUS
  <2> QED
    BY <1>2, <1>3, <2>1, <2>2, <2>3 DEF q
<1> QED
  BY <1>1, <1>4, <1>5

\* The class of an instruction is one the hart knows.
LEMMA ClassKnown == ASSUME NEW i \in Insn PROVE Class(i) \in Hart!Instr
  BY DEF Class, Hart!Instr

LEMMA SeenPieces ==
  ASSUME NEW status, NEW pc, NEW ie, NEW new, NEW h, h = Seen(status, pc, ie)
  PROVE  /\ h.pc = pc
         /\ [h EXCEPT !.status = new] = Seen(new, pc, ie)
         /\ [h EXCEPT !.pc = new] = Seen(status, new, ie)
         /\ [h EXCEPT !.ie = new] = Seen(status, pc, new)
<1> DEFINE none == {}
           zero == 0
           no == FALSE
           bp == [s \in {0} |-> 0]
           mtvec == [base |-> 0, vectored |-> FALSE]
<1>1. \A x, y, z :
        Seen(x, y, z) =
          [status |-> x, bpMask |-> none, bp |-> bp, pc |-> y, mstatus |-> none, mie |-> none, mip |-> none,
           mtvec |-> mtvec, mepc |-> zero, mcause |-> zero, wfi |-> no, ie |-> z, ip |-> none]
  BY DEF Seen, SeenWith, NoSlot, IdleSlots, NoVector
<1> HIDE DEF none, zero, no, bp, mtvec
<1>2. [h EXCEPT !.status = new] = Seen(new, pc, ie)
  BY <1>1
<1>3. [h EXCEPT !.pc = new] = Seen(status, new, ie)
  BY <1>1
<1>4. [h EXCEPT !.ie = new] = Seen(status, pc, new)
  BY <1>1
<1>5. h.pc = pc
  BY <1>1
<1> QED
  BY <1>2, <1>3, <1>4, <1>5

\* What the pieces of an instruction do to the hart.
LEMMA HartPieces ==
  ASSUME NEW m \in Machine, NEW o, Fresh(m), Fresh(o)
  PROVE  /\ o.pc = Wrap(m.pc + 4) /\ m.pc % 4 = 0 /\ o.status = m.status /\ o.ie = m.ie =>
              HartOf(o) = Hart!Step(HartOf(m))
         /\ o.pc = Wrap(m.pc + 4) /\ m.pc % 4 = 0 /\ o.status = m.status =>
              HartOf(o) = [Hart!Step(HartOf(m)) EXCEPT !.ie = Ones(WordOf(o.ie))]
         /\ o.pc = m.pc /\ o.ie = m.ie => HartOf(o) = Hart!Stop(HartOf(m), o.status)
         /\ o.pc = Wrap(m.pc + 4) /\ m.pc % 4 = 0 /\ o.ie = m.ie =>
              HartOf(o) = Hart!Stop(Hart!Step(HartOf(m)), o.status)
         /\ o.status = m.status /\ o.ie = m.ie => HartOf(o) = [HartOf(m) EXCEPT !.pc = o.pc \div 4]
         /\ o.ram = m.ram => MemOf(o) = MemOf(m)
<1> DEFINE Ie(x) == Ones(WordOf(x.ie))
<1>1. m.pc % 4 = 0 => Wrap(m.pc + 4) \div 4 = Hart!Plus(m.pc \div 4, 1)
  BY PcStep DEF Machine
<1>2. HartOf(m) = Seen(m.status, m.pc \div 4, Ie(m)) /\ HartOf(o) = Seen(o.status, o.pc \div 4, Ie(o))
  BY HartSeen
<1>3. \A status, pc, ie : Hart!Step(Seen(status, pc, ie)) = Seen(status, Hart!Plus(pc, 1), ie)
  <2> TAKE status, pc, ie
  <2> DEFINE s == Seen(status, pc, ie)
  <2>1. s = Seen(status, pc, ie) /\ Hart!Step(s) = [s EXCEPT !.pc = Hart!Plus(s.pc, 1)]
    BY DEF Hart!Step
  <2> HIDE DEF s
  <2> QED
    BY <2>1, SeenPieces
<1>4. \A status, pc, ie, new : Hart!Stop(Seen(status, pc, ie), new) = Seen(new, pc, ie)
  BY SeenPieces DEF Hart!Stop
<1>5. o.ie = m.ie => Ie(o) = Ie(m)
  OBVIOUS
<1>6. o.ram = m.ram => MemOf(o) = MemOf(m)
  BY DEF MemOf
<1> HIDE DEF Ie
<1>7. /\ o.pc = Wrap(m.pc + 4) /\ m.pc % 4 = 0 /\ o.status = m.status /\ o.ie = m.ie =>
           HartOf(o) = Hart!Step(HartOf(m))
      /\ o.pc = m.pc /\ o.ie = m.ie => HartOf(o) = Hart!Stop(HartOf(m), o.status)
      /\ o.pc = Wrap(m.pc + 4) /\ m.pc % 4 = 0 /\ o.ie = m.ie =>
           HartOf(o) = Hart!Stop(Hart!Step(HartOf(m)), o.status)
  BY <1>1, <1>2, <1>3, <1>4, <1>5
<1>8. ASSUME o.status = m.status, o.ie = m.ie PROVE HartOf(o) = [HartOf(m) EXCEPT !.pc = o.pc \div 4]
  <2> DEFINE h == HartOf(m)
             s == Seen(m.status, m.pc \div 4, Ie(m))
  <2>1. [s EXCEPT !.pc = o.pc \div 4] = Seen(m.status, o.pc \div 4, Ie(m))
    BY SeenPieces
  <2>2. h = s /\ HartOf(o) = Seen(m.status, o.pc \div 4, Ie(m))
    BY <1>2, <1>5, <1>8
  <2> HIDE DEF s, h
  <2>3. HartOf(o) = [h EXCEPT !.pc = o.pc \div 4]
    BY <2>1, <2>2
  <2> QED
    BY <2>3 DEF h
<1>9. ASSUME o.pc = Wrap(m.pc + 4), m.pc % 4 = 0, o.status = m.status
      PROVE  HartOf(o) = [Hart!Step(HartOf(m)) EXCEPT !.ie = Ie(o)]
  <2> DEFINE h == Hart!Step(HartOf(m))
             s == Seen(m.status, o.pc \div 4, Ie(m))
  <2>2. h = s /\ HartOf(o) = Seen(m.status, o.pc \div 4, Ie(o))
    <3>1. Hart!Step(Seen(m.status, m.pc \div 4, Ie(m))) = Seen(m.status, Hart!Plus(m.pc \div 4, 1), Ie(m))
      BY <1>3
    <3>2. o.pc \div 4 = Hart!Plus(m.pc \div 4, 1)
      BY <1>1, <1>9
    <3> QED
      BY <1>2, <1>9, <3>1, <3>2, Zenon
  <2> DEFINE ie == Ie(o)
             pc == o.pc \div 4
  <2> HIDE DEF h, ie
  <2>3. [h EXCEPT !.ie = ie] = Seen(m.status, o.pc \div 4, ie)
    <3>1. h = Seen(m.status, pc, Ie(m))
      BY <2>2
    <3> HIDE DEF pc
    <3>2. ASSUME NEW x, NEW y, NEW z, NEW new, h = Seen(x, y, z)
          PROVE  [h EXCEPT !.ie = new] = Seen(x, y, new)
      BY ONLY <3>2, SeenPieces
    <3>3. [h EXCEPT !.ie = ie] = Seen(m.status, pc, ie)
      BY ONLY <3>1, <3>2
    <3> QED
      BY <3>3 DEF pc
  <2>4. HartOf(o) = [h EXCEPT !.ie = ie]
    BY <2>2, <2>3 DEF ie
  <2> QED
    BY <2>4 DEF h, ie
<1> QED
  BY <1>6, <1>7, <1>8, <1>9 DEF Ie

\* Word a of a RAM.
At(ram, a) == BytesAt(ram, 4 * a, 4)

Put(words, a, c) == [words EXCEPT ![a] = c]

\* A store inside one word changes one word of RAM, to one that decodes to
\* something.
InOneWord(addr, n) == addr + n <= MemSize /\ (addr % 4) + n <= 4

\* That m and o differ by such a store.
StoresInOneWord(m, o, addr, n, bytes) ==
  /\ m \in Machine /\ addr \in Nat /\ n \in {1, 2, 4} /\ bytes \in [0 .. n - 1 -> Byte]
  /\ InOneWord(addr, n)
  /\ o.ram = Overwrite(m.ram, addr, bytes)

ChangesOneWord(m, o) ==
  \E a \in Hart!Ram, c \in {Class(Code[w]) : w \in Word} : MemOf(o) = Put(MemOf(m), a, c)

LEMMA StoreInOneWord ==
  ASSUME NEW m, NEW o, NEW addr, NEW n, NEW bytes, StoresInOneWord(m, o, addr, n, bytes)
  PROVE  ChangesOneWord(m, o)
<1> SUFFICES ASSUME m \in Machine, addr \in Nat, n \in {1, 2, 4}, bytes \in [0 .. n - 1 -> Byte],
                    InOneWord(addr, n), o.ram = Overwrite(m.ram, addr, bytes)
             PROVE  \E a \in Hart!Ram, c \in {Class(Code[w]) : w \in Word} : MemOf(o) = Put(MemOf(m), a, c)
  BY DEF StoresInOneWord, ChangesOneWord
<1> DEFINE q == addr \div 4
           R == MemSize \div 4
           new == Class(Code[WordOf(At(o.ram, q))])
<1>1. MemSize \in Nat /\ MemSize >= 4 /\ n \in 1 .. 4 /\ n \in 0 .. 4
  BY MachineAssumption
<1>2. R \in Nat /\ R > 0 /\ 4 * R <= MemSize /\ \A a \in 0 .. R - 1 : 4 * a \in Nat /\ 4 * a + 4 <= MemSize
  BY <1>1
<1>3. q \in Nat /\ 4 * q <= addr /\ addr + n <= 4 * q + 4 /\ addr + n <= MemSize
  BY <1>1 DEF InOneWord
<1>4. m.ram \in [0 .. MemSize - 1 -> Byte]
  BY DEF Machine
<1>5. o.ram \in [0 .. MemSize - 1 -> Byte]
  <2> DEFINE D == 0 .. MemSize - 1
  <2>1. m.ram \in [D -> Byte]
    BY <1>4
  <2> HIDE DEF D
  <2>2. Overwrite(m.ram, addr, bytes) \in [D -> Byte]
    BY <1>1, <2>1, OverwriteType
  <2> QED
    BY <2>2 DEF D
<1>6. DOMAIN bytes = 0 .. n - 1
  OBVIOUS
<1>7. ASSUME NEW a \in 0 .. R - 1, a # q PROVE At(o.ram, a) = At(m.ram, a)
  <2>1. \A k \in 0 .. 3 : 4 * a + k \in 0 .. MemSize - 1 /\ (4 * a + k) - addr \notin 0 .. n - 1
    <3> HIDE DEF q, R
    <3>1. 4 * a + 3 < 4 * q \/ 4 * a > 4 * q + 3
      BY <1>2, <1>3, <1>7
    <3> QED
      BY <1>1, <1>2, <1>3, <1>7, <3>1
  <2>2. \A k \in 0 .. 3 : o.ram[4 * a + k] = m.ram[4 * a + k]
    BY <1>4, <1>6, <2>1 DEF Overwrite
  <2> DEFINE after == [k \in 0 .. 3 |-> o.ram[4 * a + k]]
             before == [k \in 0 .. 3 |-> m.ram[4 * a + k]]
  <2>3. BytesAt(o.ram, 4 * a, 4) = after /\ BytesAt(m.ram, 4 * a, 4) = before
    BY DEF BytesAt
  <2>4. after = before
    BY <2>2
  <2> HIDE DEF after, before
  <2> QED
    BY <2>3, <2>4 DEF At
<1>8. \A a \in 0 .. R - 1 : \A r \in [0 .. MemSize - 1 -> Byte] : WordOf(At(r, a)) \in Word
  <2> TAKE a \in 0 .. R - 1
  <2> TAKE r \in [0 .. MemSize - 1 -> Byte]
  <2>1. 4 \in 0 .. 4 /\ 4 * a \in Nat /\ 4 * a + 4 <= MemSize
    BY <1>2
  <2>2. At(r, a) \in [0 .. 4 - 1 -> Byte]
    <3> HIDE DEF R
    <3> QED
      BY <1>1, <2>1, BytesAtType DEF At
  <2> QED
    BY <2>1, <2>2, BytesMakeWord
<1>9. Hart!Ram = 0 .. R - 1
  BY DEF Hart!Ram
<1>10. \A r : \A a \in 0 .. R - 1 : MemOf(r)[a] = Class(Code[WordOf(At(r.ram, a))])
  BY DEF MemOf, At
<1>11. \A r : MemOf(r) = [a \in 0 .. R - 1 |-> MemOf(r)[a]]
  BY DEF MemOf
<1> HIDE DEF q, R
<1>12. CASE q \in 0 .. R - 1
  <2>1. new \in {Class(Code[w]) : w \in Word}
    BY <1>5, <1>8, <1>12
  <2>2. MemOf(o)[q] = new /\ \A a \in 0 .. R - 1 : a # q => MemOf(o)[a] = MemOf(m)[a]
    BY <1>7, <1>10, <1>12
  <2> HIDE DEF new
  <2>3. MemOf(o) = [MemOf(m) EXCEPT ![q] = new]
    BY <1>11, <1>12, <2>2
  <2>4. MemOf(o) = Put(MemOf(m), q, new)
    BY <2>3 DEF Put
  <2> QED
    BY <1>9, <1>12, <2>1, <2>4
<1>13. CASE q \notin 0 .. R - 1
  <2> DEFINE old == Class(Code[WordOf(At(m.ram, 0))])
  <2>1. 0 \in 0 .. R - 1
    BY <1>2
  <2>2. old \in {Class(Code[w]) : w \in Word}
    BY <1>4, <1>8, <2>1
  <2>3. MemOf(m)[0] = old /\ \A a \in 0 .. R - 1 : MemOf(o)[a] = MemOf(m)[a]
    BY <1>7, <1>10, <1>13, <2>1
  <2> HIDE DEF old
  <2>4. MemOf(o) = [MemOf(m) EXCEPT ![0] = old]
    BY <1>11, <2>1, <2>3
  <2>5. MemOf(o) = Put(MemOf(m), 0, old)
    BY <2>4 DEF Put
  <2> QED
    BY <1>9, <2>1, <2>2, <2>5
<1> QED
  BY <1>12, <1>13

\* The steps of that module, in terms of HartOf and MemOf.
LEMMA HartSteps ==
  ASSUME NEW h
  PROVE  LET Stays == MemOf(hdr') = MemOf(hdr) IN
         /\ HartOf(hdr') = Hart!Step(h) /\ Stays =>
              /\ Hart!ExecReg(h) /\ Hart!ExecLoad(h) /\ Hart!StoreConsole(h) /\ Hart!ExecEcall(h)
         /\ HartOf(hdr') = Hart!Stop(h, "INVALID_MEMORY_ACCESS") /\ Stays =>
              Hart!ExecLoad(h) /\ Hart!StoreFault(h)
         /\ HartOf(hdr') = Hart!Stop(h, "HALTED") /\ Stays => Hart!ExecEcall(h)
         /\ HartOf(hdr') = Hart!Stop(h, "INVALID_INSTRUCTION") /\ Stays => Hart!ExecIllegal(h)
         /\ HartOf(hdr') = Hart!Stop(Hart!Step(h), "EBREAK") /\ Stays => Hart!ExecEbreak(h)
         /\ \A a \in Hart!Addr : HartOf(hdr') = [h EXCEPT !.pc = a] /\ Stays =>
              Hart!ExecBranch(h) /\ Hart!ExecJump(h)
         /\ \A mask \in SUBSET (0 .. W - 1) :
              HartOf(hdr') = [Hart!Step(h) EXCEPT !.ie = mask] /\ Stays => Hart!StoreIe(h)
         /\ \A a \in Hart!Ram, c \in {Class(Code[w]) : w \in Word} :
              HartOf(hdr') = Hart!Step(h) /\ MemOf(hdr') = Put(MemOf(hdr), a, c) => Hart!StoreRam(h)
<1>1. ASSUME HartOf(hdr') = Hart!Step(h), MemOf(hdr') = MemOf(hdr)
      PROVE  Hart!ExecReg(h) /\ Hart!ExecLoad(h) /\ Hart!StoreConsole(h) /\ Hart!ExecEcall(h)
  BY <1>1 DEF HartOf, MemOf, Hart!ExecReg, Hart!ExecLoad, Hart!StoreConsole, Hart!ExecEcall
<1>2. ASSUME HartOf(hdr') = Hart!Stop(h, "INVALID_MEMORY_ACCESS"), MemOf(hdr') = MemOf(hdr)
      PROVE  Hart!ExecLoad(h) /\ Hart!StoreFault(h)
  BY <1>2 DEF HartOf, MemOf, Hart!ExecLoad, Hart!StoreFault
<1>3. ASSUME HartOf(hdr') = Hart!Stop(h, "HALTED"), MemOf(hdr') = MemOf(hdr) PROVE Hart!ExecEcall(h)
  BY <1>3 DEF HartOf, MemOf, Hart!ExecEcall
<1>4. ASSUME HartOf(hdr') = Hart!Stop(h, "INVALID_INSTRUCTION"), MemOf(hdr') = MemOf(hdr) PROVE Hart!ExecIllegal(h)
  BY <1>4 DEF HartOf, MemOf, Hart!ExecIllegal
<1>5. ASSUME HartOf(hdr') = Hart!Stop(Hart!Step(h), "EBREAK"), MemOf(hdr') = MemOf(hdr) PROVE Hart!ExecEbreak(h)
  BY <1>5 DEF HartOf, MemOf, Hart!ExecEbreak
<1>6. ASSUME NEW a \in Hart!Addr, HartOf(hdr') = [h EXCEPT !.pc = a], MemOf(hdr') = MemOf(hdr)
      PROVE  Hart!ExecBranch(h) /\ Hart!ExecJump(h)
  BY <1>6 DEF HartOf, MemOf, Hart!ExecBranch, Hart!ExecJump
<1>7. ASSUME NEW mask \in SUBSET (0 .. W - 1), HartOf(hdr') = [Hart!Step(h) EXCEPT !.ie = mask],
             MemOf(hdr') = MemOf(hdr)
      PROVE  Hart!StoreIe(h)
  BY <1>7 DEF HartOf, MemOf, Hart!StoreIe
<1>8. ASSUME NEW a \in Hart!Ram, NEW c \in {Class(Code[w]) : w \in Word},
             HartOf(hdr') = Hart!Step(h), MemOf(hdr') = Put(MemOf(hdr), a, c)
      PROVE  Hart!StoreRam(h)
  BY <1>8 DEF HartOf, MemOf, Put, Hart!StoreRam
<1> QED
  BY <1>1, <1>2, <1>3, <1>4, <1>5, <1>6, <1>7, <1>8

LEMMA Classes ==
  ASSUME NEW i
  PROVE  /\ i.op \in MulOp \cup AluOp \cup AluImmOp \cup {"lui", "auipc"} => Class(i) = "reg"
         /\ i.op \in LoadOp => Class(i) = "load"
         /\ i.op \in StoreOp => Class(i) = "store"
         /\ i.op \in BranchOp => Class(i) = "branch"
         /\ i.op \in {"jal", "jalr"} => Class(i) = "jump"
         /\ i.op \in {"ecall", "ebreak", "mret", "wfi", "illegal"} => Class(i) = i.op
         /\ i.op \in CsrOp => Class(i) = "csr"
         /\ i.op = "system4" => Class(i) = "illegal"
<1> DEFINE op == i.op
           c == Class(i)
<1>1. c = CASE op \in LoadOp -> "load" [] op \in StoreOp -> "store" [] op \in BranchOp -> "branch"
            [] op \in {"jal", "jalr"} -> "jump" [] op \in CsrOp -> "csr"
            [] op \in {"ecall", "ebreak", "mret", "wfi", "illegal"} -> op
            [] op = "system4" -> "illegal"
            [] OTHER -> "reg"
  BY DEF Class
<1> HIDE DEF op, c
<1>2. op \in MulOp \cup AluOp \cup AluImmOp \cup {"lui", "auipc"} => c = "reg"
  BY <1>1 DEF MulOp, AluOp, AluImmOp, LoadOp, StoreOp, BranchOp, CsrOp, CsrImmOp
<1>3. /\ op \in LoadOp => c = "load"
      /\ op \in StoreOp => c = "store"
      /\ op \in BranchOp => c = "branch"
      /\ op \in {"jal", "jalr"} => c = "jump"
      /\ op \in {"ecall", "ebreak", "mret", "wfi", "illegal"} => c = op
      /\ op = "system4" => c = "illegal"
  BY <1>1 DEF LoadOp, StoreOp, BranchOp, CsrOp, CsrImmOp
<1>4. op \in CsrOp => c = "csr"
  BY <1>1 DEF LoadOp, StoreOp, BranchOp, CsrOp, CsrImmOp
<1> QED
  BY <1>2, <1>3, <1>4 DEF op, c

\* What the pieces of an instruction leave of the fields HartOf and MemOf see.
LEMMA PieceFields ==
  ASSUME NEW m \in Machine, NEW rd, NEW v, NEW w, NEW s
  PROVE  LET next == Advance(SetReg(m, rd, v))
             jump == Jump(SetReg(m, rd, v), w)
         IN /\ next.pc = Wrap(m.pc + 4) /\ next.status = m.status /\ next.ie = m.ie /\ next.ram = m.ram
            /\ Advance(m).pc = Wrap(m.pc + 4) /\ Advance(m).status = m.status
            /\ Advance(m).ie = m.ie /\ Advance(m).ram = m.ram
            /\ jump.pc = w /\ jump.status = m.status /\ jump.ie = m.ie /\ jump.ram = m.ram
            /\ Jump(m, w).pc = w /\ Jump(m, w).status = m.status
            /\ Jump(m, w).ie = m.ie /\ Jump(m, w).ram = m.ram
            /\ StopWith(m, s).pc = m.pc /\ StopWith(m, s).status = s
            /\ StopWith(m, s).ie = m.ie /\ StopWith(m, s).ram = m.ram
            /\ SetReg(m, rd, v).pc = m.pc /\ SetReg(m, rd, v).status = m.status
            /\ SetReg(m, rd, v).ie = m.ie /\ SetReg(m, rd, v).ram = m.ram
  BY DEF SetReg, Advance, Jump, StopWith, Machine

\* A fresh hart with one field written. The empty set, zero and FALSE are named
\* in these proofs, since the provers mistake them inside a record.
LEMMA PcWritten ==
  ASSUME NEW status, NEW pc, NEW ie, NEW new, NEW h, h = Seen(status, pc, ie)
  PROVE  [h EXCEPT !.pc = new] = Seen(status, new, ie)
<1> DEFINE none == {}
           zero == 0
           no == FALSE
<1>1. h = SeenWith(status, pc, ie, none, none, none, NoVector, zero, zero, no)
  BY DEF Seen
<1> HIDE DEF none, zero, no
<1>2. [h EXCEPT !.pc = new] = SeenWith(status, new, ie, none, none, none, NoVector, zero, zero, no)
  BY <1>1 DEF SeenWith
<1> QED
  BY <1>2 DEF Seen, none, zero, no

LEMMA MstatusWritten ==
  ASSUME NEW status, NEW pc, NEW ie, NEW new, NEW h, h = Seen(status, pc, ie)
  PROVE  [h EXCEPT !.mstatus = new] = SeenWith(status, pc, ie, new, {}, {}, NoVector, 0, 0, FALSE)
<1> DEFINE none == {}
           zero == 0
           no == FALSE
<1>1. h = SeenWith(status, pc, ie, none, none, none, NoVector, zero, zero, no)
  BY DEF Seen
<1> HIDE DEF none, zero, no
<1>2. [h EXCEPT !.mstatus = new] = SeenWith(status, pc, ie, new, none, none, NoVector, zero, zero, no)
  BY <1>1 DEF SeenWith
<1> QED
  BY <1>2 DEF none, zero, no

LEMMA MieWritten ==
  ASSUME NEW status, NEW pc, NEW ie, NEW new, NEW h, h = Seen(status, pc, ie)
  PROVE  [h EXCEPT !.mie = new] = SeenWith(status, pc, ie, {}, new, {}, NoVector, 0, 0, FALSE)
<1> DEFINE none == {}
           zero == 0
           no == FALSE
<1>1. h = SeenWith(status, pc, ie, none, none, none, NoVector, zero, zero, no)
  BY DEF Seen
<1> HIDE DEF none, zero, no
<1>2. [h EXCEPT !.mie = new] = SeenWith(status, pc, ie, none, new, none, NoVector, zero, zero, no)
  BY <1>1 DEF SeenWith
<1> QED
  BY <1>2 DEF none, zero, no

LEMMA MipWritten ==
  ASSUME NEW status, NEW pc, NEW ie, NEW new, NEW h, h = Seen(status, pc, ie)
  PROVE  [h EXCEPT !.mip = new] = SeenWith(status, pc, ie, {}, {}, new, NoVector, 0, 0, FALSE)
<1> DEFINE none == {}
           zero == 0
           no == FALSE
<1>1. h = SeenWith(status, pc, ie, none, none, none, NoVector, zero, zero, no)
  BY DEF Seen
<1> HIDE DEF none, zero, no
<1>2. [h EXCEPT !.mip = new] = SeenWith(status, pc, ie, none, none, new, NoVector, zero, zero, no)
  BY <1>1 DEF SeenWith
<1> QED
  BY <1>2 DEF none, zero, no

LEMMA MtvecWritten ==
  ASSUME NEW status, NEW pc, NEW ie, NEW new, NEW h, h = Seen(status, pc, ie)
  PROVE  [h EXCEPT !.mtvec = new] = SeenWith(status, pc, ie, {}, {}, {}, new, 0, 0, FALSE)
<1> DEFINE none == {}
           zero == 0
           no == FALSE
<1>1. h = SeenWith(status, pc, ie, none, none, none, NoVector, zero, zero, no)
  BY DEF Seen
<1> HIDE DEF none, zero, no
<1>2. [h EXCEPT !.mtvec = new] = SeenWith(status, pc, ie, none, none, none, new, zero, zero, no)
  BY <1>1 DEF SeenWith
<1> QED
  BY <1>2 DEF none, zero, no

LEMMA MepcWritten ==
  ASSUME NEW status, NEW pc, NEW ie, NEW new, NEW h, h = Seen(status, pc, ie)
  PROVE  [h EXCEPT !.mepc = new] = SeenWith(status, pc, ie, {}, {}, {}, NoVector, new, 0, FALSE)
<1> DEFINE none == {}
           zero == 0
           no == FALSE
<1>1. h = SeenWith(status, pc, ie, none, none, none, NoVector, zero, zero, no)
  BY DEF Seen
<1> HIDE DEF none, zero, no
<1>2. [h EXCEPT !.mepc = new] = SeenWith(status, pc, ie, none, none, none, NoVector, new, zero, no)
  BY <1>1 DEF SeenWith
<1> QED
  BY <1>2 DEF none, zero, no

LEMMA McauseWritten ==
  ASSUME NEW status, NEW pc, NEW ie, NEW new, NEW h, h = Seen(status, pc, ie)
  PROVE  [h EXCEPT !.mcause = new] = SeenWith(status, pc, ie, {}, {}, {}, NoVector, 0, new, FALSE)
<1> DEFINE none == {}
           zero == 0
           no == FALSE
<1>1. h = SeenWith(status, pc, ie, none, none, none, NoVector, zero, zero, no)
  BY DEF Seen
<1> HIDE DEF none, zero, no
<1>2. [h EXCEPT !.mcause = new] = SeenWith(status, pc, ie, none, none, none, NoVector, zero, new, no)
  BY <1>1 DEF SeenWith
<1> QED
  BY <1>2 DEF none, zero, no

LEMMA WfiWritten ==
  ASSUME NEW status, NEW pc, NEW ie, NEW new, NEW h, h = Seen(status, pc, ie)
  PROVE  [h EXCEPT !.wfi = new] = SeenWith(status, pc, ie, {}, {}, {}, NoVector, 0, 0, new)
<1> DEFINE none == {}
           zero == 0
           no == FALSE
<1>1. h = SeenWith(status, pc, ie, none, none, none, NoVector, zero, zero, no)
  BY DEF Seen
<1> HIDE DEF none, zero, no
<1>2. [h EXCEPT !.wfi = new] = SeenWith(status, pc, ie, none, none, none, NoVector, zero, zero, new)
  BY <1>1 DEF SeenWith
<1> QED
  BY <1>2 DEF none, zero, no

LEMMA SeenReads ==
  ASSUME NEW status, NEW pc, NEW ie, NEW h, h = Seen(status, pc, ie)
  PROVE  h.pc = pc /\ h.mepc = 0 /\ h.mstatus = {}
  BY DEF Seen, SeenWith

\* A fresh machine is, to the hart, one whose csrs are empty.
LEMMA FreshHart ==
  ASSUME NEW m \in Machine, Fresh(m), m.pc % 4 = 0
  PROVE  LET pc == Wrap(m.pc + 4) \div 4
             ie == Ones(WordOf(m.ie))
         IN /\ HartOf(m) = Seen(m.status, m.pc \div 4, ie)
            /\ Hart!Step(HartOf(m)) = Seen(m.status, pc, ie)
<1> DEFINE ie == Ones(WordOf(m.ie))
           q == m.pc \div 4
           pc == Wrap(m.pc + 4) \div 4
           h == HartOf(m)
<1>1. h = Seen(m.status, q, ie)
  BY HartSeen
<1>2. pc = Hart!Plus(q, 1)
  BY PcStep DEF Machine
<1>3. Hart!Step(h) = [h EXCEPT !.pc = Hart!Plus(h.pc, 1)]
  BY DEF Hart!Step
<1> HIDE DEF h, q, ie, pc
<1>4. h.pc = q /\ [h EXCEPT !.pc = pc] = Seen(m.status, pc, ie)
  BY <1>1, SeenReads, PcWritten
<1>5. Hart!Step(h) = Seen(m.status, pc, ie)
  BY <1>2, <1>3, <1>4
<1> QED
  BY <1>1, <1>5 DEF h, q, ie, pc

\* The csrs a csr instruction may write, one at a time.
LEMMA HartWrites ==
  ASSUME NEW h, NEW w \in Word
  PROVE  /\ h \in Hart!rv32_write_csr(h)
         /\ [h EXCEPT !.mstatus = NamedBits({"MIE", "MPIE"}, w)] \in Hart!rv32_write_csr(h)
         /\ [h EXCEPT !.mie = NamedBits({"MSI", "MTI", "MEI"}, w)] \in Hart!rv32_write_csr(h)
         /\ [h EXCEPT !.mip = NamedBits({"MSI", "MTI", "MEI"}, w)] \in Hart!rv32_write_csr(h)
         /\ [h EXCEPT !.mtvec = Vector(w)] \in Hart!rv32_write_csr(h)
         /\ [h EXCEPT !.mepc = w \div 4] \in Hart!rv32_write_csr(h)
         /\ [h EXCEPT !.mcause = CauseOf(w)] \in Hart!rv32_write_csr(h)
<1> DEFINE Mstatus == {NamedBits({"MIE", "MPIE"}, v) : v \in Word}
           Mie == {NamedBits({"MSI", "MTI", "MEI"}, v) : v \in Word}
           Mip == {NamedBits({"MSI", "MTI", "MEI"}, v) : v \in Word}
           Mtvec == {Vector(v) : v \in Word}
           Mepc == {v \div 4 : v \in Word}
           Mcause == {CauseOf(v) : v \in Word}
<1>1. Hart!rv32_write_csr(h) =
        {h} \cup {[h EXCEPT !.mstatus = v] : v \in Mstatus}
            \cup {[h EXCEPT !.mie = v] : v \in Mie}
            \cup {[h EXCEPT !.mip = v] : v \in Mip}
            \cup {[h EXCEPT !.mtvec = v] : v \in Mtvec}
            \cup {[h EXCEPT !.mepc = v] : v \in Mepc}
            \cup {[h EXCEPT !.mcause = v] : v \in Mcause}
  BY Zenon DEF Hart!rv32_write_csr
<1>2. /\ NamedBits({"MIE", "MPIE"}, w) \in Mstatus
      /\ NamedBits({"MSI", "MTI", "MEI"}, w) \in Mie
      /\ NamedBits({"MSI", "MTI", "MEI"}, w) \in Mip
      /\ Vector(w) \in Mtvec
      /\ w \div 4 \in Mepc
      /\ CauseOf(w) \in Mcause
  OBVIOUS
<1> HIDE DEF Mstatus, Mie, Mip, Mtvec, Mepc, Mcause
<1>3. \A v \in Mstatus : [h EXCEPT !.mstatus = v] \in Hart!rv32_write_csr(h)
  BY <1>1
<1>4. \A v \in Mie : [h EXCEPT !.mie = v] \in Hart!rv32_write_csr(h)
  BY <1>1
<1>5. \A v \in Mip : [h EXCEPT !.mip = v] \in Hart!rv32_write_csr(h)
  BY <1>1
<1>6. \A v \in Mtvec : [h EXCEPT !.mtvec = v] \in Hart!rv32_write_csr(h)
  BY <1>1
<1>7. \A v \in Mepc : [h EXCEPT !.mepc = v] \in Hart!rv32_write_csr(h)
  BY <1>1
<1>8. \A v \in Mcause : [h EXCEPT !.mcause = v] \in Hart!rv32_write_csr(h)
  BY <1>1
<1> QED
  BY <1>1, <1>2, <1>3, <1>4, <1>5, <1>6, <1>7, <1>8

\* One instruction of the machine is one of the hart's.
LEMMA HartExecutes ==
  ASSUME TypeOK, Fresh(hdr), hdr.pc % 4 = 0, NEW i \in Insn, i.op \notin CsrOp \cup {"mret", "wfi"},
         i.op \in StoreOp => (Address(SetReg(hdr, 0, 0), i) % 4) + Width[i.op] <= 4,
         hdr' \in Execute(SetReg(hdr, 0, 0), i)
  PROVE  Hart!Execute(HartOf(hdr), Class(i))
<1> DEFINE m == SetReg(hdr, 0, 0)
           h == HartOf(hdr)
<1>1. m \in Machine /\ hdr \in Machine
  <2>1. 0 \in Reg /\ 0 \in Word /\ "RUNNING" \in Status /\ hdr \in Machine
    BY MachineAssumption, WordFacts DEF TypeOK, Status
  <2> QED
    BY <2>1, PieceTypes
<1>2. m.pc = hdr.pc /\ m.ram = hdr.ram /\ m.ie = hdr.ie /\ m.status = hdr.status /\ m.pc % 4 = 0 /\ m.pc \in Word
  BY <1>1, PieceFields DEF Machine
<1>3. HartOf(m) = h /\ MemOf(m) = MemOf(hdr) /\ Fresh(m)
  <2>1. m.csr = hdr.csr /\ m.wfi = hdr.wfi
    BY <1>1 DEF SetReg, Machine
  <2> HIDE DEF m
  <2> QED
    BY <1>2, <2>1 DEF HartOf, MemOf, Fresh, h
<1>4. hdr' \in Execute(m, i) /\ (i.op \in StoreOp => (Address(m, i) % 4) + Width[i.op] <= 4)
  OBVIOUS
<1>5. /\ i.op \in Ops /\ m.r[i.rs1] \in Word /\ m.r[i.rs2] \in Word /\ i.imm \in Word
      /\ Address(m, i) \in Word
  BY <1>1, AddressWord DEF Insn, Machine
<1> HIDE DEF m, h
<1>17. Fresh(hdr')
  BY <1>1, <1>3, <1>4, ExecuteKeeps DEF Kept, Fresh
<1>6. ASSUME hdr'.pc = Wrap(m.pc + 4), hdr'.status = m.status, hdr'.ie = m.ie, hdr'.ram = m.ram
      PROVE  Hart!ExecReg(h) /\ Hart!ExecLoad(h) /\ Hart!StoreConsole(h) /\ Hart!ExecEcall(h)
  <2>1. HartOf(hdr') = Hart!Step(h) /\ MemOf(hdr') = MemOf(hdr)
    BY <1>1, <1>2, <1>3, <1>6, <1>17, HartPieces
  <2> QED
    BY <2>1, HartSteps
<1>7. ASSUME hdr'.pc = m.pc, hdr'.ie = m.ie, hdr'.ram = m.ram
      PROVE  /\ HartOf(hdr') = Hart!Stop(h, hdr'.status) /\ MemOf(hdr') = MemOf(hdr)
             /\ hdr'.status = "INVALID_MEMORY_ACCESS" => Hart!ExecLoad(h) /\ Hart!StoreFault(h)
  <2>1. HartOf(hdr') = Hart!Stop(h, hdr'.status) /\ MemOf(hdr') = MemOf(hdr)
    BY <1>1, <1>2, <1>3, <1>7, <1>17, HartPieces
  <2> QED
    BY <2>1, HartSteps
<1>8. ASSUME NEW w \in Word, hdr'.pc = w, hdr'.status = m.status, hdr'.ie = m.ie, hdr'.ram = m.ram
      PROVE  Hart!ExecBranch(h) /\ Hart!ExecJump(h)
  <2>1. HartOf(hdr') = [h EXCEPT !.pc = hdr'.pc \div 4] /\ MemOf(hdr') = MemOf(hdr)
    BY <1>1, <1>2, <1>3, <1>8, <1>17, HartPieces
  <2>2. hdr'.pc \div 4 \in Hart!Addr
    BY <1>8, Quarters DEF Hart!Addr
  <2> QED
    BY <2>1, <2>2, HartSteps
<1>9. CASE i.op \in MulOp \cup AluOp \cup AluImmOp \cup {"lui", "auipc"}
  <2>1. \E v : hdr' = Advance(SetReg(m, i.rd, v))
    BY <1>4, <1>9, ExecuteCases
  <2>2. Hart!ExecReg(h)
    BY <1>1, <1>6, <2>1, PieceFields, SMTT(40)
  <2> QED
    BY <1>9, <2>2, Classes DEF Hart!Execute, h
<1>10. CASE i.op \in LoadOp
  <2>1. \/ \E v : hdr' = Advance(SetReg(m, i.rd, v))
        \/ hdr' = StopWith(m, "INVALID_MEMORY_ACCESS")
    BY <1>4, <1>10, ExecuteCases DEF ExecLoad, OrFault
  <2>2. ASSUME NEW v, hdr' = Advance(SetReg(m, i.rd, v)) PROVE Hart!ExecLoad(h)
    BY <1>1, <1>6, <2>2, PieceFields, SMTT(40)
  <2>3. ASSUME hdr' = StopWith(m, "INVALID_MEMORY_ACCESS") PROVE Hart!ExecLoad(h)
    <3>1. /\ hdr'.pc = m.pc /\ hdr'.ie = m.ie /\ hdr'.ram = m.ram
          /\ hdr'.status = "INVALID_MEMORY_ACCESS"
      BY <1>1, <2>3, PieceFields
    <3> QED
      BY <1>7, <3>1
  <2>4. Hart!ExecLoad(h)
    BY <2>1, <2>2, <2>3
  <2> QED
    BY <1>10, <2>4, Classes DEF Hart!Execute, h
<1>11. CASE i.op \in StoreOp
  <2> DEFINE addr == Address(m, i)
             n == Width[i.op]
             bytes == BytesOf(m.r[i.rs2], n)
  <2>1. addr \in Nat /\ n \in {1, 2, 4} /\ n \in 0 .. 4 /\ MemSize \in Nat /\ MemSize >= 4
    BY <1>5, <1>11, WidthType, WordFacts, MachineAssumption
  <2>2. bytes \in [0 .. n - 1 -> Byte]
    BY <1>5, <2>1, BytesOfWord
  <2>3. \/ hdr' = Advance([m EXCEPT !.ram = Overwrite(m.ram, addr, bytes)]) /\ Granted(addr, n, MemSize)
        \/ hdr' = Advance([m EXCEPT !.ie = bytes])
        \/ hdr' = Advance(m)
        \/ hdr' = StopWith(m, "INVALID_MEMORY_ACCESS")
    BY <1>4, <1>11, ExecuteCases DEF ExecStore, OrFault, rv32_store
  <2> HIDE DEF addr, n, bytes
  <2>4. ASSUME hdr' = Advance([m EXCEPT !.ram = Overwrite(m.ram, addr, bytes)]), Granted(addr, n, MemSize)
        PROVE  Hart!ExecStore(h)
    <3>1. /\ hdr'.pc = Wrap(m.pc + 4) /\ hdr'.status = m.status /\ hdr'.ie = m.ie
          /\ hdr'.ram = Overwrite(m.ram, addr, bytes)
      BY <1>1, <2>4 DEF Advance, Machine
    <3>2. addr + n <= MemSize
      BY <2>1, <2>4 DEF Granted
    <3>3. InOneWord(addr, n)
      BY <1>4, <1>11, <3>2 DEF addr, n, InOneWord
    <3>4. \E a \in Hart!Ram, c \in {Class(Code[w]) : w \in Word} : MemOf(hdr') = Put(MemOf(m), a, c)
      <4>1. \A o : o.ram = Overwrite(m.ram, addr, bytes) => StoresInOneWord(m, o, addr, n, bytes)
        BY <1>1, <2>1, <2>2, <3>3 DEF StoresInOneWord
      <4>2. \A o : o.ram = Overwrite(m.ram, addr, bytes) => ChangesOneWord(m, o)
        BY <4>1, StoreInOneWord
      <4> QED
        BY <3>1, <4>2 DEF ChangesOneWord
    <3>5. HartOf(hdr') = Hart!Step(h)
      BY <1>1, <1>2, <1>3, <3>1, <1>17, HartPieces
    <3>6. Hart!StoreRam(h)
      BY <1>3, <3>4, <3>5, HartSteps
    <3> QED
      BY <3>6 DEF Hart!ExecStore
  <2>5. ASSUME hdr' = Advance([m EXCEPT !.ie = bytes])
        PROVE  Hart!ExecStore(h)
    <3>1. hdr'.pc = Wrap(m.pc + 4) /\ hdr'.status = m.status /\ hdr'.ram = m.ram
      BY <1>1, <2>5 DEF Advance, Machine
    <3>2. HartOf(hdr') = [Hart!Step(h) EXCEPT !.ie = Ones(WordOf(hdr'.ie))] /\ MemOf(hdr') = MemOf(hdr)
      BY <1>1, <1>2, <1>3, <3>1, <1>17, HartPieces
    <3>3. Ones(WordOf(hdr'.ie)) \in SUBSET (0 .. W - 1)
      BY OnesType DEF Bits
    <3>4. Hart!StoreIe(h)
      BY <3>2, <3>3, HartSteps
    <3> QED
      BY <3>4 DEF Hart!ExecStore
  <2>6. ASSUME hdr' = Advance(m)
        PROVE  Hart!ExecStore(h)
    <3>1. Hart!StoreConsole(h)
      BY <1>1, <1>6, <2>6, PieceFields
    <3> QED
      BY <3>1 DEF Hart!ExecStore
  <2>7. ASSUME hdr' = StopWith(m, "INVALID_MEMORY_ACCESS")
        PROVE  Hart!ExecStore(h)
    <3>1. Hart!StoreFault(h)
      <4>1. /\ hdr'.pc = m.pc /\ hdr'.ie = m.ie /\ hdr'.ram = m.ram
            /\ hdr'.status = "INVALID_MEMORY_ACCESS"
        BY <1>1, <2>7, PieceFields
      <4> QED
        BY <1>7, <4>1
    <3> QED
      BY <3>1 DEF Hart!ExecStore
  <2>8. Hart!ExecStore(h)
    BY <2>3, <2>4, <2>5, <2>6, <2>7
  <2> QED
    BY <1>11, <2>8, Classes DEF Hart!Execute, h
<1>12. CASE i.op \in BranchOp
  <2>1. hdr' = Jump(m, Wrap(m.pc + i.imm)) \/ hdr' = Advance(m)
    BY <1>4, <1>12, ExecuteCases
  <2>2. \E w \in Word : hdr'.pc = w /\ hdr'.status = m.status /\ hdr'.ie = m.ie /\ hdr'.ram = m.ram
    BY <1>1, <1>2, <1>5, <2>1, PieceFields, TargetWord
  <2>3. Hart!ExecBranch(h)
    BY <1>8, <2>2
  <2> QED
    BY <1>12, <2>3, Classes DEF Hart!Execute, h
<1>13. CASE i.op \in {"jal", "jalr"}
  <2>1. 2 * (Address(m, i) \div 2) \in Word
    BY <1>5, EvenWord
  <2>2. \E v : \E w \in Word : hdr' = Jump(SetReg(m, i.rd, v), w)
    BY <1>2, <1>4, <1>5, <1>13, <2>1, ExecuteCases, TargetWord DEF ExecJalr
  <2>3. Hart!ExecJump(h)
    BY <1>1, <1>8, <2>2, PieceFields
  <2> QED
    BY <1>13, <2>3, Classes DEF Hart!Execute, h
<1>14. CASE i.op = "ecall"
  <2>1. hdr' = Advance(m) \/ hdr' = StopWith(m, "HALTED")
    BY <1>4, <1>14, ExecuteCases
  <2>2. CASE hdr' = Advance(m)
    BY <1>1, <1>6, <1>14, <2>2, PieceFields, Classes DEF Hart!Execute, h
  <2>3. CASE hdr' = StopWith(m, "HALTED")
    <3>1. HartOf(hdr') = Hart!Stop(h, "HALTED") /\ MemOf(hdr') = MemOf(hdr)
      BY <1>1, <1>7, <2>3, PieceFields
    <3>2. Hart!ExecEcall(h)
      BY <3>1, HartSteps
    <3> QED
      BY <1>14, <3>2, Classes DEF Hart!Execute, h
  <2> QED
    BY <2>1, <2>2, <2>3
<1>15. CASE i.op = "ebreak"
  <2>1. hdr' = StopWith(Advance(m), "EBREAK")
    BY <1>4, <1>15, ExecuteCases
  <2>2. hdr'.pc = Wrap(m.pc + 4) /\ hdr'.status = "EBREAK" /\ hdr'.ie = m.ie /\ hdr'.ram = m.ram
    BY <1>1, <2>1 DEF StopWith, Advance, Machine
  <2>3. HartOf(hdr') = Hart!Stop(Hart!Step(h), "EBREAK") /\ MemOf(hdr') = MemOf(hdr)
    BY <1>1, <1>2, <1>3, <2>2, <1>17, HartPieces
  <2>4. Hart!ExecEbreak(h)
    BY <2>3, HartSteps
  <2> QED
    BY <1>15, <2>4, Classes DEF Hart!Execute, h
<1>16. CASE i.op \in {"system4", "illegal"}
  <2>1. hdr' = StopWith(m, "INVALID_INSTRUCTION")
    BY <1>4, <1>16, ExecuteSystem
  <2>2. HartOf(hdr') = Hart!Stop(h, "INVALID_INSTRUCTION") /\ MemOf(hdr') = MemOf(hdr)
    BY <1>1, <1>7, <2>1, PieceFields
  <2>3. Hart!ExecIllegal(h)
    BY <2>2, HartSteps
  <2> QED
    BY <1>16, <2>3, Classes DEF Hart!Execute, h
<1> QED
  BY <1>5, <1>9, <1>10, <1>11, <1>12, <1>13, <1>14, <1>15, <1>16 DEF Ops, SystemOp

\* mret, wfi and the csr instructions, the first a program comes to.
LEMMA HartSystem ==
  ASSUME TypeOK, Fresh(hdr), hdr.pc % 4 = 0, NEW i \in Insn, i.op \in CsrOp \cup {"mret", "wfi"},
         hdr' \in Execute(SetReg(hdr, 0, 0), i)
  PROVE  Hart!Execute(HartOf(hdr), Class(i))
<1> DEFINE m == SetReg(hdr, 0, 0)
           h == HartOf(hdr)
           pc == Wrap(m.pc + 4) \div 4
           ie == Ones(WordOf(m.ie))
<1>1. m \in Machine /\ hdr \in Machine /\ hdr' \in Execute(m, i)
  <2>1. 0 \in Reg /\ 0 \in Word /\ "RUNNING" \in Status /\ hdr \in Machine
    BY MachineAssumption, WordFacts DEF TypeOK, Status
  <2> QED
    BY <2>1, PieceTypes
<1>2. /\ m.pc = hdr.pc /\ m.ram = hdr.ram /\ m.ie = hdr.ie /\ m.status = hdr.status
      /\ m.csr = hdr.csr /\ m.wfi = hdr.wfi
  BY <1>1 DEF SetReg, Machine
<1> HIDE DEF m
<1>3. HartOf(m) = h /\ MemOf(m) = MemOf(hdr) /\ Fresh(m)
  BY <1>2 DEF HartOf, MemOf, Fresh
<1>4. /\ h = Seen(m.status, m.pc \div 4, ie)
      /\ Hart!Step(h) = Seen(m.status, pc, ie)
  <2>1. m.pc % 4 = 0
    BY <1>2
  <2> QED
    BY <1>1, <1>3, <2>1, FreshHart
<1>5. \A x \in Csr : m.csr[x] = 0
  BY <1>3 DEF Fresh
<1>6. hdr' \in Machine
  BY <1>1, ExecuteType
<1>7. HartOf(hdr') = SeenWith(hdr'.status, hdr'.pc \div 4, Ones(WordOf(hdr'.ie)),
                              NamedBits({"MIE", "MPIE"}, hdr'.csr.mstatus),
                              NamedBits({"MSI", "MTI", "MEI"}, hdr'.csr.mie),
                              NamedBits({"MSI", "MTI", "MEI"}, hdr'.csr.mip),
                              Vector(hdr'.csr.mtvec), hdr'.csr.mepc \div 4, CauseOf(hdr'.csr.mcause), hdr'.wfi)
  BY HartSeen
<1>8. hdr'.ram = m.ram => MemOf(hdr') = MemOf(hdr)
  BY <1>2 DEF MemOf
<1> HIDE DEF h, pc, ie
<1>9. CASE i.op = "mret"
  <2>1. hdr' = ExecMret(m)
    <3>1. Execute(m, i) = {ExecMret(m)}
      BY <1>9, ExecuteSystem, Zenon
    <3> QED
      BY <1>1, <3>1
  <2>2. ExecMret(m) = Jump([m EXCEPT !.csr.mstatus = 0], 0)
    <3>1. Ones(0) = {} /\ Value({}) = 0
      BY NoOnes
    <3>2. m.csr.mstatus = 0 /\ m.csr.mepc = 0
      BY <1>5 DEF Csr
    <3>3. ExecMret(m) =
            LET bits == Ones(0)
                returned == IF BitOf.MPIE \in bits THEN bits \cup {BitOf.MIE} ELSE bits \ {BitOf.MIE}
            IN Jump([m EXCEPT !.csr.mstatus = Value(returned)], 0)
      BY <3>2, Zenon DEF ExecMret
    <3>4. (IF BitOf.MPIE \in Ones(0) THEN Ones(0) \cup {BitOf.MIE} ELSE Ones(0) \ {BitOf.MIE}) = {}
      BY <3>1
    <3> QED
      BY <3>1, <3>3, <3>4, Zenon
  <2>3. /\ hdr'.status = m.status /\ hdr'.ie = m.ie /\ hdr'.ram = m.ram /\ hdr'.wfi = m.wfi /\ hdr'.pc = 0
        /\ hdr'.csr = [m.csr EXCEPT !.mstatus = 0]
    BY <1>1, <2>1, <2>2 DEF Jump, Machine
  <2>4. \A x \in Csr : hdr'.csr[x] = 0
    BY <1>1, <1>5, <2>3 DEF Machine
  <2>5. Fresh(hdr')
    BY <1>3, <1>6, <2>3, <2>4 DEF Fresh, Machine
  <2>6. HartOf(hdr') = Seen(m.status, 0, ie)
    BY <2>3, <2>5, HartSeen, ZeroViews DEF ie
  <2>7. HartOf(hdr') = [h EXCEPT !.pc = h.mepc, !.mstatus = IF "MPIE" \in @ THEN Hart!MstatusBit ELSE {}]
    <3> DEFINE jumped == [h EXCEPT !.pc = 0]
    <3>1. h.mepc = 0 /\ h.mstatus = {}
      BY <1>4, SeenReads
    <3>5. jumped = Seen(m.status, 0, ie)
      BY <1>4, PcWritten
    <3> HIDE DEF jumped
    <3>2. [jumped EXCEPT !.mstatus = {}] = Seen(m.status, 0, ie)
      BY ONLY <3>5, MstatusWritten DEF Seen
    <3>3. [h EXCEPT !.pc = h.mepc, !.mstatus = IF "MPIE" \in @ THEN Hart!MstatusBit ELSE {}]
            = [jumped EXCEPT !.mstatus = {}]
      BY <3>1 DEF jumped
    <3> QED
      BY <2>6, <3>2, <3>3
  <2>8. MemOf(hdr') = MemOf(hdr)
    BY <1>8, <2>3
  <2>9. Hart!ExecMret(h)
    BY <2>7, <2>8 DEF HartOf, MemOf, Hart!ExecMret
  <2> QED
    BY <1>9, <2>9, Classes DEF Hart!Execute, h
<1>10. CASE i.op = "wfi"
  <2>1. hdr' = Advance([m EXCEPT !.wfi = TRUE])
    <3>1. Execute(m, i) = {Advance([m EXCEPT !.wfi = TRUE])}
      BY <1>10, ExecuteSystem, Zenon
    <3> QED
      BY <1>1, <3>1
  <2>2. /\ hdr'.status = m.status /\ hdr'.ie = m.ie /\ hdr'.ram = m.ram /\ hdr'.csr = m.csr
        /\ hdr'.pc = Wrap(m.pc + 4) /\ hdr'.wfi = TRUE
    BY <1>1, <2>1 DEF Advance, Machine
  <2>3. HartOf(hdr') = SeenWith(m.status, pc, ie, {}, {}, {}, NoVector, 0, 0, TRUE)
    BY <1>5, <1>7, <2>2, ZeroViews DEF Csr, NoVector, pc, ie
  <2>4. HartOf(hdr') = [Hart!Step(h) EXCEPT !.wfi = TRUE]
    <3> DEFINE s == Hart!Step(h)
    <3> HIDE DEF s
    <3>1. s = Seen(m.status, pc, ie)
      BY <1>4 DEF s
    <3> DEFINE yes == TRUE
    <3> HIDE DEF yes
    <3>2. [s EXCEPT !.wfi = yes] = SeenWith(m.status, pc, ie, {}, {}, {}, NoVector, 0, 0, yes)
      BY ONLY <3>1, WfiWritten
    <3> QED
      BY <2>3, <3>2 DEF s, yes
  <2>5. MemOf(hdr') = MemOf(hdr)
    BY <1>8, <2>2
  <2>6. Hart!ExecWfi(h)
    BY <2>4, <2>5 DEF HartOf, MemOf, Hart!ExecWfi
  <2> QED
    BY <1>10, <2>6, Classes DEF Hart!Execute, h
<1>11. CASE i.op \in CsrOp
  <2> DEFINE x == CsrAt[i.imm]
             s == Hart!Step(h)
  <2>1. hdr' = ExecCsr(m, i)
    <3>1. Execute(m, i) = {ExecCsr(m, i)}
      BY <1>11, ExecuteSystem, Zenon
    <3> QED
      BY <1>1, <3>1
  <2>2. /\ hdr'.status = m.status /\ hdr'.ie = m.ie /\ hdr'.ram = m.ram /\ hdr'.wfi = m.wfi
        /\ hdr'.pc = Wrap(m.pc + 4)
        /\ \A y \in Csr : y # x => hdr'.csr[y] = 0
    <3>1. /\ hdr'.status = m.status /\ hdr'.ie = m.ie /\ hdr'.ram = m.ram /\ hdr'.wfi = m.wfi
          /\ hdr'.pc = Wrap(m.pc + 4)
          /\ \A y \in Csr : y # x => hdr'.csr[y] = m.csr[y]
      BY <1>1, <1>11, <2>1, CsrLeaves, Zenon
    <3> QED
      BY ONLY <1>5, <3>1
  <2>3. x \in Csr \cup {"none"} /\ \A y \in Csr : hdr'.csr[y] \in Word
    BY <1>6, MachineAssumption DEF Insn, Machine
  <2> HIDE DEF x, s
  <2>4. s = Seen(m.status, pc, ie)
    BY <1>4 DEF s
  <2>5. HartOf(hdr') = SeenWith(m.status, pc, ie,
                              NamedBits({"MIE", "MPIE"}, hdr'.csr.mstatus),
                              NamedBits({"MSI", "MTI", "MEI"}, hdr'.csr.mie),
                              NamedBits({"MSI", "MTI", "MEI"}, hdr'.csr.mip),
                              Vector(hdr'.csr.mtvec), hdr'.csr.mepc \div 4, CauseOf(hdr'.csr.mcause), FALSE)
    BY <1>3, <1>7, <2>2 DEF Fresh, pc, ie
  <2>7. /\ x # "mstatus" => hdr'.csr.mstatus = 0
        /\ x # "mie" => hdr'.csr.mie = 0
        /\ x # "mip" => hdr'.csr.mip = 0
        /\ x # "mtvec" => hdr'.csr.mtvec = 0
        /\ x # "mepc" => hdr'.csr.mepc = 0
        /\ x # "mcause" => hdr'.csr.mcause = 0
    BY <2>2 DEF Csr
  <2>6. ASSUME x = "none" PROVE HartOf(hdr') \in Hart!rv32_write_csr(s)
    <3>1. HartOf(hdr') = SeenWith(m.status, pc, ie, {}, {}, {}, NoVector, 0, 0, FALSE)
      BY <2>5, <2>6, <2>7, ZeroViews DEF NoVector
    <3>2. HartOf(hdr') = s
      BY ONLY <2>4, <3>1 DEF Seen
    <3>3. 0 \in Word
      BY WordFacts
    <3>4. s \in Hart!rv32_write_csr(s)
      BY ONLY <3>3, HartWrites
    <3> QED
      BY <3>2, <3>4
  <2>20. ASSUME x = "mstatus" PROVE HartOf(hdr') \in Hart!rv32_write_csr(s)
    <3> DEFINE w == hdr'.csr.mstatus
               v == NamedBits({"MIE", "MPIE"}, w)
    <3>1. w \in Word
      BY <2>3 DEF Csr
    <3>2. HartOf(hdr') = SeenWith(m.status, pc, ie, v, {}, {}, NoVector, 0, 0, FALSE)
      BY <2>5, <2>7, <2>20, ZeroViews DEF NoVector
    <3> HIDE DEF w
    <3>3. [s EXCEPT !.mstatus = v] \in Hart!rv32_write_csr(s)
      BY <3>1, HartWrites
    <3> HIDE DEF v
    <3>4. [s EXCEPT !.mstatus = v] = SeenWith(m.status, pc, ie, v, {}, {}, NoVector, 0, 0, FALSE)
      BY ONLY <2>4, MstatusWritten
    <3> QED
      BY <3>2, <3>3, <3>4
  <2>21. ASSUME x = "mie" PROVE HartOf(hdr') \in Hart!rv32_write_csr(s)
    <3> DEFINE w == hdr'.csr.mie
               v == NamedBits({"MSI", "MTI", "MEI"}, w)
    <3>1. w \in Word
      BY <2>3 DEF Csr
    <3>2. HartOf(hdr') = SeenWith(m.status, pc, ie, {}, v, {}, NoVector, 0, 0, FALSE)
      BY <2>5, <2>7, <2>21, ZeroViews DEF NoVector
    <3> HIDE DEF w
    <3>3. [s EXCEPT !.mie = v] \in Hart!rv32_write_csr(s)
      BY <3>1, HartWrites
    <3> HIDE DEF v
    <3>4. [s EXCEPT !.mie = v] = SeenWith(m.status, pc, ie, {}, v, {}, NoVector, 0, 0, FALSE)
      BY ONLY <2>4, MieWritten
    <3> QED
      BY <3>2, <3>3, <3>4
  <2>22. ASSUME x = "mip" PROVE HartOf(hdr') \in Hart!rv32_write_csr(s)
    <3> DEFINE w == hdr'.csr.mip
               v == NamedBits({"MSI", "MTI", "MEI"}, w)
    <3>1. w \in Word
      BY <2>3 DEF Csr
    <3>2. HartOf(hdr') = SeenWith(m.status, pc, ie, {}, {}, v, NoVector, 0, 0, FALSE)
      BY <2>5, <2>7, <2>22, ZeroViews DEF NoVector
    <3> HIDE DEF w
    <3>3. [s EXCEPT !.mip = v] \in Hart!rv32_write_csr(s)
      BY <3>1, HartWrites
    <3> HIDE DEF v
    <3>4. [s EXCEPT !.mip = v] = SeenWith(m.status, pc, ie, {}, {}, v, NoVector, 0, 0, FALSE)
      BY ONLY <2>4, MipWritten
    <3> QED
      BY <3>2, <3>3, <3>4
  <2>23. ASSUME x = "mtvec" PROVE HartOf(hdr') \in Hart!rv32_write_csr(s)
    <3> DEFINE w == hdr'.csr.mtvec
               v == Vector(w)
    <3>1. w \in Word
      BY <2>3 DEF Csr
    <3>2. HartOf(hdr') = SeenWith(m.status, pc, ie, {}, {}, {}, v, 0, 0, FALSE)
      BY <2>5, <2>7, <2>23, ZeroViews DEF NoVector
    <3> HIDE DEF w
    <3>3. [s EXCEPT !.mtvec = v] \in Hart!rv32_write_csr(s)
      BY <3>1, HartWrites
    <3> HIDE DEF v
    <3>4. [s EXCEPT !.mtvec = v] = SeenWith(m.status, pc, ie, {}, {}, {}, v, 0, 0, FALSE)
      BY ONLY <2>4, MtvecWritten
    <3> QED
      BY <3>2, <3>3, <3>4
  <2>24. ASSUME x = "mepc" PROVE HartOf(hdr') \in Hart!rv32_write_csr(s)
    <3> DEFINE w == hdr'.csr.mepc
               v == w \div 4
    <3>1. w \in Word
      BY <2>3 DEF Csr
    <3>2. HartOf(hdr') = SeenWith(m.status, pc, ie, {}, {}, {}, NoVector, v, 0, FALSE)
      BY <2>5, <2>7, <2>24, ZeroViews DEF NoVector
    <3> HIDE DEF w
    <3>3. [s EXCEPT !.mepc = v] \in Hart!rv32_write_csr(s)
      BY <3>1, HartWrites
    <3> HIDE DEF v
    <3>4. [s EXCEPT !.mepc = v] = SeenWith(m.status, pc, ie, {}, {}, {}, NoVector, v, 0, FALSE)
      BY ONLY <2>4, MepcWritten
    <3> QED
      BY <3>2, <3>3, <3>4
  <2>25. ASSUME x = "mcause" PROVE HartOf(hdr') \in Hart!rv32_write_csr(s)
    <3> DEFINE w == hdr'.csr.mcause
               v == CauseOf(w)
    <3>1. w \in Word
      BY <2>3 DEF Csr
    <3>2. HartOf(hdr') = SeenWith(m.status, pc, ie, {}, {}, {}, NoVector, 0, v, FALSE)
      BY <2>5, <2>7, <2>25, ZeroViews DEF NoVector
    <3> HIDE DEF w
    <3>3. [s EXCEPT !.mcause = v] \in Hart!rv32_write_csr(s)
      BY <3>1, HartWrites
    <3> HIDE DEF v
    <3>4. [s EXCEPT !.mcause = v] = SeenWith(m.status, pc, ie, {}, {}, {}, NoVector, 0, v, FALSE)
      BY ONLY <2>4, McauseWritten
    <3> QED
      BY <3>2, <3>3, <3>4
  <2>13. HartOf(hdr') \in Hart!rv32_write_csr(s)
    BY <2>3, <2>6, <2>20, <2>21, <2>22, <2>23, <2>24, <2>25 DEF Csr
  <2>14. MemOf(hdr') = MemOf(hdr)
    BY <1>8, <2>2
  <2>15. Hart!ExecCsr(h)
    BY <2>13, <2>14 DEF HartOf, MemOf, Hart!ExecCsr, s
  <2> QED
    BY <1>11, <2>15, Classes DEF Hart!Execute, h
<1> QED
  BY <1>9, <1>10, <1>11

\* What the hart of that module finds at pc.
LEMMA HartFetched ==
  ASSUME TypeOK, hdr.pc % 4 = 0, NEW i \in Fetch(hdr) PROVE Class(i) \in Hart!Fetched(HartOf(hdr))
<1> DEFINE h == HartOf(hdr)
           q == hdr.pc \div 4
           R == MemSize \div 4
<1>1. hdr.pc \in Word /\ hdr.pc \in Nat /\ hdr \in Machine
  BY WordFacts DEF TypeOK, Machine
<1>2. h.pc = q /\ 4 * q = hdr.pc /\ q \in Nat /\ Hart!Ram = 0 .. R - 1
  BY <1>1, PcStep DEF HartOf, Hart!Ram
<1>3. MemSize \in Nat /\ MemSize >= 4 /\ MemSize < IcAddr /\ R \in Nat /\ 4 * R <= MemSize /\ IcAddr \in Nat
  BY MachineAssumption, WordFacts
<1>4. CASE Granted(hdr.pc, 4, MemSize)
  <2>1. i = Code[WordOf(At(hdr.ram, q))]
    BY <1>2, <1>4 DEF Fetch, rv32_load, At
  <2>2. hdr.pc + 4 <= MemSize
    BY <1>1, <1>3, <1>4 DEF Granted
  <2>3. q \in 0 .. R - 1
    <3> HIDE DEF q
    <3> QED
      BY <1>2, <1>3, <2>2
  <2>4. MemOf(hdr)[q] = Class(i)
    BY <2>1, <2>3 DEF MemOf, At
  <2> QED
    BY <1>2, <2>3, <2>4 DEF Hart!Fetched, MemOf
<1>5. CASE ~Granted(hdr.pc, 4, MemSize)
  <2>1. hdr.pc = IcAddr
    BY <1>5 DEF Fetch, rv32_load
  <2>2. q \notin 0 .. R - 1 /\ h.pc = IcAddr \div 4
    <3>1. 4 * q > MemSize
      BY <1>2, <1>3, <2>1
    <3>2. h.pc = IcAddr \div 4
      BY <1>2, <2>1
    <3> HIDE DEF q, R
    <3> QED
      BY <1>2, <1>3, <3>1, <3>2
  <2>3. Class(i) \in Hart!Instr
    BY <1>1, FetchedInsn, ClassKnown
  <2> QED
    BY <1>2, <2>2, <2>3 DEF Hart!Fetched
<1> QED
  BY <1>4, <1>5

\* A fetch from where there is nothing is the hart's fault, or a load the hart
\* may refuse.
LEMMA HartFaults ==
  ASSUME TypeOK, Fresh(hdr), hdr.pc % 4 = 0, hdr.status = "RUNNING", Fetch(hdr) = {},
         hdr' = StopWith(hdr, "INVALID_MEMORY_ACCESS")
  PROVE  Hart!rv32_cycle
<1> DEFINE h == HartOf(hdr)
           q == hdr.pc \div 4
           R == MemSize \div 4
<1>1. hdr.pc \in Word /\ hdr.pc \in Nat /\ hdr \in Machine
  BY WordFacts DEF TypeOK, Machine
<1>2. h.pc = q /\ 4 * q = hdr.pc /\ q \in Nat /\ Hart!Ram = 0 .. R - 1
  BY <1>1, PcStep DEF HartOf, Hart!Ram
<1>3. MemSize \in Nat /\ MemSize >= 4 /\ R \in Nat /\ 4 * R <= MemSize
  BY MachineAssumption
<1>4. ~Granted(hdr.pc, 4, MemSize)
  BY DEF Fetch, rv32_load
<1>5. hdr.pc + 4 > MemSize
  BY <1>1, <1>3, <1>4 DEF Granted
<1>6. q \notin Hart!Ram
  <2> HIDE DEF q, R
  <2> QED
    BY <1>2, <1>3, <1>5
<1>7. HartOf(hdr') = Hart!Stop(h, "INVALID_MEMORY_ACCESS") /\ MemOf(hdr') = MemOf(hdr)
  <2>1. /\ hdr'.pc = hdr.pc /\ hdr'.ie = hdr.ie /\ hdr'.ram = hdr.ram
        /\ hdr'.status = "INVALID_MEMORY_ACCESS"
    BY <1>1, PieceFields
  <2>2. Fresh(hdr')
    BY <1>1, PiecesKeep DEF Kept, Fresh
  <2> QED
    BY <1>1, <2>1, <2>2, HartPieces
<1>8. CASE h.pc = IcAddr \div 4
  <2>1. "load" \in Hart!Fetched(h)
    BY <1>2, <1>6, <1>8 DEF Hart!Fetched, Hart!Instr
  <2>2. Hart!ExecLoad(h)
    BY <1>7, HartSteps
  <2>3. Hart!Execute(h, "load")
    BY <2>2 DEF Hart!Execute
  <2> QED
    BY <2>1, <2>3, HartFetches
<1>9. CASE h.pc # IcAddr \div 4
  <2>1. Hart!Fetched(h) = {}
    BY <1>2, <1>6, <1>9 DEF Hart!Fetched
  <2> QED
    BY <1>7, <2>1, HartFaultsThere
<1> QED
  BY <1>8, <1>9

\* One cycle of the machine, on words.
LEMMA CycleImplements ==
  ASSUME TypeOK, Unparted, Step, Aligned, hdr'.pc % 4 = 0 PROVE Hart!rv32_cycle
<1>1. hdr \in Machine /\ hdr.status = "RUNNING" /\ hdr.pc % 4 = 0 /\ hdr' \in Cycle(hdr) /\ Fresh(hdr)
  BY DEF TypeOK, Step, Aligned, Unparted
<1>2. 0 \in Reg /\ 0 \in Word /\ "RUNNING" \in Status
  BY MachineAssumption, WordFacts DEF Status
<1>3. SetReg(hdr, 0, 0) \in Machine
  BY <1>1, <1>2, PieceTypes
<1> DEFINE outcomes == UNION {Execute(SetReg(hdr, 0, 0), i) : i \in Fetch(hdr)}
<1>4. Cycle(hdr) = OrFault(hdr, outcomes)
  BY <1>1 DEF Cycle, Fresh
<1>5. CASE outcomes = {}
  <2>1. Fetch(hdr) = {}
    <3> SUFFICES ASSUME NEW i \in Fetch(hdr) PROVE FALSE
      OBVIOUS
    <3>1. Execute(SetReg(hdr, 0, 0), i) # {}
      BY <1>1, FetchedInsn, ExecuteSomething
    <3> QED
      BY <1>5, <3>1
  <2>2. hdr' = StopWith(hdr, "INVALID_MEMORY_ACCESS")
    <3> HIDE DEF outcomes
    <3> QED
      BY <1>1, <1>4, <1>5 DEF OrFault
  <2> QED
    BY <1>1, <2>1, <2>2, HartFaults
<1>6. CASE outcomes # {}
  <2>1. hdr' \in outcomes
    <3> HIDE DEF outcomes
    <3> QED
      BY <1>1, <1>4, <1>6 DEF OrFault
  <2>2. PICK i \in Fetch(hdr) : hdr' \in Execute(SetReg(hdr, 0, 0), i)
    BY <2>1
  <2>3. i.op \in StoreOp => (Address(SetReg(hdr, 0, 0), i) % 4) + Width[i.op] <= 4
    BY DEF Aligned
  <2>4. i \in Insn
    BY <1>1, FetchedInsn
  <2>5. Hart!Execute(HartOf(hdr), Class(i))
    <3>1. CASE i.op \in CsrOp \cup {"mret", "wfi"}
      BY <1>1, <2>2, <2>4, <3>1, HartSystem
    <3>2. CASE i.op \notin CsrOp \cup {"mret", "wfi"}
      BY <1>1, <2>2, <2>3, <2>4, <3>2, HartExecutes
    <3> QED
      BY <3>1, <3>2
  <2>6. Class(i) \in Hart!Fetched(HartOf(hdr))
    BY <1>1, HartFetched
  <2> QED
    BY <1>1, <2>5, <2>6, HartFetches
<1> QED
  BY <1>5, <1>6

\* The machine of src/src/rv32.h, registers, bytes and all, implements the hart
\* of Rv32Hart.tla: as long as the program keeps to words, every rv32_cycle is
\* one of the hart's, which knows instruction classes and no registers.
THEOREM ImplementsHartAlways == Spec => ImplementsHart
<1>1. TypeOK /\ Unparted /\ [Next]_vars => [Aligned /\ hdr'.pc % 4 = 0 => Hart!rv32_cycle]_vars
  BY CycleImplements DEF Next, vars
<1>2. TypeOK /\ Unparted /\ [Next]_vars => (TypeOK /\ Unparted)'
  BY StepTyped, StaysFresh
<1>3. Init => TypeOK /\ Unparted
  BY InitTyped, StartsFresh
<1> QED
  BY <1>1, <1>2, <1>3, PTL DEF Spec, ImplementsHart
=============================================================================
