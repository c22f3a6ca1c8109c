---------------------------- MODULE Rv32Isa_proofs ---------------------------
(***************************************************************************)
(* The arithmetic of Rv32Isa.tla, for registers of every width: what sums  *)
(* over sets of bits, powers of two, quotients and words are.  The laws of *)
(* DataLaws.tla and the machines of Lockstep.tla rest on it.               *)
(***************************************************************************)
EXTENDS Rv32Isa, FiniteSetTheorems, WellFoundedInduction, TLAPS

-----------------------------------------------------------------------------
(* Smallest members of sets of sets and of numbers: what fails first *)

LEMMA SmallestSubset ==
  ASSUME NEW K, IsFiniteSet(K), NEW T, T \subseteq SUBSET K, T # {}
  PROVE  \E s \in T : \A t \in T : ~(t \subseteq s /\ t # s)
<1>1. IsWellFoundedOn(StrictSubsetOrdering(K), SUBSET K)
  BY FS_StrictSubsetOrderingWellFounded, FS_FiniteSubsetsOfFinite
<1>2. PICK s \in T : \A t \in T : ~(<<t, s>> \in StrictSubsetOrdering(K))
  BY <1>1, WFMin
<1> QED
  BY <1>2 DEF StrictSubsetOrdering

LEMMA SmallestNumber ==
  ASSUME NEW T, T \subseteq Nat, T # {} PROVE \E n \in T : \A k \in T : n <= k
<1> DEFINE less == {ss \in Nat \X Nat : ss[1] < ss[2]}
<1>1. IsWellFoundedOn(less, Nat)
  BY NatLessThanWellFounded DEF OpToRel
<1>2. PICK n \in T : \A k \in T : ~(<<k, n>> \in less)
  <2> HIDE DEF less
  <2> QED
    BY <1>1, WFMin
<1>3. \A k \in T : k \in Nat /\ n \in Nat /\ ~(k < n)
  BY <1>2
<1> QED
  BY <1>3

-----------------------------------------------------------------------------
(* Sums over finite sets *)

Some(s) == CHOOSE x \in s : TRUE

\* The recursion of MapThenSumSet.
Sums(it, f, S) ==
  it = [s \in SUBSET S |-> IF s = {} THEN 0 ELSE f[Some(s)] + it[s \ {Some(s)}]]

Total(f, S) == (CHOOSE it : Sums(it, f, S))[S]

LEMMA SumsUnique ==
  ASSUME NEW K, IsFiniteSet(K), NEW f \in [K -> Int], NEW A \in SUBSET K, NEW B \in SUBSET K,
         NEW i, Sums(i, f, A), NEW j, Sums(j, f, B)
  PROVE  \A s \in SUBSET (A \cap B) : i[s] = j[s] /\ i[s] \in Int
<1> DEFINE T == {s \in SUBSET (A \cap B) : ~(i[s] = j[s] /\ i[s] \in Int)}
<1> SUFFICES ASSUME T # {} PROVE FALSE
  OBVIOUS
<1>1. T \subseteq SUBSET K
  OBVIOUS
<1>2. PICK s \in T : \A t \in T : ~(t \subseteq s /\ t # s)
  <2> HIDE DEF T
  <2> QED
    BY <1>1, SmallestSubset
<1>3. /\ i[s] = IF s = {} THEN 0 ELSE f[Some(s)] + i[s \ {Some(s)}]
      /\ j[s] = IF s = {} THEN 0 ELSE f[Some(s)] + j[s \ {Some(s)}]
  BY DEF Sums
<1>4. CASE s = {}
  BY <1>3, <1>4
<1>5. CASE s # {}
  <2>1. Some(s) \in s
    BY <1>5 DEF Some
  <2>2. s \ {Some(s)} \notin T
    BY <1>2, <2>1
  <2>3. i[s \ {Some(s)}] = j[s \ {Some(s)}] /\ i[s \ {Some(s)}] \in Int
    BY <2>2
  <2>4. f[Some(s)] \in Int
    BY <1>1, <2>1
  <2> QED
    BY <1>3, <1>5, <2>3, <2>4
<1> QED
  BY <1>4, <1>5

LEMMA SumsExist ==
  ASSUME NEW K, IsFiniteSet(K), NEW f \in [K -> Int]
  PROVE  \A S \in SUBSET K : \E it : Sums(it, f, S)
<1> DEFINE T == {S \in SUBSET K : ~ \E it : Sums(it, f, S)}
<1> SUFFICES ASSUME T # {} PROVE FALSE
  OBVIOUS
<1>1. PICK S \in T : \A t \in T : ~(t \subseteq S /\ t # S)
  <2>1. T \subseteq SUBSET K
    OBVIOUS
  <2> HIDE DEF T
  <2> QED
    BY <2>1, SmallestSubset
<1>2. ASSUME NEW t \in SUBSET S, t # S PROVE Sums(CHOOSE it : Sums(it, f, t), f, t)
  <2>1. \E it : Sums(it, f, t)
    BY <1>1, <1>2
  <2> QED
    BY <2>1
<1>3. ASSUME NEW t \in SUBSET S, t # S
      PROVE  Total(f, t) = IF t = {} THEN 0 ELSE f[Some(t)] + Total(f, t \ {Some(t)})
  <2> DEFINE js == CHOOSE j : Sums(j, f, t)
             u == t \ {Some(t)}
             ju == CHOOSE j : Sums(j, f, u)
  <2>1. Sums(js, f, t)
    BY <1>2, <1>3
  <2>2. js[t] = IF t = {} THEN 0 ELSE f[Some(t)] + js[u]
    BY <2>1 DEF Sums
  <2>3. ASSUME t # {} PROVE js[u] = ju[u]
    <3>1. Some(t) \in t
      BY <2>3 DEF Some
    <3>2. u \in SUBSET S /\ u # S /\ u \in SUBSET K /\ t \in SUBSET K
      BY <1>3, <3>1
    <3>3. Sums(ju, f, u)
      BY <1>2, <3>2
    <3> HIDE DEF js, ju, u
    <3>4. \A s \in SUBSET (t \cap u) : js[s] = ju[s]
      BY <2>1, <3>2, <3>3, SumsUnique
    <3> QED
      BY <3>4 DEF u
  <2> QED
    BY <2>2, <2>3 DEF Total
<1> DEFINE is == [t \in SUBSET S |-> IF t = {} THEN 0 ELSE f[Some(t)] + Total(f, t \ {Some(t)})]
<1>4. ASSUME NEW t \in SUBSET S, t # {} PROVE is[t \ {Some(t)}] = Total(f, t \ {Some(t)})
  <2>1. Some(t) \in t
    BY <1>4 DEF Some
  <2>2. t \ {Some(t)} \in SUBSET S /\ t \ {Some(t)} # S
    BY <2>1
  <2> QED
    BY <1>3, <2>2
<1>5. Sums(is, f, S)
  BY <1>4 DEF Sums
<1> QED
  BY <1>5

\* A sum has its first summand apart from the others.
LEMMA TotalSome ==
  ASSUME NEW K, IsFiniteSet(K), NEW f \in [K -> Int], NEW S \in SUBSET K
  PROVE  /\ Total(f, S) \in Int
         /\ Total(f, S) = IF S = {} THEN 0 ELSE f[Some(S)] + Total(f, S \ {Some(S)})
<1> DEFINE is == CHOOSE i : Sums(i, f, S)
           u == S \ {Some(S)}
           iu == CHOOSE i : Sums(i, f, u)
<1>1. Sums(is, f, S)
  <2>1. \E i : Sums(i, f, S)
    BY SumsExist
  <2> QED
    BY <2>1
<1>2. Sums(iu, f, u)
  <2>1. u \in SUBSET K
    OBVIOUS
  <2> HIDE DEF u
  <2>2. \E i : Sums(i, f, u)
    BY <2>1, SumsExist
  <2> QED
    BY <2>2
<1>3. is[S] = IF S = {} THEN 0 ELSE f[Some(S)] + is[u]
  BY <1>1 DEF Sums
<1>4. is[u] = iu[u]
  <2>1. u \in SUBSET K /\ u \in SUBSET (S \cap u)
    OBVIOUS
  <2> HIDE DEF is, iu, u
  <2> QED
    BY <1>1, <1>2, <2>1, SumsUnique
<1>5. is[S] \in Int
  <2> HIDE DEF is
  <2> QED
    BY <1>1, SumsUnique
<1> QED
  BY <1>3, <1>4, <1>5 DEF Total

LEMMA TotalEmpty ==
  ASSUME NEW K, IsFiniteSet(K), NEW f \in [K -> Int] PROVE Total(f, {}) = 0
  BY TotalSome

\* and so it has any other.
LEMMA TotalAny ==
  ASSUME NEW K, IsFiniteSet(K), NEW f \in [K -> Int]
  PROVE  \A S \in SUBSET K : \A x \in S : Total(f, S) = f[x] + Total(f, S \ {x})
<1> DEFINE T == {S \in SUBSET K : \E x \in S : Total(f, S) # f[x] + Total(f, S \ {x})}
<1> SUFFICES ASSUME T # {} PROVE FALSE
  OBVIOUS
<1>1. PICK S \in T : \A t \in T : ~(t \subseteq S /\ t # S)
  <2>1. T \subseteq SUBSET K
    OBVIOUS
  <2> HIDE DEF T
  <2> QED
    BY <2>1, SmallestSubset
<1>2. S \in SUBSET K
  OBVIOUS
<1>3. PICK x \in S : Total(f, S) # f[x] + Total(f, S \ {x})
  OBVIOUS
<1> DEFINE c == Some(S)
<1>4. c \in S
  BY DEF Some
<1>5. Total(f, S) = f[c] + Total(f, S \ {c})
  BY <1>2, <1>4, TotalSome
<1> HIDE DEF c
<1>6. c # x
  BY <1>3, <1>5
<1>7. ASSUME NEW y \in S, NEW z \in S \ {y}
      PROVE  Total(f, S \ {y}) = f[z] + Total(f, (S \ {y}) \ {z})
  <2>1. S \ {y} \notin T /\ S \ {y} \in SUBSET K
    BY <1>1, <1>2
  <2> QED
    BY <2>1
<1>8. /\ Total(f, S \ {c}) = f[x] + Total(f, (S \ {c}) \ {x})
      /\ Total(f, S \ {x}) = f[c] + Total(f, (S \ {x}) \ {c})
  <2>1. x \in S \ {c} /\ c \in S \ {x}
    BY <1>3, <1>4, <1>6
  <2> QED
    BY <1>3, <1>4, <1>7, <2>1
<1>9. (S \ {c}) \ {x} = (S \ {x}) \ {c}
  OBVIOUS
<1>10. f[c] \in Int /\ f[x] \in Int /\ Total(f, (S \ {x}) \ {c}) \in Int
  <2>1. (S \ {x}) \ {c} \in SUBSET K
    BY <1>2
  <2> QED
    BY <1>2, <1>3, <1>4, <2>1, TotalSome
<1>11. Total(f, S) = f[c] + (f[x] + Total(f, (S \ {x}) \ {c}))
  BY <1>5, <1>8, <1>9
<1> QED
  BY <1>3, <1>8, <1>10, <1>11

-----------------------------------------------------------------------------
(* Powers of two *)

LEMMA PowerPositive == \A k \in 0 .. W : 2^k \in Nat /\ 2^k > 0
<1> DEFINE T == {k \in 0 .. W : ~(2^k \in Nat /\ 2^k > 0)}
<1> SUFFICES ASSUME T # {} PROVE FALSE
  OBVIOUS
<1>1. PICK n \in T : \A k \in T : n <= k
  <2>1. T \subseteq Nat
    BY WidthAssumption
  <2> HIDE DEF T
  <2> QED
    BY <2>1, SmallestNumber
<1>2. n \in 0 .. W /\ W \in Nat
  BY WidthAssumption
<1>3. CASE n = 0
  BY <1>3, PowerAssumption
<1>4. CASE n # 0
  <2> DEFINE m == n - 1
  <2>1. m \in 0 .. W - 1 /\ m \in 0 .. W /\ n = m + 1 /\ ~(n <= m)
    BY <1>2, <1>4
  <2>2. m \notin T
    BY <1>1, <2>1
  <2> HIDE DEF m
  <2>3. 2^m \in Nat /\ 2^m > 0
    BY <2>1, <2>2
  <2>4. 2^n = 2 * 2^m
    BY <2>1, PowerAssumption
  <2> QED
    BY <2>3, <2>4
<1> QED
  BY <1>3, <1>4

LEMMA PowerSum ==
  ASSUME NEW i \in 0 .. W PROVE \A j \in 0 .. W - i : 2^(i + j) = 2^i * 2^j
<1> DEFINE T == {j \in 0 .. W - i : 2^(i + j) # 2^i * 2^j}
<1> SUFFICES ASSUME T # {} PROVE FALSE
  OBVIOUS
<1>1. PICK n \in T : \A k \in T : n <= k
  <2>1. T \subseteq Nat
    BY WidthAssumption
  <2> HIDE DEF T
  <2> QED
    BY <2>1, SmallestNumber
<1>2. n \in 0 .. W - i /\ W \in Nat
  BY WidthAssumption
<1>3. CASE n = 0
  <2>1. 2^i * 2^0 = 2^i /\ i + n = i
    BY <1>2, <1>3, PowerAssumption, PowerPositive
  <2> QED
    BY <1>3, <2>1
<1>4. CASE n # 0
  <2> DEFINE m == n - 1
             h == i + m
  <2>1. /\ m \in 0 .. W - i /\ m \in 0 .. W /\ m \in 0 .. W - 1 /\ n = m + 1 /\ ~(n <= m)
        /\ h \in 0 .. W - 1 /\ i + n = h + 1
    BY <1>2, <1>4
  <2>2. m \notin T
    BY <1>1, <2>1
  <2>3. 2^h = 2^i * 2^m
    BY <2>1, <2>2
  <2> HIDE DEF m, h
  <2>4. 2^(h + 1) = 2 * 2^h /\ 2^(m + 1) = 2 * 2^m
    BY <2>1, PowerAssumption
  <2>5. 2^i \in Int /\ 2^m \in Int
    BY <2>1, PowerPositive
  <2>6. 2 * (2^i * 2^m) = 2^i * (2 * 2^m)
    BY <2>5
  <2>7. 2^(i + n) = 2^i * 2^n
    BY <2>1, <2>3, <2>4, <2>6
  <2> QED
    BY <2>7
<1> QED
  BY <1>3, <1>4

LEMMA PowerMonotone == ASSUME NEW i \in 0 .. W, NEW j \in i .. W PROVE 2^i <= 2^j
<1> DEFINE d == j - i
<1>1. d \in 0 .. W - i /\ d \in 0 .. W /\ i + d = j
  BY WidthAssumption
<1> HIDE DEF d
<1>2. 2^j = 2^i * 2^d
  BY <1>1, PowerSum
<1>3. 2^i \in Nat /\ 2^d \in Nat /\ 2^d >= 1
  BY <1>1, PowerPositive
<1>4. \A x, y \in Nat : y >= 1 => x * y >= x
  <2>1. \A x, y \in Nat : y >= 1 => x * y = x + x * (y - 1) /\ y - 1 \in Nat /\ x * (y - 1) >= 0
    OBVIOUS
  <2> QED
    BY <2>1
<1> QED
  BY <1>2, <1>3, <1>4

-----------------------------------------------------------------------------
(* The value of a set of bits *)

Bits == 0 .. W - 1
Weights == [i \in Bits |-> 2^i]

LEMMA BitsFacts ==
  /\ IsFiniteSet(Bits) /\ Weights \in [Bits -> Int]
<1>1. W \in Nat
  BY WidthAssumption
<1>2. IsFiniteSet(Bits)
  BY <1>1, FS_Interval DEF Bits
<1>3. \A i \in Bits : 2^i \in Int
  BY <1>1, PowerPositive DEF Bits
<1> QED
  BY <1>2, <1>3 DEF Weights

\* What MapThenSumSet chooses for Value.
ValueFold(it, S) ==
  it = [s \in SUBSET S |-> IF s = {} THEN 0
                           ELSE 2^(CHOOSE x \in s : TRUE) + it[s \ {CHOOSE x \in s : TRUE}]]

LEMMA ValueTotal == ASSUME NEW S \in SUBSET Bits PROVE Value(S) = Total(Weights, S)
<1>1. Value(S) = (CHOOSE it : ValueFold(it, S))[S]
  BY DEF Value, MapThenSumSet, MapThenFoldSet, ValueFold
<1>2. ASSUME NEW it PROVE ValueFold(it, S) <=> Sums(it, Weights, S)
  <2>1. ASSUME NEW s \in SUBSET S, s # {} PROVE 2^(CHOOSE x \in s : TRUE) = Weights[Some(s)]
    <3>1. Some(s) \in Bits
      BY <2>1 DEF Some
    <3> QED
      BY <3>1 DEF Weights, Some
  <2>2. \A s \in SUBSET S : s # {} =>
          2^(CHOOSE x \in s : TRUE) + it[s \ {CHOOSE x \in s : TRUE}] = Weights[Some(s)] + it[s \ {Some(s)}]
    BY <2>1 DEF Some
  <2>3. [s \in SUBSET S |-> IF s = {} THEN 0
                            ELSE 2^(CHOOSE x \in s : TRUE) + it[s \ {CHOOSE x \in s : TRUE}]]
        = [s \in SUBSET S |-> IF s = {} THEN 0 ELSE Weights[Some(s)] + it[s \ {Some(s)}]]
    BY <2>2
  <2> QED
    BY <2>3 DEF Sums, ValueFold
<1>3. (CHOOSE it : ValueFold(it, S))[S] = (CHOOSE it : Sums(it, Weights, S))[S]
  <2> DEFINE r == CHOOSE it : ValueFold(it, S)
             t == CHOOSE it : Sums(it, Weights, S)
  <2>1. \E it : Sums(it, Weights, S)
    BY BitsFacts, SumsExist
  <2>2. Sums(t, Weights, S)
    BY <2>1
  <2>3. ValueFold(r, S)
    BY <1>2, <2>1
  <2>4. Sums(r, Weights, S)
    BY <1>2, <2>3
  <2> HIDE DEF r, t
  <2>5. S \in SUBSET (S \cap S)
    OBVIOUS
  <2>6. r[S] = t[S]
    BY <2>2, <2>4, <2>5, BitsFacts, SumsUnique
  <2> QED
    BY <2>6 DEF r, t
<1> QED
  BY <1>1, <1>3 DEF Total

LEMMA ValueOf ==
  ASSUME NEW S \in SUBSET Bits
  PROVE  /\ Value(S) \in Int
         /\ S = {} => Value(S) = 0
         /\ \A x \in S : Value(S) = 2^x + Value(S \ {x})
<1>1. Value(S) = Total(Weights, S) /\ Total(Weights, S) \in Int
  BY ValueTotal, BitsFacts, TotalSome
<1>2. S = {} => Value(S) = 0
  BY <1>1, BitsFacts, TotalEmpty
<1>3. ASSUME NEW x \in S PROVE Value(S) = 2^x + Value(S \ {x})
  <2>1. S \ {x} \in SUBSET Bits
    OBVIOUS
  <2>2. Value(S \ {x}) = Total(Weights, S \ {x})
    BY <2>1, ValueTotal
  <2>3. Total(Weights, S) = Weights[x] + Total(Weights, S \ {x})
    BY BitsFacts, TotalAny
  <2>4. Weights[x] = 2^x
    BY DEF Weights
  <2> QED
    BY <1>1, <2>2, <2>3, <2>4
<1> QED
  BY <1>1, <1>2, <1>3

\* Bits below n make a number of n bits.
LEMMA ValueBelow == \A n \in 0 .. W : \A S \in SUBSET (0 .. n - 1) : Value(S) \in 0 .. 2^n - 1
<1> DEFINE T == {n \in 0 .. W : \E S \in SUBSET (0 .. n - 1) : Value(S) \notin 0 .. 2^n - 1}
<1> SUFFICES ASSUME T # {} PROVE FALSE
  OBVIOUS
<1>1. PICK n \in T : \A k \in T : n <= k
  <2>1. T \subseteq Nat
    BY WidthAssumption
  <2> HIDE DEF T
  <2> QED
    BY <2>1, SmallestNumber
<1>2. n \in 0 .. W /\ W \in Nat
  BY WidthAssumption
<1>3. PICK S \in SUBSET (0 .. n - 1) : Value(S) \notin 0 .. 2^n - 1
  OBVIOUS
<1>4. S \in SUBSET Bits
  BY <1>2 DEF Bits
<1>5. CASE S = {}
  <2>1. Value(S) = 0
    BY <1>4, <1>5, ValueOf
  <2> QED
    BY <1>2, <1>3, <2>1, PowerPositive
<1>6. CASE S # {}
  <2> DEFINE m == n - 1
  <2>1. n # 0
    <3>1. PICK x \in S : TRUE
      BY <1>6
    <3>2. x \in 0 .. n - 1
      OBVIOUS
    <3> QED
      BY <1>2, <3>2
  <2>2. m \in 0 .. W - 1 /\ m \in 0 .. W /\ n = m + 1 /\ ~(n <= m)
    BY <1>2, <2>1
  <2>3. m \notin T
    BY <1>1, <2>2
  <2>4. \A R \in SUBSET (0 .. m - 1) : Value(R) \in 0 .. 2^m - 1
    BY <2>2, <2>3
  <2> HIDE DEF m
  <2>5. 2^n = 2 * 2^m /\ 2^m \in Nat /\ 2^m > 0
    BY <2>2, PowerAssumption, PowerPositive
  <2>6. CASE m \in S
    <3>1. S \ {m} \in SUBSET (0 .. m - 1)
      BY <2>2
    <3>2. Value(S) = 2^m + Value(S \ {m}) /\ Value(S \ {m}) \in 0 .. 2^m - 1
      BY <1>4, <2>4, <2>6, <3>1, ValueOf
    <3> QED
      BY <1>3, <2>5, <3>2
  <2>7. CASE m \notin S
    <3>1. S \in SUBSET (0 .. m - 1)
      BY <2>2, <2>7
    <3>2. Value(S) \in 0 .. 2^m - 1
      BY <2>4, <3>1
    <3> QED
      BY <1>3, <2>5, <3>2
  <2> QED
    BY <2>6, <2>7
<1> QED
  BY <1>5, <1>6

LEMMA ValueWord == ASSUME NEW S \in SUBSET Bits PROVE Value(S) \in Word
  BY ValueBelow, WidthAssumption DEF Bits, Word

\* Disjoint sets of bits add up.
LEMMA ValueUnion ==
  ASSUME NEW A \in SUBSET Bits
  PROVE  \A B \in SUBSET Bits : A \cap B = {} => Value(A \cup B) = Value(A) + Value(B)
<1> DEFINE T == {B \in SUBSET Bits : A \cap B = {} /\ Value(A \cup B) # Value(A) + Value(B)}
<1> SUFFICES ASSUME T # {} PROVE FALSE
  OBVIOUS
<1>1. PICK B \in T : \A t \in T : ~(t \subseteq B /\ t # B)
  <2>1. T \subseteq SUBSET Bits
    OBVIOUS
  <2> HIDE DEF T
  <2> QED
    BY <2>1, BitsFacts, SmallestSubset
<1>2. B \in SUBSET Bits /\ A \cap B = {} /\ Value(A \cup B) # Value(A) + Value(B)
  OBVIOUS
<1>3. CASE B = {}
  <2>1. A \cup B = A
    BY <1>3
  <2>2. Value(A) \in Int /\ Value(B) = 0
    BY <1>2, <1>3, ValueOf
  <2> QED
    BY <1>2, <2>1, <2>2
<1>4. CASE B # {}
  <2>1. PICK x \in B : TRUE
    BY <1>4
  <2> DEFINE C == B \ {x}
  <2>2. C \in SUBSET Bits /\ A \cap C = {} /\ C \subseteq B /\ C # B
    BY <1>2, <2>1
  <2>3. Value(A \cup C) = Value(A) + Value(C)
    BY <1>1, <2>2
  <2> HIDE DEF T
  <2>4. (A \cup B) \ {x} = A \cup C /\ x \in A \cup B /\ A \cup B \in SUBSET Bits
    BY <1>2, <2>1
  <2>5. Value(A \cup B) = 2^x + Value(A \cup C)
    <3>1. Value(A \cup B) = 2^x + Value((A \cup B) \ {x})
      <4> DEFINE U == A \cup B
      <4>1. U \in SUBSET Bits /\ x \in U
        BY <2>4
      <4> HIDE DEF U
      <4>2. Value(U) = 2^x + Value(U \ {x})
        BY <4>1, ValueOf
      <4> QED
        BY <4>2 DEF U
    <3> QED
      BY <2>4, <3>1
  <2>6. Value(B) = 2^x + Value(C)
    BY <1>2, <2>1, ValueOf
  <2> HIDE DEF C
  <2>7. Value(A) \in Int /\ Value(C) \in Int /\ 2^x \in Int
    <3>1. x \in 0 .. W
      BY <1>2, <2>1, WidthAssumption DEF Bits
    <3> QED
      BY <2>2, <3>1, ValueOf, PowerPositive
  <2> QED
    BY <1>2, <2>3, <2>5, <2>6, <2>7
<1> QED
  BY <1>3, <1>4
-----------------------------------------------------------------------------
(* Division with remainder, for any divisor *)

LEMMA Division ==
  ASSUME NEW x \in Int, NEW m \in Nat, m > 0, NEW q, q = x \div m, NEW r, r = x % m
  PROVE  x = m * q + r /\ q \in Int /\ r \in 0 .. m - 1
  OBVIOUS

LEMMA TimesMore ==
  ASSUME NEW m \in Nat, NEW u \in Int, NEW v \in Int, u > v PROVE m * u >= m * v + m
<1>1. PICK d \in Nat : u = v + 1 + d
  <2>1. u - v - 1 \in Nat /\ u = v + 1 + (u - v - 1)
    OBVIOUS
  <2> QED
    BY <2>1
<1>2. m * u = m * v + m + m * d /\ m * d >= 0
  BY <1>1
<1>3. m * u \in Int /\ m * v \in Int /\ m * d \in Int
  BY <1>1
<1> QED
  BY <1>2, <1>3

LEMMA DivisionUnique ==
  ASSUME NEW m \in Nat, m > 0, NEW x \in Int, NEW q \in Int, NEW r \in 0 .. m - 1, x = m * q + r
  PROVE  x \div m = q /\ x % m = r
<1> DEFINE u == x \div m
           s == x % m
<1>1. x = m * u + s /\ u \in Int /\ s \in 0 .. m - 1
  BY Division
<1> HIDE DEF u, s
<1>2. m * u \in Int /\ m * q \in Int
  BY <1>1
<1>3. ~(u > q) /\ ~(q > u)
  BY <1>1, <1>2, TimesMore
<1>4. u = q
  BY <1>1, <1>3
<1>5. s = r
  BY <1>1, <1>2, <1>4
<1> QED
  BY <1>4, <1>5 DEF u, s

\* Multiples of the divisor do not change the remainder.
LEMMA SameRemainder ==
  ASSUME NEW m \in Nat, m > 0, NEW x \in Int, NEW k \in Int
  PROVE  (x + m * k) % m = x % m
<1> DEFINE q == x \div m
           r == x % m
<1>1. x = m * q + r /\ q \in Int /\ r \in 0 .. m - 1
  BY Division
<1> HIDE DEF q, r
<1>2. x + m * k = m * (q + k) + r /\ q + k \in Int /\ x + m * k \in Int
  BY <1>1
<1> QED
  BY <1>1, <1>2, DivisionUnique DEF r

LEMMA ProductBound ==
  ASSUME NEW A \in Nat, NEW B \in Nat, NEW x \in -A .. A, NEW y \in -B .. B
  PROVE  x * y \in -(A * B) .. A * B
<1>1. (A - x) * (B + y) >= 0 /\ (A + x) * (B - y) >= 0 /\ (A - x) * (B - y) >= 0 /\ (A + x) * (B + y) >= 0
  <2>1. \A u, v \in Nat : u * v >= 0
    OBVIOUS
  <2>2. A - x \in Nat /\ A + x \in Nat /\ B - y \in Nat /\ B + y \in Nat
    OBVIOUS
  <2> QED
    BY <2>1, <2>2
<1>2. /\ (A - x) * (B + y) = A * B + A * y - B * x - x * y
      /\ (A + x) * (B - y) = A * B - A * y + B * x - x * y
      /\ (A - x) * (B - y) = A * B - A * y - B * x + x * y
      /\ (A + x) * (B + y) = A * B + A * y + B * x + x * y
  OBVIOUS
<1>3. A * B \in Int /\ A * y \in Int /\ B * x \in Int /\ x * y \in Int
  OBVIOUS
<1> QED
  BY <1>1, <1>2, <1>3

\* The word a product of n words lies in.
LEMMA QuotientBound ==
  ASSUME NEW m \in Nat, m > 0, NEW x \in Int, NEW lo \in Int, NEW hi \in Int,
         m * lo <= x, x < m * hi
  PROVE  x \div m \in lo .. hi - 1
<1> DEFINE q == x \div m
           r == x % m
<1>1. x = m * q + r /\ q \in Int /\ r \in 0 .. m - 1
  BY Division
<1> HIDE DEF q, r
<1>2. m * q \in Int /\ m * lo \in Int /\ m * hi \in Int
  BY <1>1
<1>3. ~(lo > q)
  BY <1>1, <1>2, TimesMore
<1>4. ~(q >= hi)
  <2>1. q > hi => m * q >= m * hi
    BY <1>1, <1>2, TimesMore
  <2>2. q = hi => m * q = m * hi
    OBVIOUS
  <2> QED
    BY <1>1, <1>2, <2>1, <2>2
<1> QED
  BY <1>1, <1>3, <1>4 DEF q

\* C's quotient and remainder: exact, and towards zero.
TowardsZero(Q, R, n, d) ==
  /\ Q \in Int /\ R \in Int /\ Q * d + R = n
  /\ Magnitude(R) < Magnitude(d) /\ (R # 0 => (R < 0) = (n < 0))
  /\ Magnitude(Q * d) <= Magnitude(n)
  /\ \E m \in Nat : /\ Q = m \/ Q = -m
                    /\ m * Magnitude(d) <= Magnitude(n)
                    /\ Q = m /\ m # 0 => (n < 0) = (d < 0)

LEMMA Truncated ==
  ASSUME NEW n \in Int, NEW d \in Int, d # 0, NEW Q, Q = Quotient(n, d), NEW R, R = Remainder(n, d)
  PROVE  TowardsZero(Q, R, n, d)
<1> SUFFICES /\ Q \in Int /\ R \in Int /\ Q * d + R = n
             /\ Magnitude(R) < Magnitude(d) /\ (R # 0 => (R < 0) = (n < 0))
             /\ Magnitude(Q * d) <= Magnitude(n)
             /\ \E m \in Nat : /\ Q = m \/ Q = -m
                               /\ m * Magnitude(d) <= Magnitude(n)
                               /\ Q = m /\ m # 0 => (n < 0) = (d < 0)
  BY DEF TowardsZero
<1> DEFINE m == Magnitude(n) \div Magnitude(d)
           t == Magnitude(n) % Magnitude(d)
           N == Magnitude(n)
           D == Magnitude(d)
<1>1. N \in Nat /\ D \in Nat /\ D > 0
  BY DEF Magnitude
<1>2. m = N \div D /\ t = N % D /\ Q = (IF (n < 0) = (d < 0) THEN m ELSE -m) /\ R = n - d * Q
  BY DEF Quotient, Remainder
<1> HIDE DEF m, t, N, D
<1>3. N = D * m + t /\ m \in Int /\ t \in 0 .. D - 1
  BY <1>1, <1>2, Division
<1>4. m \in Nat
  <2>1. N \div D \in 0 .. N + 1 - 1
    <3>1. D * 0 <= N /\ N < D * (N + 1)
      BY <1>1
    <3> QED
      BY <1>1, <3>1, QuotientBound
  <2> QED
    BY <1>1, <1>2, <2>1
<1>5. D * m \in Int /\ D * m = m * D /\ D * m <= N /\ D * m >= 0
  BY <1>1, <1>3, <1>4
<1>6. CASE n >= 0 /\ d > 0
  <2>1. N = n /\ D = d /\ Q = m /\ Q * d = D * m /\ R = t
    BY <1>2, <1>3, <1>5, <1>6 DEF N, D, Magnitude
  <2> QED
    BY <1>1, <1>3, <1>4, <1>5, <1>6, <2>1 DEF Magnitude
<1>7. CASE n >= 0 /\ d < 0
  <2>0. N = n /\ D = -d /\ Q = -m /\ d = -D
    BY <1>2, <1>7 DEF N, D, Magnitude
  <2>1. Q * d = D * m /\ R = t
    <3>1. (-m) * (-D) = D * m
      BY <1>1, <1>4
    <3>2. Q * d = D * m /\ d * Q = D * m
      BY <1>1, <1>4, <2>0, <3>1
    <3>3. R = N - D * m
      BY <1>2, <2>0, <3>2
    <3>4. N - D * m = t
      BY <1>3, <1>5
    <3> QED
      BY <3>2, <3>3, <3>4
  <2> QED
    BY <1>1, <1>3, <1>4, <1>5, <1>7, <2>0, <2>1 DEF Magnitude
<1>8. CASE n < 0 /\ d > 0
  <2>1. N = -n /\ D = d /\ Q = -m /\ Q * d = -(D * m) /\ R = -t
    BY <1>2, <1>3, <1>5, <1>8 DEF N, D, Magnitude
  <2> QED
    BY <1>1, <1>3, <1>4, <1>5, <1>8, <2>1 DEF Magnitude
<1>9. CASE n < 0 /\ d < 0
  <2>0. N = -n /\ D = -d /\ Q = m /\ d = -D
    BY <1>2, <1>9 DEF N, D, Magnitude
  <2>1. Q * d = -(D * m) /\ R = -t
    <3>1. m * (-D) = -(D * m) /\ (-D) * m = -(D * m)
      BY <1>1, <1>4
    <3>2. Q * d = -(D * m) /\ d * Q = -(D * m)
      BY <1>1, <1>4, <2>0, <3>1
    <3>3. R = -N + D * m
      BY <1>2, <1>5, <2>0, <3>2
    <3>4. -N + D * m = -t
      BY <1>3, <1>5
    <3> QED
      BY <3>2, <3>3, <3>4
  <2> QED
    BY <1>1, <1>3, <1>4, <1>5, <1>9, <2>0, <2>1 DEF Magnitude
<1> QED
  BY <1>6, <1>7, <1>8, <1>9

-----------------------------------------------------------------------------
(* Words of any width *)

Modulus == 2^W
HalfWord == 2^(W - 1)

LEMMA WordFacts ==
  /\ Modulus \in Nat /\ HalfWord \in Nat /\ HalfWord > 0 /\ Modulus = 2 * HalfWord
  /\ Word = 0 .. Modulus - 1
<1>1. W - 1 \in 0 .. W - 1 /\ W - 1 \in 0 .. W /\ (W - 1) + 1 = W
  BY WidthAssumption
<1>2. 2^(W - 1) \in Nat /\ 2^((W - 1) + 1) = 2 * 2^(W - 1)
  BY <1>1, PowerAssumption
<1>3. 2^(W - 1) > 0
  BY <1>1, PowerPositive
<1>4. 2^W = 2 * 2^(W - 1)
  BY <1>1, <1>2
<1> QED
  BY <1>2, <1>3, <1>4 DEF Modulus, HalfWord, Word

LEMMA SignedRange ==
  ASSUME NEW a \in Word
  PROVE  /\ Signed(a) \in -HalfWord .. HalfWord - 1
         /\ Signed(a) = a \/ Signed(a) = a - Modulus
         /\ Signed(a) = 0 <=> a = 0
         /\ Signed(a) = -HalfWord <=> a = HalfWord
<1>1. Signed(a) = IF a < HalfWord THEN a ELSE a - Modulus
  BY DEF Signed, HalfWord, Modulus
<1> QED
  BY <1>1, WordFacts

LEMMA WrapWord == ASSUME NEW a \in Word PROVE Wrap(a) = a
<1>1. a = Modulus * 0 + a /\ a \in 0 .. Modulus - 1 /\ a \in Int /\ 0 \in Int /\ Modulus > 0
  BY WordFacts
<1>2. a % Modulus = a
  BY <1>1, WordFacts, DivisionUnique
<1> QED
  BY <1>2 DEF Wrap, Modulus

\* A number a register can hold with its sign is what is read back.
LEMMA SignedWrap ==
  ASSUME NEW h \in -HalfWord .. HalfWord - 1 PROVE Signed(Wrap(h)) = h /\ Wrap(h) \in Word
<1>1. \A x : Signed(x) = IF x < HalfWord THEN x ELSE x - Modulus
  BY DEF Signed, HalfWord, Modulus
<1>2. h \in Int /\ Wrap(h) = h % Modulus /\ 0 \in Int /\ -1 \in Int /\ Modulus > 0
  BY WordFacts DEF Wrap, Modulus
<1>3. CASE h >= 0
  <2>1. h = Modulus * 0 + h /\ h \in 0 .. Modulus - 1
    BY <1>3, WordFacts
  <2>2. h % Modulus = h
    BY <1>2, <2>1, WordFacts, DivisionUnique
  <2> QED
    BY <1>1, <1>2, <2>1, <2>2, WordFacts
<1>4. CASE h < 0
  <2>1. h = Modulus * (-1) + (h + Modulus) /\ h + Modulus \in 0 .. Modulus - 1 /\ h + Modulus >= HalfWord
    BY <1>4, WordFacts
  <2>2. h % Modulus = h + Modulus
    BY <1>2, <2>1, WordFacts, DivisionUnique
  <2> QED
    BY <1>1, <1>2, <2>1, <2>2, WordFacts
<1> QED
  BY <1>3, <1>4

\* The high word of a product p, and the low word of a number that differs from
\* p by a multiple of the modulus, are p.
LEMMA TwoWords ==
  ASSUME NEW p \in Int, NEW k \in Int, NEW low, low = p + Modulus * k
  PROVE  LET q == p \div Modulus IN
         /\ q \in -HalfWord .. HalfWord - 1 => Signed(Wrap(q)) * Modulus + Wrap(low) = p
         /\ q \in Word => Wrap(q) * Modulus + Wrap(low) = p
<1> DEFINE q == p \div Modulus
           r == p % Modulus
<1>m. Modulus \in Nat /\ Modulus > 0
  BY WordFacts
<1>1. p = Modulus * q + r /\ q \in Int /\ r \in 0 .. Modulus - 1
  BY <1>m, Division
<1>2. Wrap(low) = r
  <2>1. (p + Modulus * k) % Modulus = r
    BY <1>m, SameRemainder
  <2> QED
    BY <2>1 DEF Wrap, Modulus
<1> HIDE DEF q, r
<1>3. p = q * Modulus + r
  BY <1>1, WordFacts
<1>4. q \in -HalfWord .. HalfWord - 1 => Signed(Wrap(q)) * Modulus + Wrap(low) = p
  BY <1>2, <1>3, SignedWrap
<1>5. q \in Word => Wrap(q) * Modulus + Wrap(low) = p
  BY <1>2, <1>3, WrapWord
<1> QED
  BY <1>4, <1>5 DEF q


\* Whatever is computed, a register holds a word.
LEMMA WrapType == ASSUME NEW x \in Int PROVE Wrap(x) \in Word
<1> DEFINE r == x % Modulus
<1>m. Modulus \in Nat /\ Modulus > 0
  BY WordFacts
<1>1. r \in 0 .. Modulus - 1
  BY <1>m
<1> QED
  BY <1>1, WordFacts DEF Wrap, Modulus

LEMMA SignedType == ASSUME NEW a \in Word PROVE Signed(a) \in Int
  BY SignedRange, WordFacts

LEMMA OnesType == ASSUME NEW a PROVE Ones(a) \in SUBSET Bits
  BY DEF Ones, Bits

LEMMA SextWord == ASSUME NEW x \in Word, NEW n \in Nat PROVE SEXT(x, n) \in Word
<1>1. Ones(x) \cup n .. W - 1 \in SUBSET Bits
  BY OnesType, WidthAssumption DEF Bits
<1> QED
  BY <1>1, ValueWord DEF SEXT

LEMMA BitwiseWord ==
  ASSUME NEW a, NEW b PROVE Xor(a, b) \in Word /\ Or(a, b) \in Word /\ And(a, b) \in Word
<1>1. /\ (Ones(a) \cup Ones(b)) \ (Ones(a) \cap Ones(b)) \in SUBSET Bits
      /\ Ones(a) \cup Ones(b) \in SUBSET Bits /\ Ones(a) \cap Ones(b) \in SUBSET Bits
  BY OnesType
<1> QED
  BY <1>1, ValueWord DEF Xor, Or, And

\* A quotient of a word is a word.
LEMMA QuotientWord ==
  ASSUME NEW a \in Word, NEW m \in Nat, m > 0 PROVE a \div m \in 0 .. a /\ a \div m \in Word
<1>1. a \in Nat /\ m * 0 <= a /\ a < m * (a + 1)
  <2>1. a \in Nat
    BY WordFacts
  <2>2. m - 1 \in Nat /\ m * (a + 1) = a + 1 + (m - 1) * (a + 1)
    BY <2>1
  <2>3. (m - 1) * (a + 1) >= 0 /\ (m - 1) * (a + 1) \in Int
    BY <2>1, <2>2
  <2> QED
    BY <2>1, <2>2, <2>3
<1>2. a \div m \in 0 .. (a + 1) - 1
  BY <1>1, QuotientBound
<1>3. \A q \in 0 .. a : q \in Word
  BY WordFacts
<1> QED
  BY <1>1, <1>2, <1>3

LEMMA ShiftWord ==
  ASSUME NEW a \in Word, NEW s \in Bits
  PROVE  ShiftLeft(a, s) \in Word /\ ShiftRight(a, s) \in Word /\ ShiftArith(a, s) \in Word
<1>1. 2^s \in Nat /\ 2^s > 0
  BY PowerPositive, WidthAssumption DEF Bits
<1> DEFINE q == Signed(a) \div 2^s
<1>2. a * 2^s \in Int /\ q \in Int
  <2>1. a \in Int /\ Signed(a) \in Int
    BY SignedType, WordFacts
  <2> HIDE DEF q
  <2>2. a * 2^s \in Int
    BY <1>1, <2>1
  <2>3. q \in Int
    BY <1>1, <2>1 DEF q
  <2> QED
    BY <2>2, <2>3
<1> HIDE DEF q
<1>3. Wrap(a * 2^s) \in Word /\ Wrap(q) \in Word
  BY <1>2, WrapType
<1>4. a \div 2^s \in Word
  BY <1>1, QuotientWord
<1> QED
  BY <1>3, <1>4 DEF ShiftLeft, ShiftRight, ShiftArith, q

LEMMA CountType == ASSUME NEW n \in Int PROVE n % W \in Bits
  BY WidthAssumption DEF Bits

-----------------------------------------------------------------------------
(* Bits and values *)

\* Bits from k up make a multiple of 2^k.
LEMMA ValueMultiple ==
  ASSUME NEW k \in 0 .. W PROVE \A S \in SUBSET (k .. W - 1) : \E c \in Nat : Value(S) = 2^k * c
<1> DEFINE K == k .. W - 1
           T == {S \in SUBSET K : ~ \E c \in Nat : Value(S) = 2^k * c}
<1>1. IsFiniteSet(K) /\ K \subseteq Bits /\ W \in Nat
  <2>1. k \in Int /\ W - 1 \in Int /\ W \in Nat
    BY WidthAssumption
  <2> QED
    BY <2>1, FS_Interval DEF Bits
<1> SUFFICES ASSUME T # {} PROVE FALSE
  OBVIOUS
<1>2. PICK S \in T : \A t \in T : ~(t \subseteq S /\ t # S)
  <2>1. T \subseteq SUBSET K
    OBVIOUS
  <2> HIDE DEF T, K
  <2> QED
    BY <1>1, <2>1, SmallestSubset
<1>3. S \in SUBSET K /\ ~ \E c \in Nat : Value(S) = 2^k * c
  OBVIOUS
<1> HIDE DEF K
<1>4. S \in SUBSET Bits
  BY <1>1, <1>3
<1>5. 2^k \in Nat
  BY PowerPositive
<1>6. CASE S = {}
  <2>1. Value(S) = 0
    BY <1>4, <1>6, ValueOf
  <2>2. 0 = 2^k * 0
    BY <1>5
  <2> QED
    BY <1>3, <2>1, <2>2
<1>7. CASE S # {}
  <2>1. PICK x \in S : TRUE
    BY <1>7
  <2> DEFINE R == S \ {x}
             d == x - k
  <2>2. R \in SUBSET K /\ R \subseteq S /\ R # S
    BY <1>3, <2>1
  <2>3. R \notin T
    BY <1>2, <2>2
  <2>4. PICK c \in Nat : Value(R) = 2^k * c
    BY <2>2, <2>3
  <2>5. Value(S) = 2^x + Value(R)
    BY <1>4, <2>1, ValueOf
  <2>6. d \in 0 .. W - k /\ d \in 0 .. W /\ k + d = x
    BY <1>1, <1>3, <2>1 DEF K
  <2> HIDE DEF R, T, d
  <2>7. 2^x = 2^k * 2^d /\ 2^d \in Nat
    BY <2>6, PowerSum, PowerPositive
  <2>8. \A p, q, r \in Nat : p * q + p * r = p * (q + r) /\ q + r \in Nat
    OBVIOUS
  <2>9. 2^k * 2^d + 2^k * c = 2^k * (2^d + c) /\ 2^d + c \in Nat
    BY <1>5, <2>7, <2>8
  <2> QED
    BY <1>3, <2>4, <2>5, <2>7, <2>9
<1> QED
  BY <1>6, <1>7

\* The bits of the value are the bits,
LEMMA OnesValue == ASSUME NEW S \in SUBSET Bits PROVE Ones(Value(S)) = S
<1>1. ASSUME NEW i \in Bits PROVE (Value(S) \div 2^i) % 2 = 1 <=> i \in S
  <2> DEFINE low == S \cap 0 .. i - 1
             high == S \cap i + 1 .. W - 1
             rest == S \ low
             bit == IF i \in S THEN 1 ELSE 0
  <2>1. i \in 0 .. W /\ i + 1 \in 0 .. W /\ i \in 0 .. W - 1 /\ W \in Nat /\ i \in Nat
    BY WidthAssumption DEF Bits
  <2>2. /\ low \in SUBSET Bits /\ rest \in SUBSET Bits /\ high \in SUBSET Bits
        /\ low \in SUBSET (0 .. i - 1) /\ high \in SUBSET (i + 1 .. W - 1)
        /\ low \cap rest = {} /\ low \cup rest = S /\ rest \ {i} = high /\ (i \in S <=> i \in rest)
    <3>1. \A x \in S : x \in Int /\ x \in 0 .. W - 1
      BY <2>1 DEF Bits
    <3>2. \A x \in S : x \notin low <=> x = i \/ x \in high
      BY <2>1, <3>1
    <3>3. i \notin low /\ i \notin high
      BY <2>1
    <3>4. /\ low \in SUBSET Bits /\ rest \in SUBSET Bits /\ high \in SUBSET Bits
          /\ low \in SUBSET (0 .. i - 1) /\ high \in SUBSET (i + 1 .. W - 1) /\ low \in SUBSET S /\ high \in SUBSET S
      OBVIOUS
    <3> HIDE DEF low, high
    <3> QED
      BY <3>2, <3>3, <3>4
  <2>3. Value(S) = Value(low) + Value(rest)
    <3> HIDE DEF low, rest
    <3> QED
      BY <2>2, ValueUnion
  <2>4. Value(low) \in 0 .. 2^i - 1
    <3> HIDE DEF low
    <3> QED
      BY <2>1, <2>2, ValueBelow
  <2>5. PICK c \in Nat : Value(high) = 2^(i + 1) * c
    <3> HIDE DEF high
    <3> QED
      BY <2>1, <2>2, ValueMultiple
  <2>6. 2^(i + 1) = 2 * 2^i /\ 2^i \in Nat /\ 2^i > 0
    BY <2>1, PowerAssumption, PowerPositive
  <2> DEFINE p == 2^i
             e == 2^(i + 1)
  <2>7. Value(rest) = p * bit + 2 * p * c
    <3>1. e = 2 * p /\ p \in Nat /\ Value(high) = e * c
      BY <2>5, <2>6
    <3>2. i \in S => Value(rest) = p + Value(high)
      <4> HIDE DEF rest, high
      <4> QED
        BY <2>2, ValueOf
    <3>3. i \notin S => rest = high
      <4> HIDE DEF rest, high
      <4> QED
        BY <2>2
    <3> HIDE DEF p, e, rest, high
    <3>4. Value(high) = 2 * p * c /\ 2 * p * c \in Int
      BY <3>1
    <3> QED
      BY <3>1, <3>2, <3>3, <3>4
  <2>8. bit \in {0, 1} /\ (bit = 1 <=> i \in S)
    OBVIOUS
  <2> DEFINE v == Value(S)
             r == Value(low)
             q == bit + 2 * c
  <2>9. v = p * q + r /\ q \in Int /\ v \in Int /\ r \in 0 .. p - 1 /\ p \in Nat /\ p > 0
    <3>1. Value(rest) = p * bit + 2 * p * c /\ v = r + Value(rest) /\ p \in Nat /\ p > 0 /\ r \in 0 .. p - 1
      BY <2>3, <2>4, <2>6, <2>7
    <3> HIDE DEF v, r, p, bit
    <3>2. p * (bit + 2 * c) = p * bit + 2 * p * c /\ p * bit \in Int /\ 2 * p * c \in Int
      BY <2>8, <3>1
    <3> QED
      BY <2>8, <3>1, <3>2
  <2> HIDE DEF v, r, p
  <2>10. v \div p = q
    BY <2>9, DivisionUnique
  <2>11. q % 2 = bit
    BY <2>8
  <2> QED
    BY <2>8, <2>10, <2>11 DEF v, p
<1> QED
  BY <1>1 DEF Ones, Bits

\* every number of n bits is the value of some,
LEMMA ValueOnto == \A n \in 0 .. W : \A a \in 0 .. 2^n - 1 : \E S \in SUBSET (0 .. n - 1) : Value(S) = a
<1> DEFINE T == {n \in 0 .. W : \E a \in 0 .. 2^n - 1 : ~ \E S \in SUBSET (0 .. n - 1) : Value(S) = a}
<1> SUFFICES ASSUME T # {} PROVE FALSE
  OBVIOUS
<1>1. PICK n \in T : \A k \in T : n <= k
  <2>1. T \subseteq Nat
    BY WidthAssumption
  <2> HIDE DEF T
  <2> QED
    BY <2>1, SmallestNumber
<1>2. n \in 0 .. W /\ W \in Nat
  BY WidthAssumption
<1>3. PICK a \in 0 .. 2^n - 1 : ~ \E S \in SUBSET (0 .. n - 1) : Value(S) = a
  OBVIOUS
<1>4. CASE n = 0
  <2>1. a = 0
    BY <1>4, PowerAssumption
  <2>2. {} \in SUBSET (0 .. n - 1) /\ {} \in SUBSET Bits
    OBVIOUS
  <2>3. Value({}) = 0
    BY <2>2, ValueOf
  <2> QED
    BY <1>3, <2>1, <2>2, <2>3
<1>5. CASE n # 0
  <2> DEFINE m == n - 1
  <2>1. m \in 0 .. W - 1 /\ m \in 0 .. W /\ n = m + 1 /\ ~(n <= m)
    BY <1>2, <1>5
  <2>2. m \notin T
    BY <1>1, <2>1
  <2>3. \A b \in 0 .. 2^m - 1 : \E S \in SUBSET (0 .. m - 1) : Value(S) = b
    BY <2>1, <2>2
  <2> HIDE DEF T, m
  <2>4. 2^n = 2 * 2^m /\ 2^m \in Nat
    BY <2>1, PowerAssumption, PowerPositive
  <2>5. CASE a < 2^m
    <3>1. PICK S \in SUBSET (0 .. m - 1) : Value(S) = a
      BY <2>3, <2>4, <2>5
    <3>2. S \in SUBSET (0 .. n - 1)
      BY <2>1
    <3> QED
      BY <1>3, <3>1, <3>2
  <2>6. CASE ~(a < 2^m)
    <3>1. a - 2^m \in 0 .. 2^m - 1
      BY <2>4, <2>6
    <3>2. PICK R \in SUBSET (0 .. m - 1) : Value(R) = a - 2^m
      BY <2>3, <3>1
    <3> DEFINE S == R \cup {m}
    <3>3. S \in SUBSET (0 .. n - 1) /\ S \in SUBSET Bits /\ m \in S /\ S \ {m} = R
      <4>1. m \notin R /\ R \in SUBSET (0 .. n - 1) /\ m \in 0 .. n - 1 /\ 0 .. n - 1 \in SUBSET Bits
        BY <1>2, <2>1 DEF Bits
      <4> QED
        BY <4>1
    <3> HIDE DEF S
    <3>4. Value(S) = 2^m + Value(S \ {m})
      BY <3>3, ValueOf
    <3>5. Value(S) = a
      BY <2>4, <3>2, <3>3, <3>4
    <3> QED
      BY <1>3, <3>3, <3>5
  <2> QED
    BY <2>5, <2>6
<1> QED
  BY <1>4, <1>5

\* so a number is the value of its bits, and has none above its width.
LEMMA ValueOnes ==
  ASSUME NEW n \in 0 .. W, NEW a \in 0 .. 2^n - 1
  PROVE  Value(Ones(a)) = a /\ Ones(a) \in SUBSET (0 .. n - 1)
<1>1. PICK S \in SUBSET (0 .. n - 1) : Value(S) = a
  BY ValueOnto
<1>2. S \in SUBSET Bits
  BY WidthAssumption DEF Bits
<1>3. Ones(a) = S
  BY <1>1, <1>2, OnesValue
<1> QED
  BY <1>1, <1>3

LEMMA ValueAll == \A n \in 0 .. W : Value(0 .. n - 1) = 2^n - 1
<1> SUFFICES ASSUME NEW n \in 0 .. W PROVE Value(0 .. n - 1) = 2^n - 1
  OBVIOUS
<1> DEFINE A == 0 .. n - 1
           a == 2^n - 1
<1>1. 2^n \in Nat /\ 2^n > 0
  BY PowerPositive
<1>2. A \in SUBSET Bits /\ A \in SUBSET (0 .. n - 1)
  BY WidthAssumption DEF Bits
<1>3. a \in 0 .. 2^n - 1 /\ a \in Int
  BY <1>1
<1>4. Value(Ones(a)) = a /\ Ones(a) \in SUBSET A
  BY <1>3, ValueOnes
<1> DEFINE B == A \ Ones(a)
<1> HIDE DEF A, a
<1>5. B \in SUBSET Bits /\ Ones(a) \in SUBSET Bits /\ Ones(a) \cap B = {} /\ Ones(a) \cup B = A
  BY <1>2, <1>4
<1> HIDE DEF B
<1>6. Value(A) = a + Value(B)
  BY <1>4, <1>5, ValueUnion
<1>7. Value(A) <= a /\ Value(A) \in Int
  <2>1. Value(A) \in 0 .. 2^n - 1
    BY <1>2, ValueBelow
  <2> QED
    BY <1>1, <2>1 DEF a
<1>8. Value(B) \in Word
  BY <1>5, ValueWord
<1>9. Value(B) >= 0 /\ Value(B) \in Int
  BY <1>8, WordFacts
<1>10. Value(B) = 0
  BY <1>3, <1>6, <1>7, <1>9
<1> QED
  BY <1>3, <1>6, <1>10 DEF A, a
=============================================================================
