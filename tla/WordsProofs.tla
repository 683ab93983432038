----------------------------- MODULE WordsProofs -----------------------------
(***************************************************************************)
(* The bit tricks of the table, for words of any width: what & and | do to *)
(* the set of the bits of a word, what smearing leaves, and that masking   *)
(* and rounding are what module HashTable takes them for.                  *)
(***************************************************************************)
EXTENDS MCWords, Minima

-----------------------------------------------------------------------------
(***************************************************************************)
(* Powers of two.                                                          *)
(***************************************************************************)

\* TwoTo has the values its recursion says.
LEMMA Powers ==
  /\ TwoTo \in [0 .. W -> Nat \ {0}]
  /\ TwoTo[0] = 1
  /\ \A i \in 1 .. W : TwoTo[i] = 2 * TwoTo[i - 1]
<1> DEFINE V    == Nat \ {0}
           step == [p \in V \X Nat |-> 2 * p[1]]
<1>1. W \in Nat /\ 1 \in V /\ step \in [V \X Nat -> V]
  BY WordsAssumption
<1>2. PICK f \in [0 .. W -> V] : Follows(f, W, 1, step)
  <2> HIDE DEF V, step
  <2> QED
    BY <1>1, Recursion
<1>3. ASSUME NEW i \in 0 .. W PROVE f[i] = IF i = 0 THEN 1 ELSE 2 * f[i - 1]
  <2>1. f[i] = IF i = 0 THEN 1 ELSE step[<<f[i - 1], i>>]
    BY <1>2 DEF Follows
  <2>2. i # 0 => <<f[i - 1], i>> \in V \X Nat
    BY <1>1
  <2> QED
    BY <2>1, <2>2
<1>4. f = [i \in 0 .. W |-> IF i = 0 THEN 1 ELSE 2 * f[i - 1]]
  BY <1>3
<1>5. TwoTo = [i \in 0 .. W |-> IF i = 0 THEN 1 ELSE 2 * TwoTo[i - 1]]
  BY <1>4, Zenon DEF TwoTo
<1>6. ASSUME NEW i \in 0 .. W PROVE TwoTo[i] = IF i = 0 THEN 1 ELSE 2 * TwoTo[i - 1]
  BY <1>5, Zenon
<1>7. \A i \in 0 .. W : TwoTo[i] \in V
  <2> DEFINE S == {i \in 0 .. W : TwoTo[i] \in V}
  <2>1. 0 \in S
    BY <1>1, <1>6
  <2>2. ASSUME NEW i \in 0 .. W - 1, i \in S PROVE i + 1 \in S
    <3>1. i + 1 \in 0 .. W /\ i + 1 # 0 /\ (i + 1) - 1 = i
      BY <1>1
    <3>2. TwoTo[i + 1] = 2 * TwoTo[i]
      BY <1>6, <3>1
    <3> QED
      BY <2>2, <3>1, <3>2
  <2> HIDE DEF S
  <2>3. \A i \in 0 .. W : i \in S
    BY <1>1, <2>1, <2>2, Induction
  <2> QED
    BY <2>3 DEF S
<1>8. TwoTo[0] = 1 /\ \A i \in 1 .. W : TwoTo[i] = 2 * TwoTo[i - 1]
  BY <1>1, <1>6
<1>9. TwoTo \in [0 .. W -> V]
  BY <1>5, <1>7
<1> QED
  BY <1>8, <1>9

\* The sum of two exponents is the exponent of the product.
LEMMA PowersSplit ==
  ASSUME NEW i \in 0 .. W, NEW j \in 0 .. W - i
  PROVE  TwoTo[i + j] = TwoTo[i] * TwoTo[j]
<1> DEFINE S == {k \in 0 .. W - i : TwoTo[i + k] = TwoTo[i] * TwoTo[k]}
<1>1. W \in Nat /\ W - i \in Nat /\ \A k \in 0 .. W : TwoTo[k] \in Nat
  BY WordsAssumption, Powers
<1>2. 0 \in S
  BY <1>1, Powers
<1>3. ASSUME NEW k \in 0 .. W - i - 1, k \in S PROVE k + 1 \in S
  <2>1. k + 1 \in 1 .. W /\ (k + 1) - 1 = k
    BY <1>1
  <2>2. i + (k + 1) \in 1 .. W /\ i + (k + 1) - 1 = i + k
    BY <1>1
  <2>3. TwoTo[k + 1] = 2 * TwoTo[k] /\ TwoTo[i + (k + 1)] = 2 * TwoTo[i + k]
    BY <2>1, <2>2, Powers
  <2>4. TwoTo[i] \in Nat /\ TwoTo[k] \in Nat /\ TwoTo[i + k] = TwoTo[i] * TwoTo[k]
    BY <1>1, <1>3
  <2>5. 2 * (TwoTo[i] * TwoTo[k]) = TwoTo[i] * (2 * TwoTo[k])
    BY <2>4
  <2> QED
    BY <1>1, <2>3, <2>4, <2>5
<1> HIDE DEF S
<1>4. j \in S
  BY <1>1, <1>2, <1>3, Induction
<1> QED
  BY <1>4 DEF S

\* A power is an even multiple of each smaller one.
LEMMA PowersDivide ==
  ASSUME NEW j \in 0 .. W, NEW i \in 0 .. j - 1
  PROVE  \E m \in Nat \ {0} : TwoTo[j] = TwoTo[i] * (2 * m)
<1>1. W \in Nat /\ i \in 0 .. W /\ j - i \in 1 .. W - i /\ i + (j - i) = j
  BY WordsAssumption
<1>2. TwoTo[j] = TwoTo[i] * TwoTo[j - i]
  <2>1. TwoTo[i + (j - i)] = TwoTo[i] * TwoTo[j - i]
    BY <1>1, PowersSplit
  <2> QED
    BY <1>1, <2>1
<1>3. j - i \in 1 .. W /\ j - i - 1 \in 0 .. W
  BY <1>1
<1>4. TwoTo[j - i] = 2 * TwoTo[j - i - 1] /\ TwoTo[j - i - 1] \in Nat \ {0}
  BY <1>3, Powers
<1> QED
  BY <1>2, <1>4

\* The powers grow.
LEMMA PowersGrow ==
  ASSUME NEW j \in 0 .. W, NEW i \in 0 .. j - 1
  PROVE  /\ 2 * TwoTo[i] <= TwoTo[j]
         /\ TwoTo[i] \in Nat \ {0} /\ TwoTo[j] \in Nat \ {0}
<1>1. TwoTo[i] \in Nat \ {0} /\ TwoTo[j] \in Nat \ {0}
  BY Powers, WordsAssumption
<1>2. PICK m \in Nat \ {0} : TwoTo[j] = TwoTo[i] * (2 * m)
  BY PowersDivide
<1>3. TwoTo[i] * (2 * m) >= TwoTo[i] * 2
  BY <1>1, Z3T(30)
<1> QED
  BY <1>1, <1>2, <1>3

\* The powers are ordered as their exponents.
LEMMA PowersOrdered ==
  ASSUME NEW j \in 0 .. W, NEW i \in 0 .. j
  PROVE  TwoTo[i] <= TwoTo[j]
<1>1. TwoTo[i] \in Nat /\ TwoTo[j] \in Nat
  BY Powers, WordsAssumption
<1>2. CASE i = j
  BY <1>1, <1>2
<1>3. CASE i # j
  <2>1. i \in 0 .. j - 1
    BY <1>3
  <2>2. 2 * TwoTo[i] <= TwoTo[j]
    BY <2>1, PowersGrow
  <2> QED
    BY <1>1, <2>2
<1> QED
  BY <1>2, <1>3

-----------------------------------------------------------------------------
(***************************************************************************)
(* Division.                                                               *)
(***************************************************************************)

\* Quotient and remainder.
LEMMA QuotientIs ==
  ASSUME NEW d \in Nat \ {0}, NEW q \in Nat, NEW r \in 0 .. d - 1
  PROVE  (d * q + r) \div d = q /\ (d * q + r) % d = r
OBVIOUS

\* Below d there is nothing to divide.
LEMMA SmallerIsRest ==
  ASSUME NEW d \in Nat \ {0}, NEW n \in 0 .. d - 1
  PROVE  n \div d = 0 /\ n % d = n
<1>1. n = d * 0 + n
  OBVIOUS
<1> QED
  BY <1>1, QuotientIs

\* Every number has them.
LEMMA QuotientExists ==
  ASSUME NEW n \in Nat, NEW d \in Nat \ {0}
  PROVE  /\ n \div d \in Nat
         /\ n % d \in 0 .. d - 1
         /\ n = d * (n \div d) + (n % d)
BY Z3T(30)

\* What is added in even multiples of d does not change the bit at d.
LEMMA HigherBitsDrop ==
  ASSUME NEW d \in Nat \ {0}, NEW m \in Nat, NEW n \in Nat
  PROVE  ((d * (2 * m) + n) \div d) % 2 = (n \div d) % 2
<1> DEFINE q == n \div d
           r == n % d
<1>1. q \in Nat /\ r \in 0 .. d - 1 /\ n = d * q + r
  BY QuotientExists
<1> HIDE DEF q, r
<1>2. d * (2 * m) + n = d * (2 * m + q) + r
  BY <1>1, Z3T(30)
<1>3. 2 * m + q \in Nat
  BY <1>1
<1>4. (d * (2 * m + q) + r) \div d = 2 * m + q
  BY <1>1, <1>3, QuotientIs
<1>5. (2 * m + q) % 2 = q % 2
  BY <1>1
<1> QED
  BY <1>2, <1>4, <1>5 DEF q

\* Dividing twice is dividing by the product.
LEMMA QuotientOfQuotient ==
  ASSUME NEW n \in Nat, NEW a \in Nat \ {0}, NEW b \in Nat \ {0}
  PROVE  (n \div a) \div b = n \div (a * b)
<1> DEFINE q == n \div a
           r == n % a
           p == q \div b
           u == q % b
<1>1. q \in Nat /\ r \in 0 .. a - 1 /\ n = a * q + r
  BY QuotientExists
<1>2. p \in Nat /\ u \in 0 .. b - 1 /\ q = b * p + u
  <2> HIDE DEF q
  <2> QED
    BY <1>1, QuotientExists
<1> HIDE DEF q, r, p, u
<1>3. n = (a * b) * p + (a * u + r)
  BY <1>1, <1>2, Z3T(30)
<1>4. a * b \in Nat \ {0}
  BY Z3T(30)
<1>5. a * u + r \in 0 .. a * b - 1
  <2>1. a * u <= a * (b - 1) /\ a * (b - 1) = a * b - a /\ a * u \in Nat
    BY <1>2, Z3T(30)
  <2> QED
    BY <1>1, <1>4, <2>1
<1>6. n \div (a * b) = p
  <2> DEFINE c == a * b
             v == a * u + r
  <2>1. c \in Nat \ {0} /\ v \in 0 .. c - 1 /\ n = c * p + v
    BY <1>3, <1>4, <1>5
  <2> HIDE DEF c, v
  <2>2. n \div c = p
    BY <1>2, <2>1, QuotientIs
  <2> QED
    BY <2>2 DEF c
<1> QED
  BY <1>6 DEF p, q

\* The remainder by twice d is the remainder by d and the bit at d.
LEMMA RemainderDoubles ==
  ASSUME NEW d \in Nat \ {0}, NEW n \in Nat
  PROVE  n % (2 * d) = (n % d) + (IF (n \div d) % 2 = 1 THEN d ELSE 0)
<1> DEFINE q == n \div d
           r == n % d
           h == q \div 2
           b == q % 2
<1>1. q \in Nat /\ r \in 0 .. d - 1 /\ n = d * q + r
  BY QuotientExists
<1>2. h \in Nat /\ b \in {0, 1} /\ q = 2 * h + b
  <2> HIDE DEF q
  <2> QED
    BY <1>1
<1> HIDE DEF q, r, h, b
<1> DEFINE low == r + (IF b = 1 THEN d ELSE 0)
<1>3. low \in 0 .. 2 * d - 1
  BY <1>1, <1>2
<1>4. n = (2 * d) * h + low
  <2>1. CASE b = 0
    BY <1>1, <1>2, <2>1, Z3T(30)
  <2>2. CASE b = 1
    BY <1>1, <1>2, <2>2, Z3T(30)
  <2> QED
    BY <1>2, <2>1, <2>2
<1> HIDE DEF low
<1>5. 2 * d \in Nat \ {0}
  OBVIOUS
<1>6. n % (2 * d) = low
  BY <1>2, <1>3, <1>4, <1>5, QuotientIs
<1> QED
  BY <1>6 DEF low, b, q, r

-----------------------------------------------------------------------------
(***************************************************************************)
(* A word and the set of its bits.                                         *)
(***************************************************************************)

\* WordOf has the partial sums its recursion says.
LEMMA SumsOf ==
  ASSUME NEW S
  PROVE  \E sum \in [0 .. W -> Nat] :
           /\ WordOf(S) = sum[W]
           /\ sum[0] = 0
           /\ \A i \in 0 .. W - 1 :
                sum[i + 1] = sum[i] + (IF i \in S THEN TwoTo[i] ELSE 0)
<1> DEFINE part(i) == IF i \in S THEN TwoTo[i] ELSE 0
           step    == [p \in Nat \X Nat |->
                         p[1] + (IF p[2] - 1 \in 0 .. W THEN part(p[2] - 1) ELSE 0)]
<1>1. W \in Nat \ {0} /\ \A i \in 0 .. W : TwoTo[i] \in Nat
  BY WordsAssumption, Powers
<1>2. step \in [Nat \X Nat -> Nat]
  <2>1. ASSUME NEW p \in Nat \X Nat
        PROVE  p[1] + (IF p[2] - 1 \in 0 .. W THEN part(p[2] - 1) ELSE 0) \in Nat
    BY <1>1
  <2> QED
    BY <2>1
<1>3. PICK f \in [0 .. W -> Nat] : Follows(f, W, 0, step)
  <2> HIDE DEF step
  <2> QED
    BY <1>1, <1>2, Recursion
<1>4. ASSUME NEW i \in 0 .. W PROVE f[i] = IF i = 0 THEN 0 ELSE f[i - 1] + part(i - 1)
  <2>1. f[i] = IF i = 0 THEN 0 ELSE step[<<f[i - 1], i>>]
    BY <1>3 DEF Follows
  <2>2. CASE i = 0
    BY <2>1, <2>2
  <2>3. CASE i # 0
    <3>1. <<f[i - 1], i>> \in Nat \X Nat /\ i - 1 \in 0 .. W
      BY <1>1, <2>3
    <3>2. step[<<f[i - 1], i>>] = f[i - 1] + part(i - 1)
      BY <3>1
    <3> QED
      BY <2>1, <2>3, <3>2
  <2> QED
    BY <2>2, <2>3
<1> DEFINE IsSum(sum) == sum = [i \in 0 .. W |-> IF i = 0 THEN 0
                                   ELSE sum[i - 1] + part(i - 1)]
<1>5. IsSum(f)
  BY <1>4
<1> DEFINE sum == CHOOSE g : IsSum(g)
<1>6. IsSum(sum)
  <2> HIDE DEF IsSum
  <2> QED
    BY <1>5, Zenon
<1>7. WordOf(S) = sum[W]
  BY Zenon DEF WordOf
<1> HIDE DEF sum
<1>8. ASSUME NEW i \in 0 .. W PROVE sum[i] = IF i = 0 THEN 0 ELSE sum[i - 1] + part(i - 1)
  BY <1>6, Zenon
<1>9. ASSUME NEW i \in 0 .. W - 1
      PROVE  sum[i + 1] = sum[i] + part(i) /\ part(i) \in Nat /\ i + 1 \in 0 .. W
  <2>1. i + 1 \in 0 .. W /\ i + 1 # 0 /\ (i + 1) - 1 = i /\ i \in 0 .. W
    BY <1>1
  <2>2. sum[i + 1] = sum[i] + part(i)
    <3> HIDE DEF part
    <3> QED
      BY <1>8, <2>1
  <2> QED
    BY <1>1, <2>1, <2>2
<1>10. \A i \in 0 .. W : sum[i] \in Nat
  <2> DEFINE T == {i \in 0 .. W : sum[i] \in Nat}
  <2>1. 0 \in T
    BY <1>1, <1>8
  <2>2. ASSUME NEW i \in 0 .. W - 1, i \in T PROVE i + 1 \in T
    <3> HIDE DEF part
    <3> QED
      BY <1>9, <2>2
  <2> HIDE DEF T
  <2>3. \A i \in 0 .. W : i \in T
    BY <1>1, <2>1, <2>2, Induction
  <2> QED
    BY <2>3 DEF T
<1>11. sum \in [0 .. W -> Nat]
  BY <1>6, <1>10
<1>12. sum[0] = 0
  BY <1>1, <1>8
<1> QED
  BY <1>7, <1>9, <1>11, <1>12

\* The word of a set of bits has these bits and no others.
LEMMA BitsOfWord ==
  ASSUME NEW S
  PROVE  WordOf(S) \in Word /\ Bits(WordOf(S)) = S \cap (0 .. W - 1)
<1>1. W \in Nat \ {0} /\ \A i \in 0 .. W : TwoTo[i] \in Nat \ {0}
  BY WordsAssumption, Powers
<1>2. PICK sum \in [0 .. W -> Nat] :
             /\ WordOf(S) = sum[W]
             /\ sum[0] = 0
             /\ \A i \in 0 .. W - 1 : sum[i + 1] = sum[i] + (IF i \in S THEN TwoTo[i] ELSE 0)
  BY SumsOf
<1> DEFINE Has(n, j) == (n \div TwoTo[j]) % 2 = 1
           T == {i \in 0 .. W : /\ sum[i] < TwoTo[i]
                               /\ \A j \in 0 .. i - 1 : Has(sum[i], j) <=> j \in S}
<1>3. 0 \in T
  BY <1>1, <1>2
<1>4. ASSUME NEW i \in 0 .. W - 1, i \in T PROVE i + 1 \in T
  <2> DEFINE d == TwoTo[i]
  <2>1. d \in Nat \ {0} /\ sum[i] \in 0 .. d - 1 /\ i + 1 \in 0 .. W
    BY <1>1, <1>4
  <2>2. TwoTo[i + 1] = 2 * d
    <3>1. i + 1 \in 1 .. W /\ (i + 1) - 1 = i
      BY <1>1
    <3> QED
      BY <3>1, Powers
  <2>3. \A j \in 0 .. i - 1 : Has(sum[i], j) <=> j \in S
    BY <1>4
  <2>4. sum[i + 1] = sum[i] + (IF i \in S THEN d ELSE 0)
    BY <1>2
  <2>5. sum[i + 1] < TwoTo[i + 1]
    <3> HIDE DEF d
    <3> QED
      BY <2>1, <2>2, <2>4
  <2>6. Has(sum[i + 1], i) <=> i \in S
    <3> HIDE DEF d
    <3>1. CASE i \in S
      <4>1. sum[i + 1] = d * 1 + sum[i]
        BY <2>1, <2>4, <3>1
      <4>2. sum[i + 1] \div d = 1
        BY <2>1, <4>1, QuotientIs
      <4> QED
        BY <3>1, <4>2 DEF d
    <3>2. CASE i \notin S
      <4>1. sum[i + 1] = d * 0 + sum[i]
        BY <2>1, <2>4, <3>2
      <4>2. sum[i + 1] \div d = 0
        BY <2>1, <4>1, QuotientIs
      <4> QED
        BY <3>2, <4>2 DEF d
    <3> QED
      BY <3>1, <3>2
  <2>7. ASSUME NEW j \in 0 .. i - 1 PROVE Has(sum[i + 1], j) <=> j \in S
    <3>1. j \in 0 .. W /\ TwoTo[j] \in Nat \ {0} /\ i \in 0 .. W
      BY <1>1
    <3>2. PICK m \in Nat : d = TwoTo[j] * (2 * m)
      BY <3>1, PowersDivide
    <3> HIDE DEF d
    <3>3. CASE i \in S
      <4>1. sum[i + 1] = TwoTo[j] * (2 * m) + sum[i]
        BY <2>1, <2>4, <3>2, <3>3
      <4>2. (sum[i + 1] \div TwoTo[j]) % 2 = (sum[i] \div TwoTo[j]) % 2
        <5>1. sum[i] \in Nat
          BY <2>1
        <5>2. ((TwoTo[j] * (2 * m) + sum[i]) \div TwoTo[j]) % 2 = (sum[i] \div TwoTo[j]) % 2
          BY <3>1, <5>1, HigherBitsDrop
        <5> QED
          BY <4>1, <5>2
      <4> QED
        BY <2>3, <4>2
    <3>4. CASE i \notin S
      BY <2>1, <2>3, <2>4, <3>4
    <3> QED
      BY <3>3, <3>4
  <2> HIDE DEF Has
  <2>8. \A j \in 0 .. (i + 1) - 1 : Has(sum[i + 1], j) <=> j \in S
    BY <2>6, <2>7
  <2> QED
    BY <2>1, <2>5, <2>8
<1> HIDE DEF T
<1>5. \A i \in 0 .. W : i \in T
  BY <1>1, <1>3, <1>4, Induction
<1>6. sum[W] \in Word
  BY <1>1, <1>2, <1>5 DEF T, Word, Modulus
<1>7. \A j \in 0 .. W - 1 : Has(sum[W], j) <=> j \in S
  BY <1>1, <1>5 DEF T
<1> QED
  BY <1>2, <1>6, <1>7 DEF Bits

\* A word is the word of its bits.
LEMMA WordOfBits ==
  ASSUME NEW n \in Word
  PROVE  WordOf(Bits(n)) = n
<1>1. W \in Nat \ {0} /\ \A i \in 0 .. W : TwoTo[i] \in Nat \ {0}
  BY WordsAssumption, Powers
<1>2. n \in Nat /\ n < TwoTo[W]
  BY <1>1 DEF Word, Modulus
<1>3. PICK sum \in [0 .. W -> Nat] :
             /\ WordOf(Bits(n)) = sum[W]
             /\ sum[0] = 0
             /\ \A i \in 0 .. W - 1 :
                  sum[i + 1] = sum[i] + (IF i \in Bits(n) THEN TwoTo[i] ELSE 0)
  BY SumsOf
<1> DEFINE T == {i \in 0 .. W : sum[i] = n % TwoTo[i]}
<1>4. 0 \in T
  BY <1>1, <1>2, <1>3, Powers
<1>5. ASSUME NEW i \in 0 .. W - 1, i \in T PROVE i + 1 \in T
  <2>1. i + 1 \in 1 .. W /\ (i + 1) - 1 = i /\ TwoTo[i] \in Nat \ {0}
    BY <1>1
  <2>2. TwoTo[i + 1] = 2 * TwoTo[i]
    BY <2>1, Powers
  <2>3. n % (2 * TwoTo[i]) = (n % TwoTo[i]) + (IF (n \div TwoTo[i]) % 2 = 1 THEN TwoTo[i] ELSE 0)
    BY <1>2, <2>1, RemainderDoubles
  <2>4. i \in Bits(n) <=> (n \div TwoTo[i]) % 2 = 1
    BY DEF Bits
  <2>5. sum[i + 1] = n % TwoTo[i + 1]
    BY <1>3, <1>5, <2>2, <2>3, <2>4
  <2> QED
    BY <2>1, <2>5
<1> HIDE DEF T
<1>6. \A i \in 0 .. W : i \in T
  BY <1>1, <1>4, <1>5, Induction
<1>7. n % TwoTo[W] = n
  <2>1. n \in 0 .. TwoTo[W] - 1 /\ TwoTo[W] \in Nat \ {0}
    BY <1>1, <1>2
  <2> QED
    BY <2>1, SmallerIsRest
<1> QED
  BY <1>1, <1>3, <1>6, <1>7 DEF T

\* The powers below the width are words, and 0 is one.
LEMMA PowersAreWords ==
  /\ Modulus \in Nat \ {0} /\ Word \subseteq Nat /\ 0 \in Word /\ W \in Nat \ {0}
  /\ \A k \in 0 .. W : TwoTo[k] \in Nat \ {0} /\ TwoTo[k] <= Modulus
  /\ \A k \in 0 .. W - 1 : TwoTo[k] \in Word
<1>1. W \in Nat \ {0} /\ \A k \in 0 .. W : TwoTo[k] \in Nat \ {0}
  BY WordsAssumption, Powers
<1>2. ASSUME NEW k \in 0 .. W - 1 PROVE TwoTo[k] < TwoTo[W]
  <2>1. W \in 0 .. W /\ k \in 0 .. W - 1 /\ k \in 0 .. W
    BY <1>1
  <2>2. 2 * TwoTo[k] <= TwoTo[W]
    BY <2>1, PowersGrow
  <2> QED
    BY <1>1, <2>1, <2>2
<1>3. ASSUME NEW k \in 0 .. W PROVE TwoTo[k] <= TwoTo[W]
  BY <1>1, PowersOrdered
<1> QED
  BY <1>1, <1>2, <1>3 DEF Word, Modulus

\* The bits of a power less one are those below it.
LEMMA BitsBelow ==
  ASSUME NEW k \in 0 .. W
  PROVE  Bits(TwoTo[k] - 1) = 0 .. k - 1
<1>1. W \in Nat \ {0} /\ \A i \in 0 .. W : TwoTo[i] \in Nat \ {0}
  BY PowersAreWords
<1>2. ASSUME NEW i \in 0 .. W - 1
      PROVE  ((TwoTo[k] - 1) \div TwoTo[i]) % 2 = 1 <=> i \in 0 .. k - 1
  <2> DEFINE d == TwoTo[i]
             c == TwoTo[k]
  <2>1. d \in Nat \ {0} /\ c \in Nat \ {0} /\ i \in 0 .. W
    BY <1>1
  <2>2. CASE i \in 0 .. k - 1
    <3>1. PICK m \in Nat \ {0} : c = d * (2 * m)
      BY <2>2, PowersDivide
    <3> DEFINE q == 2 * (m - 1) + 1
    <3> HIDE DEF d, c
    <3>2. c - 1 = d * q + (d - 1)
      BY <2>1, <3>1, Z3T(30)
    <3>3. q \in Nat /\ q % 2 = 1 /\ d - 1 \in 0 .. d - 1
      BY <2>1
    <3> HIDE DEF q
    <3>4. (c - 1) \div d = q
      BY <2>1, <3>2, <3>3, QuotientIs
    <3> QED
      BY <2>2, <3>3, <3>4 DEF d, c
  <2>3. CASE i \notin 0 .. k - 1
    <3>1. c <= d
      <4>1. k \in 0 .. i
        BY <1>1, <2>3
      <4> QED
        BY <2>1, <4>1, PowersOrdered
    <3> HIDE DEF d, c
    <3>2. c - 1 \in 0 .. d - 1
      BY <2>1, <3>1
    <3>3. (c - 1) \div d = 0
      BY <2>1, <3>2, SmallerIsRest
    <3> QED
      BY <2>3, <3>3 DEF d, c
  <2> QED
    BY <2>2, <2>3
<1>3. 0 .. k - 1 \subseteq 0 .. W - 1
  BY <1>1
<1> QED
  BY <1>2, <1>3 DEF Bits

\* The remainder by a power has the bits below it.
LEMMA BitsOfRest ==
  ASSUME NEW n \in Nat, NEW k \in 0 .. W
  PROVE  Bits(n % TwoTo[k]) = Bits(n) \cap (0 .. k - 1)
<1>1. W \in Nat \ {0} /\ \A i \in 0 .. W : TwoTo[i] \in Nat \ {0}
  BY PowersAreWords
<1> DEFINE c == TwoTo[k]
           q == n \div c
           r == n % c
<1>2. c \in Nat \ {0} /\ q \in Nat /\ r \in 0 .. c - 1 /\ n = c * q + r
  BY <1>1, QuotientExists
<1> HIDE DEF q, r
<1>3. ASSUME NEW i \in 0 .. W - 1
      PROVE  (r \div TwoTo[i]) % 2 = 1 <=> (n \div TwoTo[i]) % 2 = 1 /\ i \in 0 .. k - 1
  <2> DEFINE d == TwoTo[i]
  <2>1. d \in Nat \ {0} /\ i \in 0 .. W
    BY <1>1
  <2>2. CASE i \in 0 .. k - 1
    <3>1. PICK m \in Nat \ {0} : c = d * (2 * m)
      BY <2>2, PowersDivide
    <3> HIDE DEF d, c
    <3>2. n = d * (2 * (m * q)) + r /\ m * q \in Nat /\ r \in Nat
      BY <1>2, <2>1, <3>1, Z3T(30)
    <3>3. ((d * (2 * (m * q)) + r) \div d) % 2 = (r \div d) % 2
      BY <2>1, <3>2, HigherBitsDrop
    <3>4. (n \div d) % 2 = (r \div d) % 2
      BY <3>2, <3>3
    <3> QED
      BY <2>2, <3>4 DEF d
  <2>3. CASE i \notin 0 .. k - 1
    <3>1. c <= d
      <4>1. k \in 0 .. i
        BY <1>1, <2>3
      <4> QED
        BY <2>1, <4>1, PowersOrdered
    <3> HIDE DEF d, c
    <3>2. r \in 0 .. d - 1
      BY <1>2, <2>1, <3>1
    <3>3. r \div d = 0
      BY <2>1, <3>2, SmallerIsRest
    <3> QED
      BY <2>3, <3>3 DEF d
  <2> QED
    BY <2>2, <2>3
<1>4. Bits(r) = Bits(n) \cap (0 .. k - 1)
  BY <1>3 DEF Bits
<1> QED
  BY <1>4 DEF r

-----------------------------------------------------------------------------
(***************************************************************************)
(* The mask and the test.                                                  *)
(***************************************************************************)

\* Taking one off a word that is not 0 does not wrap, and off 0 it does.
LEMMA DecrementIs ==
  ASSUME NEW n \in Word
  PROVE  (n + Modulus - 1) % Modulus = IF n = 0 THEN Modulus - 1 ELSE n - 1
<1>1. Modulus \in Nat \ {0} /\ n \in 0 .. Modulus - 1
  BY PowersAreWords DEF Word
<1>2. CASE n = 0
  <2>1. n + Modulus - 1 = Modulus - 1 /\ Modulus - 1 \in 0 .. Modulus - 1
    BY <1>1, <1>2
  <2>2. (Modulus - 1) % Modulus = Modulus - 1
    BY <1>1, <2>1, SmallerIsRest
  <2> QED
    BY <1>2, <2>1, <2>2
<1>3. CASE n # 0
  <2>1. n + Modulus - 1 = Modulus * 1 + (n - 1) /\ n - 1 \in 0 .. Modulus - 1
    BY <1>1, <1>3
  <2>2. (Modulus * 1 + (n - 1)) % Modulus = n - 1
    BY <1>1, <2>1, QuotientIs
  <2> QED
    BY <1>3, <2>1, <2>2
<1> QED
  BY <1>2, <1>3

\* Masking by a power of two is the remainder.
LEMMA MaskIsRest ==
  ASSUME NEW h \in Word, NEW k \in 0 .. W - 1
  PROVE  Masked(h, TwoTo[k]) = h % TwoTo[k]
<1> DEFINE c == TwoTo[k]
<1>1. c \in Nat \ {0} /\ c \in Word /\ h \in Nat /\ k \in 0 .. W
  BY PowersAreWords
<1>2. (c + Modulus - 1) % Modulus = c - 1
  BY <1>1, DecrementIs
<1>3. Bits(c - 1) = 0 .. k - 1
  BY <1>1, BitsBelow
<1>4. Bits(h % c) = Bits(h) \cap (0 .. k - 1)
  BY <1>1, BitsOfRest
<1>5. h % c \in Word
  <2> HIDE DEF c
  <2>1. h % c \in 0 .. c - 1
    BY <1>1, QuotientExists
  <2> QED
    BY <1>1, <2>1, PowersAreWords DEF Word
<1>6. WordOf(Bits(h % c)) = h % c
  BY <1>5, WordOfBits
<1> HIDE DEF c
<1> QED
  BY <1>2, <1>3, <1>4, <1>6 DEF Masked, BitAndOf, c

\* A word that is not 0 has a highest bit.
LEMMA HighestBit ==
  ASSUME NEW n \in Word, n # 0
  PROVE  \E k \in 0 .. W - 1 : TwoTo[k] <= n /\ n < TwoTo[k + 1]
<1> DEFINE above == {i \in 0 .. W : n < TwoTo[i]}
           top   == Min(above)
<1>1. W \in Nat /\ n \in Nat /\ \A i \in 0 .. W : TwoTo[i] \in Nat
  BY PowersAreWords
<1>2. W \in above /\ above \subseteq Nat
  BY <1>1, PowersAreWords DEF Word, Modulus
<1>3. top \in above /\ \A i \in above : top <= i
  BY <1>2, MinIsLeast
<1> HIDE DEF top
<1>4. top # 0
  BY <1>1, <1>3, Powers
<1>5. top - 1 \in 0 .. W - 1 /\ top - 1 \in 0 .. W /\ (top - 1) + 1 = top
  BY <1>1, <1>3, <1>4
<1>6. TwoTo[top - 1] <= n
  BY <1>1, <1>3, <1>5
<1>7. n < TwoTo[(top - 1) + 1]
  BY <1>3, <1>5
<1> QED
  BY <1>5, <1>6, <1>7

\* The highest bit is one of the bits.
LEMMA HighestIsBit ==
  ASSUME NEW k \in 0 .. W - 1, NEW n \in Nat, TwoTo[k] <= n, n < TwoTo[k + 1]
  PROVE  k \in Bits(n)
<1> DEFINE d == TwoTo[k]
<1>1. d \in Nat \ {0} /\ TwoTo[k + 1] = 2 * d
  <2>1. k + 1 \in 1 .. W /\ (k + 1) - 1 = k /\ k \in 0 .. W
    BY PowersAreWords
  <2> QED
    BY <2>1, Powers
<1> HIDE DEF d
<1>2. n = d * 1 + (n - d) /\ n - d \in 0 .. d - 1
  BY <1>1 DEF d
<1>3. n \div d = 1
  BY <1>1, <1>2, QuotientIs
<1> QED
  BY <1>3 DEF Bits, d

\* 0 has no bits, and is the only word that has none.
LEMMA NoBits ==
  /\ Bits(0) = {}
  /\ \A S : WordOf(S) = 0 <=> S \cap (0 .. W - 1) = {}
<1>1. ASSUME NEW i \in 0 .. W - 1 PROVE 0 \div TwoTo[i] = 0
  <2>1. i \in 0 .. W /\ TwoTo[i] \in Nat \ {0}
    BY PowersAreWords
  <2> QED
    BY <2>1, SmallerIsRest
<1>2. Bits(0) = {}
  BY <1>1 DEF Bits
<1>3. WordOf({}) = 0
  BY <1>2, PowersAreWords, WordOfBits
<1>4. ASSUME NEW S PROVE WordOf(S) = 0 <=> S \cap (0 .. W - 1) = {}
  <2>1. WordOf(S) \in Word /\ Bits(WordOf(S)) = S \cap (0 .. W - 1)
    BY BitsOfWord
  <2>2. WordOf(Bits(WordOf(S))) = WordOf(S)
    BY <2>1, WordOfBits
  <2> QED
    BY <1>2, <1>3, <2>1, <2>2
<1> QED
  BY <1>2, <1>4

\* The test is passed by 0 and by the powers of two, and by no other word.
LEMMA TestIs ==
  ASSUME NEW n \in Word
  PROVE  PassesPowerTest(n) <=> n \in PowersOf2 \cup {0}
<1>1. CASE n = 0
  <2>1. Bits(n) \cap Bits((n + Modulus - 1) % Modulus) = {}
    BY <1>1, NoBits
  <2> QED
    BY <1>1, <2>1, NoBits DEF PassesPowerTest, BitAndOf
<1>2. CASE n \in PowersOf2
  <2>1. PICK k \in 0 .. W - 1 : n = TwoTo[k]
    BY <1>2 DEF PowersOf2
  <2>2. n \in Nat \ {0}
    BY <2>1, PowersAreWords
  <2>3. Masked(n, n) = n % n
    BY <2>1, MaskIsRest
  <2>4. n % n = 0
    <3>1. n = n * 1 + 0 /\ 0 \in 0 .. n - 1
      BY <2>2
    <3>2. (n * 1 + 0) % n = 0
      BY <2>2, <3>1, QuotientIs
    <3> QED
      BY <3>1, <3>2
  <2> QED
    BY <1>2, <2>3, <2>4 DEF PassesPowerTest, Masked
<1>3. CASE n \notin PowersOf2 \cup {0}
  <2>1. PICK k \in 0 .. W - 1 : TwoTo[k] <= n /\ n < TwoTo[k + 1]
    BY <1>3, HighestBit
  <2>2. n \in Nat \ {0} /\ n # TwoTo[k] /\ TwoTo[k] \in Nat /\ TwoTo[k + 1] \in Nat
    <3>1. k \in 0 .. W /\ k + 1 \in 0 .. W
      BY PowersAreWords
    <3> QED
      BY <1>3, <3>1, PowersAreWords DEF PowersOf2
  <2>3. n - 1 \in Nat /\ TwoTo[k] <= n - 1 /\ n - 1 < TwoTo[k + 1]
    BY <2>1, <2>2
  <2>4. k \in Bits(n) /\ k \in Bits(n - 1)
    BY <2>1, <2>2, <2>3, HighestIsBit
  <2>5. (n + Modulus - 1) % Modulus = n - 1
    BY <2>2, DecrementIs
  <2>6. WordOf(Bits(n) \cap Bits(n - 1)) # 0
    BY <2>4, NoBits
  <2> QED
    BY <1>3, <2>5, <2>6 DEF PassesPowerTest, BitAndOf
<1> QED
  BY <1>1, <1>2, <1>3

-----------------------------------------------------------------------------
(***************************************************************************)
(* Smearing and rounding.                                                  *)
(***************************************************************************)

\* A shift moves the bits down.
LEMMA BitsOfShift ==
  ASSUME NEW n \in Word, NEW s \in 0 .. W
  PROVE  Bits(ShiftRight(n, s)) = {i \in 0 .. W - 1 : i + s \in Bits(n)}
<1>1. W \in Nat /\ n \in Nat /\ n < TwoTo[W] /\ \A i \in 0 .. W : TwoTo[i] \in Nat \ {0}
  BY PowersAreWords DEF Word, Modulus
<1>2. ASSUME NEW i \in 0 .. W - 1
      PROVE  ((n \div TwoTo[s]) \div TwoTo[i]) % 2 = 1 <=> i + s \in Bits(n)
  <2> DEFINE d == TwoTo[s]
  <2>1. d \in Nat \ {0} /\ i \in 0 .. W /\ TwoTo[i] \in Nat \ {0}
    BY <1>1
  <2>2. CASE i + s < W
    <3>1. i + s \in 0 .. W - 1 /\ i \in 0 .. W - s /\ s + i = i + s
      BY <1>1, <2>2
    <3>2. TwoTo[s + i] = d * TwoTo[i]
      BY <3>1, PowersSplit
    <3>3. (n \div d) \div TwoTo[i] = n \div TwoTo[i + s]
      <4>1. (n \div d) \div TwoTo[i] = n \div (d * TwoTo[i])
        BY <1>1, <2>1, QuotientOfQuotient
      <4> QED
        BY <3>1, <3>2, <4>1
    <3> QED
      BY <3>1, <3>3 DEF Bits
  <2>3. CASE i + s >= W
    <3>1. W - s \in 0 .. i /\ W - s \in 0 .. W - s /\ s + (W - s) = W
      BY <1>1, <2>3
    <3>2. TwoTo[s + (W - s)] = d * TwoTo[W - s]
      BY <3>1, PowersSplit
    <3>3. TwoTo[W - s] <= TwoTo[i] /\ TwoTo[W - s] \in Nat
      BY <1>1, <2>1, <3>1, PowersOrdered
    <3> DEFINE q == n \div d
               c == TwoTo[W - s]
    <3>4. q \in Nat /\ n % d \in 0 .. d - 1 /\ n = d * q + (n % d)
      BY <1>1, <2>1, QuotientExists
    <3>5. n < d * c
      BY <1>1, <3>1, <3>2
    <3> HIDE DEF d, q, c
    <3>6. q < c
      <4>1. SUFFICES ASSUME q >= c PROVE FALSE
        BY <3>3, <3>4 DEF c
      <4>2. d * q >= d * c
        BY <2>1, <3>3, <3>4, <4>1, Z3T(30) DEF c
      <4>3. d * q \in Nat /\ d * c \in Nat
        BY <2>1, <3>3, <3>4, Z3T(30) DEF c
      <4> QED
        BY <1>1, <3>4, <3>5, <4>2, <4>3
    <3>7. q \in 0 .. TwoTo[i] - 1
      BY <2>1, <3>3, <3>4, <3>6 DEF c
    <3>8. q \div TwoTo[i] = 0
      BY <2>1, <3>7, SmallerIsRest
    <3>9. i + s \notin Bits(n)
      BY <1>1, <2>3 DEF Bits
    <3> QED
      BY <3>8, <3>9 DEF q, d
  <2> QED
    BY <1>1, <2>2, <2>3
<1> QED
  BY <1>2 DEF Bits, ShiftRight

\* Smear applies the shifts one after another.
LEMMA SmearingOf ==
  ASSUME NEW n \in Word
  PROVE  \E smeared \in [0 .. Len(Shifts) -> Word] :
           /\ Smear(n) = smeared[Len(Shifts)]
           /\ smeared[0] = n
           /\ \A j \in 0 .. Len(Shifts) - 1 :
                smeared[j + 1] = BitOrOf(smeared[j], ShiftRight(smeared[j], Shifts[j + 1]))
<1> DEFINE last       == Len(Shifts)
           next(m, i) == BitOrOf(m, ShiftRight(m, Shifts[i]))
           step       == [p \in Word \X Nat |-> next(p[1], p[2])]
<1>1. last \in Nat
  BY WordsAssumption
<1>2. \A m, i : next(m, i) \in Word
  BY BitsOfWord DEF BitOrOf
<1>3. step \in [Word \X Nat -> Word]
  <2> HIDE DEF next
  <2> QED
    BY <1>2
<1>4. PICK f \in [0 .. last -> Word] : Follows(f, last, n, step)
  <2> HIDE DEF step, last
  <2> QED
    BY <1>1, <1>3, Recursion
<1>5. ASSUME NEW i \in 0 .. last PROVE f[i] = IF i = 0 THEN n ELSE next(f[i - 1], i)
  <2>1. f[i] = IF i = 0 THEN n ELSE step[<<f[i - 1], i>>]
    BY <1>4 DEF Follows
  <2>2. CASE i = 0
    BY <2>1, <2>2
  <2>3. CASE i # 0
    <3>1. <<f[i - 1], i>> \in Word \X Nat
      BY <1>1, <2>3
    <3>2. step[<<f[i - 1], i>>] = next(f[i - 1], i)
      <4> HIDE DEF next
      <4> QED
        BY <3>1
    <3> QED
      BY <2>1, <2>3, <3>2
  <2> QED
    BY <2>2, <2>3
<1> DEFINE Smears(g) == g = [i \in 0 .. last |-> IF i = 0 THEN n ELSE next(g[i - 1], i)]
           smeared   == CHOOSE g : Smears(g)
<1>6. Smears(f)
  <2> HIDE DEF next
  <2> QED
    BY <1>5
<1>7. Smears(smeared)
  <2> HIDE DEF Smears
  <2> QED
    BY <1>6, Zenon
<1>8. Smear(n) = smeared[last]
  BY Zenon DEF Smear
<1> HIDE DEF smeared, next
<1>9. ASSUME NEW i \in 0 .. last
      PROVE  smeared[i] = IF i = 0 THEN n ELSE next(smeared[i - 1], i)
  BY <1>7, Zenon
<1>10. smeared[0] = n
  BY <1>1, <1>9
<1>11. ASSUME NEW j \in 0 .. last - 1 PROVE smeared[j + 1] = next(smeared[j], j + 1)
  <2>1. j + 1 \in 0 .. last /\ j + 1 # 0 /\ (j + 1) - 1 = j
    BY <1>1
  <2> QED
    BY <1>9, <2>1
<1>12. smeared \in [0 .. last -> Word]
  <2>1. ASSUME NEW i \in 0 .. last PROVE smeared[i] \in Word
    BY <1>2, <1>9
  <2> QED
    BY <1>7, <2>1
<1> QED
  BY <1>8, <1>10, <1>11, <1>12 DEF next

\* The bits of a word are not above its highest.
LEMMA NoHigherBits ==
  ASSUME NEW k \in 0 .. W - 1, NEW n \in Nat, n < TwoTo[k + 1]
  PROVE  Bits(n) \subseteq 0 .. k
<1>1. W \in Nat /\ \A i \in 0 .. W : TwoTo[i] \in Nat \ {0}
  BY PowersAreWords
<1>2. ASSUME NEW i \in Bits(n), i \notin 0 .. k PROVE FALSE
  <2>1. i \in 0 .. W - 1 /\ (n \div TwoTo[i]) % 2 = 1 /\ i \in 0 .. W
    BY <1>1 DEF Bits
  <2>2. k + 1 \in 0 .. i /\ k + 1 \in 0 .. W
    BY <1>1, <1>2, <2>1
  <2>3. TwoTo[k + 1] <= TwoTo[i]
    BY <2>1, <2>2, PowersOrdered
  <2>4. n \in 0 .. TwoTo[i] - 1
    BY <1>1, <2>1, <2>2, <2>3
  <2>5. n \div TwoTo[i] = 0
    BY <1>1, <2>1, <2>4, SmallerIsRest
  <2> QED
    BY <2>1, <2>5
<1> QED
  BY <1>2

\* Smearing sets every bit below the highest, and no other.
LEMMA SmearIs ==
  ASSUME NEW k \in 0 .. W - 1, NEW n \in Word, TwoTo[k] <= n, n < TwoTo[k + 1]
  PROVE  Smear(n) = TwoTo[k + 1] - 1
<1> DEFINE last == Len(Shifts)
<1>1. W \in Nat \ {0} /\ n \in Nat /\ \A i \in 0 .. W : TwoTo[i] \in Nat \ {0}
  BY PowersAreWords
<1>2. last \in 0 .. W /\ W <= TwoTo[last] /\ \A i \in 1 .. last : Shifts[i] = TwoTo[i - 1]
  BY WordsAssumption
<1>3. PICK smeared \in [0 .. last -> Word] :
             /\ Smear(n) = smeared[last]
             /\ smeared[0] = n
             /\ \A j \in 0 .. last - 1 :
                  smeared[j + 1] = BitOrOf(smeared[j], ShiftRight(smeared[j], Shifts[j + 1]))
  BY SmearingOf
\* After j shifts the highest 2 ^ j bits are set.
<1> DEFINE T == {j \in 0 .. last : /\ Bits(smeared[j]) \subseteq 0 .. k
                                  /\ \A i \in 0 .. k : i + TwoTo[j] > k => i \in Bits(smeared[j])}
<1>4. 0 \in T
  <2>1. Bits(n) \subseteq 0 .. k /\ k \in Bits(n)
    BY <1>1, NoHigherBits, HighestIsBit
  <2>2. TwoTo[0] = 1 /\ 0 \in 0 .. last
    BY <1>2, Powers
  <2> QED
    BY <1>3, <2>1, <2>2
<1>5. ASSUME NEW j \in 0 .. last - 1, j \in T PROVE j + 1 \in T
  <2> DEFINE m == smeared[j]
             s == TwoTo[j]
  <2>1. /\ j + 1 \in 1 .. last /\ j + 1 \in 1 .. W /\ (j + 1) - 1 = j
        /\ j \in 0 .. last /\ j \in 0 .. W
    BY <1>1, <1>2
  <2>2. Shifts[j + 1] = s /\ s \in 0 .. W /\ s \in Nat /\ m \in Word
    <3>1. Shifts[j + 1] = s /\ Shifts[j + 1] \in 1 .. W
      BY <1>2, <2>1, WordsAssumption
    <3> QED
      BY <1>1, <1>3, <2>1, <3>1
  <2>3. TwoTo[j + 1] = 2 * s
    BY <2>1, Powers
  <2>4. Bits(m) \subseteq 0 .. k /\ \A i \in 0 .. k : i + s > k => i \in Bits(m)
    BY <1>5
  <2>5. smeared[j + 1] = WordOf(Bits(m) \cup Bits(ShiftRight(m, s)))
    BY <1>3, <2>2 DEF BitOrOf
  <2> HIDE DEF m, s
  <2>6. Bits(ShiftRight(m, s)) = {i \in 0 .. W - 1 : i + s \in Bits(m)}
    BY <2>2, BitsOfShift
  <2>7. Bits(smeared[j + 1]) =
          (Bits(m) \cup {i \in 0 .. W - 1 : i + s \in Bits(m)}) \cap (0 .. W - 1)
    BY <2>5, <2>6, BitsOfWord
  <2>8. Bits(smeared[j + 1]) \subseteq 0 .. k
    BY <1>1, <2>2, <2>4, <2>7
  <2>9. ASSUME NEW i \in 0 .. k, i + 2 * s > k PROVE i \in Bits(smeared[j + 1])
    <3>1. i \in 0 .. W - 1
      BY <1>1
    <3>2. CASE i + s > k
      BY <2>4, <2>7, <3>1, <3>2
    <3>3. CASE i + s <= k
      <4>1. i + s \in 0 .. k /\ (i + s) + s > k
        BY <2>2, <2>9, <3>3
      <4> QED
        BY <2>4, <2>7, <3>1, <4>1
    <3> QED
      BY <2>2, <3>2, <3>3
  <2> QED
    BY <2>1, <2>3, <2>8, <2>9
<1> HIDE DEF T
<1>6. last \in Nat /\ last \in 0 .. last
  BY <1>1, <1>2
<1> HIDE DEF last
<1>7. \A j \in 0 .. last : j \in T
  BY <1>4, <1>5, <1>6, Induction
<1>8. Bits(smeared[last]) = 0 .. k
  <2>1. ASSUME NEW i \in 0 .. k PROVE i + TwoTo[last] > k
    BY <1>1, <1>2
  <2> QED
    BY <1>6, <1>7, <2>1 DEF T
<1>9. k + 1 \in 0 .. W /\ (k + 1) - 1 = k
  BY <1>1
<1>10. Bits(TwoTo[k + 1] - 1) = 0 .. k
  BY <1>9, BitsBelow
<1>11. TwoTo[k + 1] - 1 \in Word
  BY <1>9, PowersAreWords DEF Word
<1>12. smeared[last] \in Word
  BY <1>3, <1>6
<1> QED
  BY <1>3, <1>8, <1>10, <1>11, <1>12, WordOfBits

\* 0 stays 0.
LEMMA SmearOfZero == Smear(0) = 0
<1> DEFINE last == Len(Shifts)
<1>1. last \in Nat /\ last <= W /\ W \in Nat /\ \A i \in 1 .. last : Shifts[i] \in 1 .. W
  BY WordsAssumption
<1>2. PICK smeared \in [0 .. last -> Word] :
             /\ Smear(0) = smeared[last]
             /\ smeared[0] = 0
             /\ \A j \in 0 .. last - 1 :
                  smeared[j + 1] = BitOrOf(smeared[j], ShiftRight(smeared[j], Shifts[j + 1]))
  BY SmearingOf, PowersAreWords
<1> DEFINE T == {j \in 0 .. last : smeared[j] = 0}
<1>3. 0 \in T
  BY <1>1, <1>2
<1>4. ASSUME NEW j \in 0 .. last - 1, j \in T PROVE j + 1 \in T
  <2>1. j + 1 \in 1 .. last /\ smeared[j] = 0 /\ Shifts[j + 1] \in 0 .. W
    BY <1>1, <1>4
  <2>2. Bits(ShiftRight(0, Shifts[j + 1])) = {}
    BY <2>1, BitsOfShift, NoBits, PowersAreWords
  <2>3. BitOrOf(0, ShiftRight(0, Shifts[j + 1])) = 0
    BY <2>2, NoBits DEF BitOrOf
  <2> QED
    BY <1>2, <2>1, <2>3
<1> HIDE DEF T
<1>5. \A j \in 0 .. last : j \in T
  BY <1>1, <1>3, <1>4, Induction
<1> QED
  BY <1>1, <1>2, <1>5 DEF T

\* Rounding up: 1 for 0 and 1, and the power above the highest bit of n - 1 for the
\* others, which is 0 when it is no word.
LEMMA NextPowerIs ==
  ASSUME NEW n \in Word
  PROVE  /\ n \in {0, 1} => NextPowerOf2(n) = 1
         /\ \A k \in 0 .. W - 1 :
              TwoTo[k] < n /\ n <= TwoTo[k + 1] =>
                NextPowerOf2(n) = IF k + 1 = W THEN 0 ELSE TwoTo[k + 1]
<1>1. n \in Nat /\ Modulus \in Nat \ {0} /\ TwoTo[W] = Modulus /\ W \in Nat \ {0}
  BY PowersAreWords DEF Modulus
<1>2. 1 \in 0 .. Modulus - 1 /\ 1 % Modulus = 1
  <2>1. TwoTo[1] = 2 * TwoTo[0] /\ TwoTo[0] = 1 /\ TwoTo[1] <= Modulus
    BY <1>1, Powers, PowersAreWords
  <2>2. 1 \in 0 .. Modulus - 1
    BY <1>1, <2>1
  <2> QED
    BY <1>1, <2>2, SmallerIsRest
<1>3. n \in {0, 1} => NextPowerOf2(n) = 1
  <2>1. CASE n = 0
    BY <2>1 DEF NextPowerOf2
  <2>2. CASE n = 1
    <3>1. n - 1 = 0 /\ Smear(n - 1) + 1 = 1
      BY <2>2, SmearOfZero
    <3> QED
      BY <1>2, <2>2, <3>1 DEF NextPowerOf2
  <2> QED
    BY <2>1, <2>2
<1>4. ASSUME NEW k \in 0 .. W - 1, TwoTo[k] < n, n <= TwoTo[k + 1]
      PROVE  NextPowerOf2(n) = IF k + 1 = W THEN 0 ELSE TwoTo[k + 1]
  <2>1. k \in 0 .. W /\ k + 1 \in 0 .. W
    BY <1>1
  <2>2. TwoTo[k] \in Nat \ {0} /\ TwoTo[k + 1] \in Nat \ {0} /\ TwoTo[k + 1] <= Modulus
    BY <2>1, PowersAreWords
  <2>3. n - 1 \in Word /\ TwoTo[k] <= n - 1 /\ n - 1 < TwoTo[k + 1] /\ n # 0
    BY <1>1, <1>4, <2>2 DEF Word
  <2>4. Smear(n - 1) = TwoTo[k + 1] - 1
    BY <2>3, SmearIs
  <2>5. NextPowerOf2(n) = TwoTo[k + 1] % Modulus
    BY <2>2, <2>3, <2>4 DEF NextPowerOf2
  <2>6. CASE k + 1 = W
    <3>1. Modulus = Modulus * 1 + 0 /\ 0 \in 0 .. Modulus - 1
      BY <1>1
    <3>2. (Modulus * 1 + 0) % Modulus = 0
      BY <1>1, <3>1, QuotientIs
    <3> QED
      BY <1>1, <2>5, <2>6, <3>1, <3>2
  <2>7. CASE k + 1 # W
    <3>1. k + 1 \in 0 .. W - 1
      BY <1>1, <2>7
    <3>2. TwoTo[k + 1] \in 0 .. Modulus - 1
      BY <3>1, PowersAreWords DEF Word
    <3>3. TwoTo[k + 1] % Modulus = TwoTo[k + 1]
      BY <1>1, <3>2, SmallerIsRest
    <3> QED
      BY <2>5, <2>7, <3>3
  <2> QED
    BY <2>6, <2>7
<1> QED
  BY <1>3, <1>4

-----------------------------------------------------------------------------
(***************************************************************************)
(* What the table relies on, and the invariants of MCWords.                *)
(***************************************************************************)

\* Sizes the callers' test takes for powers of two (src/src/hashtable.c:26, :142, after
\* 0 is excluded) are the powers of two.
LEMMA SizesAre ==
  ASSUME NEW p \in Word, p # 0, PassesPowerTest(p)
  PROVE  \E k \in 0 .. W - 1 : p = TwoTo[k]
BY TestIs DEF PowersOf2

\* The two operators HashTable makes of & are those of this module.
TableDecrement(n)  == IF n = 0 THEN Modulus - 1 ELSE n - 1
TableIsPowerOf2(n) == n # 0 /\ BitAndOf(n, TableDecrement(n)) = 0

\* The assumption WordAssumption of HashTable holds of the code's arithmetic: & stays
\* in the word, next_power_of_2 answers 0 or a power of two, masking with a power of
\* two is the remainder, and a smaller power of two divides a larger one.
THEOREM WordsServeTheTable ==
  /\ \A a, b \in Word : BitAndOf(a, b) \in Word
  /\ \A n \in Word : NextPowerOf2(n) = 0 \/ TableIsPowerOf2(NextPowerOf2(n))
  /\ \A n \in Word : NextPowerOf2(n) \in Word
  /\ \A p, h \in Word : TableIsPowerOf2(p) => BitAndOf(h, TableDecrement(p)) = h % p
  /\ \A p, c \in Word : TableIsPowerOf2(p) /\ TableIsPowerOf2(c) /\ p <= c => c % p = 0
<1>0. ASSUME NEW p \in Word
      PROVE  /\ TableIsPowerOf2(p) <=> p # 0 /\ PassesPowerTest(p)
             /\ \A h : Masked(h, p) = BitAndOf(h, TableDecrement(p))
  BY DecrementIs DEF TableDecrement, TableIsPowerOf2, PassesPowerTest, Masked
<1>1. \A a, b \in Word : BitAndOf(a, b) \in Word
  BY BitsOfWord DEF BitAndOf
<1>2. ASSUME NEW n \in Word PROVE NextPowerOf2(n) \in PowersOf2 \cup {0}
  <2>1. n \in Nat /\ W \in Nat \ {0} /\ 0 \in 0 .. W - 1
    BY PowersAreWords
  <2>2. CASE n \in {0, 1}
    <3>1. NextPowerOf2(n) = TwoTo[0]
      BY <2>2, NextPowerIs, Powers
    <3> QED
      BY <2>1, <3>1 DEF PowersOf2
  <2>3. CASE n \notin {0, 1}
    <3>1. n - 1 \in Word /\ n - 1 # 0
      BY <2>1, <2>3, PowersAreWords DEF Word
    <3>2. PICK k \in 0 .. W - 1 : TwoTo[k] <= n - 1 /\ n - 1 < TwoTo[k + 1]
      BY <3>1, HighestBit
    <3>3. k \in 0 .. W /\ k + 1 \in 0 .. W
      BY <2>1
    <3>4. TwoTo[k] < n /\ n <= TwoTo[k + 1]
      BY <2>1, <3>2, <3>3, PowersAreWords
    <3>5. NextPowerOf2(n) = IF k + 1 = W THEN 0 ELSE TwoTo[k + 1]
      BY <3>4, NextPowerIs
    <3>6. k + 1 = W \/ k + 1 \in 0 .. W - 1
      BY <2>1
    <3> QED
      BY <3>5, <3>6 DEF PowersOf2
  <2> QED
    BY <2>2, <2>3
<1>3. PowersOf2 \cup {0} \subseteq Word
  BY PowersAreWords DEF PowersOf2
<1>4. ASSUME NEW p \in Word, NEW h \in Word, p # 0, PassesPowerTest(p)
      PROVE  Masked(h, p) = h % p
  BY <1>4, SizesAre, MaskIsRest
<1>5. ASSUME NEW p \in Word, NEW c \in Word, p # 0, PassesPowerTest(p),
             c # 0, PassesPowerTest(c), p <= c
      PROVE  c % p = 0
  <2>1. PICK i \in 0 .. W - 1 : p = TwoTo[i]
    BY <1>5, SizesAre
  <2>2. PICK j \in 0 .. W - 1 : c = TwoTo[j]
    BY <1>5, SizesAre
  <2>3. p \in Nat \ {0} /\ c \in Nat \ {0} /\ i \in 0 .. W /\ j \in 0 .. W /\ W \in Nat
    BY <2>1, <2>2, PowersAreWords
  <2>4. \E m \in Nat : c = p * m
    <3>1. CASE i = j
      <4>1. c = p * 1
        BY <2>1, <2>2, <2>3, <3>1
      <4> QED
        BY <4>1
    <3>2. CASE i < j
      <4>1. i \in 0 .. j - 1
        BY <2>3, <3>2
      <4>2. PICK m \in Nat \ {0} : TwoTo[j] = TwoTo[i] * (2 * m)
        BY <2>3, <4>1, PowersDivide
      <4> QED
        BY <2>1, <2>2, <4>2
    <3>3. CASE j < i
      <4>1. j \in 0 .. i - 1
        BY <2>3, <3>3
      <4>2. 2 * TwoTo[j] <= TwoTo[i]
        BY <2>3, <4>1, PowersGrow
      <4> QED
        BY <1>5, <2>1, <2>2, <2>3, <4>2
    <3> QED
      BY <2>3, <3>1, <3>2, <3>3
  <2>5. PICK m \in Nat : c = p * m
    BY <2>4
  <2>6. (p * m + 0) % p = 0 /\ c = p * m + 0
    BY <2>3, <2>5, QuotientIs
  <2> QED
    BY <2>6
<1> QED
  BY <1>0, <1>1, <1>2, <1>3, <1>4, <1>5, TestIs

\* The pairs are pairs of words.
WordsOK == size \in Word /\ key_hash \in Word

\* Every pair the specification comes to is one of words.
LEMMA WordsCorrect == Spec => []WordsOK
<1>1. Init => WordsOK
  BY PowersAreWords DEF Init, WordsOK
<1>2. WordsOK /\ [Next]_<<words, bytes>> => WordsOK'
  <2>1. 0 \in Word /\ Word = 0 .. Modulus - 1 /\ Modulus \in Nat
    BY PowersAreWords DEF Word
  <2> QED
    BY <2>1 DEF WordsOK, Next, NextWord, Fill, words
<1> QED
  BY <1>1, <1>2, PTL DEF Spec

\* next_power_of_2 answers the least power of two that is not below its argument, and
\* 0 exactly when no word is one (src/src/bitwise_functionality.c:5-24).
THEOREM RoundingIsRight == Spec => []RoundsUp
<1>1. WordsOK => RoundsUp
  <2> SUFFICES ASSUME size \in Word PROVE RoundsUp
    BY DEF WordsOK
  <2> DEFINE above == {p \in PowersOf2 : p >= size}
  <2>1. size \in Nat /\ W \in Nat \ {0} /\ 0 \in 0 .. W - 1 /\ TwoTo[0] = 1
    BY PowersAreWords, Powers
  <2>2. \A k \in 0 .. W - 1 : TwoTo[k] \in Nat \ {0} /\ k \in 0 .. W
    BY PowersAreWords
  <2>3. CASE size \in {0, 1}
    <3>1. NextPowerOf2(size) = 1
      BY <2>3, NextPowerIs
    <3>2. 1 \in above /\ \A p \in above : 1 <= p
      BY <2>1, <2>2, <2>3 DEF PowersOf2
    <3> QED
      BY <3>1, <3>2 DEF RoundsUp
  <2>4. CASE size \notin {0, 1}
    <3>1. size - 1 \in Word /\ size - 1 # 0
      BY <2>1, <2>4, PowersAreWords DEF Word
    <3>2. PICK k \in 0 .. W - 1 : TwoTo[k] <= size - 1 /\ size - 1 < TwoTo[k + 1]
      BY <3>1, HighestBit
    <3>3. k \in 0 .. W /\ k + 1 \in 0 .. W /\ TwoTo[k + 1] \in Nat
      BY <2>1, PowersAreWords
    <3>4. TwoTo[k] < size /\ size <= TwoTo[k + 1]
      BY <2>1, <2>2, <3>2, <3>3
    <3>5. NextPowerOf2(size) = IF k + 1 = W THEN 0 ELSE TwoTo[k + 1]
      BY <3>4, NextPowerIs
    <3>6. ASSUME NEW i \in 0 .. W - 1, TwoTo[i] >= size
          PROVE  k + 1 \in 0 .. i /\ TwoTo[k + 1] <= TwoTo[i]
      <4>1. k + 1 \in 0 .. i
        <5>1. SUFFICES ASSUME i \in 0 .. k PROVE FALSE
          BY <2>1
        <5>2. TwoTo[i] <= TwoTo[k]
          BY <3>3, <5>1, PowersOrdered
        <5> QED
          BY <2>1, <2>2, <3>4, <3>6, <5>2
      <4> QED
        BY <2>2, <4>1, PowersOrdered
    <3>7. CASE k + 1 = W
      <4>1. above = {}
        BY <2>1, <3>6, <3>7 DEF PowersOf2
      <4> QED
        BY <3>5, <3>7, <4>1 DEF RoundsUp
    <3>8. CASE k + 1 # W
      <4>1. k + 1 \in 0 .. W - 1
        BY <2>1, <3>8
      <4>2. TwoTo[k + 1] \in above
        BY <2>1, <3>3, <3>4, <4>1 DEF PowersOf2
      <4>3. \A p \in above : TwoTo[k + 1] <= p
        BY <3>6 DEF PowersOf2
      <4> QED
        BY <3>5, <3>8, <4>2, <4>3 DEF RoundsUp
    <3> QED
      BY <3>7, <3>8
  <2> QED
    BY <2>3, <2>4
<1> QED
  BY <1>1, WordsCorrect, PTL

\* The test the rounding is guarded with (src/src/hashtable.c:26 and :142) is passed
\* by 0 and by the powers of two, and by no other word.
THEOREM TestIsRight == Spec => []TestIsExact
<1>1. WordsOK => TestIsExact
  BY TestIs DEF WordsOK, TestIsExact
<1> QED
  BY <1>1, WordsCorrect, PTL

\* The mask of the lookups (src/src/hashtable.c:238) and the modulo of the rehash
\* (src/src/hashtable.c:185) name the same bucket in a table of a power of two.
THEOREM MaskingIsRight == Spec => []MaskIsModulo
<1>1. WordsOK => MaskIsModulo
  BY MaskIsRest DEF WordsOK, MaskIsModulo, PowersOf2
<1> QED
  BY <1>1, WordsCorrect, PTL
=============================================================================
