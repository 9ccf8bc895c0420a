---------------------------- MODULE IpRules_proofs ----------------------------
(***************************************************************************)
(* Theorems about IpRules, for every value of its constants: addresses of   *)
(* any width, and any rules, stray entries and requests.                    *)
(*                                                                         *)
(* The provers know nothing of recursive functions and their induction      *)
(* rules take operators.  Induction over a SET of numbers is what replaces  *)
(* them here: every set of naturals has a smallest member, because the      *)
(* intervals below its members are finite and strict inclusion is           *)
(* well-founded on finite sets.                                             *)
(***************************************************************************)
EXTENDS IpRules, FiniteSetTheorems, SequenceTheorems, TLAPS

-----------------------------------------------------------------------------
(* A set of naturals has a smallest member.                                 *)
LEMMA Smallest ==
    ASSUME NEW T, T \subseteq Nat, T # {}
    PROVE  \E m \in T : \A n \in T : m <= n
<1> DEFINE Below == {0..n : n \in T}
           R == StrictSubsetOrdering(Nat)
<1>1. IsWellFoundedOn(R, FiniteSubsetsOf(Nat))
  BY FS_StrictSubsetOrderingWellFounded
<1>2. Below \subseteq FiniteSubsetsOf(Nat)
  <2>1. \A n \in Nat : 0..n \in SUBSET Nat /\ IsFiniteSet(0..n)
    BY FS_Interval
  <2> QED
    BY <2>1 DEF FiniteSubsetsOf
<1>3. Below # {}
  OBVIOUS
<1> HIDE DEF R, Below
<1>4. PICK x \in Below : \A y \in Below : <<y, x>> \notin R
  BY <1>1, <1>2, <1>3, WFMin
<1>5. PICK m \in T : x = 0..m
  BY DEF Below
<1>6. ASSUME NEW n \in T, n < m
      PROVE  FALSE
  <2>1. /\ 0..n \in SUBSET Nat /\ 0..m \in SUBSET Nat
        /\ 0..n \subseteq 0..m /\ 0..n # 0..m
    <3>1. m \in 0..m /\ m \notin 0..n
      BY <1>6
    <3> QED
      BY <1>6, <3>1
  <2>2. <<0..n, 0..m>> \in R
    BY <2>1 DEF R, StrictSubsetOrdering
  <2> QED
    BY <1>4, <1>5, <2>2 DEF Below
<1> QED
  BY <1>6

(* Induction: a set that has 0, and the successor of each of its naturals,   *)
(* has all naturals.                                                        *)
LEMMA Inductive ==
    ASSUME NEW T, 0 \in T, \A n \in T \cap Nat : n + 1 \in T
    PROVE  Nat \subseteq T
<1> SUFFICES ASSUME Nat \ T # {} PROVE FALSE
  OBVIOUS
<1>1. PICK m \in Nat \ T : \A n \in Nat \ T : m <= n
  BY Smallest
<1>2. m # 0 /\ m - 1 \in Nat /\ m - 1 \notin Nat \ T
  BY <1>1
<1>3. (m - 1) + 1 \in T
  BY <1>2
<1> QED
  BY <1>1, <1>3

-----------------------------------------------------------------------------
(* What it means that f solves the recursion f[i] = f[i - 1] * D + c[i].     *)
Solves(f, n, b, D, c) ==
    /\ f \in [0..n -> Int]
    /\ f[0] = b
    /\ \A i \in 1..n : f[i] = f[i - 1] * D + c[i]

(* Every such recursion has a solution, as far as one likes.                *)
LEMMA SolutionExists ==
    ASSUME NEW b \in Int, NEW D \in Int, NEW c \in [Nat -> Int]
    PROVE  \A n \in Nat : \E f : Solves(f, n, b, D, c)
<1> DEFINE T == {n \in Nat : \E f : Solves(f, n, b, D, c)}
<1>1. 0 \in T
  <2> DEFINE g == [i \in {0} |-> b]
  <2>1. 0..0 = {0} /\ 1..0 = {}
    OBVIOUS
  <2>2. g \in [{0} -> Int] /\ g[0] = b
    OBVIOUS
  <2> HIDE DEF g
  <2>3. Solves(g, 0, b, D, c)
    BY <2>1, <2>2 DEF Solves
  <2> QED
    BY <2>3
<1>2. ASSUME NEW n \in T
      PROVE  n + 1 \in T
  <2>1. PICK f : Solves(f, n, b, D, c)
    OBVIOUS
  <2> DEFINE g == [i \in 0..n + 1 |-> IF i = n + 1 THEN f[n] * D + c[n + 1] ELSE f[i]]
  <2>2. n \in Nat /\ f \in [0..n -> Int] /\ f[n] \in Int /\ c[n + 1] \in Int
    BY <2>1 DEF Solves
  <2>3. f[n] * D \in Int
    BY <2>2
  <2>4. g \in [0..n + 1 -> Int]
    BY <2>2, <2>3
  <2>5. g[0] = b /\ g[n + 1] = f[n] * D + c[n + 1]
    BY <2>1, <2>2 DEF Solves
  <2>6. \A i \in 0..n : g[i] = f[i]
    BY <2>2
  <2> HIDE DEF g
  <2>7. ASSUME NEW i \in 1..n + 1
        PROVE  g[i] = g[i - 1] * D + c[i]
    <3>1. CASE i = n + 1
      <4>1. i - 1 = n /\ n \in 0..n
        BY <2>2, <3>1
      <4> QED
        BY <2>5, <2>6, <3>1, <4>1
    <3>2. CASE i # n + 1
      <4>1. i \in 1..n /\ i \in 0..n /\ i - 1 \in 0..n
        BY <2>2, <3>2
      <4>2. f[i] = f[i - 1] * D + c[i]
        BY <2>1, <4>1 DEF Solves
      <4> QED
        BY <2>6, <4>1, <4>2
    <3> QED
      BY <3>1, <3>2
  <2>8. Solves(g, n + 1, b, D, c)
    BY <2>4, <2>5, <2>7 DEF Solves
  <2> QED
    BY <2>2, <2>8
<1> HIDE DEF T
<1>3. Nat \subseteq T
  BY <1>1, <1>2, Inductive
<1> QED
  BY <1>3 DEF T

(* Solutions agree as far as both go.                                       *)
LEMMA SolutionUnique ==
    ASSUME NEW b \in Int, NEW D \in Int, NEW c,
           NEW n \in Nat, NEW m \in Nat, NEW f, NEW g,
           Solves(f, n, b, D, c), Solves(g, m, b, D, c)
    PROVE  \A i \in Nat : i <= n /\ i <= m => f[i] = g[i]
<1> DEFINE T == {i \in Nat : i <= n /\ i <= m => f[i] = g[i]}
<1>1. 0 \in T
  BY DEF Solves
<1>2. ASSUME NEW i \in T
      PROVE  i + 1 \in T
  <2> SUFFICES ASSUME i + 1 <= n, i + 1 <= m PROVE f[i + 1] = g[i + 1]
    OBVIOUS
  <2>1. i \in Nat /\ f[i] = g[i]
    OBVIOUS
  <2>2. i + 1 \in 1..n /\ i + 1 \in 1..m /\ (i + 1) - 1 = i
    BY <2>1
  <2>3. f[i + 1] = f[(i + 1) - 1] * D + c[i + 1] /\ g[i + 1] = g[(i + 1) - 1] * D + c[i + 1]
    BY <2>2 DEF Solves
  <2> QED
    BY <2>1, <2>2, <2>3
<1> HIDE DEF T
<1>3. Nat \subseteq T
  BY <1>1, <1>2, Inductive
<1> QED
  BY <1>3 DEF T

-----------------------------------------------------------------------------
(* Powers of two are what their recursion says.                             *)
LEMMA TwoToRecursion ==
    /\ TwoTo \in [Nat -> Nat \ {0}]
    /\ TwoTo[0] = 1
    /\ \A n \in Nat : TwoTo[n + 1] = 2 * TwoTo[n]
<1> DEFINE zero == [n \in Nat |-> 0]
           some(n) == CHOOSE f : Solves(f, n, 1, 2, zero)
           F == [n \in Nat |-> some(n)[n]]
           step(g) == [n \in Nat |-> IF n = 0 THEN 1 ELSE 2 * g[n - 1]]
<1>1. zero \in [Nat -> Int] /\ \A n \in Nat : zero[n] = 0
  OBVIOUS
<1> HIDE DEF zero
<1>2. ASSUME NEW n \in Nat
      PROVE  Solves(some(n), n, 1, 2, zero)
  BY <1>1, SolutionExists
<1> HIDE DEF some
<1>3. \A n \in Nat : some(n)[n] \in Int
  BY <1>2 DEF Solves
<1>4. ASSUME NEW n \in Nat, n # 0
      PROVE  some(n)[n] = 2 * some(n - 1)[n - 1]
  <2>1. n - 1 \in Nat /\ n \in 1..n /\ n - 1 <= n /\ n - 1 \in 0..n
    BY <1>4
  <2>2. some(n)[n - 1] = some(n - 1)[n - 1]
    BY <1>2, <2>1, SolutionUnique
  <2>3. some(n)[n] = some(n)[n - 1] * 2 + zero[n]
    BY <1>2, <2>1 DEF Solves
  <2>4. some(n - 1)[n - 1] \in Int
    BY <1>3, <2>1
  <2> QED
    BY <1>1, <2>2, <2>3, <2>4
<1>5. some(0)[0] = 1
  BY <1>2 DEF Solves
<1>6. F = step(F)
  <2>1. ASSUME NEW n \in Nat
        PROVE  F[n] = step(F)[n]
    <3>1. CASE n = 0
      BY <1>5, <3>1
    <3>2. CASE n # 0
      <4>1. n - 1 \in Nat
        BY <3>2
      <4> QED
        BY <1>4, <3>2, <4>1
    <3> QED
      BY <3>1, <3>2
  <2> QED
    BY <2>1
<1> HIDE DEF F
<1>7. TwoTo = step(TwoTo)
  <2>1. TwoTo = CHOOSE g : g = step(g)
    BY DEF TwoTo
  <2> HIDE DEF step
  <2> QED
    BY <1>6, <2>1
<1>8. /\ DOMAIN TwoTo = Nat /\ TwoTo[0] = 1
      /\ \A n \in Nat : n # 0 => TwoTo[n] = 2 * TwoTo[n - 1]
      /\ TwoTo = [n \in Nat |-> TwoTo[n]]
  BY <1>7
<1>9. \A n \in Nat : TwoTo[n + 1] = 2 * TwoTo[n]
  <2> SUFFICES ASSUME NEW n \in Nat PROVE TwoTo[n + 1] = 2 * TwoTo[n]
    OBVIOUS
  <2>1. n + 1 \in Nat /\ n + 1 # 0 /\ (n + 1) - 1 = n
    OBVIOUS
  <2> QED
    BY <1>8, <2>1
<1> DEFINE T == {n \in Nat : TwoTo[n] \in Nat \ {0}}
<1>10. 0 \in T
  BY <1>8
<1>11. ASSUME NEW n \in T
       PROVE  n + 1 \in T
  BY <1>9
<1> HIDE DEF T
<1>12. Nat \subseteq T
  BY <1>10, <1>11, Inductive
<1>13. \A n \in Nat : TwoTo[n] \in Nat \ {0}
  BY <1>12 DEF T
<1> QED
  BY <1>8, <1>9, <1>13

(* The exponent of a product is a sum.                                      *)
LEMMA TwoToSum ==
    \A m, n \in Nat : TwoTo[m + n] = TwoTo[m] * TwoTo[n]
<1> SUFFICES ASSUME NEW m \in Nat
             PROVE  \A n \in Nat : TwoTo[m + n] = TwoTo[m] * TwoTo[n]
  OBVIOUS
<1> DEFINE T == {n \in Nat : TwoTo[m + n] = TwoTo[m] * TwoTo[n]}
<1>1. 0 \in T
  BY TwoToRecursion
<1>2. ASSUME NEW n \in T
      PROVE  n + 1 \in T
  <2>1. /\ n \in Nat /\ m + n \in Nat /\ m + (n + 1) = (m + n) + 1
        /\ TwoTo[m + n] = TwoTo[m] * TwoTo[n]
    OBVIOUS
  <2>2. TwoTo[m + (n + 1)] = 2 * TwoTo[m + n] /\ TwoTo[n + 1] = 2 * TwoTo[n]
    BY <2>1, TwoToRecursion
  <2>3. TwoTo[m] \in Nat /\ TwoTo[n] \in Nat
    BY <2>1, TwoToRecursion
  <2>4. 2 * (TwoTo[m] * TwoTo[n]) = TwoTo[m] * (2 * TwoTo[n])
    BY <2>3
  <2>5. n + 1 \in Nat
    BY <2>1
  <2> QED
    BY <2>1, <2>2, <2>4, <2>5
<1> HIDE DEF T
<1>3. Nat \subseteq T
  BY <1>1, <1>2, Inductive
<1> QED
  BY <1>3 DEF T

-----------------------------------------------------------------------------
(* There is one quotient and one remainder.                                 *)
LEMMA Quotient ==
    ASSUME NEW D \in Nat \ {0}, NEW x \in Int, NEW q \in Int, NEW r \in 0..D - 1,
           x = q * D + r
    PROVE  x \div D = q /\ x % D = r
<1> DEFINE p == x \div D
           s == x % D
<1>1. p \in Int /\ s \in 0..D - 1 /\ x = p * D + s
  OBVIOUS
<1> HIDE DEF p, s
<1>2. (p - q) * D = r - s
  BY <1>1
<1>3. ~(p - q >= 1)
  <2> SUFFICES ASSUME p - q >= 1 PROVE FALSE
    OBVIOUS
  <2>1. (p - q) * D >= D
    BY <1>1
  <2> QED
    BY <1>1, <1>2, <2>1
<1>4. ~(q - p >= 1)
  <2> SUFFICES ASSUME q - p >= 1 PROVE FALSE
    OBVIOUS
  <2>1. (q - p) * D >= D
    BY <1>1
  <2>2. (q - p) * D = s - r
    BY <1>1
  <2> QED
    BY <1>1, <2>1, <2>2
<1>5. p = q
  BY <1>1, <1>3, <1>4
<1>6. s = r
  BY <1>1, <1>5
<1> QED
  BY <1>5, <1>6 DEF p, s

(* A number is made of its quotient and its remainder.                      *)
LEMMA Division ==
    ASSUME NEW D \in Nat \ {0}, NEW x \in Int
    PROVE  /\ x \div D \in Int
           /\ x % D \in 0..D - 1
           /\ x = (x \div D) * D + (x % D)
<1>1. x \div D \in Int
  OBVIOUS
<1>2. x % D \in 0..D - 1
  OBVIOUS
<1>3. x = D * (x \div D) + (x % D)
  OBVIOUS
<1> QED
  BY <1>1, <1>2, <1>3

(* Dividing twice is dividing by the product.                               *)
LEMMA DivideTwice ==
    ASSUME NEW D \in Nat \ {0}, NEW E \in Nat \ {0}, NEW x \in Int
    PROVE  x \div (D * E) = (x \div D) \div E
<1> DEFINE q == x \div D
           r == x % D
           p == q \div E
           s == q % E
<1>1. q \in Int /\ r \in 0..D - 1 /\ x = q * D + r
  BY Division
<1>2. p \in Int /\ s \in 0..E - 1 /\ q = p * E + s
  <2>1. q \in Int
    BY <1>1
  <2> HIDE DEF q
  <2> QED
    BY <2>1, Division
<1> HIDE DEF q, r, p, s
<1>3. D * E \in Nat \ {0}
  OBVIOUS
<1>4. x = p * (D * E) + (s * D + r)
  BY <1>1, <1>2
<1>5. s * D + r \in 0..(D * E) - 1
  <2>1. s * D <= (E - 1) * D /\ s * D >= 0
    BY <1>2
  <2>2. (E - 1) * D = D * E - D
    OBVIOUS
  <2> QED
    BY <1>1, <1>2, <2>1, <2>2
<1>6. x \div (D * E) = p
  BY <1>1, <1>2, <1>3, <1>4, <1>5, Quotient
<1> QED
  BY <1>6 DEF p, q

(* What is a multiple of the divisor is divided on its own.                 *)
LEMMA DivideSum ==
    ASSUME NEW D \in Nat \ {0}, NEW x \in Int, NEW y \in Int
    PROVE  (x * D + y) \div D = x + y \div D
<1> DEFINE q == y \div D
           r == y % D
<1>1. q \in Int /\ r \in 0..D - 1 /\ y = q * D + r
  BY Division
<1> HIDE DEF q, r
<1>2. x * D + y = (x + q) * D + r
  BY <1>1
<1>3. x * D + y \in Int /\ x + q \in Int
  BY <1>1
<1>4. (x * D + y) \div D = x + q
  BY <1>1, <1>2, <1>3, Quotient
<1> QED
  BY <1>4 DEF q

-----------------------------------------------------------------------------
(* Addresses of K parts of w bits, and their bits from the left.            *)
Words(K, w) ==
    {parts \in Seq(Nat) : Len(parts) = K /\ \A i \in 1..K : parts[i] < TwoTo[w]}

PartWith(w, i) == (i - 1) \div w + 1
PlaceOf(w, i)  == w - 1 - ((i - 1) % w)

Bit(parts, w, i) == (parts[PartWith(w, i)] \div TwoTo[PlaceOf(w, i)]) % 2

(* The parts are numbers of w bits.                                         *)
LEMMA WordParts ==
    ASSUME NEW K \in Nat, NEW w \in Nat, NEW parts \in Words(K, w)
    PROVE  /\ Len(parts) = K
           /\ \A i \in 1..K : parts[i] \in Nat /\ parts[i] \in 0..TwoTo[w] - 1
<1>1. parts \in Seq(Nat) /\ Len(parts) = K /\ \A i \in 1..K : parts[i] < TwoTo[w]
  BY DEF Words
<1>2. \A i \in 1..K : parts[i] \in Nat
  BY <1>1
<1>3. TwoTo[w] \in Nat
  BY TwoToRecursion
<1> QED
  BY <1>1, <1>2, <1>3

(* The parts of an address are shifted into its number one by one.          *)
LEMMA ShiftedRecursion ==
    ASSUME NEW K \in Nat, NEW w \in Nat, NEW parts \in Words(K, w)
    PROVE  LET n == Shifted(parts, w)
           IN  /\ n[0] = 0
               /\ \A i \in 0..K : n[i] \in Int
               /\ \A i \in 1..K : n[i] = n[i - 1] * TwoTo[w] + parts[i]
<1> DEFINE D == TwoTo[w]
           n == Shifted(parts, w)
           step(g) == [i \in 0..Len(parts) |-> IF i = 0 THEN 0 ELSE g[i - 1] * D + parts[i]]
           c == [i \in Nat |-> IF i \in 1..K THEN parts[i] ELSE 0]
<1>1. /\ Len(parts) = K /\ D \in Int
      /\ \A i \in 1..K : parts[i] \in Int
  <2>1. Len(parts) = K /\ \A i \in 1..K : parts[i] \in Nat
    BY WordParts
  <2>2. D \in Nat
    BY TwoToRecursion
  <2> QED
    BY <2>1, <2>2
<1>2. c \in [Nat -> Int] /\ \A i \in 1..K : c[i] = parts[i]
  BY <1>1
<1> HIDE DEF c
<1>3. PICK f : Solves(f, K, 0, D, c)
  <2> HIDE DEF D
  <2>1. \A k \in Nat : \E f : Solves(f, k, 0, D, c)
    BY <1>1, <1>2, SolutionExists, SMTT(40)
  <2> QED
    BY <2>1
<1>4. f = step(f)
  <2>1. f = [i \in 0..K |-> f[i]]
    BY <1>3 DEF Solves
  <2>2. \A i \in 0..K : f[i] = IF i = 0 THEN 0 ELSE f[i - 1] * D + parts[i]
    BY <1>2, <1>3 DEF Solves
  <2> QED
    BY <1>1, <2>1, <2>2
<1>5. n = CHOOSE g : g = step(g)
  BY DEF Shifted
<1>6. n = step(n)
  <2> HIDE DEF step, n
  <2> QED
    BY <1>4, <1>5
<1> HIDE DEF n
<1>7. n[0] = 0 /\ \A i \in 1..K : n[i] = n[i - 1] * D + parts[i]
  <2>1. \A i \in 0..K : n[i] = IF i = 0 THEN 0 ELSE n[i - 1] * D + parts[i]
    BY <1>1, <1>6
  <2> QED
    BY <2>1
<1> DEFINE T == {i \in Nat : i <= K => n[i] \in Int}
<1>8. 0 \in T
  BY <1>7
<1>9. ASSUME NEW i \in T
      PROVE  i + 1 \in T
  <2> SUFFICES ASSUME i + 1 <= K PROVE n[i + 1] \in Int
    OBVIOUS
  <2>1. n[i] \in Int /\ i + 1 \in 1..K /\ (i + 1) - 1 = i
    OBVIOUS
  <2>2. n[i + 1] = n[i] * D + parts[i + 1]
    BY <1>7, <2>1
  <2>3. parts[i + 1] \in Int
    BY <1>1, <2>1
  <2> QED
    BY <1>1, <2>1, <2>2, <2>3
<1> HIDE DEF T
<1>10. Nat \subseteq T
  BY <1>8, <1>9, Inductive
<1>11. \A i \in 0..K : n[i] \in Int
  BY <1>10 DEF T
<1> QED
  BY <1>7, <1>11 DEF n

(* Shifting the later parts out leaves the number of the first ones.        *)
LEMMA ShiftedOut ==
    ASSUME NEW K \in Nat, NEW w \in Nat, NEW parts \in Words(K, w), NEW j \in 0..K
    PROVE  LET n == Shifted(parts, w)
           IN  \A d \in 0..K - j : n[j + d] \div TwoTo[w * d] = n[j]
<1> DEFINE n == Shifted(parts, w)
           T == {d \in Nat : d <= K - j => n[j + d] \div TwoTo[w * d] = n[j]}
<1>1. /\ n[0] = 0
      /\ \A i \in 0..K : n[i] \in Int
      /\ \A i \in 1..K : n[i] = n[i - 1] * TwoTo[w] + parts[i]
  BY ShiftedRecursion
<1>2. \A i \in 1..K : parts[i] \in 0..TwoTo[w] - 1
  BY WordParts
<1> HIDE DEF n
<1>3. 0 \in T
  <2>1. w * 0 = 0 /\ j + 0 = j /\ TwoTo[0] = 1 /\ n[j] \in Int
    BY <1>1, TwoToRecursion
  <2>2. n[j] \div 1 = n[j]
    BY <2>1
  <2> QED
    BY <2>1, <2>2
<1>4. ASSUME NEW d \in T
      PROVE  d + 1 \in T
  <2> SUFFICES ASSUME d + 1 <= K - j
               PROVE  n[j + (d + 1)] \div TwoTo[w * (d + 1)] = n[j]
    OBVIOUS
  <2> DEFINE i == j + (d + 1)
             D == TwoTo[w]
             E == TwoTo[w * d]
  <2>1. /\ d \in Nat /\ i \in 1..K /\ i - 1 = j + d /\ j + d \in 0..K
        /\ n[j + d] \div E = n[j]
    OBVIOUS
  <2>2. w * d \in Nat /\ w * (d + 1) = w + w * d
    BY <2>1
  <2>3. D \in Nat \ {0} /\ E \in Nat \ {0} /\ TwoTo[w * (d + 1)] = D * E
    BY <2>2, TwoToRecursion, TwoToSum
  <2>4. n[i] = n[j + d] * D + parts[i] /\ n[i] \in Int /\ n[j + d] \in Int
    BY <1>1, <2>1
  <2>5. parts[i] \in 0..D - 1
    BY <1>2, <2>1
  <2> HIDE DEF i, D, E
  <2>6. n[i] \div D = n[j + d]
    BY <2>3, <2>4, <2>5, Quotient
  <2>7. n[i] \div (D * E) = (n[i] \div D) \div E
    BY <2>3, <2>4, DivideTwice
  <2> QED
    BY <2>1, <2>3, <2>6, <2>7 DEF i
<1> HIDE DEF T
<1>5. Nat \subseteq T
  BY <1>3, <1>4, Inductive
<1>6. \A d \in 0..K - j : n[j + d] \div TwoTo[w * d] = n[j]
  BY <1>5 DEF T
<1> QED
  BY <1>6 DEF n

(* Where the i-th bit is.                                                   *)
LEMMA PlaceOfBit ==
    ASSUME NEW K \in Nat, NEW w \in Nat \ {0}, NEW i \in 1..K * w
    PROVE  /\ PartWith(w, i) \in 1..K
           /\ PlaceOf(w, i) \in 0..w - 1
           /\ K * w - i = w * (K - PartWith(w, i)) + PlaceOf(w, i)
<1> DEFINE q == (i - 1) \div w
           r == (i - 1) % w
<1>1. K * w \in Nat /\ i - 1 \in Nat /\ i <= K * w
  OBVIOUS
<1>2. q \in Int /\ r \in 0..w - 1 /\ i - 1 = q * w + r
  BY <1>1, Division
<1>3. PartWith(w, i) = q + 1 /\ PlaceOf(w, i) = w - 1 - r
  BY DEF PartWith, PlaceOf
<1> HIDE DEF q, r
<1>4. q >= 0
  <2> SUFFICES ASSUME q <= -1 PROVE FALSE
    BY <1>2
  <2>1. q * w <= -w
    BY <1>2
  <2> QED
    BY <1>1, <1>2, <2>1
<1>5. q < K
  <2> SUFFICES ASSUME q >= K PROVE FALSE
    BY <1>2
  <2>1. q * w >= K * w
    BY <1>2
  <2> QED
    BY <1>1, <1>2, <2>1
<1>6. K * w - i = w * (K - (q + 1)) + (w - 1 - r)
  <2>1. w * (K - (q + 1)) = K * w - q * w - w
    BY <1>2
  <2> QED
    BY <1>1, <1>2, <2>1
<1> QED
  BY <1>2, <1>3, <1>4, <1>5, <1>6

(* One bit more of the number of an address is the next bit of its parts.   *)
LEMMA NextBit ==
    ASSUME NEW K \in Nat, NEW w \in Nat \ {0}, NEW parts \in Words(K, w),
           NEW i \in 1..K * w
    PROVE  LET N == Shifted(parts, w)[K]
           IN  /\ N \div TwoTo[K * w - i] =
                     2 * (N \div TwoTo[K * w - i + 1]) + Bit(parts, w, i)
               /\ Bit(parts, w, i) \in 0..1
<1> DEFINE n == Shifted(parts, w)
           j == PartWith(w, i)
           place == PlaceOf(w, i)
           F == TwoTo[w * (K - j)]
           D == TwoTo[place]
           E == TwoTo[w - 1 - place]
<1>1. /\ n[0] = 0
      /\ \A k \in 0..K : n[k] \in Int
      /\ \A k \in 1..K : n[k] = n[k - 1] * TwoTo[w] + parts[k]
  BY ShiftedRecursion
<1>2. j \in 1..K /\ place \in 0..w - 1 /\ K * w - i = w * (K - j) + place
  BY PlaceOfBit
<1>3. n[K] \div F = n[j]
  <2>1. \A d \in 0..K - j : n[j + d] \div TwoTo[w * d] = n[j]
    BY <1>2, ShiftedOut
  <2>2. K - j \in 0..K - j /\ j + (K - j) = K
    BY <1>2
  <2> QED
    BY <2>1, <2>2
<1>4. Bit(parts, w, i) = (parts[j] \div D) % 2
  BY DEF Bit
<1>5. parts[j] \in Nat
  BY <1>2 DEF Words
<1> HIDE DEF n, j, place
<1>6. w * (K - j) \in Nat /\ place \in Nat /\ place + 1 \in Nat /\ w - 1 - place \in Nat
  BY <1>2
<1>7. F \in Nat \ {0} /\ D \in Nat \ {0} /\ E \in Nat \ {0}
  BY <1>6, TwoToRecursion
<1>8. TwoTo[K * w - i] = F * D
  BY <1>2, <1>6, TwoToSum
<1>9. TwoTo[place + 1] = D * 2
  BY <1>6, <1>7, TwoToRecursion
<1>10. TwoTo[K * w - i + 1] = F * (D * 2)
  <2>1. K * w - i + 1 = w * (K - j) + (place + 1)
    BY <1>2
  <2> QED
    BY <1>6, <1>9, <2>1, TwoToSum, ZenonT(40)
<1>11. TwoTo[w] = D * (2 * E)
  <2>1. w = (place + 1) + (w - 1 - place)
    BY <1>2
  <2>2. TwoTo[w] = (D * 2) * E
    BY <1>6, <1>9, <2>1, TwoToSum
  <2> QED
    BY <1>7, <2>2
<1> HIDE DEF F, D, E
<1>12. n[K] \in Int /\ n[j] \in Int /\ n[j - 1] \in Int
  BY <1>1, <1>2
<1>13. /\ n[K] \div TwoTo[K * w - i] = n[j] \div D
       /\ n[K] \div TwoTo[K * w - i + 1] = (n[j] \div D) \div 2
  <2>1. n[K] \div (F * D) = n[j] \div D
    BY <1>3, <1>7, <1>12, DivideTwice
  <2> DEFINE G == D * 2
  <2>2. G \in Nat \ {0}
    BY <1>7
  <2> HIDE DEF G
  <2>3. n[K] \div (F * G) = n[j] \div G
    BY <1>3, <1>7, <1>12, <2>2, DivideTwice
  <2>4. n[j] \div (D * 2) = (n[j] \div D) \div 2
    BY <1>7, <1>12, DivideTwice
  <2> QED
    BY <1>8, <1>10, <2>1, <2>3, <2>4 DEF G
<1>14. n[j] \div D = 2 * (E * n[j - 1]) + parts[j] \div D
  <2>1. n[j] = n[j - 1] * TwoTo[w] + parts[j]
    BY <1>1, <1>2
  <2>2. n[j - 1] * TwoTo[w] = (2 * (E * n[j - 1])) * D
    BY <1>7, <1>11, <1>12
  <2>3. 2 * (E * n[j - 1]) \in Int
    BY <1>7, <1>12
  <2> QED
    BY <1>5, <1>7, <2>1, <2>2, <2>3, DivideSum, SMTT(40)
<1> DEFINE q == n[j] \div D
           b == parts[j] \div D
           e == E * n[j - 1]
<1>15. e \in Int /\ b \in Int /\ q = 2 * e + b
  BY <1>5, <1>7, <1>12, <1>14
<1> HIDE DEF q, b, e
<1>16. q = 2 * (q \div 2) + (b % 2) /\ b % 2 \in 0..1
  BY <1>15
<1> QED
  BY <1>4, <1>13, <1>16 DEF n, q, b

(* Numbers are equal above their lowest bits exactly if their quotients are. *)
LEMMA MaskIsQuotient ==
    ASSUME NEW x \in Int, NEW y \in Int, NEW s \in Nat
    PROVE  Masked(x, s) = Masked(y, s) <=> x \div TwoTo[s] = y \div TwoTo[s]
<1> DEFINE D == TwoTo[s]
           p == x \div D
           q == y \div D
<1>1. D \in Nat \ {0}
  BY TwoToRecursion
<1>2. /\ p \in Int /\ x % D \in Int /\ x = p * D + (x % D)
      /\ q \in Int /\ y % D \in Int /\ y = q * D + (y % D)
  <2> HIDE DEF D
  <2> QED
    BY <1>1, Division
<1>3. Masked(x, s) = x - (x % D) /\ Masked(y, s) = y - (y % D)
  BY DEF Masked
<1> HIDE DEF D, p, q
<1>4. x - (x % D) = p * D /\ y - (y % D) = q * D
  <2>1. p * D \in Int /\ q * D \in Int
    BY <1>1, <1>2
  <2> QED
    BY <1>2, <2>1
<1>5. p * D = q * D => p = q
  BY <1>1, <1>2
<1> QED
  BY <1>3, <1>4, <1>5 DEF p, q, D

(* isInCidr compares, by one mask on two numbers, exactly the bits of the    *)
(* two addresses that the prefix counts.                                    *)
LEMMA MaskComparesPrefix ==
    ASSUME NEW K \in Nat, NEW w \in Nat \ {0},
           NEW a \in Words(K, w), NEW b \in Words(K, w), NEW prefix \in 1..K * w
    PROVE  Masked(Shifted(a, w)[K], K * w - prefix) = Masked(Shifted(b, w)[K], K * w - prefix)
           <=> \A i \in 1..prefix : Bit(a, w, i) = Bit(b, w, i)
<1> DEFINE M == K * w
           x == Shifted(a, w)[K]
           y == Shifted(b, w)[K]
           Same(p) == x \div TwoTo[M - p] = y \div TwoTo[M - p]
           Agree(p) == \A i \in 1..p : Bit(a, w, i) = Bit(b, w, i)
           T == {p \in Nat : p <= M => (Same(p) <=> Agree(p))}
<1>1. x \in Int /\ y \in Int /\ M \in Nat
  BY ShiftedRecursion
<1>2. x \div TwoTo[M] = 0 /\ y \div TwoTo[M] = 0
  <2>1. 0 \in 0..K /\ K \in 0..K - 0 /\ 0 + K = K /\ w * K = M
    OBVIOUS
  <2>2. Shifted(a, w)[K] \div TwoTo[w * K] = Shifted(a, w)[0] /\ Shifted(a, w)[0] = 0
    BY <2>1, ShiftedOut, ShiftedRecursion
  <2>3. Shifted(b, w)[K] \div TwoTo[w * K] = Shifted(b, w)[0] /\ Shifted(b, w)[0] = 0
    BY <2>1, ShiftedOut, ShiftedRecursion
  <2> QED
    BY <2>1, <2>2, <2>3
<1>3. 0 \in T
  <2>1. M - 0 = M
    BY <1>1
  <2> QED
    BY <1>2, <2>1
<1>4. ASSUME NEW p \in T
      PROVE  p + 1 \in T
  <2> SUFFICES ASSUME p + 1 <= M PROVE Same(p + 1) <=> Agree(p + 1)
    OBVIOUS
  <2>1. /\ p \in Nat /\ p + 1 \in 1..M /\ M - (p + 1) + 1 = M - p
        /\ M - p \in Nat /\ M - (p + 1) \in Nat
        /\ Same(p) <=> Agree(p)
    BY <1>1
  <2>2. /\ x \div TwoTo[M - (p + 1)] = 2 * (x \div TwoTo[M - p]) + Bit(a, w, p + 1)
        /\ Bit(a, w, p + 1) \in 0..1
    BY <2>1, NextBit
  <2>3. /\ y \div TwoTo[M - (p + 1)] = 2 * (y \div TwoTo[M - p]) + Bit(b, w, p + 1)
        /\ Bit(b, w, p + 1) \in 0..1
    BY <2>1, NextBit
  <2>4. TwoTo[M - p] \in Nat \ {0}
    BY <2>1, TwoToRecursion
  <2>5. x \div TwoTo[M - p] \in Int /\ y \div TwoTo[M - p] \in Int
    BY <1>1, <2>4
  <2>6. Same(p + 1) <=> Same(p) /\ Bit(a, w, p + 1) = Bit(b, w, p + 1)
    <3>1. ASSUME NEW u \in Int, NEW v \in Int, NEW f \in 0..1, NEW g \in 0..1
          PROVE  2 * u + f = 2 * v + g <=> u = v /\ f = g
      OBVIOUS
    <3> DEFINE u == x \div TwoTo[M - p]
               v == y \div TwoTo[M - p]
               f == Bit(a, w, p + 1)
               g == Bit(b, w, p + 1)
    <3>2. u \in Int /\ v \in Int /\ f \in 0..1 /\ g \in 0..1
      BY <2>2, <2>3, <2>5
    <3>3. /\ x \div TwoTo[M - (p + 1)] = 2 * u + f
          /\ y \div TwoTo[M - (p + 1)] = 2 * v + g
      BY <2>2, <2>3
    <3> HIDE DEF u, v, f, g
    <3>4. 2 * u + f = 2 * v + g <=> u = v /\ f = g
      BY <3>1, <3>2
    <3> QED
      BY <3>3, <3>4 DEF u, v, f, g
  <2>7. 1..(p + 1) = (1..p) \cup {p + 1}
    BY <2>1
  <2>8. Agree(p + 1) <=> Agree(p) /\ Bit(a, w, p + 1) = Bit(b, w, p + 1)
    BY <2>7
  <2> QED
    BY <2>1, <2>6, <2>8
<1> HIDE DEF T
<1>5. Nat \subseteq T
  BY <1>3, <1>4, Inductive
<1>6. Same(prefix) <=> Agree(prefix)
  BY <1>1, <1>5 DEF T
<1>7. M - prefix \in Nat
  BY <1>1
<1> QED
  BY <1>1, <1>6, <1>7, MaskIsQuotient

-----------------------------------------------------------------------------
(* The texts of addresses, by family: how many parts they have.             *)
PartCount(family) == IF family = 4 THEN V4Octets ELSE V6Groups

(* The widths are positive.                                                 *)
LEMMA Widths ==
    ASSUME NEW family
    PROVE  /\ PartCount(family) \in Nat \ {0}
           /\ Width(family) \in Nat \ {0}
           /\ MaxBits(family) = PartCount(family) * Width(family)
           /\ MaxBits(family) \in Nat \ {0}
<1>1. PartCount(family) \in Nat \ {0} /\ Width(family) \in Nat \ {0}
  BY IpAssumption DEF PartCount, Width
<1>2. MaxBits(family) = PartCount(family) * Width(family)
  BY DEF MaxBits, PartCount
<1> QED
  BY <1>1, <1>2

(* A literal is the text it was read from, without what surrounds it; read  *)
(* again it is the same.                                                    *)
LEMMA LiteralOf ==
    ASSUME NEW t \in Texts
    PROVE  /\ Denotes(t) <=> Literal(t) # NoLiteral
           /\ Denotes(t) =>
                 /\ IsText(Literal(t))
                 /\ Family(Literal(t)) = FamilyOf(t)
                 /\ FamilyOf(t) \in {4, 6}
                 /\ Literal(t).octets = t.octets
                 /\ FamilyOf(t) = 6 => /\ Literal(t).left = t.left
                                       /\ Literal(t).right = t.right
                 /\ Literal(Literal(t)) = Literal(t)
<1>1. CASE ~Denotes(t)
  <2>1. Literal(t) = NoLiteral
    BY <1>1 DEF Denotes, Literal, IsAddress
  <2> QED
    BY <1>1, <2>1
<1>2. CASE Denotes(t)
  <2>1. IsAddress(t) /\ t.form \in {"v4", "v6", "mapped"}
    BY <1>2 DEF Denotes, IsAddress
  <2>2. CASE t.form = "mapped"
    <3> DEFINE l == Plain("v4", <<>>, FALSE, <<>>, t.octets)
    <3>1. Literal(t) = l
      BY <1>2, <2>1, <2>2 DEF Denotes, Literal
    <3>2. l \in Texts
      BY DEF Texts, Plain
    <3>3. /\ l.form = "v4" /\ l.octets = t.octets /\ l.port = FALSE
          /\ l = Plain(l.form, l.left, l.gap, l.right, l.octets)
      BY DEF Plain
    <3>4. IsAddress(l)
      BY <2>1, <2>2, <3>3 DEF IsAddress
    <3> HIDE DEF l
    <3>5. Literal(l) = l
      BY <3>3, <3>4 DEF Literal
    <3>6. l # NoLiteral /\ IsText(l)
      BY <3>2, <3>3, IpAssumption DEF IsText
    <3> QED
      BY <1>2, <2>2, <3>1, <3>3, <3>5, <3>6 DEF Family, FamilyOf
  <2>3. CASE t.form \in {"v4", "v6"}
    <3> DEFINE l == Plain(t.form, t.left, t.gap, t.right, t.octets)
    <3>1. Literal(t) = l
      BY <2>1, <2>3 DEF Literal
    <3>2. l \in Texts
      BY DEF Texts, Plain
    <3>3. /\ l.form = t.form /\ l.octets = t.octets /\ l.port = FALSE
          /\ l.left = t.left /\ l.right = t.right /\ l.gap = t.gap
          /\ l = Plain(l.form, l.left, l.gap, l.right, l.octets)
      BY DEF Plain
    <3> HIDE DEF l
    <3>4. IsAddress(l)
      BY <2>1, <3>3 DEF IsAddress
    <3>5. Literal(l) = l
      BY <2>3, <3>3, <3>4 DEF Literal
    <3>6. l # NoLiteral /\ IsText(l)
      BY <3>2, <3>3, IpAssumption DEF IsText
    <3> QED
      BY <1>2, <2>3, <3>1, <3>3, <3>5, <3>6 DEF Family, FamilyOf
  <2> QED
    BY <2>1, <2>2, <2>3
<1> QED
  BY <1>1, <1>2

(* A dotted tail makes groups.                                              *)
LEMMA GroupsTyped ==
    ASSUME NEW octets \in Seq(Octet)
    PROVE  /\ GroupsOf(octets) \in Seq(Group)
           /\ Len(GroupsOf(octets)) = Len(octets) \div 2
<1> DEFINE half == Len(octets) \div 2
           D == TwoTo[OctetBits]
<1>1. /\ half \in Nat /\ Len(octets) \in Nat
      /\ \A i \in 1..half : 2 * i - 1 \in 1..Len(octets) /\ 2 * i \in 1..Len(octets)
  OBVIOUS
<1>2. D \in Nat \ {0} /\ TwoTo[2 * OctetBits] = D * D
  <2>1. OctetBits \in Nat /\ 2 * OctetBits = OctetBits + OctetBits
    BY IpAssumption
  <2> QED
    BY <2>1, TwoToRecursion, TwoToSum
<1>3. \A i \in 1..Len(octets) : octets[i] \in 0..D - 1
  <2>1. \A i \in 1..Len(octets) : octets[i] \in Octet
    OBVIOUS
  <2> QED
    BY <2>1 DEF Octet
<1> HIDE DEF half, D
<1>4. ASSUME NEW i \in 1..half
      PROVE  octets[2 * i - 1] * D + octets[2 * i] \in Group
  <2> DEFINE x == octets[2 * i - 1]
             y == octets[2 * i]
  <2>1. x \in 0..D - 1 /\ y \in 0..D - 1
    BY <1>1, <1>3
  <2> HIDE DEF x, y
  <2>2. x * D >= 0 /\ x * D <= (D - 1) * D /\ (D - 1) * D = D * D - D
    BY <1>2, <2>1
  <2>3. x * D + y \in 0..(D * D) - 1
    BY <1>2, <2>1, <2>2
  <2> QED
    BY <1>2, <2>3 DEF Group, x, y
<1>5. GroupsOf(octets) = [i \in 1..half |-> octets[2 * i - 1] * D + octets[2 * i]]
  BY DEF GroupsOf, half, D
<1>6. GroupsOf(octets) \in [1..half -> Group]
  BY <1>4, <1>5
<1> QED
  BY <1>1, <1>6 DEF half

(* Where everything is in three sequences that are put together.            *)
LEMMA ThreeParts ==
    ASSUME NEW S, NEW a \in Seq(S), NEW b \in Seq(S), NEW c \in Seq(S)
    PROVE  /\ a \o b \o c \in Seq(S)
           /\ Len(a \o b \o c) = Len(a) + Len(b) + Len(c)
           /\ \A i \in 1..Len(a) : (a \o b \o c)[i] = a[i]
           /\ \A i \in 1..Len(b) : (a \o b \o c)[Len(a) + i] = b[i]
           /\ \A i \in 1..Len(c) : (a \o b \o c)[Len(a) + Len(b) + i] = c[i]
<1> DEFINE u == a \o b
<1>1. /\ u \in Seq(S) /\ Len(u) = Len(a) + Len(b)
      /\ \A i \in 1..Len(a) + Len(b) :
            u[i] = IF i <= Len(a) THEN a[i] ELSE b[i - Len(a)]
  BY ConcatProperties
<1>2. Len(a) \in Nat /\ Len(b) \in Nat /\ Len(c) \in Nat
  BY LenProperties
<1>3. /\ \A i \in 1..Len(a) : u[i] = a[i]
      /\ \A i \in 1..Len(b) : u[Len(a) + i] = b[i]
  BY <1>1, <1>2
<1> HIDE DEF u
<1>4. /\ u \o c \in Seq(S) /\ Len(u \o c) = Len(u) + Len(c)
      /\ \A i \in 1..Len(u) + Len(c) :
            (u \o c)[i] = IF i <= Len(u) THEN u[i] ELSE c[i - Len(u)]
  <2>1. u \in Seq(S)
    BY <1>1
  <2> QED
    BY <2>1, ConcatProperties
<1>5. /\ \A i \in 1..Len(u) : (u \o c)[i] = u[i]
      /\ \A i \in 1..Len(c) : (u \o c)[Len(u) + i] = c[i]
  BY <1>1, <1>2, <1>4
<1>6. /\ \A i \in 1..Len(a) : (u \o c)[i] = a[i]
      /\ \A i \in 1..Len(b) : (u \o c)[Len(a) + i] = b[i]
      /\ \A i \in 1..Len(c) : (u \o c)[Len(a) + Len(b) + i] = c[i]
  BY <1>1, <1>2, <1>3, <1>5
<1> QED
  BY <1>1, <1>4, <1>6 DEF u

(* "::" becomes the zeros that are missing.                                 *)
LEMMA ExpandedParts ==
    ASSUME NEW t \in Texts, Denotes(t), FamilyOf(t) = 6
    PROVE  /\ Expanded(t) \in Seq(Group)
           /\ Len(Expanded(t)) = V6Groups
           /\ \A i \in 1..V6Groups : PartOf(t, i) = Expanded(t)[i]
<1> DEFINE left == t.left
           groups == GroupsOf(t.octets)
           tail == t.right \o groups
           gap == V6Groups - Len(left) - Len(tail)
           zeros == [i \in 1..gap |-> 0]
<1>1. /\ left \in Seq(Group) /\ t.right \in Seq(Group)
      /\ groups \in Seq(Group)
      /\ Len(groups) = Len(t.octets) \div 2
  BY GroupsTyped DEF Texts
<1>2. tail \in Seq(Group) /\ Len(tail) = Len(t.right) + Len(t.octets) \div 2
  <2> HIDE DEF groups
  <2>1. tail \in Seq(Group) /\ Len(tail) = Len(t.right) + Len(groups)
    BY <1>1, ConcatProperties
  <2> QED
    BY <1>1, <2>1
<1>3. Len(left) \in Nat /\ Len(t.right) \in Nat /\ Len(tail) \in Nat /\ V6Groups \in Nat
  BY <1>1, <1>2, IpAssumption, LenProperties
<1>4. Len(left) + Len(t.right) + Len(t.octets) \div 2 <= V6Groups
  <2>1. t.form = "v6" /\ IsAddress(t)
    BY DEF FamilyOf, Denotes
  <2> DEFINE sum == Len(left) + Len(t.right) + Len(t.octets) \div 2
  <2>2. IF t.gap THEN sum < V6Groups ELSE sum = V6Groups
    BY <2>1 DEF IsAddress
  <2>3. sum \in Int
    <3>1. Len(t.octets) \div 2 \in Int
      BY DEF Texts
    <3> QED
      BY <1>3, <3>1
  <2> HIDE DEF sum
  <2>4. sum <= V6Groups
    BY <1>3, <2>2, <2>3
  <2> QED
    BY <2>4 DEF sum
<1>5. Expanded(t) = left \o zeros \o tail
  BY DEF Expanded
<1>6. \A i \in 1..V6Groups :
         PartOf(t, i) = IF i <= Len(left) THEN left[i]
                        ELSE IF i - (V6Groups - Len(tail)) > 0
                             THEN tail[i - (V6Groups - Len(tail))] ELSE 0
  BY DEF PartOf
<1>7. gap \in Nat /\ V6Groups = Len(left) + gap + Len(tail)
  <2> DEFINE half == Len(t.octets) \div 2
             right == Len(t.right)
  <2>1. half \in Nat /\ right \in Nat
    BY DEF Texts
  <2>2. Len(left) + Len(tail) <= V6Groups
    <3>1. Len(tail) = right + half /\ Len(left) + right + half <= V6Groups
      BY <1>2, <1>4
    <3> HIDE DEF half, right, left, tail
    <3> QED
      BY <1>3, <2>1, <3>1
  <2> HIDE DEF left, tail
  <2> QED
    BY <1>3, <2>2
<1>8. 0 \in Group
  <2>1. TwoTo[2 * OctetBits] \in Nat \ {0}
    BY IpAssumption, TwoToRecursion
  <2> QED
    BY <2>1 DEF Group
<1> HIDE DEF left, tail, gap
<1>9. zeros \in Seq(Group) /\ Len(zeros) = gap /\ \A i \in 1..gap : zeros[i] = 0
  <2>1. zeros \in [1..gap -> Group]
    BY <1>8
  <2>2. zeros \in Seq(Group)
    BY <1>7, <2>1
  <2>3. Len(zeros) = gap
    BY <1>7, <2>2
  <2> QED
    BY <2>2, <2>3
<1> HIDE DEF zeros
<1> DEFINE parts == left \o zeros \o tail
<1>10. /\ parts \in Seq(Group) /\ Len(parts) = Len(left) + gap + Len(tail)
       /\ \A i \in 1..Len(left) : parts[i] = left[i]
       /\ \A i \in 1..gap : parts[Len(left) + i] = zeros[i]
       /\ \A i \in 1..Len(tail) : parts[Len(left) + gap + i] = tail[i]
  <2>1. left \in Seq(Group) /\ zeros \in Seq(Group) /\ tail \in Seq(Group)
    BY <1>1, <1>2, <1>9
  <2>2. /\ left \o zeros \o tail \in Seq(Group)
        /\ Len(left \o zeros \o tail) = Len(left) + Len(zeros) + Len(tail)
        /\ \A i \in 1..Len(left) : (left \o zeros \o tail)[i] = left[i]
        /\ \A i \in 1..Len(zeros) : (left \o zeros \o tail)[Len(left) + i] = zeros[i]
        /\ \A i \in 1..Len(tail) :
              (left \o zeros \o tail)[Len(left) + Len(zeros) + i] = tail[i]
    BY <2>1, ThreeParts
  <2> QED
    BY <1>9, <2>2
<1> HIDE DEF parts
<1>11. ASSUME NEW i \in 1..V6Groups
       PROVE  PartOf(t, i) = parts[i]
  <2>1. V6Groups - Len(tail) = Len(left) + gap
    BY <1>3, <1>7
  <2>2. CASE i <= Len(left)
    <3>1. i \in 1..Len(left)
      BY <1>3, <2>2
    <3> QED
      BY <1>6, <1>10, <2>2, <3>1
  <2>3. CASE i > Len(left) /\ i <= Len(left) + gap
    <3> DEFINE j == i - Len(left)
    <3>1. j \in 1..gap /\ Len(left) + j = i /\ ~(i - (V6Groups - Len(tail)) > 0)
      BY <1>3, <1>7, <2>1, <2>3
    <3> HIDE DEF j
    <3>2. parts[i] = 0
      BY <1>9, <1>10, <3>1
    <3> QED
      BY <1>3, <1>6, <2>3, <3>1, <3>2
  <2>4. CASE i > Len(left) + gap
    <3> DEFINE j == i - (V6Groups - Len(tail))
    <3>1. j \in 1..Len(tail) /\ Len(left) + gap + j = i /\ ~(i <= Len(left)) /\ j > 0
      BY <1>3, <1>7, <2>1, <2>4
    <3>2. PartOf(t, i) = tail[j]
      BY <1>6, <3>1
    <3> HIDE DEF j
    <3> QED
      BY <1>10, <3>1, <3>2
  <2>5. i \in Int /\ Len(left) \in Int /\ gap \in Int
    BY <1>3, <1>7
  <2> QED
    BY <2>2, <2>3, <2>4, <2>5
<1>12. Len(parts) = V6Groups
  BY <1>7, <1>10
<1> QED
  BY <1>5, <1>10, <1>11, <1>12 DEF parts

(* The parts that are shifted are the parts that the text means.            *)
LEMMA PartsOfAddress ==
    ASSUME NEW t \in Texts, Denotes(t)
    PROVE  LET K == PartCount(FamilyOf(t))
           IN  /\ Parts(Literal(t)) \in Words(K, Width(FamilyOf(t)))
               /\ \A i \in 1..K : PartOf(t, i) = Parts(Literal(t))[i]
<1> DEFINE l == Literal(t)
           w == Width(FamilyOf(t))
<1>1. /\ l \in Texts /\ Family(l) = FamilyOf(t) /\ FamilyOf(t) \in {4, 6}
      /\ l.octets = t.octets
      /\ FamilyOf(t) = 6 => l.left = t.left /\ l.right = t.right
  BY LiteralOf DEF IsText
<1>2. TwoTo[w] \in Nat \ {0}
  BY Widths, TwoToRecursion
<1> HIDE DEF l
<1>3. CASE FamilyOf(t) = 4
  <2>1. Parts(l) = t.octets /\ w = OctetBits /\ PartCount(FamilyOf(t)) = V4Octets
    BY <1>1, <1>3 DEF Parts, Width, PartCount
  <2>2. t.octets \in Seq(Octet) /\ Len(t.octets) = V4Octets
    BY <1>3 DEF Denotes, IsAddress, FamilyOf, Texts
  <2>3. \A i \in 1..V4Octets : t.octets[i] \in 0..TwoTo[w] - 1
    <3>1. \A i \in 1..V4Octets : t.octets[i] \in Octet
      BY <2>2
    <3> QED
      BY <2>1, <3>1 DEF Octet
  <2>4. t.octets \in Seq(Nat)
    <3>1. Octet \subseteq Nat
      BY DEF Octet
    <3> QED
      BY <2>2, <3>1, SeqMonotonic
  <2>5. Parts(l) \in Words(V4Octets, w)
    BY <1>2, <2>1, <2>2, <2>3, <2>4 DEF Words
  <2>6. \A i \in 1..V4Octets : PartOf(t, i) = t.octets[i]
    BY <1>3 DEF PartOf
  <2> QED
    BY <2>1, <2>5, <2>6 DEF l
<1>4. CASE FamilyOf(t) = 6
  <2>1. Parts(l) = Expanded(l) /\ w = 2 * OctetBits /\ PartCount(FamilyOf(t)) = V6Groups
    BY <1>1, <1>4 DEF Parts, Width, PartCount
  <2>2. Expanded(l) = Expanded(t)
    BY <1>1, <1>4 DEF Expanded
  <2>3. /\ Expanded(t) \in Seq(Group) /\ Len(Expanded(t)) = V6Groups
        /\ \A i \in 1..V6Groups : PartOf(t, i) = Expanded(t)[i]
    BY <1>4, ExpandedParts
  <2> DEFINE parts == Expanded(t)
  <2> HIDE DEF parts
  <2>4. parts \in Seq(Group) /\ Len(parts) = V6Groups
    BY <2>3 DEF parts
  <2>5. \A i \in 1..V6Groups : parts[i] \in 0..TwoTo[w] - 1
    <3>1. \A i \in 1..V6Groups : parts[i] \in Group
      BY <2>4
    <3> QED
      BY <2>1, <3>1 DEF Group
  <2>6. parts \in Seq(Nat)
    <3>1. Group \subseteq Nat
      BY DEF Group
    <3> QED
      BY <2>4, <3>1, SeqMonotonic
  <2>7. parts \in Words(V6Groups, w)
    BY <1>2, <2>4, <2>5, <2>6 DEF Words
  <2> QED
    BY <2>1, <2>2, <2>3, <2>7 DEF parts, l
<1> QED
  BY <1>1, <1>3, <1>4

-----------------------------------------------------------------------------
(* The bits of the parts are the bits that the text means.                  *)
LEMMA BitsOfAddress ==
    ASSUME NEW t \in Texts, Denotes(t), NEW i \in 1..MaxBits(FamilyOf(t))
    PROVE  BitOf(t, i) = Bit(Parts(Literal(t)), Width(FamilyOf(t)), i)
<1> DEFINE K == PartCount(FamilyOf(t))
           w == Width(FamilyOf(t))
<1>1. K \in Nat /\ w \in Nat \ {0} /\ i \in 1..K * w
  BY Widths
<1> HIDE DEF K, w
<1>2. PartWith(w, i) \in 1..K
  BY <1>1, PlaceOfBit
<1>3. PartOf(t, PartWith(w, i)) = Parts(Literal(t))[PartWith(w, i)]
  BY <1>2, PartsOfAddress DEF K
<1>4. BitOf(t, i) = (PartOf(t, PartWith(w, i)) \div TwoTo[PlaceOf(w, i)]) % 2
  BY DEF BitOf, PartWith, PlaceOf, w
<1> QED
  BY <1>3, <1>4 DEF Bit, w

(* A rule can be read exactly if the parser reads it; what it stores is a    *)
(* rule that it reads in the same way.                                      *)
LEMMA ParseRuleOf ==
    ASSUME NEW r \in Rules
    PROVE  /\ Readable(r) <=> ParseRule(r) # NoRule
           /\ Readable(r) =>
                 LET parsed == ParseRule(r)
                 IN  /\ Denotes(r.text)
                     /\ parsed.network = Literal(r.text)
                     /\ parsed.prefix = IF r.prefix = NoPrefix
                                        THEN MaxBits(FamilyOf(r.text)) ELSE r.prefix
                     /\ parsed.prefix \in 0..MaxBits(FamilyOf(r.text))
                     /\ IsRule(parsed.source)
                     /\ Readable(parsed.source)
                     /\ ParseRule(parsed.source) = parsed
<1> DEFINE family == FamilyOf(r.text)
           network == Literal(r.text)
<1>1. r.text \in Texts /\ r.prefix \in Nat \cup {NoPrefix, JunkPrefix}
  BY DEF Rules
<1>2. MaxBits(family) \in Nat \ {0}
  BY Widths
<1>3. CASE ~Denotes(r.text)
  <2>1. network = NoLiteral
    BY <1>1, <1>3, LiteralOf
  <2> QED
    BY <1>3, <2>1 DEF Readable, ParseRule
<1>4. CASE Denotes(r.text)
  <2>1. /\ network # NoLiteral /\ IsText(network) /\ network \in Texts
        /\ Family(network) = family /\ Literal(network) = network
    BY <1>1, <1>4, LiteralOf DEF IsText
  <2>2. Denotes(network) /\ FamilyOf(network) = family
    <3>1. Denotes(network)
      BY <2>1, LiteralOf
    <3> QED
      BY <2>1, <3>1, LiteralOf
  <2> HIDE DEF network, family
  <2>3. CASE r.prefix = JunkPrefix
    BY <2>3 DEF Readable, ParseRule
  <2>4. CASE r.prefix = NoPrefix
    <3> DEFINE parsed == [network |-> network, prefix |-> MaxBits(family),
                          source |-> Source(network, NoPrefix)]
    <3>1. NoPrefix # JunkPrefix
      BY IpAssumption
    <3>2. ParseRule(r) = parsed
      BY <2>1, <2>4, <3>1 DEF ParseRule, network, family
    <3>3. /\ parsed.source.text = network /\ parsed.source.prefix = NoPrefix
          /\ parsed.network = network /\ parsed.prefix = MaxBits(family)
          /\ parsed.source = Source(network, NoPrefix)
          /\ parsed.source \in Rules
      BY <2>1 DEF Source, Rules
    <3>4. parsed # NoRule
      <4>1. parsed \in [network : Texts, prefix : Nat, source : Rules]
        BY <1>2, <2>1, <3>3
      <4> QED
        BY <4>1, IpAssumption
    <3>5. ParseRule(parsed.source) = parsed
      BY <2>1, <3>1, <3>3 DEF ParseRule
    <3>6. Readable(r) /\ Readable(parsed.source) /\ IsRule(parsed.source)
      BY <1>4, <2>1, <2>2, <2>4, <3>1, <3>3 DEF Readable, IsRule
    <3> HIDE DEF parsed
    <3> QED
      BY <1>2, <1>4, <2>4, <3>2, <3>3, <3>4, <3>5, <3>6 DEF network, family
  <2>5. CASE r.prefix \in Nat /\ r.prefix > MaxBits(family)
    <3>1. r.prefix # NoPrefix /\ r.prefix # JunkPrefix
      BY <2>5, IpAssumption
    <3> QED
      BY <1>2, <2>1, <2>5, <3>1 DEF Readable, ParseRule, network, family
  <2>6. CASE r.prefix \in Nat /\ r.prefix <= MaxBits(family)
    <3> DEFINE parsed == [network |-> network, prefix |-> r.prefix,
                          source |-> Source(network, r.prefix)]
    <3>1. r.prefix # NoPrefix /\ r.prefix # JunkPrefix /\ ~(r.prefix > MaxBits(family))
      BY <1>2, <2>6, IpAssumption
    <3>2. ParseRule(r) = parsed
      BY <2>1, <3>1 DEF ParseRule, network, family
    <3>3. /\ parsed.source.text = network /\ parsed.source.prefix = r.prefix
          /\ parsed.network = network /\ parsed.prefix = r.prefix
          /\ parsed.source = Source(network, r.prefix)
          /\ parsed.source \in Rules
      BY <1>1, <2>1 DEF Source, Rules
    <3>4. parsed # NoRule
      <4>1. parsed \in [network : Texts, prefix : Nat, source : Rules]
        BY <2>1, <2>6, <3>3
      <4> QED
        BY <4>1, IpAssumption
    <3>5. ParseRule(parsed.source) = parsed
      BY <2>1, <3>1, <3>3 DEF ParseRule
    <3>6. Readable(r) /\ Readable(parsed.source) /\ IsRule(parsed.source)
      BY <1>4, <2>1, <2>2, <2>6, <3>1, <3>3 DEF Readable, IsRule, family
    <3> HIDE DEF parsed
    <3> QED
      BY <1>2, <1>4, <2>6, <3>1, <3>2, <3>3, <3>4, <3>5, <3>6 DEF network, family
  <2> QED
    BY <1>1, <1>2, <2>3, <2>4, <2>5, <2>6
<1> QED
  BY <1>3, <1>4

(* The comparison of masked numbers decides what the rule says of the       *)
(* address, bit for bit.                                                    *)
LEMMA CidrCovers ==
    ASSUME NEW r \in Rules, Readable(r), NEW t \in Texts, Denotes(t)
    PROVE  InCidr(Literal(t), ParseRule(r)) <=> Covers(r, t)
<1> DEFINE rule == ParseRule(r)
           client == Literal(t)
           family == FamilyOf(t)
           K == PartCount(family)
           w == Width(family)
<1>1. /\ r.text \in Texts /\ Denotes(r.text) /\ rule.network = Literal(r.text)
      /\ rule.prefix = IF r.prefix = NoPrefix
                       THEN MaxBits(FamilyOf(r.text)) ELSE r.prefix
      /\ rule.prefix \in 0..MaxBits(FamilyOf(r.text))
  BY ParseRuleOf DEF Rules
<1>2. Family(client) = family /\ Family(rule.network) = FamilyOf(r.text)
  BY <1>1, LiteralOf
<1>3. K \in Nat \ {0} /\ w \in Nat \ {0} /\ MaxBits(family) = K * w /\ MaxBits(family) \in Nat \ {0}
  BY Widths
<1> HIDE DEF rule, client
<1>4. CASE FamilyOf(r.text) # family
  BY <1>2, <1>4 DEF InCidr, Covers, rule, client
<1>5. CASE FamilyOf(r.text) = family
  <2> DEFINE a == Parts(client)
             b == Parts(rule.network)
  <2>1. a \in Words(K, w) /\ b \in Words(K, w)
    BY <1>1, <1>5, PartsOfAddress DEF client
  <2>2. Len(a) = K /\ Len(b) = K
    BY <2>1 DEF Words
  <2>3. \A i \in 1..K * w : BitOf(t, i) = Bit(a, w, i) /\ BitOf(r.text, i) = Bit(b, w, i)
    BY <1>1, <1>3, <1>5, BitsOfAddress DEF client
  <2>4. Number(client) = Shifted(a, w)[K] /\ Number(rule.network) = Shifted(b, w)[K]
    BY <1>2, <1>5, <2>2 DEF Number
  <2>5. Covers(r, t) <=> \A i \in 1..rule.prefix : BitOf(r.text, i) = BitOf(t, i)
    BY <1>1, <1>5 DEF Covers
  <2>6. InCidr(client, rule) <=>
            \/ rule.prefix = 0
            \/ Masked(Number(client), K * w - rule.prefix)
               = Masked(Number(rule.network), K * w - rule.prefix)
    BY <1>2, <1>3, <1>5 DEF InCidr
  <2> HIDE DEF a, b
  <2>7. rule.prefix \in 0..K * w
    BY <1>1, <1>3, <1>5
  <2> HIDE DEF K, w, family
  <2>8. CASE rule.prefix = 0
    <3>1. 1..rule.prefix = {}
      BY <2>8
    <3> QED
      BY <2>5, <2>6, <2>8, <3>1 DEF rule, client
  <2>9. CASE rule.prefix # 0
    <3>1. rule.prefix \in 1..K * w
      BY <1>3, <2>7, <2>9
    <3>2. Masked(Shifted(a, w)[K], K * w - rule.prefix) = Masked(Shifted(b, w)[K], K * w - rule.prefix)
          <=> \A i \in 1..rule.prefix : Bit(a, w, i) = Bit(b, w, i)
      BY <1>3, <2>1, <3>1, MaskComparesPrefix
    <3>3. \A i \in 1..rule.prefix : i \in 1..K * w
      BY <1>3, <3>1
    <3> QED
      BY <2>3, <2>4, <2>5, <2>6, <2>9, <3>2, <3>3 DEF rule, client
  <2> QED
    BY <2>8, <2>9
<1> QED
  BY <1>4, <1>5

(* A sequence that another one is appended to keeps its first element.      *)
LEMMA FirstOfConcat ==
    ASSUME NEW S, NEW a \in Seq(S), NEW b \in Seq(S), Len(a) >= 1
    PROVE  a \o b \in Seq(S) /\ Len(a \o b) >= 1 /\ (a \o b)[1] = a[1]
<1>1. a \o b \in Seq(S) /\ Len(a \o b) = Len(a) + Len(b)
  BY ConcatProperties
<1>2. Len(a) \in Nat /\ Len(b) \in Nat
  OBVIOUS
<1>3. (a \o b)[1] = a[1]
  BY <1>2, ConcatProperties
<1> QED
  BY <1>1, <1>2, <1>3

(* A readable req.ip is the address that counts.                            *)
LEMMA FirstCounts ==
    ASSUME NEW d \in Deliveries, d.ip # <<>>, Denotes(d.ip[1])
    PROVE  d.ip[1] \in Texts /\ ClientIp(d) = Literal(d.ip[1])
<1> DEFINE first == SubSeq(d.forwarded, 1, IF d.forwarded = <<>> THEN 0 ELSE 1)
           rest == d.ips \o d.forwarded
           texts == Candidates(d)
<1>1. /\ d.ip \in Seq(Texts) /\ d.ips \in Seq(Texts) /\ d.forwarded \in Seq(Texts)
      /\ d.remote \in Seq(Texts) /\ Len(d.ip) \in Nat /\ Len(d.ip) >= 1
  BY IpAssumption DEF IsDelivery
<1>2. first \in Seq(Texts)
  BY <1>1
<1>3. d.ip[1] \in Texts
  BY <1>1
<1> DEFINE a == d.ip \o d.ips
           b == a \o d.forwarded
           c == b \o first
<1>4. a \in Seq(Texts) /\ Len(a) >= 1 /\ a[1] = d.ip[1]
  BY <1>1, FirstOfConcat
<1>5. b \in Seq(Texts) /\ Len(b) >= 1 /\ b[1] = d.ip[1]
  <2> HIDE DEF a
  <2> QED
    BY <1>1, <1>4, FirstOfConcat
<1>6. c \in Seq(Texts) /\ Len(c) >= 1 /\ c[1] = d.ip[1]
  <2> HIDE DEF b, first
  <2> QED
    BY <1>1, <1>2, <1>5
<1>7. Len(texts) \in Nat /\ Len(texts) >= 1 /\ texts[1] = d.ip[1]
  <2>1. texts = c \o d.remote
    BY DEF Candidates
  <2> HIDE DEF c, texts
  <2> QED
    BY <1>1, <1>6, <2>1
<1> HIDE DEF texts
<1> DEFINE holds == {i \in 1..Len(texts) : Literal(texts[i]) # NoLiteral}
<1>8. 1 \in holds /\ \A i \in holds : 1 <= i /\ i \in Int
  BY <1>3, <1>7, LiteralOf
<1> HIDE DEF holds
<1>9. (CHOOSE i \in holds : \A j \in holds : i <= j) = 1
  <2>1. \A i \in holds : (\A j \in holds : i <= j) => i = 1
    BY <1>8
  <2> QED
    BY <1>8, <2>1
<1>10. ClientIp(d) = Literal(texts[1])
  BY <1>8, <1>9 DEF ClientIp, holds, texts
<1> QED
  BY <1>3, <1>7, <1>10

-----------------------------------------------------------------------------
(* Lists of rules.                                                          *)

(* A rule that can be read and the form it is stored in cover the same      *)
(* addresses.                                                               *)
LEMMA SourceCovers ==
    ASSUME NEW r \in Rules, Readable(r), NEW t \in Texts, Denotes(t)
    PROVE  Covers(ParseRule(r).source, t) <=> Covers(r, t)
<1>1. /\ ParseRule(r).source \in Rules /\ Readable(ParseRule(r).source)
      /\ ParseRule(ParseRule(r).source) = ParseRule(r)
  BY ParseRuleOf DEF IsRule
<1>2. InCidr(Literal(t), ParseRule(r)) <=> Covers(r, t)
  BY CidrCovers
<1>3. InCidr(Literal(t), ParseRule(ParseRule(r).source)) <=> Covers(ParseRule(r).source, t)
  BY <1>1, CidrCovers
<1> QED
  BY <1>1, <1>2, <1>3

(* The stored forms of rules that can be read are read back as they are.    *)
LEMMA SourcesReadBack ==
    ASSUME NEW rules, \A r \in rules : r \in Rules /\ Readable(r)
    PROVE  LET sources == {ParseRule(r).source : r \in rules}
           IN  /\ \A e \in sources : IsRule(e) /\ Readable(e) /\ e # NotText
               /\ Sanitized(sources) = sources
<1> DEFINE sources == {ParseRule(r).source : r \in rules}
<1>1. \A e \in sources : /\ IsRule(e) /\ Readable(e) /\ e # NotText
                         /\ ParseRule(e) # NoRule /\ ParseRule(e).source = e
  <2> SUFFICES ASSUME NEW r \in rules
               PROVE  LET e == ParseRule(r).source
                      IN  /\ IsRule(e) /\ Readable(e) /\ e # NotText
                          /\ ParseRule(e) # NoRule /\ ParseRule(e).source = e
    OBVIOUS
  <2> DEFINE e == ParseRule(r).source
  <2>1. ParseRule(r) # NoRule /\ IsRule(e) /\ Readable(e) /\ ParseRule(e) = ParseRule(r)
    BY ParseRuleOf
  <2>2. e \in Rules /\ e # NotText
    BY <2>1, IpAssumption DEF IsRule
  <2> QED
    BY <2>1, <2>2
<1> HIDE DEF sources
<1>2. {f \in sources \ {NotText} : ParseRule(f) # NoRule} = sources
  BY <1>1
<1>3. Sanitized(sources) = {ParseRule(e).source : e \in sources}
  BY <1>2 DEF Sanitized
<1>4. {ParseRule(e).source : e \in sources} = sources
  BY <1>1
<1> QED
  BY <1>1, <1>3, <1>4 DEF sources

(* What is read of a list: the sources of its rules that can be read.       *)
LEMMA SanitizedIsSources ==
    ASSUME NEW entries, \A e \in entries \ {NotText} : IsRule(e)
    PROVE  LET rules == {e \in entries \ {NotText} : Readable(e)}
           IN  /\ \A r \in rules : r \in Rules /\ Readable(r)
               /\ Sanitized(entries) = {ParseRule(r).source : r \in rules}
<1>1. \A e \in entries \ {NotText} : e \in Rules
  BY DEF IsRule
<1>2. \A e \in entries \ {NotText} : Readable(e) <=> ParseRule(e) # NoRule
  BY <1>1, ParseRuleOf
<1>3. {e \in entries \ {NotText} : ParseRule(e) # NoRule}
      = {e \in entries \ {NotText} : Readable(e)}
  BY <1>2
<1>4. Sanitized(entries)
      = {ParseRule(e).source : e \in {e \in entries \ {NotText} : Readable(e)}}
  BY <1>3 DEF Sanitized
<1> QED
  BY <1>1, <1>4

(* Reading a list that was read changes nothing more.                       *)
LEMMA SanitizedTwice ==
    ASSUME NEW entries, \A e \in entries \ {NotText} : IsRule(e)
    PROVE  /\ \A e \in Sanitized(entries) : IsRule(e) /\ Readable(e) /\ e # NotText
           /\ Sanitized(Sanitized(entries)) = Sanitized(entries)
<1> DEFINE rules == {e \in entries \ {NotText} : Readable(e)}
<1>1. /\ \A r \in rules : r \in Rules /\ Readable(r)
      /\ Sanitized(entries) = {ParseRule(r).source : r \in rules}
  BY SanitizedIsSources
<1> HIDE DEF rules
<1> QED
  BY <1>1, SourcesReadBack

(* The decision on a request whose req.ip can be read: no entry of the list *)
(* can be read, or an entry covers the address.                             *)
LEMMA OutcomeOf ==
    ASSUME NEW entries, \A e \in entries \ {NotText} : IsRule(e),
           NEW d \in Deliveries, d.ip # <<>>, Denotes(d.ip[1])
    PROVE  Outcome(entries, d) = "allowed" <=>
               \/ \A e \in entries \ {NotText} : ~Readable(e)
               \/ \E e \in entries \ {NotText} : Covers(e, d.ip[1])
<1> DEFINE rules == {e \in entries \ {NotText} : Readable(e)}
           sources == {ParseRule(r).source : r \in rules}
           t == d.ip[1]
<1>1. t \in Texts /\ ClientIp(d) = Literal(t) /\ ClientIp(d) # NoLiteral
  BY FirstCounts, LiteralOf
<1>2. (\A r \in rules : r \in Rules /\ Readable(r)) /\ Sanitized(entries) = sources
  BY SanitizedIsSources
<1>3. \A r \in rules : /\ ParseRule(ParseRule(r).source) = ParseRule(r)
                       /\ ParseRule(r) # NoRule
                       /\ InCidr(Literal(t), ParseRule(r)) <=> Covers(r, t)
  BY <1>1, <1>2, ParseRuleOf, CidrCovers
<1>4. \A e \in entries \ {NotText} : Covers(e, t) => e \in rules
  BY DEF Covers
<1>5. sources = {} <=> \A e \in entries \ {NotText} : ~Readable(e)
  OBVIOUS
<1>6. (\E e \in sources : ParseRule(e) # NoRule /\ InCidr(Literal(t), ParseRule(e)))
      <=> \E e \in entries \ {NotText} : Covers(e, t)
  <2>1. (\E e \in sources : ParseRule(e) # NoRule /\ InCidr(Literal(t), ParseRule(e)))
        <=> \E r \in rules : Covers(r, t)
    <3> HIDE DEF rules, t
    <3> QED
      BY <1>3
  <2>2. (\E r \in rules : Covers(r, t)) <=> \E e \in entries \ {NotText} : Covers(e, t)
    BY <1>4
  <2> QED
    BY <2>1, <2>2
<1> HIDE DEF sources, rules, t
<1>7. ClientIpAllowed(ClientIp(d), sources) <=>
          \/ sources = {}
          \/ \E e \in entries \ {NotText} : Covers(e, t)
  BY <1>1, <1>6 DEF ClientIpAllowed
<1>8. Outcome(entries, d) = "allowed" <=>
          sources = {} \/ \E e \in entries \ {NotText} : Covers(e, t)
  BY <1>1, <1>2, <1>7 DEF Outcome
<1> QED
  BY <1>5, <1>8 DEF t

-----------------------------------------------------------------------------
(* The record.                                                              *)

(* The list that the library wrote last holds the sources of its rules.     *)
AsWritten ==
    ~foreign => /\ stored = {ParseRule(r).source : r \in intended}
                /\ \A r \in intended : Readable(r)

(* The invariant that is inductive.                                         *)
ListInv == TypeOK /\ AsWritten

(* The invariant holds in every state.                                      *)
LEMMA ListInvariant == Spec => []ListInv
<1>1. Init => ListInv
  BY DEF Init, ListInv, TypeOK, AsWritten
<1>2. ListInv /\ [Next]_vars => ListInv'
  <2> SUFFICES ASSUME ListInv, [Next]_vars
               PROVE  ListInv'
    OBVIOUS
  <2> USE DEF ListInv
  <2>1. /\ \A r \in RuleTexts : IsRule(r) /\ r \in Rules
        /\ \A e \in Strays \ {NotText} : IsRule(e)
    BY IpAssumption DEF IsRule
  <2>2. \A r \in intended : r \in RuleTexts /\ r \in Rules
    BY <2>1 DEF TypeOK
  <2>3. CASE \E rules \in Lists(RuleTexts) : SetAllowedIps(rules)
    <3>1. PICK rules \in Lists(RuleTexts) : SetAllowedIps(rules)
      BY <2>3
    <3>2. rules \subseteq RuleTexts
      BY DEF Lists
    <3>3. \A r \in rules : r \in Rules /\ Readable(r)
      BY <2>1, <3>1, <3>2, ParseRuleOf DEF SetAllowedIps
    <3>4. stored' = {ParseRule(r).source : r \in rules} /\ intended' = rules /\ foreign' = FALSE
      BY <3>1 DEF SetAllowedIps
    <3>5. \A e \in stored' : IsRule(e) /\ Readable(e) /\ e # NotText
      BY <3>3, <3>4, SourcesReadBack
    <3>6. TypeOK'
      BY <3>2, <3>4, <3>5 DEF TypeOK
    <3>7. AsWritten'
      BY <3>3, <3>4 DEF AsWritten
    <3> QED
      BY <3>6, <3>7
  <2>4. CASE Rewrite
    <3>1. stored' = Sanitized(stored) /\ intended' = intended /\ foreign' = foreign
      BY <2>4 DEF Rewrite
    <3>2. \A e \in stored' : IsRule(e) /\ Readable(e) /\ e # NotText
      BY <3>1, SanitizedTwice DEF TypeOK
    <3>3. TypeOK'
      BY <3>1, <3>2 DEF TypeOK
    <3>4. AsWritten'
      <4> SUFFICES ASSUME ~foreign
                   PROVE  /\ Sanitized(stored) = {ParseRule(r).source : r \in intended}
                          /\ \A r \in intended : Readable(r)
        BY <3>1 DEF AsWritten
      <4>1. \A r \in intended : r \in Rules /\ Readable(r)
        BY <2>2 DEF AsWritten
      <4>2. Sanitized({ParseRule(r).source : r \in intended})
            = {ParseRule(r).source : r \in intended}
        BY <4>1, SourcesReadBack
      <4> QED
        BY <4>1, <4>2 DEF AsWritten
    <3> QED
      BY <3>3, <3>4
  <2>5. CASE \E entries \in Lists(RuleTexts \cup Strays) : EditOutside(entries)
    <3>1. PICK entries \in Lists(RuleTexts \cup Strays) : EditOutside(entries)
      BY <2>5
    <3>2. entries \subseteq RuleTexts \cup Strays
      BY DEF Lists
    <3> QED
      BY <2>1, <3>1, <3>2 DEF EditOutside, TypeOK, AsWritten
  <2>6. CASE UNCHANGED vars
    BY <2>6 DEF vars, TypeOK, AsWritten
  <2> QED
    BY <2>3, <2>4, <2>5, <2>6 DEF Next
<1> QED
  BY <1>1, <1>2, PTL DEF Spec

(* Type correctness; a list that the library wrote holds only rules that    *)
(* can be read.                                                             *)
THEOREM IpRulesTyped == Spec => []TypeOK
<1>1. ListInv => TypeOK
  BY DEF ListInv
<1> QED
  BY <1>1, ListInvariant, PTL

(* As long as only the library writes the list, a request whose req.ip can  *)
(* be read is allowed exactly if a rule covers that address bit for bit, or *)
(* if no rule was written.                                                  *)
THEOREM RulesMeanIt == Spec => []RulesMeanWhatTheySay
<1>1. ListInv => RulesMeanWhatTheySay
  <2> SUFFICES ASSUME ListInv, ~foreign, NEW d \in Deliveries,
                      d.ip # <<>>, Denotes(d.ip[1])
               PROVE  Outcome(stored, d) = "allowed" <=>
                          \/ intended = {}
                          \/ \E rule \in intended : Covers(rule, d.ip[1])
    BY DEF RulesMeanWhatTheySay
  <2> DEFINE t == d.ip[1]
  <2>1. /\ \A e \in stored \ {NotText} : IsRule(e)
        /\ NotText \notin stored /\ \A e \in stored : Readable(e)
    BY DEF ListInv, TypeOK
  <2>2. stored = {ParseRule(r).source : r \in intended} /\ \A r \in intended : Readable(r)
    BY DEF ListInv, AsWritten
  <2>3. \A r \in intended : r \in Rules
    BY IpAssumption DEF ListInv, TypeOK, IsRule
  <2>4. t \in Texts
    BY FirstCounts
  <2>5. Outcome(stored, d) = "allowed" <=>
            \/ \A e \in stored \ {NotText} : ~Readable(e)
            \/ \E e \in stored \ {NotText} : Covers(e, t)
    BY <2>1, OutcomeOf
  <2> HIDE DEF t
  <2>6. stored \ {NotText} = stored
    BY <2>1
  <2>7. (\A e \in stored : ~Readable(e)) <=> intended = {}
    BY <2>1, <2>2
  <2>8. \A r \in intended : Covers(ParseRule(r).source, t) <=> Covers(r, t)
    BY <2>2, <2>3, <2>4, SourceCovers DEF t
  <2>9. (\E e \in stored : Covers(e, t)) <=> \E r \in intended : Covers(r, t)
    BY <2>2, <2>8
  <2> QED
    BY <2>5, <2>6, <2>7, <2>9 DEF t
<1> QED
  BY <1>1, ListInvariant, PTL

(* Whatever is stored, an address outside of every readable entry gets in   *)
(* only if the list has no readable entry.                                  *)
THEOREM StraysHarmless == Spec => []StraysOpenOnlyAlone
<1>1. ListInv => StraysOpenOnlyAlone
  BY OutcomeOf DEF ListInv, TypeOK, StraysOpenOnlyAlone
<1> QED
  BY <1>1, ListInvariant, PTL

(* Storing the list as it was read changes no decision.                     *)
THEOREM RewriteHarmless == Spec => RewriteChangesNoDecision
<1>1. ListInv /\ [Next]_vars =>
      [Rewrite => \A d \in Deliveries : Outcome(stored', d) = Outcome(stored, d)]_vars
  <2> SUFFICES ASSUME ListInv, Rewrite, NEW d \in Deliveries
               PROVE  Outcome(stored', d) = Outcome(stored, d)
    OBVIOUS
  <2>1. Sanitized(stored') = Sanitized(stored)
    BY SanitizedTwice DEF Rewrite, ListInv, TypeOK
  <2> QED
    BY <2>1 DEF Outcome
<1> QED
  BY <1>1, ListInvariant, PTL DEF Spec, RewriteChangesNoDecision
===============================================================================
