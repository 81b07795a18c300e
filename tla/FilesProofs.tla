----------------------------- MODULE FilesProofs -----------------------------
(***************************************************************************)
(* Every parser keeps its types, puts each block in the cell the file     *)
(* keeps it in and gives all the blocks of the file, each once, for every  *)
(* file, size, word width and palette; and it panics only where it is said *)
(* to.                                                                     *)
(*                                                                         *)
(* The arithmetic comes first: the division and the remainders of the code *)
(* invert x + w * (z + l * y); a word's shift and mask, and the two words  *)
(* of an entry that straddles them, give the number its bits write.        *)
(* Everything about 2^n rests on 2^(n + 1) = 2 * 2^n, which is counted     *)
(* here as subsets of a set of n + 1 members (FS_SUBSET).                  *)
(***************************************************************************)
EXTENDS Files, FiniteSetTheorems, WellFoundedInduction, TLAPS

FromFile ==
  /\ file \in Schematics
  /\ reg = NoRegion \/ reg \in file.regions

FilesInv == TypeOK /\ FromFile /\ InFileOrder

-----------------------------------------------------------------------------
LEMMA Division ==
  ASSUME NEW a \in Nat, NEW d \in Nat, d > 0
  PROVE  a = d * (a \div d) + (a % d) /\ a % d \in 0..(d - 1) /\ a \div d \in Nat
OBVIOUS

LEMMA Quotient ==
  ASSUME NEW a \in Nat, NEW d \in Nat, d > 0, NEW q \in Nat, a < d * q
  PROVE  a \div d < q
OBVIOUS

LEMMA Positive ==
  ASSUME NEW w \in Nat, NEW l \in Nat, w * l > 0
  PROVE  w > 0 /\ l > 0 /\ w * l \in Nat
OBVIOUS

LEMMA Distribute ==
  ASSUME NEW w \in Nat, NEW l \in Nat, NEW x \in Nat, NEW y \in Nat, NEW z \in Nat
  PROVE  x + w * (z + l * y) = (x + w * z) + (w * l) * y
OBVIOUS

\* The cell of entry n, and that the file keeps it at n.
LEMMA CellOf ==
  ASSUME NEW w \in Nat, NEW l \in Nat, w * l > 0, NEW n \in Nat
  PROVE  /\ (n % (w * l)) % w \in 0..(w - 1) /\ (n % (w * l)) \div w \in 0..(l - 1)
         /\ n \div (w * l) \in Nat
         /\ ((n % (w * l)) % w) + w * (((n % (w * l)) \div w) + l * (n \div (w * l))) = n
<1> DEFINE a == w * l
           r == n % a
           y == n \div a
           x == r % w
           z == r \div w
<1>1. w > 0 /\ l > 0 /\ a \in Nat /\ a > 0
  BY Positive
<1>2. n = a * y + r /\ r \in 0..(a - 1) /\ y \in Nat
  BY <1>1, Division
<1>3. r \in Nat /\ r < w * l
  BY <1>1, <1>2
<1> HIDE DEF r
<1>4. r = w * z + x /\ x \in 0..(w - 1) /\ z \in Nat
  BY <1>1, <1>3, Division
<1>5. z < l
  BY <1>1, <1>3, Quotient
<1>6. x + w * (z + l * y) = (x + w * z) + (w * l) * y
  <2> HIDE DEF a, x, y, z
  <2>1. x \in Nat /\ y \in Nat /\ z \in Nat
    BY <1>1, <1>2, <1>4
  <2> QED
    BY <2>1, Distribute
<1> HIDE DEF x, y, z, a
<1>7. x + w * (z + l * y) = n
  <2>1. (w * l) * y = a * y /\ x \in Nat /\ w * z \in Nat /\ a * y \in Nat
    BY <1>1, <1>2, <1>4 DEF a
  <2> QED
    BY <1>2, <1>3, <1>4, <1>6, <2>1
<1>8. z \in 0..(l - 1)
  BY <1>4, <1>5
<1> QED
  BY <1>2, <1>4, <1>7, <1>8 DEF x, y, z, r, a

\* Induction over the numbers in a set.
LEMMA Induction ==
  ASSUME NEW S, 0 \in S, \A n \in Nat : n \in S => n + 1 \in S
  PROVE  Nat \subseteq S
<1> DEFINE R == {p \in Nat \X Nat : p[1] < p[2]}
<1>1. IsWellFoundedOn(R, Nat)
  BY NatLessThanWellFounded DEF OpToRel
<1> SUFFICES ASSUME Nat \ S # {} PROVE FALSE
    OBVIOUS
<1>2. PICK n \in Nat \ S : \A m \in Nat \ S : <<m, n>> \notin R
  <2> HIDE DEF R
  <2>1. Nat \ S \subseteq Nat
    OBVIOUS
  <2> QED BY <1>1, <2>1, WFMin
<1>3. n # 0 /\ n - 1 \in Nat /\ (n - 1) + 1 = n
  OBVIOUS
<1>4. n - 1 \in S
  <2>1. n - 1 < n
    BY <1>3
  <2>2. <<n - 1, n>> \in Nat \X Nat /\ <<n - 1, n>>[1] < <<n - 1, n>>[2]
    BY <1>3, <2>1
  <2>3. <<n - 1, n>> \in R
    BY <2>2
  <2> HIDE DEF R
  <2> QED BY <1>2, <1>3, <2>3
<1> QED BY <1>3, <1>4

\* A set with one more element has twice as many subsets.
LEMMA PowerStep ==
  ASSUME NEW n \in Nat
  PROVE  2^n \in Nat /\ 2^(n + 1) = 2 * 2^n
<1> DEFINE S == 1..n
           T == {U \cup {n + 1} : U \in SUBSET S}
<1>1. /\ IsFiniteSet(S) /\ Cardinality(S) = n
      /\ IsFiniteSet(1..(n + 1)) /\ Cardinality(1..(n + 1)) = n + 1
  BY FS_Interval
<1>2. IsFiniteSet(SUBSET S) /\ Cardinality(SUBSET S) = 2^n /\ 2^n \in Nat
  BY <1>1, FS_SUBSET, FS_CardinalityType
<1>3. Cardinality(SUBSET (1..(n + 1))) = 2^(n + 1)
  BY <1>1, FS_SUBSET
<1>4. ExistsBijection(SUBSET S, T)
  <2> DEFINE f == [U \in SUBSET S |-> U \cup {n + 1}]
  <2>1. n + 1 \notin S
    OBVIOUS
  <2>2. \A U, V \in SUBSET S : U \cup {n + 1} = V \cup {n + 1} => U = V
    BY <2>1
  <2>3. f \in Bijection(SUBSET S, T)
    <3>1. f \in [SUBSET S -> T]
      OBVIOUS
    <3>2. \A U, V \in SUBSET S : f[U] = f[V] => U = V
      BY <2>2
    <3>3. \A V \in T : \E U \in SUBSET S : f[U] = V
      OBVIOUS
    <3> HIDE DEF f, T, S
    <3> QED BY <3>1, <3>2, <3>3 DEF Bijection, Injection, Surjection, IsInjective
  <2> QED BY <2>3 DEF ExistsBijection
<1>5. IsFiniteSet(T) /\ Cardinality(T) = 2^n
  BY <1>2, <1>4, FS_Bijection
<1>6. SUBSET (1..(n + 1)) = (SUBSET S) \cup T
  <2>1. 1..(n + 1) = S \cup {n + 1}
    OBVIOUS
  <2>2. ASSUME NEW V \in SUBSET (S \cup {n + 1}), V \notin SUBSET S
        PROVE  V \in T
    <3>1. V = (V \ {n + 1}) \cup {n + 1} /\ V \ {n + 1} \in SUBSET S
      BY <2>2
    <3> QED BY <3>1
  <2>3. ASSUME NEW V \in T PROVE V \in SUBSET (S \cup {n + 1})
    OBVIOUS
  <2> HIDE DEF T
  <2>4. SUBSET (S \cup {n + 1}) = (SUBSET S) \cup T
    <3> HIDE DEF S
    <3> QED BY <2>2, <2>3
  <2> QED BY <2>1, <2>4
<1>7. (SUBSET S) \cap T = {}
  <2>1. n + 1 \notin S
    OBVIOUS
  <2> QED BY <2>1
<1>8. Cardinality((SUBSET S) \cup T) = 2^n + 2^n - Cardinality({})
  <2> HIDE DEF S, T
  <2> QED BY <1>2, <1>5, <1>7, FS_Union
<1>9. Cardinality({}) = 0
  BY FS_EmptySet
<1>10. 2^(n + 1) = 2^n + 2^n - 0
  BY <1>3, <1>6, <1>8, <1>9, Zenon
<1> QED BY <1>2, <1>10

LEMMA PowerPositive == \A n \in Nat : 2^n \in Nat /\ 2^n > 0
<1> DEFINE S == {n \in Nat : 2^n > 0}
<1>1. 0 \in S
  OBVIOUS
<1>2. \A n \in Nat : n \in S => n + 1 \in S
  BY PowerStep
<1>3. Nat \subseteq S
  <2> HIDE DEF S
  <2> QED BY <1>1, <1>2, Induction
<1> QED BY <1>3, PowerStep

LEMMA PowerSum ==
  ASSUME NEW a \in Nat, NEW b \in Nat
  PROVE  2^(a + b) = 2^a * 2^b
<1> DEFINE S == {n \in Nat : 2^(a + n) = 2^a * 2^n}
<1>1. 0 \in S
  <2>1. 2^a \in Nat /\ 2^0 = 1 /\ a + 0 = a
    BY PowerStep
  <2> QED BY <2>1
<1>2. \A n \in Nat : n \in S => n + 1 \in S
  <2> SUFFICES ASSUME NEW n \in Nat, n \in S PROVE 2^(a + (n + 1)) = 2^a * 2^(n + 1)
      OBVIOUS
  <2>1. 2^(a + n) = 2^a * 2^n /\ a + (n + 1) = (a + n) + 1 /\ a + n \in Nat
    OBVIOUS
  <2>2. /\ 2^((a + n) + 1) = 2 * 2^(a + n) /\ 2^(n + 1) = 2 * 2^n
        /\ 2^a \in Nat /\ 2^n \in Nat
    BY <2>1, PowerStep
  <2>3. ASSUME NEW x \in Nat, NEW y \in Nat PROVE 2 * (x * y) = x * (2 * y)
    OBVIOUS
  <2>4. 2 * (2^a * 2^n) = 2^a * (2 * 2^n)
    BY <2>2, <2>3
  <2> QED BY <2>1, <2>2, <2>4
<1>3. Nat \subseteq S
  <2> HIDE DEF S
  <2> QED BY <1>1, <1>2, Induction
<1> QED BY <1>3

LEMMA PowerGrows ==
  ASSUME NEW a \in Nat, NEW b \in Nat, a <= b
  PROVE  2^a <= 2^b
<1>1. b - a \in Nat /\ a + (b - a) = b
  OBVIOUS
<1>2. 2^b = 2^a * 2^(b - a) /\ 2^a \in Nat /\ 2^(b - a) \in Nat /\ 2^(b - a) > 0
  BY <1>1, PowerSum, PowerPositive
<1>3. ASSUME NEW x \in Nat, NEW y \in Nat, y > 0 PROVE x <= x * y
  BY <1>3
<1> QED BY <1>2, <1>3

-----------------------------------------------------------------------------
\* The quotient and the remainder are what a division with remainder gives.
LEMMA DivisionIs ==
  ASSUME NEW d \in Nat, d > 0, NEW q \in Int, NEW r \in 0..(d - 1)
  PROVE  (d * q + r) \div d = q /\ (d * q + r) % d = r
OBVIOUS

LEMMA IntDivision ==
  ASSUME NEW a \in Int, NEW d \in Nat, d > 0
  PROVE  a = d * (a \div d) + (a % d) /\ a % d \in 0..(d - 1) /\ a \div d \in Int
OBVIOUS

\* Dividing twice: by d and then by e.
LEMMA DivideTwice ==
  ASSUME NEW a \in Int, NEW d \in Nat, NEW e \in Nat, d > 0, e > 0
  PROVE  /\ (a \div d) \div e = a \div (d * e)
         /\ a % (d * e) = (a % d) + d * ((a \div d) % e)
<1> DEFINE q == a \div d
           r == a % d
           qq == q \div e
           rr == q % e
<1>1. a = d * q + r /\ r \in 0..(d - 1) /\ q \in Int
  BY IntDivision
<1> HIDE DEF q, r
<1>2. q = e * qq + rr /\ rr \in 0..(e - 1) /\ qq \in Int
  BY <1>1, IntDivision
<1> HIDE DEF qq, rr
<1>3. a = (d * e) * qq + (d * rr + r)
  <2>1. ASSUME NEW x \in Int, NEW y \in Int PROVE d * (e * x + y) = (d * e) * x + d * y
    OBVIOUS
  <2>2. d * q = (d * e) * qq + d * rr
    BY <1>2, <2>1
  <2>3. d * q \in Int /\ (d * e) * qq \in Int /\ d * rr \in Int
    BY <1>1, <1>2
  <2> QED BY <1>1, <2>2, <2>3
<1>4. d * rr + r \in 0..((d * e) - 1)
  <2>1. rr <= e - 1 /\ rr \in Nat /\ r \in Nat /\ r <= d - 1
    BY <1>1, <1>2
  <2>2. d * rr <= d * (e - 1) /\ d * rr \in Nat
    BY <2>1
  <2>3. d * (e - 1) = d * e - d
    OBVIOUS
  <2>4. d * e \in Nat
    OBVIOUS
  <2> QED BY <2>1, <2>2, <2>3, <2>4
<1>5. d * e \in Nat /\ d * e > 0
  OBVIOUS
<1> DEFINE m == d * e
           s == d * rr + r
<1>6. a = m * qq + s /\ s \in 0..(m - 1) /\ m \in Nat /\ m > 0
  BY <1>3, <1>4, <1>5
<1> HIDE DEF m, s
<1>7. a \div m = qq /\ a % m = s
  BY <1>2, <1>6, DivisionIs
<1>8. s = r + d * rr
  BY <1>1, <1>2 DEF s
<1> QED BY <1>7, <1>8 DEF m, q, r, qq, rr

-----------------------------------------------------------------------------
\* One bit more of the low bits of a number, and of its bits from o on.
LEMMA LowStep ==
  ASSUME NEW a \in Int, NEW m \in Nat
  PROVE  a % 2^(m + 1) = (a % 2^m) + 2^m * ((a \div 2^m) % 2)
<1> DEFINE d == 2^m
<1>1. d \in Nat /\ d > 0 /\ 2^(m + 1) = d * 2
  BY PowerPositive, PowerStep
<1> HIDE DEF d
<1>2. a % (d * 2) = (a % d) + d * ((a \div d) % 2)
  BY <1>1, DivideTwice
<1> QED BY <1>1, <1>2 DEF d

LEMMA BitStep ==
  ASSUME NEW u \in Int, NEW o \in Nat, NEW m \in Nat
  PROVE  (u \div 2^o) % 2^(m + 1) = ((u \div 2^o) % 2^m) + 2^m * ((u \div 2^(o + m)) % 2)
<1> DEFINE c == 2^o
           d == 2^m
<1>1. c \in Nat /\ c > 0 /\ d \in Nat /\ d > 0 /\ 2^(o + m) = c * d
  BY PowerPositive, PowerSum
<1> HIDE DEF c, d
<1>2. (u \div c) \div d = u \div (c * d)
  BY <1>1, DivideTwice
<1>3. u \div c \in Int
  BY <1>1, IntDivision
<1>4. (u \div c) % 2^(m + 1) = ((u \div c) % 2^m) + 2^m * (((u \div c) \div 2^m) % 2)
  BY <1>3, LowStep
<1> QED BY <1>1, <1>2, <1>4 DEF c, d

LEMMA BitIs ==
  ASSUME NEW words, NEW at \in Nat, NEW o \in 0..(W - 1)
  PROVE  Bit(words, at * W + o) =
           IF at < Len(words) THEN ((words[at + 1] % 2^W) \div 2^o) % 2 ELSE 0
<1>1. W \in Nat /\ W > 0
  BY FilesAssumption
<1>2. at * W + o = W * at + o
  BY <1>1
<1>3. (W * at + o) \div W = at /\ (W * at + o) % W = o
  BY <1>1, DivisionIs
<1> QED BY <1>2, <1>3 DEF Bit

\* g adds the bits from b on up, and so gives the number they write.
SumsUp(words, b, k, g) ==
  g[0] = 0 /\ \A m \in 0..(k - 1) : g[m + 1] = g[m] + 2^m * Bit(words, b + m)

LEMMA NumberIs ==
  ASSUME NEW words, NEW b, NEW k \in Nat, NEW g, SumsUp(words, b, k, g)
  PROVE  Number(words, b, k) = g[k]
<1> USE DEF SumsUp
<1> DEFINE F(h) == [j \in 0..k |-> IF j = 0 THEN 0
                                   ELSE h[j - 1] + 2^(j - 1) * Bit(words, b + (j - 1))]
           low == CHOOSE h : h = F(h)
           g0 == [j \in 0..k |-> g[j]]
<1>1. Number(words, b, k) = low[k]
  BY DEF Number
<1>2. g0 = F(g0)
  <2> SUFFICES ASSUME NEW j \in 0..k PROVE g0[j] = F(g0)[j]
      OBVIOUS
  <2>1. CASE j = 0
    BY <2>1
  <2>2. CASE j # 0
    <3>1. j - 1 \in 0..(k - 1) /\ (j - 1) + 1 = j /\ j - 1 \in 0..k
      BY <2>2
    <3>2. g[j] = g[j - 1] + 2^(j - 1) * Bit(words, b + (j - 1))
      BY <3>1
    <3> QED BY <2>2, <3>1, <3>2
  <2> QED BY <2>1, <2>2
<1>3. low = F(low)
  <2> HIDE DEF F, g0
  <2> QED BY <1>2
<1> HIDE DEF low
<1> DEFINE S == {j \in Nat : j <= k => low[j] = g[j]}
<1>4. 0 \in S
  BY <1>3
<1>5. \A j \in Nat : j \in S => j + 1 \in S
  <2> SUFFICES ASSUME NEW j \in Nat, j \in S, j + 1 <= k PROVE low[j + 1] = g[j + 1]
      OBVIOUS
  <2>1. j <= k /\ j + 1 \in 0..k /\ j + 1 # 0 /\ (j + 1) - 1 = j /\ j \in 0..(k - 1)
    OBVIOUS
  <2>2. low[j + 1] = low[j] + 2^j * Bit(words, b + j)
    BY <1>3, <2>1
  <2> QED BY <2>1, <2>2
<1>6. Nat \subseteq S
  <2> HIDE DEF S
  <2> QED BY <1>4, <1>5, Induction
<1> QED BY <1>1, <1>6

\* Bits that lie in one word.
LEMMA NumberInWord ==
  ASSUME NEW words \in Seq(Int), NEW at \in Nat, at < Len(words),
         NEW o \in Nat, NEW k \in Nat, o + k <= W
  PROVE  Number(words, at * W + o, k) = ((words[at + 1] % 2^W) \div 2^o) % 2^k
<1>w. W \in Nat
  BY FilesAssumption
<1> DEFINE u == words[at + 1] % 2^W
           g == [j \in Nat |-> (u \div 2^o) % 2^j]
<1>1. u \in Int /\ at * W + o \in Nat
  BY <1>w, PowerPositive
<1>2. g[0] = 0
  <2>1. u \div 2^o \in Int /\ 2^0 = 1
    <3> HIDE DEF u
    <3>1. 2^o \in Nat /\ 2^o > 0
      BY PowerPositive
    <3> QED BY <1>1, <3>1
  <2> HIDE DEF u
  <2> QED BY <2>1
<1>3. \A m \in 0..(k - 1) : g[m + 1] = g[m] + 2^m * Bit(words, (at * W + o) + m)
  <2> SUFFICES ASSUME NEW m \in 0..(k - 1)
               PROVE  g[m + 1] = g[m] + 2^m * Bit(words, (at * W + o) + m)
      OBVIOUS
  <2>1. m \in Nat /\ m + 1 \in Nat /\ o + m \in 0..(W - 1)
    BY <1>w
  <2>2. (at * W + o) + m = at * W + (o + m)
    BY <1>w
  <2>3. Bit(words, at * W + (o + m)) = (u \div 2^(o + m)) % 2
    BY <2>1, BitIs
  <2> HIDE DEF u
  <2> QED BY <1>1, <2>1, <2>2, <2>3, BitStep
<1> HIDE DEF g
<1>4. Number(words, at * W + o, k) = g[k]
  <2>1. SumsUp(words, at * W + o, k, g)
    BY <1>2, <1>3 DEF SumsUp
  <2> QED BY <2>1, NumberIs
<1> QED BY <1>4 DEF g

\* Bits that run on into the next word, or past the last.
LEMMA NumberAcross ==
  ASSUME NEW words \in Seq(Int), NEW at \in Nat, at < Len(words),
         NEW o \in Nat, NEW k \in Nat, o < W, o + k > W, k <= W
  PROVE  Number(words, at * W + o, k) =
           (((words[at + 1] % 2^W) \div 2^o) % 2^(W - o))
           + 2^(W - o) * ((IF at + 1 < Len(words) THEN words[at + 2] % 2^W ELSE 0)
                            % 2^(k - (W - o)))
<1>w. W \in Nat /\ W > 0
  BY FilesAssumption
<1> DEFINE u == words[at + 1] % 2^W
           v == IF at + 1 < Len(words) THEN words[at + 2] % 2^W ELSE 0
           have == W - o
           low == (u \div 2^o) % 2^have
           g == [j \in Nat |-> IF j <= have THEN (u \div 2^o) % 2^j
                               ELSE low + 2^have * (v % 2^(j - have))]
<1>1. u \in Int /\ v \in Int /\ at * W + o \in Nat /\ have \in Nat /\ have > 0 /\ have < k
  <2>1. 2^W \in Nat /\ 2^W > 0
    BY <1>w, PowerPositive
  <2>2. at + 1 < Len(words) => words[at + 2] \in Int
    OBVIOUS
  <2>3. u \in Int
    BY <2>1
  <2>4. v \in Int
    BY <2>1, <2>2
  <2> QED BY <1>w, <2>3, <2>4
<1>2. u \div 2^o \in Int /\ low \in Int
  <2> HIDE DEF u
  <2>1. 2^o \in Nat /\ 2^o > 0 /\ 2^have \in Nat /\ 2^have > 0
    BY <1>1, PowerPositive
  <2> QED BY <1>1, <2>1
<1>3. g[0] = 0
  <2> HIDE DEF u, have
  <2>1. 2^0 = 1 /\ 0 <= have
    BY <1>1
  <2> QED BY <1>2, <2>1
<1>4. ASSUME NEW m \in 0..(k - 1), m < have
      PROVE  g[m + 1] = g[m] + 2^m * Bit(words, (at * W + o) + m)
  <2>1. m \in Nat /\ m + 1 \in Nat /\ m + 1 <= have /\ o + m \in 0..(W - 1)
    BY <1>w, <1>1, <1>4
  <2>2. (at * W + o) + m = at * W + (o + m)
    BY <1>w
  <2>3. Bit(words, at * W + (o + m)) = (u \div 2^(o + m)) % 2
    BY <2>1, BitIs
  <2> HIDE DEF u, v, have
  <2> QED BY <1>1, <1>4, <2>1, <2>2, <2>3, BitStep
<1>5. ASSUME NEW m \in 0..(k - 1), m >= have
      PROVE  g[m + 1] = g[m] + 2^m * Bit(words, (at * W + o) + m)
  <2> DEFINE n == m - have
  <2>1. /\ n \in 0..(W - 1) /\ n \in Nat /\ (m + 1) - have = n + 1 /\ ~(m + 1 <= have)
        /\ m = have + n /\ m \in Nat /\ m + 1 \in Nat
    BY <1>w, <1>1, <1>5
  <2>2. (at * W + o) + m = (at + 1) * W + n
    BY <1>w, <1>1
  <2>3. Bit(words, (at + 1) * W + n) = (v \div 2^n) % 2
    <3>1. at + 1 \in Nat /\ (at + 1) + 1 = at + 2
      OBVIOUS
    <3>2. CASE at + 1 < Len(words)
      BY <2>1, <3>1, <3>2, BitIs
    <3>3. CASE ~(at + 1 < Len(words))
      <4>1. (0 \div 2^n) % 2 = 0
        BY <2>1, PowerPositive, SMTT(30)
      <4> QED BY <2>1, <3>1, <3>3, <4>1, BitIs
    <3> QED BY <3>2, <3>3
  <2>4. v % 2^(n + 1) = (v % 2^n) + 2^n * ((v \div 2^n) % 2)
    <3> HIDE DEF v, n
    <3> QED BY <1>1, <2>1, LowStep
  <2>5. 2^m = 2^have * 2^n /\ 2^have \in Nat /\ 2^n \in Nat /\ 2^n > 0
    <3> HIDE DEF n, have
    <3> QED BY <1>1, <2>1, PowerSum, PowerPositive
  <2> DEFINE x == v % 2^n
             y == (v \div 2^n) % 2
  <2>6. x \in Int /\ y \in Int
    <3> HIDE DEF v, n
    <3>1. v % 2^n \in Int /\ v \div 2^n \in Int
      <4> DEFINE d == 2^n
      <4>1. d \in Nat /\ d > 0
        BY <2>5
      <4> HIDE DEF d
      <4>2. v % d \in 0..(d - 1) /\ v \div d \in Int
        BY <1>1, <4>1, IntDivision
      <4> QED BY <4>1, <4>2 DEF d
    <3> QED BY <3>1
  <2>7. g[m + 1] = low + 2^have * (x + 2^n * y)
    <3>1. g[m + 1] = low + 2^have * (v % 2^((m + 1) - have))
      <4> HIDE DEF low, v, have
      <4> QED BY <2>1
    <3>2. (m + 1) - have = n + 1
      BY <2>1
    <3>3. v % 2^(n + 1) = x + 2^n * y
      BY <2>4
    <3> HIDE DEF g, low, x, y, v, n, have
    <3> QED BY <3>1, <3>2, <3>3
  <2>8. g[m] = low + 2^have * x
    <3>1. CASE m = have
      <4>1. n = 0 /\ 2^0 = 1
        BY <1>1, <3>1
      <4>2. x = 0
        <5> HIDE DEF v, n
        <5> QED BY <1>1, <4>1
      <4>3. 2^have * 0 = 0
        BY <2>5
      <4>4. g[m] = low
        <5> HIDE DEF u, v, have
        <5> QED BY <1>1, <2>1, <3>1
      <4> HIDE DEF g, low, x, have
      <4> QED BY <1>2, <4>2, <4>3, <4>4
    <3>2. CASE m # have
      <4>1. ~(m <= have)
        BY <1>1, <1>5, <3>2
      <4> HIDE DEF low, v, have
      <4> QED BY <2>1, <4>1
    <3> QED BY <3>1, <3>2
  <2> HIDE DEF g, low, x, y, n, have
  <2>9. ASSUME NEW p \in Int, NEW q \in Int
        PROVE  low + p * (x + q * y) = (low + p * x) + (p * q) * y
    <3>1. p * (x + q * y) = p * x + p * (q * y)
      BY <2>6
    <3>2. p * (q * y) = (p * q) * y
      BY <2>6
    <3>3. p * x \in Int /\ (p * q) * y \in Int
      BY <2>6
    <3> QED BY <1>2, <3>1, <3>2, <3>3
  <2>10. g[m + 1] = (low + 2^have * x) + 2^m * y
    BY <2>5, <2>7, <2>9
  <2> QED BY <2>2, <2>3, <2>8, <2>10 DEF y
<1>6. \A m \in 0..(k - 1) : g[m + 1] = g[m] + 2^m * Bit(words, (at * W + o) + m)
  <2> HIDE DEF g
  <2>1. \A m \in 0..(k - 1) : m < have \/ m >= have
    BY <1>1
  <2> QED BY <1>4, <1>5, <2>1
<1> HIDE DEF g
<1>7. Number(words, at * W + o, k) = g[k]
  <2>1. SumsUp(words, at * W + o, k, g)
    BY <1>3, <1>6 DEF SumsUp
  <2> QED BY <2>1, NumberIs
<1>8. ~(k <= have)
  BY <1>1
<1> QED BY <1>7, <1>8 DEF g

-----------------------------------------------------------------------------
LEMMA SizesAreNat == IsRegion(reg) => Width \in Nat /\ Height \in Nat /\ Length \in Nat
<1> SUFFICES ASSUME IsRegion(reg) PROVE Width \in Nat /\ Height \in Nat /\ Length \in Nat
    OBVIOUS
<1>1. reg.w \in Int /\ reg.h \in Int /\ reg.l \in Int
  BY DEF IsRegion
<1> QED
  BY <1>1 DEF Width, Height, Length, Abs

LEMMA IndexIsInt == ASSUME IsRegion(reg), NEW p \in Volume PROVE Index(p) \in Int
<1>1. Width \in Int /\ Length \in Int
  BY SizesAreNat
<1>2. p.x \in Int /\ p.y \in Int /\ p.z \in Int
  BY SizesAreNat DEF Volume
<1>3. Length * p.y \in Int
  BY <1>1, <1>2
<1>4. Width * (p.z + Length * p.y) \in Int
  BY <1>1, <1>2, <1>3
<1> QED
  BY <1>2, <1>4 DEF Index

\* A turn that places a block has a cell for it and a name.
LEMMA TakenCell ==
  ASSUME FilesInv, Turn, ~Panics(ID(i)), Taken(i)
  PROVE  /\ Placed(i) \in Volume /\ Index(Placed(i)) = i
         /\ Placed(i) \in [x : Nat, y : Nat, z : Nat]
         /\ NameOf(ID(i)) \in Names
<1>1. /\ TypeOK /\ Width \in Nat /\ Height \in Nat /\ Length \in Nat /\ i \in Nat
  BY SizesAreNat DEF FilesInv, TypeOK
<1>2. Width * Length > 0
  <2>1. CASE Lite
    <3>1. i < Width * Height * Length
      BY <2>1 DEF Turn, More, Total
    <3>2. ~(Width = 0) /\ ~(Length = 0)
      BY <1>1, <3>1
    <3> QED
      BY <1>1, <3>2
  <2>2. CASE ~Lite
    <3>1. Width * Length # 0
      BY <2>2 DEF Panics, Taken
    <3> QED
      BY <1>1, <3>1
  <2> QED
    BY <2>1, <2>2
<1> DEFINE p == Placed(i)
<1>3. p = [x |-> (i % (Width * Length)) % Width, y |-> i \div (Width * Length),
           z |-> (i % (Width * Length)) \div Width]
  BY DEF Placed, LayerAt
<1>4. /\ p.x \in 0..(Width - 1) /\ p.z \in 0..(Length - 1) /\ p.y \in Nat
      /\ p.x + Width * (p.z + Length * p.y) = i
  <2>1. /\ p.x = (i % (Width * Length)) % Width /\ p.y = i \div (Width * Length)
        /\ p.z = (i % (Width * Length)) \div Width
    BY <1>3
  <2> HIDE DEF p
  <2> DEFINE x == p.x
             y == p.y
             z == p.z
  <2>2. /\ x \in 0..(Width - 1) /\ z \in 0..(Length - 1) /\ y \in Nat
        /\ x + Width * (z + Length * y) = i
    <3> HIDE DEF x, y, z
    <3>1. /\ x = (i % (Width * Length)) % Width /\ y = i \div (Width * Length)
          /\ z = (i % (Width * Length)) \div Width
      BY <2>1 DEF x, y, z
    <3>2. Width \in Nat /\ Length \in Nat /\ i \in Nat
      BY <1>1
    <3> QED
      BY ONLY <1>2, <3>1, <3>2, CellOf, ZenonT(60)
  <2> QED
    BY <2>2
<1>5. p.y < Height
  <2>1. CASE Lite
    <3>1. i < Width * Height * Length
      BY <2>1 DEF Turn, More, Total
    <3>2. i < (Width * Length) * Height
      BY <1>1, <3>1
    <3>3. Width * Length \in Nat
      BY <1>1
    <3> QED
      BY <1>1, <1>2, <1>3, <3>2, <3>3, Quotient
  <2>2. CASE ~Lite
    <3>1. ~(p.y >= Height)
      BY <2>2 DEF Taken, Outside
    <3> QED
      BY <1>1, <1>4, <3>1
  <2> QED
    BY <2>1, <2>2
<1>6. p \in Volume /\ Index(p) = i /\ p \in [x : Nat, y : Nat, z : Nat]
  <2>1. p.x \in Nat /\ p.z \in Nat /\ p.y \in 0..(Height - 1)
    BY <1>1, <1>4, <1>5
  <2> QED
    BY <1>3, <1>4, <2>1 DEF Volume, Index
<1>7. NameOf(ID(i)) \in Names
  <2> DEFINE id == ID(i)
  <2> HIDE DEF id
  <2>1. ~Passed(id) /\ NameOf(ID(i)) = NameOf(id)
    BY DEF Taken, id
  <2>2. CASE Classic
    BY <2>1, <2>2, FilesAssumption DEF NameOf, legacyIDToName
  <2>3. CASE ~Classic
    <3>1. id \in DOMAIN reg.palette
      BY <2>1, <2>3 DEF Passed
    <3>2. reg.palette \in [DOMAIN reg.palette -> Names]
      BY <1>1 DEF TypeOK, IsRegion
    <3> QED
      BY <2>1, <2>3, <3>1, <3>2, FilesAssumption DEF NameOf
  <2> QED
    BY <2>2, <2>3
<1> QED
  BY <1>6, <1>7

LEMMA FilesInit == Init => FilesInv
<1> SUFFICES ASSUME Init PROVE FilesInv
    OBVIOUS
<1>1. IsRegion(NoRegion)
  BY FS_EmptySet DEF IsRegion, NoRegion
<1>2. blocks = << >> /\ Len(blocks) = 0
  BY DEF Init
<1> QED
  BY <1>1, <1>2 DEF Init, FilesInv, TypeOK, FromFile, InFileOrder

\* Steps that leave the region and its blocks alone.
LEMMA FilesFrame ==
  ASSUME FilesInv, UNCHANGED <<file, reg, blocks, start>>,
         i' \in Nat, i' >= i, todo' \subseteq todo,
         pc' \in {"open", "error", "region", "loop", "done", "panicked"}
  PROVE  FilesInv'
<1>1. TypeOK' /\ FromFile'
  BY DEF FilesInv, TypeOK, FromFile, IsRegion
<1>2. ASSUME NEW k \in (start + 1)..Len(blocks)
      PROVE  /\ (blocks[k].at \in Volume)' /\ (Index(blocks[k].at) < i)'
             /\ \A j \in (start + 1)..(k - 1) :
                  (Index(blocks[j].at) < Index(blocks[k].at))'
  <2>1. /\ blocks[k].at \in Volume /\ Index(blocks[k].at) < i
        /\ \A j \in (start + 1)..(k - 1) : Index(blocks[j].at) < Index(blocks[k].at)
    BY <1>2 DEF FilesInv, InFileOrder
  <2>2. Index(blocks[k].at) \in Int /\ i \in Nat
    BY <2>1, IndexIsInt DEF FilesInv, TypeOK
  <2> QED
    BY <2>1, <2>2 DEF Volume, Index, Width, Height, Length, Abs
<1>3. InFileOrder'
  BY <1>2 DEF InFileOrder
<1> QED
  BY <1>1, <1>3 DEF FilesInv

LEMMA FilesStep == FilesInv /\ [Next]_vars => FilesInv'
<1> SUFFICES ASSUME FilesInv, [Next]_vars PROVE FilesInv'
    OBVIOUS
<1>t. TypeOK /\ FromFile /\ InFileOrder /\ i \in Nat /\ start \in Nat /\ Len(blocks) \in Nat
  BY DEF FilesInv, TypeOK
<1>1. CASE Open \/ Return \/ End \/ Panic \/ Continue \/ \E r \in todo : PassOver(r)
  <2>1. /\ UNCHANGED <<file, reg, blocks, start>> /\ i' \in {i, i + 1}
        /\ todo' \subseteq todo
        /\ pc' \in {"open", "error", "region", "loop", "done", "panicked"}
    BY <1>1, <1>t DEF Open, Return, End, Panic, Continue, PassOver, Turn, TypeOK
  <2> QED
    BY <1>t, <2>1, FilesFrame
<1>2. ASSUME NEW r \in todo, Begin(r) PROVE FilesInv'
  <2>1. /\ r \in file.regions /\ file' = file /\ reg' = r /\ i' = 0 /\ pc' = "loop"
        /\ todo' \subseteq todo /\ blocks' = blocks /\ start' = Len(blocks)
    BY <1>2, <1>t DEF Begin, TypeOK, Carried
  <2>2. IsRegion(r)
    BY <1>t, <2>1, FilesAssumption DEF FromFile
  <2>3. TypeOK'
    BY <1>t, <2>1, <2>2 DEF TypeOK, IsRegion
  <2>4. (start' + 1)..Len(blocks') = {}
    BY <1>t, <2>1
  <2>5. InFileOrder'
    BY <2>4 DEF InFileOrder
  <2> QED
    BY <1>t, <2>1, <2>3, <2>5 DEF FilesInv, FromFile
<1>3. CASE Place
  <2> DEFINE b == [at |-> Placed(i), block |-> NameOf(ID(i))]
  <2>1. /\ Placed(i) \in Volume /\ Index(Placed(i)) = i
        /\ Placed(i) \in [x : Nat, y : Nat, z : Nat] /\ NameOf(ID(i)) \in Names
    BY <1>3, TakenCell DEF Place
  <2>2. /\ blocks' = Append(blocks, b) /\ i' = i + 1
        /\ UNCHANGED <<file, todo, reg, start, pc>>
    BY <1>3 DEF Place, Turn
  <2>3. b \in [at : [x : Nat, y : Nat, z : Nat], block : Names] /\ b.at = Placed(i)
    BY <2>1
  <2> HIDE DEF b
  <2>4. /\ blocks' \in Seq([at : [x : Nat, y : Nat, z : Nat], block : Names])
        /\ Len(blocks') = Len(blocks) + 1 /\ blocks'[Len(blocks) + 1] = b
        /\ \A k \in 1..Len(blocks) : blocks'[k] = blocks[k]
    BY <1>t, <2>2, <2>3 DEF TypeOK
  <2>5. TypeOK'
    BY <1>t, <2>2, <2>4 DEF TypeOK, IsRegion
  <2>6. \A p : Index(p)' = Index(p) /\ Volume' = Volume
    BY <2>2 DEF Index, Volume, Width, Height, Length, Abs
  <2> DEFINE Fits(k) == /\ blocks'[k].at \in Volume /\ Index(blocks'[k].at) < i + 1
                        /\ \A j \in (start + 1)..(k - 1) :
                             Index(blocks'[j].at) < Index(blocks'[k].at)
  <2>7. ASSUME NEW k \in (start + 1)..Len(blocks) PROVE Fits(k)
    <3>1. k \in 1..Len(blocks) /\ \A j \in (start + 1)..(k - 1) : j \in 1..Len(blocks)
      BY <1>t
    <3>2. /\ blocks[k].at \in Volume /\ Index(blocks[k].at) < i
          /\ \A j \in (start + 1)..(k - 1) : Index(blocks[j].at) < Index(blocks[k].at)
      BY <1>t DEF InFileOrder
    <3>3. Index(blocks[k].at) \in Int
      BY <1>t, <3>2, IndexIsInt DEF TypeOK
    <3>4. Index(blocks[k].at) < i + 1
      BY <1>t, <3>2, <3>3
    <3> QED
      BY <2>4, <3>1, <3>2, <3>4
  <2>8. Fits(Len(blocks) + 1)
    <3>1. \A j \in (start + 1)..Len(blocks) : j \in 1..Len(blocks)
      BY <1>t
    <3>2. \A j \in (start + 1)..Len(blocks) : Index(blocks'[j].at) < i
      BY <1>t, <2>4, <3>1 DEF InFileOrder
    <3>3. (Len(blocks) + 1) - 1 = Len(blocks) /\ i < i + 1
      BY <1>t
    <3> QED
      BY <2>1, <2>3, <2>4, <3>2, <3>3
  <2>9. \A k \in (start' + 1)..Len(blocks') : Fits(k)
    <3>1. \A k \in (start' + 1)..Len(blocks') :
            k \in (start + 1)..Len(blocks) \/ k = Len(blocks) + 1
      BY <1>t, <2>2, <2>4
    <3> HIDE DEF Fits
    <3> QED
      BY <2>7, <2>8, <3>1
  <2>10. InFileOrder'
    BY <2>2, <2>6, <2>9 DEF InFileOrder
  <2> QED
    BY <1>t, <2>2, <2>5, <2>10 DEF FilesInv, FromFile
<1>4. CASE UNCHANGED vars
  BY <1>4, <1>t, FilesFrame DEF vars, TypeOK
<1> QED
  BY <1>1, <1>2, <1>3, <1>4 DEF Next

-----------------------------------------------------------------------------
\* Every reachable state satisfies the invariant.
THEOREM FilesInvariant == Spec => []FilesInv
BY FilesInit, FilesStep, PTL DEF Spec

\* Every variable of a parser keeps its type, for every file: the blocks have
\* names and cells from 0 on.
THEOREM TypeCorrect == Spec => []TypeOK
<1>1. FilesInv => TypeOK
  BY DEF FilesInv
<1> QED
  BY <1>1, FilesInvariant, PTL

\* Every block of a region lies in its volume, in the cell the file keeps it in
\* and after the blocks of earlier cells, for every size and every format.
THEOREM BlocksInOrder == Spec => []InFileOrder
<1>1. FilesInv => InFileOrder
  BY DEF FilesInv
<1> QED
  BY <1>1, FilesInvariant, PTL

-----------------------------------------------------------------------------
LEMMA RemainderTwice ==
  ASSUME NEW a \in Int, NEW m \in Nat, NEW e \in Nat, m > 0, e > 0
  PROVE  (a % (m * e)) % m = a % m
<1> DEFINE q == (a \div m) % e
           r == a % m
<1>1. r \in 0..(m - 1) /\ a \div m \in Int
  BY IntDivision
<1>2. q \in Int
  BY <1>1, IntDivision
<1>3. m * q \in Int
  BY <1>2
<1>4. a % (m * e) = m * q + r
  BY <1>1, <1>3, DivideTwice
<1> HIDE DEF q, r
<1> QED BY <1>1, <1>2, <1>4, DivisionIs DEF r

\* Taking a number modulo 2^w does not touch its bits below w.
LEMMA BitsOfWord ==
  ASSUME NEW v \in Int, NEW w \in Nat, NEW o \in Nat, NEW k \in Nat, o + k <= w
  PROVE  ((v % 2^w) \div 2^o) % 2^k = (v \div 2^o) % 2^k
<1> DEFINE d == 2^o
           m == 2^k
           e == 2^(w - (o + k))
           a == v \div d
<1>1. /\ d \in Nat /\ d > 0 /\ m \in Nat /\ m > 0 /\ e \in Nat /\ e > 0
      /\ 2^w = d * (m * e)
  <2>1. w - (o + k) \in Nat /\ w = o + (k + (w - (o + k))) /\ k + (w - (o + k)) \in Nat
    OBVIOUS
  <2> DEFINE r == w - (o + k)
  <2> HIDE DEF r
  <2>2. r \in Nat /\ w = o + (k + r) /\ k + r \in Nat
    BY <2>1 DEF r
  <2>3. 2^(o + (k + r)) = 2^o * 2^(k + r) /\ 2^(k + r) = 2^k * 2^r
    BY <2>2, PowerSum
  <2>4. 2^w = 2^o * (2^k * 2^r)
    BY <2>2, <2>3
  <2> QED BY <2>2, <2>4, PowerPositive DEF r
<1> HIDE DEF d, m, e
<1>2. m * e \in Nat /\ m * e > 0
  BY <1>1
<1>3. v % (d * (m * e)) = (v % d) + d * (a % (m * e))
  BY <1>1, <1>2, DivideTwice
<1>4. a \in Int /\ v % d \in 0..(d - 1)
  BY <1>1, IntDivision
<1> HIDE DEF a
<1>6. (v % (d * (m * e))) \div d = a % (m * e)
  <2> DEFINE q == a % (m * e)
             r == v % d
  <2>1. q \in Int /\ r \in 0..(d - 1) /\ v % (d * (m * e)) = d * q + r
    <3>1. q \in Int
      BY <1>2, <1>4, IntDivision
    <3>2. d * q \in Int
      BY <1>1, <3>1
    <3> QED BY <1>3, <1>4, <3>1, <3>2
  <2> HIDE DEF q, r
  <2> QED BY <1>1, <2>1, DivisionIs DEF q
<1>7. (a % (m * e)) % m = a % m
  BY <1>1, <1>4, RemainderTwice
<1> QED BY <1>1, <1>6, <1>7 DEF a, d, m

LEMMA LowBitsOfWord ==
  ASSUME NEW v \in Int, NEW w \in Nat, NEW k \in Nat, k <= w
  PROVE  (v % 2^w) % 2^k = v % 2^k
<1> DEFINE m == 2^k
           e == 2^(w - k)
<1>1. m \in Nat /\ m > 0 /\ e \in Nat /\ e > 0 /\ 2^w = m * e
  <2>1. w - k \in Nat /\ w = k + (w - k)
    OBVIOUS
  <2> DEFINE r == w - k
  <2> HIDE DEF r
  <2>2. r \in Nat /\ w = k + r
    BY <2>1 DEF r
  <2> QED BY <2>2, PowerSum, PowerPositive DEF r
<1> HIDE DEF m, e
<1>2. (v % (m * e)) % m = v % m
  BY <1>1, RemainderTwice
<1> QED BY <1>1, <1>2 DEF m

LEMMA SmallQuotient ==
  ASSUME NEW v \in Nat, NEW d \in Nat, d > 0, NEW e \in Nat, v < d * e
  PROVE  v \div d \in Nat /\ v \div d < e /\ (v \div d) % e = v \div d
<1>1. v \div d \in Nat /\ v \div d < e
  BY Quotient
<1> DEFINE q == v \div d
<1> HIDE DEF q
<1>2. q \in Nat /\ q < e => q % e = q
  OBVIOUS
<1> QED BY <1>1, <1>2 DEF q

\* A number below half the range of a word is itself when taken for signed.
LEMMA SignedIs == ASSUME NEW t \in Nat, t < 2^(W - 1) PROVE Signed(t) = t
<1> DEFINE h == 2^(W - 1)
<1>1. h \in Nat /\ h > 0 /\ 2^W = 2 * h
  <2>1. W - 1 \in Nat /\ (W - 1) + 1 = W
    BY FilesAssumption
  <2> QED BY <2>1, PowerPositive, PowerStep
<1> HIDE DEF h
<1>2. t + h \in Nat /\ t + h < 2 * h
  BY <1>1 DEF h
<1>3. (t + h) % (2 * h) = t + h
  BY <1>1, <1>2
<1> QED BY <1>1, <1>3 DEF Signed, h

LEMMA WordIs ==
  ASSUME NEW v \in Word
  PROVE  v \in Int /\ 2^W = 2 * 2^(W - 1) /\ 2^(W - 1) \in Nat /\ v < 2^(W - 1)
<1>1. W - 1 \in Nat /\ (W - 1) + 1 = W
  BY FilesAssumption
<1>2. 2^W = 2 * 2^(W - 1) /\ 2^(W - 1) \in Nat
  BY <1>1, PowerStep
<1> QED BY <1>2 DEF Word

\* The bits a straddling entry takes of the next word.
LEMMA RestIs ==
  ASSUME NEW v \in Int, NEW have \in Nat, NEW k \in Nat, have < k, have > 0, k < W
  PROVE  Signed(Low(v, k - have) * 2^have) = 2^have * ((v % 2^W) % 2^(k - have))
<1>w. W \in Nat
  BY FilesAssumption
<1>1. k - have \in Nat /\ k - have < W /\ k = (k - have) + have
  BY <1>w
<1> DEFINE r == k - have
<1> HIDE DEF r
<1>2. r \in Nat /\ r < W /\ k = r + have /\ k - have = r
  BY <1>1 DEF r
<1>3. Low(v, r) = v % 2^r
  BY <1>2 DEF Low
<1>4. (v % 2^W) % 2^r = v % 2^r
  <2>1. r \in Nat /\ W \in Nat /\ r <= W
    BY <1>2, <1>w
  <2>2. \A w, n \in Nat : n <= w => (v % 2^w) % 2^n = v % 2^n
    BY LowBitsOfWord
  <2> QED BY <2>1, <2>2
<1> DEFINE p == 2^r
           q == 2^have
           x == v % p
<1>5. p \in Nat /\ p > 0 /\ q \in Nat /\ q > 0 /\ 2^k = p * q /\ 2^k <= 2^(W - 1)
  <2>1. k <= W - 1 /\ W - 1 \in Nat
    BY <1>w
  <2>2. 2^k <= 2^(W - 1)
    BY <2>1, PowerGrows
  <2> QED BY <1>2, <2>2, PowerSum, PowerPositive
<1>6. x \in 0..(p - 1)
  <2> HIDE DEF p
  <2> QED BY <1>5, IntDivision
<1>7. x * q \in Nat /\ x * q < 2^(W - 1) /\ x * q = q * x
  <2> HIDE DEF p, q, x
  <2>1. x * q <= (p - 1) * q /\ x * q \in Nat /\ x * q = q * x
    BY <1>5, <1>6
  <2>2. (p - 1) * q = p * q - q /\ p * q \in Nat
    BY <1>5
  <2>3. 2^(W - 1) \in Nat
    <3>1. W - 1 \in Nat
      BY <1>w, <1>5
    <3> QED BY <3>1, PowerPositive
  <2> QED BY <1>5, <2>1, <2>2, <2>3
<1>8. Signed(x * q) = q * x
  BY <1>7, SignedIs
<1> QED BY <1>2, <1>3, <1>4, <1>8

-----------------------------------------------------------------------------
\* An entry of the file, taken apart: its first word and where it begins in it.
LEMMA DataIs ==
  ASSUME FilesInv, Lite
  PROVE  reg.data \in Seq(Word) /\ reg.data \in Seq(Int)
<1>1. CASE reg = NoRegion
  BY <1>1 DEF NoRegion
<1>2. CASE reg \in file.regions
  <2>1. file \in Schematics /\ file.ext = ".litematic" /\ IsRegion(reg)
    BY DEF FilesInv, FromFile, Lite, TypeOK
  <2> QED BY <1>2, <2>1, FilesAssumption DEF IsRegion
<1> QED BY <1>1, <1>2 DEF FilesInv, FromFile

LEMMA BitsIs == ASSUME FilesInv PROVE Bits \in Nat /\ Bits > 0
<1>1. IsFiniteSet(DOMAIN reg.palette)
  BY DEF FilesInv, TypeOK, IsRegion
<1>2. Cardinality(DOMAIN reg.palette) \in Nat
  BY <1>1, FS_CardinalityType
<1> QED BY <1>2 DEF Bits

LEMMA EntryAt ==
  ASSUME FilesInv, Lite, Turn
  PROVE  /\ LongIdx(i) \in Nat /\ LongIdx(i) < Len(reg.data)
         /\ BitIdx(i) \in Nat /\ BitIdx(i) < W
         /\ i * Bits = LongIdx(i) * W + BitIdx(i)
         /\ reg.data[LongIdx(i) + 1] \in Word
         /\ LongIdx(i) + 1 < Len(reg.data) => reg.data[LongIdx(i) + 2] \in Int
<1> DEFINE b == i * Bits
<1>1. b \in Nat /\ W \in Nat /\ W > 0
  BY BitsIs, FilesAssumption DEF FilesInv, TypeOK
<1>2. LongIdx(i) = b \div W /\ BitIdx(i) = b % W
  BY DEF LongIdx, BitIdx
<1> HIDE DEF b
<1>3. b = W * (b \div W) + (b % W) /\ b % W \in 0..(W - 1) /\ b \div W \in Nat
  BY <1>1, Division
<1>4. LongIdx(i) < Len(reg.data)
  BY DEF Turn, More
<1>5. reg.data \in Seq(Word) /\ reg.data \in Seq(Int)
  BY DataIs
<1>6. W * (b \div W) = (b \div W) * W
  BY <1>1, <1>3
<1>7. ASSUME NEW T, NEW s \in Seq(T), NEW n \in Nat, n < Len(s) PROVE s[n + 1] \in T
  BY <1>7
<1>8. LongIdx(i) \in Nat /\ reg.data[LongIdx(i) + 1] \in Word
  BY <1>2, <1>3, <1>4, <1>5, <1>7
<1>9. LongIdx(i) + 1 < Len(reg.data) => reg.data[LongIdx(i) + 2] \in Int
  <2>1. LongIdx(i) + 1 \in Nat /\ (LongIdx(i) + 1) + 1 = LongIdx(i) + 2
    BY <1>8
  <2> QED BY <1>5, <1>7, <2>1
<1> QED BY <1>1, <1>2, <1>3, <1>4, <1>6, <1>8, <1>9 DEF b

\* What the code makes of an entry: a negative state only from the sign bit of a
\* negative word, and otherwise the number the file packs there.
LEMMA EntryIs ==
  ASSUME FilesInv, Lite, Turn, Bits <= W
  PROVE  /\ StateID(i) \in Int
         /\ StateID(i) < 0 =>
              (Straddles(i) \/ Bits = W) /\ reg.data[LongIdx(i) + 1] < 0
         /\ StateID(i) >= 0 => StateID(i) = FileID(i)
<1> DEFINE at == LongIdx(i)
           o == BitIdx(i)
           k == Bits
           v == reg.data[at + 1]
<1>1. /\ at \in Nat /\ at < Len(reg.data) /\ o \in Nat /\ o < W
      /\ i * Bits = at * W + o /\ v \in Word
      /\ at + 1 < Len(reg.data) => reg.data[at + 2] \in Int
  BY EntryAt
<1>2. k \in Nat /\ k > 0 /\ k <= W /\ W \in Nat /\ reg.data \in Seq(Int)
  BY BitsIs, DataIs, FilesAssumption
<1>3. v \in Int /\ 2^W = 2 * 2^(W - 1) /\ 2^(W - 1) \in Nat /\ v < 2^(W - 1)
  BY <1>1, WordIs
<1>4. FileID(i) = Number(reg.data, at * W + o, k)
  BY <1>1 DEF FileID
<1>5. Shifted(i) = v \div 2^o
  BY DEF Shifted
<1> DEFINE d == 2^o
<1>6. d \in Nat /\ d > 0
  BY <1>1, PowerPositive
<1>7. CASE ~Straddles(i) /\ k < W
  <2>1. o + k <= W
    BY <1>1, <1>2, <1>7 DEF Straddles
  <2>2. StateID(i) = (v \div 2^o) % 2^k
    BY <1>5, <1>7 DEF StateID, Masked, Low
  <2>3. FileID(i) = ((v % 2^W) \div 2^o) % 2^k
    BY <1>1, <1>2, <1>4, <2>1, NumberInWord, SMTT(30)
  <2>4. ((v % 2^W) \div 2^o) % 2^k = (v \div 2^o) % 2^k
    <3>1. v \in Int /\ W \in Nat /\ o \in Nat /\ k \in Nat /\ o + k <= W
      BY <1>1, <1>2, <1>3, <2>1
    <3> HIDE DEF v, k, o, d, at
    <3> QED BY <3>1, BitsOfWord, Zenon
  <2>5. (v \div 2^o) % 2^k \in Nat
    <3> DEFINE m == 2^k
               a == v \div d
    <3>1. m \in Nat /\ m > 0
      BY <1>2, PowerPositive
    <3>2. a \in Int
      <4> HIDE DEF v, d
      <4> QED BY <1>3, <1>6, IntDivision
    <3> HIDE DEF m, a
    <3>3. a % m \in 0..(m - 1)
      BY <3>1, <3>2, IntDivision
    <3>4. a % m \in Nat
      BY <3>1, <3>3
    <3> QED BY <3>4 DEF a, m
  <2> QED BY <2>2, <2>3, <2>4, <2>5
<1>8. CASE k = W
  \* Entries of a whole word begin where the words do.
  <2>1. o = 0
    <3>1. i \in Nat /\ o = (i * W) % W
      BY <1>8 DEF FilesInv, TypeOK, BitIdx
    <3>2. (W * i + 0) % W = 0 /\ i * W = W * i + 0
      <4>1. 0 \in 0..(W - 1) /\ W > 0
        BY <1>2, FilesAssumption
      <4> QED BY <1>2, <3>1, <4>1, DivisionIs
    <3> QED BY <3>1, <3>2
  <2>2. ~Straddles(i)
    BY <1>2, <1>8, <2>1 DEF Straddles
  <2>3. StateID(i) = v
    <3>1. 2^0 = 1 /\ v \div 1 = v
      BY <1>3
    <3>2. Shifted(i) = v
      BY <1>5, <2>1, <3>1
    <3>3. ~(Bits < W)
      BY <1>2, <1>8
    <3> QED BY <2>2, <3>2, <3>3 DEF StateID, Masked, Low
  <2>4. FileID(i) = ((v % 2^W) \div 2^0) % 2^W
    <3>1. o + k <= W
      BY <1>2, <1>8, <2>1
    <3>2. FileID(i) = ((v % 2^W) \div 2^o) % 2^k
      BY <1>1, <1>2, <1>4, <3>1, NumberInWord, SMTT(30)
    <3> HIDE DEF v, o, k
    <3> QED BY <1>8, <2>1, <3>2
  <2>5. v >= 0 => ((v % 2^W) \div 2^0) % 2^W = v
    <3> HIDE DEF v
    <3>1. v >= 0 => v % 2^W = v
      BY <1>3
    <3>2. 2^0 = 1 /\ v \div 1 = v
      BY <1>3
    <3> QED BY <3>1, <3>2
  <2> QED BY <1>3, <1>8, <2>3, <2>4, <2>5
<1>9. CASE Straddles(i)
  <2> DEFINE have == W - o
             rest == (IF at + 1 < Len(reg.data) THEN reg.data[at + 2] % 2^W ELSE 0)
                       % 2^(k - have)
  <2>1. have \in Nat /\ have > 0 /\ have < k /\ k < W /\ o + k > W
    <3>1. o + k > W
      BY <1>9 DEF Straddles
    <3>2. k # W
      \* Entries of a whole word begin where the words do.
      <4>1. ASSUME k = W PROVE FALSE
        <5>1. i \in Nat /\ o = (i * W) % W
          BY <4>1 DEF FilesInv, TypeOK, BitIdx
        <5>2. (W * i + 0) % W = 0 /\ i * W = W * i + 0
          <6>1. 0 \in 0..(W - 1) /\ W > 0
            BY <1>2, FilesAssumption
          <6> QED BY <1>2, <5>1, <6>1, DivisionIs
        <5> QED BY <1>2, <3>1, <4>1, <5>1, <5>2
      <4> QED BY <4>1
    <3> QED BY <1>1, <1>2, <3>1, <3>2
  <2>2. 2^W = d * 2^have /\ 2^have \in Nat
    <3>1. W = o + have
      BY <1>1, <1>2
    <3> HIDE DEF have
    <3> QED BY <1>1, <2>1, <3>1, PowerSum, PowerPositive
  <2>3. v < 0 => v \div d < 0
    <3> HIDE DEF v, d
    <3> QED BY <1>3, <1>6
  <2>4. v < 0 => StateID(i) = v \div d /\ StateID(i) \in Int
    <3>1. v \div d \in Int
      <4> HIDE DEF v, d
      <4> QED BY <1>3, <1>6, IntDivision
    <3> QED BY <1>5, <1>9, <2>3, <3>1 DEF StateID
  <2>5. ASSUME v >= 0
        PROVE  /\ StateID(i) \in Nat
               /\ StateID(i) = FileID(i)
    <3>1. v \in Nat /\ v % 2^W = v
      <4> HIDE DEF v
      <4> QED BY <1>3, <2>5
    <3>2. v \div d \in Nat /\ (v \div d) % 2^have = v \div d
      <4>1. v < d * 2^have
        <5>1. v < 2 * 2^(W - 1)
          <6> HIDE DEF v
          <6> QED BY <1>3, <3>1
        <5> QED BY <1>3, <2>2, <5>1
      <4> DEFINE e == 2^have
      <4>2. v < d * e /\ e \in Nat
        BY <2>2, <4>1
      <4> HIDE DEF v, d, e
      <4>3. v \div d \in Nat /\ (v \div d) % e = v \div d
        BY <1>6, <3>1, <4>2, SmallQuotient
      <4> QED BY <4>3 DEF e
    <3>3. StateID(i) = (v \div d) + Rest(i)
      <4>1. ~(v \div d < 0)
        BY <3>2
      <4> QED BY <1>5, <1>9, <4>1 DEF StateID
    <3>4. Rest(i) = 2^have * rest /\ rest \in Nat
      <4>1. CASE at + 1 < Len(reg.data)
        <5> DEFINE next == reg.data[at + 2]
        <5>1. next \in Int
          BY <1>1, <4>1
        <5>2. Rest(i) = Signed(Low(next, k - have) * 2^have)
          BY <4>1 DEF Rest
        <5>3. rest = (next % 2^W) % 2^(k - have)
          BY <4>1
        <5>4. rest \in Nat
          <6> DEFINE m == 2^(k - have)
                     n == 2^W
          <6>1. m \in Nat /\ m > 0 /\ n \in Nat /\ n > 0
            <7>1. k - have \in Nat
              BY <1>2, <2>1
            <7> QED BY <1>2, <7>1, PowerPositive
          <6> HIDE DEF m, n, next
          <6>2. next % n \in Int
            BY <5>1, <6>1, IntDivision
          <6>3. (next % n) % m \in 0..(m - 1)
            BY <6>1, <6>2, IntDivision
          <6>4. (next % n) % m \in Nat
            BY <6>1, <6>3
          <6> QED BY <5>3, <6>4 DEF m, n
        <5> HIDE DEF next, have, rest, k
        <5>5. Signed(Low(next, k - have) * 2^have) = 2^have * ((next % 2^W) % 2^(k - have))
          BY <1>2, <2>1, <5>1, RestIs
        <5> QED BY <5>2, <5>3, <5>4, <5>5
      <4>2. CASE ~(at + 1 < Len(reg.data))
        <5>1. Rest(i) = 0
          BY <4>2 DEF Rest
        <5>2. rest = 0 % 2^(k - have)
          BY <4>2
        <5>3. 0 % 2^(k - have) = 0
          <6> DEFINE m == 2^(k - have)
          <6>1. m \in Nat /\ m > 0
            <7>1. k - have \in Nat
              BY <1>2, <2>1
            <7> QED BY <7>1, PowerPositive
          <6> HIDE DEF m
          <6>2. 0 % m = 0
            BY <6>1
          <6> QED BY <6>2 DEF m
        <5> HIDE DEF rest, have
        <5>4. 2^have * 0 = 0
          BY <2>2
        <5> QED BY <5>1, <5>2, <5>3, <5>4
      <4> QED BY <4>1, <4>2
    <3>5. FileID(i) = (((v % 2^W) \div d) % 2^have) + 2^have * rest
      <4>1. Number(reg.data, at * W + o, k) =
               (((reg.data[at + 1] % 2^W) \div 2^o) % 2^(W - o))
              + 2^(W - o) * ((IF at + 1 < Len(reg.data) THEN reg.data[at + 2] % 2^W ELSE 0)
                               % 2^(k - (W - o)))
        <5>1. /\ reg.data \in Seq(Int) /\ at \in Nat /\ at < Len(reg.data)
              /\ o \in Nat /\ k \in Nat /\ o < W /\ o + k > W /\ k <= W
          BY <1>1, <1>2, <2>1
        <5> HIDE DEF at, o, k
        <5> QED BY <5>1, NumberAcross, ZenonT(60)
      <4> QED BY <1>4, <4>1
    <3>6. 2^have * rest \in Nat
      <4> HIDE DEF rest, have
      <4> QED BY <2>2, <3>4
    <3> HIDE DEF v, d, rest, have
    <3> QED BY <3>1, <3>2, <3>3, <3>4, <3>5, <3>6
  <2> QED BY <1>3, <1>9, <2>3, <2>4, <2>5
<1> QED BY <1>2, <1>7, <1>8, <1>9

-----------------------------------------------------------------------------
\* Every cell of the volume has an entry, and no two have the same.
LEMMA EntryOf ==
  ASSUME NEW w \in Nat, NEW l \in Nat,
         NEW x \in 0..(w - 1), NEW z \in 0..(l - 1), NEW y \in Nat
  PROVE  LET n == x + w * (z + l * y) IN
         /\ n \in Nat
         /\ n \div (w * l) = y
         /\ (n % (w * l)) \div w = z /\ (n % (w * l)) % w = x
<1> DEFINE r == w * z + x
           d == w * l
           n == x + w * (z + l * y)
<1>1. w > 0 /\ l > 0 /\ x \in Nat /\ z \in Nat
  OBVIOUS
<1>2. d \in Nat /\ d > 0
  BY <1>1
<1>3. r \in 0..(d - 1)
  <2>1. w * z <= w * (l - 1) /\ w * z \in Nat /\ x <= w - 1
    BY <1>1
  <2>2. w * (l - 1) = w * l - w /\ w * l \in Nat
    OBVIOUS
  <2> QED BY <1>1, <2>1, <2>2
<1>4. n = d * y + r
  <2>1. x + w * (z + l * y) = (x + w * z) + (w * l) * y
    BY <1>1, Distribute
  <2>2. w * z \in Nat /\ (w * l) * y \in Nat
    BY <1>1
  <2> QED BY <1>1, <2>1, <2>2
<1>5. n \in Nat
  <2>1. d * y \in Nat /\ r \in Nat
    <3> HIDE DEF d, r
    <3> QED BY <1>2, <1>3
  <2> HIDE DEF d, r, n
  <2> QED BY <1>4, <2>1
<1>6. n \div d = y /\ n % d = r
  <2> HIDE DEF d, r, n
  <2> QED BY <1>2, <1>3, <1>4, DivisionIs
<1>7. r \div w = z /\ r % w = x
  BY <1>1, DivisionIs
<1> HIDE DEF n, r
<1>8. (n % d) \div w = z /\ (n % d) % w = x
  BY <1>6, <1>7
<1> QED BY <1>5, <1>6, <1>8 DEF n

LEMMA OneCell ==
  IsRegion(reg) => \A p \in Volume : Index(p) \in Nat /\ p = Placed(Index(p))
<1> SUFFICES ASSUME IsRegion(reg), NEW p \in Volume
             PROVE  Index(p) \in Nat /\ p = Placed(Index(p))
    OBVIOUS
<1>1. Width \in Nat /\ Height \in Nat /\ Length \in Nat
  BY SizesAreNat
<1>2. /\ p.x \in 0..(Width - 1) /\ p.z \in 0..(Length - 1) /\ p.y \in Nat
      /\ p = [x |-> p.x, y |-> p.y, z |-> p.z]
  BY <1>1 DEF Volume
<1> DEFINE n == p.x + Width * (p.z + Length * p.y)
<1>3. /\ n \in Nat /\ n \div (Width * Length) = p.y
      /\ (n % (Width * Length)) \div Width = p.z /\ (n % (Width * Length)) % Width = p.x
  BY <1>1, <1>2, EntryOf
<1>4. Index(p) = n
  BY DEF Index
<1> HIDE DEF n
<1>5. Placed(n) = [x |-> p.x, y |-> p.y, z |-> p.z]
  BY <1>3 DEF Placed, LayerAt
<1> QED BY <1>2, <1>3, <1>4, <1>5

LEMMA NoCells == IsRegion(reg) /\ i = 0 => Cells = {}
<1> SUFFICES ASSUME IsRegion(reg), i = 0, NEW p \in Volume, Index(p) < i PROVE FALSE
    BY DEF Cells
<1>1. Index(p) \in Nat
  BY OneCell
<1> QED BY <1>1

LEMMA FewCells == ASSUME IsRegion(reg), i \in Nat PROVE IsFiniteSet(Cells)
<1> DEFINE f == [p \in Cells |-> Index(p)]
<1>1. \A p \in Cells : Index(p) \in 0..(i - 1) /\ p = Placed(Index(p))
  BY OneCell DEF Cells
<1>2. f \in [Cells -> 0..(i - 1)]
  BY <1>1
<1>3. \A p, q \in Cells : f[p] = f[q] => p = q
  BY <1>1
<1>4. f \in Injection(Cells, 0..(i - 1))
  <2> HIDE DEF f
  <2> QED BY <1>2, <1>3 DEF Injection, IsInjective
<1>5. IsFiniteSet(0..(i - 1))
  BY FS_Interval
<1> HIDE DEF f
<1> QED BY <1>4, <1>5, FS_Injection

-----------------------------------------------------------------------------
\* What is placed so far is what the file has so far: one turn adds one cell, as
\* what the parser reads of an entry is what the file has there (IDIs).
SoFar ==
  (Lite => Bits <= W) =>
    /\ {blocks[k] : k \in (start + 1)..Len(blocks)}
         = {[at |-> p, block |-> NameOf(FileID(Index(p)))] : p \in Cells}
    /\ Len(blocks) = start + Cardinality(Cells)

\* The entries gone through are there, and a region that is left has no more.
Reached == \A n \in 0..(i - 1) : Present(n)
NoneLeft ==
  pc \in {"open", "region", "done"} =>
    \A p \in Volume : Present(Index(p)) => Index(p) < i

ContentInv == FilesInv /\ SoFar /\ Reached /\ NoneLeft /\ PanicsOnlyFor

\* What the parser goes by is the file's, where it does not panic.
LEMMA IDIs ==
  ASSUME FilesInv, Turn, ~Panics(ID(i)), Lite => Bits <= W
  PROVE  ID(i) = FileID(i)
<1>1. CASE ~Lite
  BY <1>1 DEF ID, FileID
<1>2. CASE Lite
  <2>1. ID(i) = StateID(i) /\ ~(StateID(i) < 0)
    BY <1>2 DEF ID, Panics
  <2>2. StateID(i) \in Int
    BY <1>2, EntryIs
  <2>3. StateID(i) >= 0
    BY <2>1, <2>2
  <2> QED BY <1>2, <2>1, <2>3, EntryIs
<1> QED BY <1>1, <1>2

\* What is said of the file and the region stays while they do.
LEMMA SameRegion ==
  ASSUME file' = file, reg' = reg
  PROVE  /\ Lite' = Lite /\ Bits' = Bits /\ Volume' = Volume
         /\ \A p : Index(p)' = Index(p)
         /\ \A n : FileID(n)' = FileID(n)
         /\ \A id : (Passed(id) <=> Passed(id)') /\ NameOf(id)' = NameOf(id)
         /\ \A n : Present(n) <=> Present(n)'
<1>1. /\ Lite' = Lite /\ Bits' = Bits /\ Volume' = Volume
      /\ \A p : Index(p)' = Index(p)
  BY DEF Lite, Bits, Volume, Index, Width, Height, Length, Abs
<1>2. \A n : FileID(n)' = FileID(n)
  BY <1>1 DEF FileID
<1>3. \A id : NameOf(id)' = NameOf(id)
  BY DEF NameOf, Classic
<1>4. \A id : Passed(id) <=> Passed(id)'
  BY <1>1, <1>3 DEF Passed, Classic
<1>5. \A n : Present(n) <=> Present(n)'
  BY <1>1 DEF Present, LongIdx
<1> QED BY <1>1, <1>2, <1>3, <1>4, <1>5

LEMMA ContentFrame ==
  ASSUME SoFar, UNCHANGED <<file, reg, blocks, start, i>>
  PROVE  SoFar'
<1>1. Cells' = Cells
  BY SameRegion DEF Cells
<1> QED BY <1>1, SameRegion DEF SoFar

\* Going on by an entry adds the cell of that entry, if there is one and it holds
\* a block.
LEMMA CellsGrow ==
  ASSUME FilesInv, file' = file, reg' = reg, i' = i + 1
  PROVE  Cells' = Cells \cup {p \in Volume : Index(p) = i /\ ~Passed(FileID(i))}
<1>1. i \in Nat /\ IsRegion(reg)
  BY DEF FilesInv, TypeOK
<1>2. Cells' = {p \in Volume : Index(p) < i + 1 /\ ~Passed(FileID(Index(p)))}
  BY SameRegion DEF Cells
<1>3. \A p \in Volume : Index(p) < i + 1 <=> Index(p) < i \/ Index(p) = i
  BY <1>1, OneCell
<1> QED BY <1>2, <1>3 DEF Cells

LEMMA ContentInit == Init => ContentInv
<1> SUFFICES ASSUME Init PROVE ContentInv
    OBVIOUS
<1>1. FilesInv
  BY FilesInit
<1>2. Cells = {}
  BY <1>1, NoCells DEF FilesInv, TypeOK, Init
<1>3. (start + 1)..Len(blocks) = {} /\ Len(blocks) = 0 /\ start = 0
  BY DEF Init
<1>4. SoFar
  BY <1>2, <1>3, FS_EmptySet DEF SoFar
<1>5. Volume = {}
  <2>1. Width = 0
    BY DEF Init, NoRegion, Width, Abs
  <2> QED BY <2>1 DEF Volume
<1>6. Reached /\ NoneLeft
  <2>1. 0..(i - 1) = {}
    BY DEF Init
  <2> QED BY <1>5, <2>1 DEF Reached, NoneLeft
<1> QED BY <1>1, <1>4, <1>6 DEF ContentInv, PanicsOnlyFor, Init

LEMMA ContentStep == ContentInv /\ [Next]_vars => SoFar'
<1> SUFFICES ASSUME ContentInv, [Next]_vars PROVE SoFar'
    OBVIOUS
<1>t. /\ FilesInv /\ SoFar /\ IsRegion(reg)
      /\ i \in Nat /\ start \in Nat /\ Len(blocks) \in Nat /\ start <= Len(blocks)
  BY DEF ContentInv, FilesInv, TypeOK
<1>1. CASE Open \/ Return \/ End \/ Panic \/ UNCHANGED vars \/ \E r \in todo : PassOver(r)
  <2>1. UNCHANGED <<file, reg, blocks, start, i>>
    BY <1>1 DEF Open, Return, End, Panic, PassOver, Turn, vars
  <2> QED BY <1>t, <2>1, ContentFrame
<1>2. ASSUME NEW r \in todo, Begin(r) PROVE SoFar'
  <2>1. i' = 0 /\ blocks' = blocks /\ start' = Len(blocks)
    BY <1>2 DEF Begin, Carried
  <2>2. FilesInv'
    BY <1>2, <1>t, FilesStep DEF Next
  <2>3. (IsRegion(reg) /\ i = 0 => Cells = {})'
    BY NoCells, PTL
  <2>4. Cells' = {}
    BY <2>1, <2>2, <2>3 DEF FilesInv, TypeOK
  <2>5. (start' + 1)..Len(blocks') = {} /\ Len(blocks') = start' + 0
    BY <1>t, <2>1
  <2>6. Cardinality(Cells') = 0
    BY <2>4, FS_EmptySet
  <2> QED BY <2>4, <2>5, <2>6 DEF SoFar
<1>3. CASE Continue
  <2>1. /\ Turn /\ ~Panics(ID(i)) /\ ~Taken(i) /\ i' = i + 1
        /\ UNCHANGED <<file, reg, blocks, start>>
    BY <1>3 DEF Continue, Turn
  <2> SUFFICES ASSUME Lite => Bits <= W PROVE SoFar'
      BY <2>1, SameRegion DEF SoFar
  <2>2. ID(i) = FileID(i)
    BY <1>t, <2>1, IDIs
  <2>3. ASSUME NEW p \in Volume, Index(p) = i, ~Passed(FileID(i)) PROVE FALSE
    <3>1. p = Placed(i)
      BY <1>t, <2>3, OneCell
    <3>2. Outside(p)
      BY <2>1, <2>2, <2>3, <3>1 DEF Taken
    <3>3. Width \in Nat /\ Height \in Nat /\ Length \in Nat
      BY <1>t, SizesAreNat
    <3> QED BY <3>2, <3>3 DEF Outside, Volume
  <2>4. Cells' = Cells
    BY <1>t, <2>1, <2>3, CellsGrow
  <2> QED BY <1>t, <2>1, <2>4, SameRegion DEF SoFar
<1>4. CASE Place
  <2> DEFINE c == Placed(i)
             b == [at |-> c, block |-> NameOf(ID(i))]
             In(p) == [at |-> p, block |-> NameOf(FileID(Index(p)))]
  <2>1. /\ Turn /\ ~Panics(ID(i)) /\ Taken(i) /\ i' = i + 1
        /\ blocks' = Append(blocks, b) /\ UNCHANGED <<file, reg, start>>
    BY <1>4 DEF Place, Turn
  <2> SUFFICES ASSUME Lite => Bits <= W PROVE SoFar'
      BY <2>1, SameRegion DEF SoFar
  <2>2. ID(i) = FileID(i)
    BY <1>t, <2>1, IDIs
  <2>3. c \in Volume /\ Index(c) = i
    BY <1>t, <2>1, TakenCell
  <2>4. {p \in Volume : Index(p) = i /\ ~Passed(FileID(i))} = {c}
    <3>1. \A p \in Volume : Index(p) = i => p = c
      BY <1>t, OneCell
    <3>2. ~Passed(FileID(i))
      BY <2>1, <2>2 DEF Taken
    <3> HIDE DEF c
    <3> QED BY <2>3, <3>1, <3>2
  <2>5. Cells' = Cells \cup {c}
    BY <1>t, <2>1, <2>4, CellsGrow
  <2>6. c \notin Cells
    BY <1>t, <2>3 DEF Cells
  <2>7. Cardinality(Cells') = Cardinality(Cells) + 1 /\ Cardinality(Cells) \in Nat
    BY <1>t, <2>5, <2>6, FewCells, FS_AddElement, FS_CardinalityType
  <2>8. b = In(c)
    BY <2>2, <2>3
  <2> HIDE DEF b, c
  <2>9. /\ Len(blocks') = Len(blocks) + 1 /\ blocks'[Len(blocks) + 1] = b
        /\ \A k \in 1..Len(blocks) : blocks'[k] = blocks[k]
    <3>1. ASSUME NEW T, NEW s \in Seq(T), NEW e
          PROVE  /\ Len(Append(s, e)) = Len(s) + 1 /\ Append(s, e)[Len(s) + 1] = e
                 /\ \A k \in 1..Len(s) : Append(s, e)[k] = s[k]
      <4>1. s \in Seq(T \cup {e}) /\ e \in T \cup {e}
        OBVIOUS
      <4> QED BY <4>1
    <3>2. blocks \in Seq([at : [x : Nat, y : Nat, z : Nat], block : Names])
      BY <1>t DEF FilesInv, TypeOK
    <3> QED BY <2>1, <3>1, <3>2
  <2>10. {blocks'[k] : k \in (start + 1)..Len(blocks')}
           = {blocks[k] : k \in (start + 1)..Len(blocks)} \cup {b}
    <3>1. \A k : k \in (start + 1)..Len(blocks') <=>
                   k \in (start + 1)..Len(blocks) \/ k = Len(blocks) + 1
      BY <1>t, <2>9
    <3>2. \A k \in (start + 1)..Len(blocks) : blocks'[k] = blocks[k]
      <4>1. \A k \in (start + 1)..Len(blocks) : k \in 1..Len(blocks)
        BY <1>t
      <4> QED BY <2>9, <4>1
    <3> QED BY <2>9, <3>1, <3>2
  <2>11. {In(p) : p \in Cells'} = {In(p) : p \in Cells} \cup {b}
    <3> HIDE DEF In
    <3> QED BY <2>5, <2>8
  <2>12. /\ {blocks[k] : k \in (start + 1)..Len(blocks)} = {In(p) : p \in Cells}
         /\ Len(blocks) = start + Cardinality(Cells)
    BY <1>t DEF SoFar
  <2>13. {blocks'[k] : k \in (start + 1)..Len(blocks')} = {In(p) : p \in Cells'}
    BY <2>10, <2>11, <2>12
  <2>14. Len(blocks') = start + Cardinality(Cells')
    BY <1>t, <2>7, <2>9, <2>12
  <2>15. \A p : In(p) = [at |-> p, block |-> NameOf(FileID(Index(p)))']
    BY <2>1, SameRegion
  <2> QED BY <2>1, <2>13, <2>14, <2>15, ZenonT(60) DEF SoFar
<1> QED BY <1>1, <1>2, <1>3, <1>4 DEF Next

\* A cell of a Litematica region has its entry before the end of the volume.
LEMMA IndexBelow == ASSUME IsRegion(reg), NEW p \in Volume PROVE Index(p) < Total
<1>1. /\ Width \in Nat /\ Height \in Nat /\ Length \in Nat
      /\ p.x \in 0..(Width - 1) /\ p.y \in 0..(Height - 1) /\ p.z \in 0..(Length - 1)
  BY SizesAreNat DEF Volume
<1> DEFINE a == p.z + Length * p.y
           m == Height * Length
<1>2. Length * p.y <= Length * (Height - 1) /\ Length * p.y \in Nat
  BY <1>1
<1>3. Length * (Height - 1) = m - Length /\ m \in Nat
  BY <1>1
<1>4. a \in Nat /\ a <= m - 1
  BY <1>1, <1>2, <1>3
<1>5. Width * a <= Width * (m - 1) /\ Width * a \in Nat
  <2> HIDE DEF a, m
  <2> QED BY <1>1, <1>3, <1>4
<1>6. Width * (m - 1) = Width * m - Width /\ Width * m \in Nat
  <2> HIDE DEF m
  <2> QED BY <1>1, <1>3
<1>7. p.x + Width * a < Width * m
  <2> HIDE DEF a, m
  <2> QED BY <1>1, <1>5, <1>6
<1>8. Width * m = Total
  BY <1>1 DEF Total
<1> QED BY <1>7, <1>8 DEF Index

LEMMA LongIdxIsInt == ASSUME FilesInv, NEW n \in Nat PROVE LongIdx(n) \in Nat
<1>1. W \in Nat /\ W > 0 /\ n * Bits \in Nat
  BY FilesAssumption, BitsIs
<1> QED BY <1>1, Division DEF LongIdx

\* Entries lie in the order of the words.
LEMMA LaterWords ==
  ASSUME FilesInv, NEW n \in Nat, i <= n
  PROVE  LongIdx(i) <= LongIdx(n)
<1>1. /\ i \in Nat /\ W \in Nat /\ W > 0 /\ Bits \in Nat
  BY FilesAssumption, BitsIs DEF FilesInv, TypeOK
<1> DEFINE a == i * Bits
           b == n * Bits
<1>2. a \in Nat /\ b \in Nat /\ a <= b
  BY <1>1
<1> HIDE DEF a, b
<1>3. /\ a = W * (a \div W) + (a % W) /\ a % W \in 0..(W - 1) /\ a \div W \in Nat
      /\ b = W * (b \div W) + (b % W) /\ b % W \in 0..(W - 1) /\ b \div W \in Nat
  BY <1>1, <1>2, Division
<1>4. a < W * ((b \div W) + 1)
  BY <1>1, <1>2, <1>3
<1>5. a \div W < (b \div W) + 1
  BY <1>1, <1>2, <1>3, <1>4, Quotient
<1>6. a \div W <= b \div W
  BY <1>3, <1>5
<1> QED BY <1>6 DEF LongIdx, a, b

LEMMA ReachedStep == ContentInv /\ [Next]_vars => Reached' /\ NoneLeft'
<1> SUFFICES ASSUME ContentInv, [Next]_vars PROVE Reached' /\ NoneLeft'
    OBVIOUS
<1>t. /\ FilesInv /\ Reached /\ NoneLeft /\ IsRegion(reg) /\ i \in Nat
  BY DEF ContentInv, FilesInv, TypeOK
<1>f. ASSUME UNCHANGED <<file, reg, i>>, NoneLeft \/ pc' \notin {"open", "region", "done"},
             pc' \in {"open", "region", "done"} => pc \in {"open", "region", "done"}
      PROVE  Reached' /\ NoneLeft'
  BY <1>t, <1>f, SameRegion DEF Reached, NoneLeft
<1>1. CASE Open \/ Return \/ Panic \/ UNCHANGED vars \/ \E r \in todo : PassOver(r)
  <2>1. /\ UNCHANGED <<file, reg, i>>
        /\ pc' \in {"open", "region", "done"} => pc \in {"open", "region", "done"}
    BY <1>1 DEF Open, Return, Panic, PassOver, Turn, vars
  <2> QED BY <1>t, <1>f, <2>1
<1>2. ASSUME NEW r \in todo, Begin(r) PROVE Reached' /\ NoneLeft'
  <2>1. i' = 0 /\ pc' = "loop"
    BY <1>2 DEF Begin
  <2>2. 0..(i' - 1) = {}
    BY <2>1
  <2> QED BY <2>1, <2>2 DEF Reached, NoneLeft
<1>3. CASE Continue \/ Place
  <2>1. pc = "loop" /\ More /\ pc' = "loop" /\ i' = i + 1 /\ UNCHANGED <<file, reg>>
    BY <1>3 DEF Continue, Place, Turn
  <2>2. Present(i)
    BY <2>1 DEF More, Present
  <2>3. \A n \in 0..(i' - 1) : n \in 0..(i - 1) \/ n = i
    BY <1>t, <2>1
  <2> QED BY <1>t, <2>1, <2>2, <2>3, SameRegion DEF Reached, NoneLeft
<1>4. CASE End
  <2>1. pc = "loop" /\ ~More /\ UNCHANGED <<file, reg, i>>
    BY <1>4 DEF End
  <2>2. ASSUME NEW p \in Volume, Present(Index(p)) PROVE Index(p) < i
    <3>1. Index(p) \in Nat
      BY <1>t, OneCell
    <3>2. CASE ~Lite
      BY <1>t, <2>1, <2>2, <3>1, <3>2 DEF More, Present
    <3>3. CASE Lite
      <4>1. Index(p) < Total /\ Total \in Int
        BY <1>t, IndexBelow, SizesAreNat DEF Total
      <4>2. CASE i < Total
        <5>1. ~(LongIdx(i) < Len(reg.data)) /\ LongIdx(Index(p)) < Len(reg.data)
          BY <2>1, <2>2, <3>3, <4>2 DEF More, Present
        <5>2. LongIdx(i) \in Int /\ LongIdx(Index(p)) \in Int /\ Len(reg.data) \in Int
          BY <1>t, <3>1, LongIdxIsInt DEF IsRegion
        <5>3. i <= Index(p) => LongIdx(i) <= LongIdx(Index(p))
          BY <1>t, <3>1, LaterWords
        <5> QED BY <1>t, <3>1, <5>1, <5>2, <5>3
      <4> QED BY <1>t, <3>1, <4>1, <4>2
    <3> QED BY <3>2, <3>3
  <2> QED BY <1>t, <2>1, <2>2, SameRegion DEF Reached, NoneLeft
<1> QED BY <1>1, <1>2, <1>3, <1>4 DEF Next

LEMMA PanicStep == ContentInv /\ [Next]_vars => PanicsOnlyFor'
<1> SUFFICES ASSUME ContentInv, [Next]_vars, pc' = "panicked"
             PROVE  PanicsOnlyFor'
    BY DEF PanicsOnlyFor
<1>t. FilesInv /\ PanicsOnlyFor /\ W \in Nat
  BY FilesAssumption DEF ContentInv
<1>1. CASE UNCHANGED vars
  BY <1>1, <1>t DEF PanicsOnlyFor, Lite, Width, Length, Abs, Bits, Straddles,
                    BitIdx, LongIdx, vars
<1>2. CASE Panic
  <2>1. Turn /\ Panics(ID(i)) /\ UNCHANGED <<file, reg, i>>
    BY <1>2 DEF Panic, Turn
  <2>2. CASE ~Lite
    BY <2>1, <2>2 DEF Panics, PanicsOnlyFor, Lite, Width, Length, Abs
  <2>3. CASE Lite /\ Bits <= W
    <3>1. (Straddles(i) \/ Bits = W) /\ reg.data[LongIdx(i) + 1] < 0
      BY <1>t, <2>1, <2>3, EntryIs DEF Panics, ID
    <3> QED BY <2>1, <2>3, <3>1 DEF PanicsOnlyFor, Lite, Bits, Straddles, BitIdx, LongIdx
  <2>4. CASE Lite /\ ~(Bits <= W)
    <3>1. Bits > W
      BY <1>t, <2>4, BitsIs
    <3> QED BY <2>1, <2>4, <3>1 DEF PanicsOnlyFor, Lite, Bits
  <2> QED BY <2>2, <2>3, <2>4
<1>3. CASE Continue \/ Place
  BY <1>3 DEF Continue, Place, Turn
<1>4. CASE Open \/ End \/ Return
  BY <1>4 DEF Open, End, Return
<1>5. ASSUME NEW r \in todo, Begin(r) \/ PassOver(r) PROVE FALSE
  BY <1>5 DEF Begin, PassOver
<1> QED BY <1>1, <1>2, <1>3, <1>4, <1>5 DEF Next

\* The inductive invariant holds throughout, from any file.
THEOREM ContentInvariant == Spec => []ContentInv
<1>1. ContentInv /\ [Next]_vars => ContentInv'
  BY FilesStep, ContentStep, ReachedStep, PanicStep DEF ContentInv
<1> QED BY <1>1, ContentInit, PTL DEF Spec

\* So far a region has given the blocks the file has, each once, none missing
\* and none made up, and all of them when it is left, for every file of every
\* format, every palette of at most as many bits as a word, and every way the
\* entries straddle the words.
THEOREM BlocksAreTheFiles == Spec => []BlocksOfTheFile
<1>1. ContentInv => BlocksOfTheFile
  <2> SUFFICES ASSUME ContentInv PROVE BlocksOfTheFile
      OBVIOUS
  <2>1. ASSUME pc \in {"region", "done"} PROVE Cells = FileCells
    <3>1. \A p \in Volume : Index(p) < i => Present(Index(p))
      <4>1. \A p \in Volume : Index(p) \in Nat
        BY OneCell DEF ContentInv, FilesInv, TypeOK
      <4>2. i \in Nat
        BY DEF ContentInv, FilesInv, TypeOK
      <4>3. \A p \in Volume : Index(p) < i => Index(p) \in 0..(i - 1)
        BY <4>1, <4>2
      <4> QED BY <4>3 DEF ContentInv, Reached
    <3> QED BY <2>1, <3>1 DEF ContentInv, NoneLeft, Cells, FileCells
  <2> QED BY <2>1 DEF ContentInv, SoFar, BlocksOfTheFile
<1> QED BY <1>1, ContentInvariant, PTL

\* A parser panics only on a block of an empty volume, on entries wider than a
\* word, or where an entry takes the sign bit of a negative word.
THEOREM PanicsOnlyThere == Spec => []PanicsOnlyFor
<1>1. ContentInv => PanicsOnlyFor
  BY DEF ContentInv
<1> QED BY <1>1, ContentInvariant, PTL
=============================================================================
