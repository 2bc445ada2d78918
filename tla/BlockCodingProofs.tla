-------------------------- MODULE BlockCodingProofs --------------------------
(***************************************************************************)
(* Theorems about BlockCoding, for any blocks, transforms and entropy      *)
(* coders: when these keep the contracts of BlockContracts, what an        *)
(* encoding task wrote a decoding task brings back byte for byte, within   *)
(* its arrays and reading to the end.                                      *)
(***************************************************************************)
EXTENDS BlockContracts, SequenceTheorems, WellFoundedInduction, TLAPS

(***************************************************************************)
(* Every set of numbers that is not empty has a least one, and what holds  *)
(* of 0 and of the number after each holds of all.                         *)
(***************************************************************************)
Less == {pair \in Nat \X Nat : pair[1] < pair[2]}

LEMMA LeastNumber ==
  ASSUME NEW S, S \subseteq Nat, S # {}
  PROVE  \E m \in S : \A k \in S : m <= k
<1>1. IsWellFoundedOn(Less, Nat)
  BY NatLessThanWellFounded DEF OpToRel, Less
<1>2. PICK m \in S : \A k \in S : ~ (<<k, m>> \in Less)
  BY <1>1, WFMin
<1>3. \A k \in S : ~(k < m)
  BY <1>2 DEF Less
<1>4. \A k \in S : m <= k
  BY <1>3
<1> QED BY <1>4

LEMMA Induction ==
  ASSUME NEW S, 0 \in S, \A k \in Nat : k \in S => k + 1 \in S
  PROVE  \A k \in Nat : k \in S
<1> DEFINE T == {k \in Nat : k \notin S}
<1> SUFFICES ASSUME T # {} PROVE FALSE
  OBVIOUS
<1>1. PICK m \in T : \A k \in T : m <= k
  BY LeastNumber
<1>2. m # 0 /\ m - 1 \in Nat
  OBVIOUS
<1>3. m - 1 \in S
  BY <1>1, <1>2
<1> QED BY <1>2, <1>3

Follows(f, G, I) == \A k \in I : f[k] = G[k][f[k - 1]]

(***************************************************************************)
(* A function defined by recursion exists, over the first numbers and then *)
(* over all.                                                               *)
(***************************************************************************)
LEMMA FirstValues ==
  ASSUME NEW S, NEW a \in S, NEW n \in Nat, NEW G \in [Nat \ {0} -> [S -> S]]
  PROVE  \E f : f \in [0..n -> S] /\ f[0] = a /\ Follows(f, G, 1..n)
<1> DEFINE T == {m \in Nat : \E f \in [0..m -> S] : f[0] = a /\ \A k \in 1..m : f[k] = G[k][f[k - 1]]}
<1>1. 0 \in T
  <2> DEFINE f == [k \in 0..0 |-> a]
  <2>1. f \in [0..0 -> S] /\ f[0] = a
    OBVIOUS
  <2>2. \A k \in 1..0 : f[k] = G[k][f[k - 1]]
    OBVIOUS
  <2> QED BY <2>1, <2>2
<1>2. ASSUME NEW m \in Nat, m \in T PROVE m + 1 \in T
  <2>1. PICK f \in [0..m -> S] : f[0] = a /\ \A k \in 1..m : f[k] = G[k][f[k - 1]]
    BY <1>2
  <2> DEFINE g == [k \in 0..(m + 1) |-> IF k = m + 1 THEN G[m + 1][f[m]] ELSE f[k]]
  <2>2. f[m] \in S /\ G[m + 1] \in [S -> S]
    OBVIOUS
  <2>3. g \in [0..(m + 1) -> S]
    BY <2>2
  <2>4. g[0] = a
    BY <2>1
  <2>5. \A k \in 0..m : g[k] = f[k]
    OBVIOUS
  <2>6. g[m + 1] = G[m + 1][f[m]]
    OBVIOUS
  <2> HIDE DEF g
  <2>7. ASSUME NEW k \in 1..(m + 1) PROVE g[k] = G[k][g[k - 1]]
    <3>1. CASE k = m + 1
      BY <3>1, <2>5, <2>6
    <3>2. CASE k # m + 1
      <4>1. k \in 1..m /\ k \in 0..m /\ k - 1 \in 0..m
        BY <3>2
      <4> QED BY <4>1, <2>1, <2>5
    <3> QED BY <3>1, <3>2
  <2> QED BY <2>3, <2>4, <2>7
<1>3. n \in T
  BY <1>1, <1>2, Induction
<1> QED BY <1>3 DEF Follows

LEMMA SameValues ==
  ASSUME NEW n \in Nat, NEW G, NEW f, NEW g, f[0] = g[0], Follows(f, G, 1..n), Follows(g, G, 1..n)
  PROVE  \A k \in 0..n : f[k] = g[k]
<1> DEFINE T == {k \in Nat : k <= n => f[k] = g[k]}
<1>1. 0 \in T
  OBVIOUS
<1>2. ASSUME NEW k \in Nat, k \in T PROVE k + 1 \in T
  <2> SUFFICES ASSUME k + 1 <= n PROVE f[k + 1] = g[k + 1]
    OBVIOUS
  <2>1. f[k] = g[k] /\ k + 1 \in 1..n /\ (k + 1) - 1 = k
    BY <1>2
  <2> QED BY <2>1 DEF Follows
<1>3. \A k \in Nat : k \in T
  BY <1>1, <1>2, Induction
<1> QED BY <1>3

LEMMA AllValues ==
  ASSUME NEW S, NEW a \in S, NEW G \in [Nat \ {0} -> [S -> S]]
  PROVE  \E f : f \in [Nat -> S] /\ f[0] = a /\ Follows(f, G, Nat \ {0})
<1>1. \A m \in Nat : \E f : f \in [0..m -> S] /\ f[0] = a /\ Follows(f, G, 1..m)
  BY FirstValues
<1> DEFINE F == [m \in Nat |-> CHOOSE f : f \in [0..m -> S] /\ f[0] = a /\ Follows(f, G, 1..m)]
           h == [m \in Nat |-> F[m][m]]
<1>2. \A m \in Nat : F[m] \in [0..m -> S] /\ F[m][0] = a /\ Follows(F[m], G, 1..m)
  BY <1>1
<1>3. \A m \in Nat : h[m] = F[m][m]
  OBVIOUS
<1>4. h = [m \in Nat |-> h[m]]
  OBVIOUS
<1> HIDE DEF F, h
<1>5. ASSUME NEW m \in Nat, NEW n \in Nat, m <= n PROVE F[n][m] = F[m][m]
  <2>1. Follows(F[n], G, 1..m)
    BY <1>2, <1>5 DEF Follows
  <2> QED BY <2>1, <1>2, SameValues
<1>6. \A m \in Nat : h[m] \in S
  BY <1>2, <1>3
<1>7. h[0] = a
  BY <1>2, <1>3
<1>8. ASSUME NEW k \in Nat \ {0} PROVE h[k] = G[k][h[k - 1]]
  <2>1. k - 1 \in Nat /\ k \in 1..k /\ k - 1 <= k /\ k \in Nat
    OBVIOUS
  <2>2. F[k][k] = G[k][F[k][k - 1]]
    BY <1>2, <2>1 DEF Follows
  <2>3. F[k][k - 1] = F[k - 1][k - 1]
    BY <1>5, <2>1
  <2> QED BY <2>1, <2>2, <2>3, <1>3
<1>9. h \in [Nat -> S]
  BY <1>4, <1>6
<1> QED BY <1>7, <1>8, <1>9 DEF Follows

(***************************************************************************)
(* Numbers in bits (BlockCoding's Header, the writeBits and readBits of    *)
(* the tasks). Halves(n)[k] is what is left of n when k bits have been     *)
(* taken off, and a bit more is taken off in one step.                     *)
(***************************************************************************)
LEMMA HalvesStep ==
  ASSUME NEW n \in Nat
  PROVE  /\ Halves(n) \in [Nat -> Nat]
         /\ Halves(n)[0] = n
         /\ \A k \in Nat : Halves(n)[k + 1] = Halves(n)[k] \div 2
<1> DEFINE G == [k \in Nat \ {0} |-> [v \in Nat |-> v \div 2]]
           Rec(h) == h = [k \in Nat |-> IF k = 0 THEN n ELSE h[k - 1] \div 2]
<1>1. \A v \in Nat : v \div 2 \in Nat
  OBVIOUS
<1>2. G \in [Nat \ {0} -> [Nat -> Nat]]
  BY <1>1
<1>3. \A k \in Nat \ {0}, v \in Nat : G[k][v] = v \div 2
  OBVIOUS
<1> HIDE DEF G
<1>4. PICK f : f \in [Nat -> Nat] /\ f[0] = n /\ Follows(f, G, Nat \ {0})
  BY <1>2, AllValues
<1>5. \A k \in Nat \ {0} : f[k] = f[k - 1] \div 2
  BY <1>3, <1>4 DEF Follows
<1>6. Rec(f)
  BY <1>4, <1>5
<1>7. Halves(n) = CHOOSE h : Rec(h)
  BY DEF Halves
<1>8. Rec(Halves(n))
  <2> HIDE DEF Rec
  <2> QED BY <1>6, <1>7
<1> DEFINE h == Halves(n)
<1>9. h = [k \in Nat |-> IF k = 0 THEN n ELSE h[k - 1] \div 2]
  BY <1>8
<1> HIDE DEF h
<1>10. h[0] = n
  BY <1>9
<1>11. \A k \in Nat : h[k + 1] = h[k] \div 2
  <2> TAKE k \in Nat
  <2>1. k + 1 \in Nat /\ k + 1 # 0 /\ (k + 1) - 1 = k
    OBVIOUS
  <2> QED BY <2>1, <1>9
<1>12. \A k \in Nat : h[k] \in Nat
  <2> DEFINE T == {k \in Nat : h[k] \in Nat}
  <2>1. 0 \in T
    BY <1>10
  <2>2. \A k \in Nat : k \in T => k + 1 \in T
    BY <1>1, <1>11
  <2>3. \A k \in Nat : k \in T
    BY <2>1, <2>2, Induction
  <2> QED BY <2>3
<1>13. h \in [Nat -> Nat]
  BY <1>9, <1>12
<1> QED BY <1>10, <1>11, <1>13 DEF h

(***************************************************************************)
(* No bit of n is left past k once none is left at k.                      *)
(***************************************************************************)
LEMMA HalvesVanish ==
  ASSUME NEW n \in Nat, NEW k \in Nat, Halves(n)[k] = 0, NEW j \in Nat, k <= j
  PROVE  Halves(n)[j] = 0
<1> DEFINE h == Halves(n)
           T == {i \in Nat : h[k + i] = 0}
<1> HIDE DEF h
<1>1. h[k] = 0 /\ \A i \in Nat : h[i + 1] = h[i] \div 2
  BY HalvesStep DEF h
<1>2. 0 \in T
  BY <1>1
<1>3. ASSUME NEW i \in Nat, i \in T PROVE i + 1 \in T
  <2>1. h[(k + i) + 1] = h[k + i] \div 2 /\ h[k + i] = 0 /\ (k + i) + 1 = k + (i + 1)
    BY <1>1, <1>3
  <2> QED BY <2>1
<1> HIDE DEF T
<1>4. \A i \in Nat : i \in T
  BY <1>2, <1>3, Induction
<1>5. j - k \in Nat /\ k + (j - k) = j
  OBVIOUS
<1> QED BY <1>4, <1>5 DEF h, T

(***************************************************************************)
(* Global::log2: no bit of n is left past the place of its highest one.    *)
(***************************************************************************)
LEMMA Log2Halves ==
  ASSUME NEW n \in Nat \ {0}
  PROVE  Log2(n) \in Nat /\ Halves(n)[Log2(n)] = 1
<1> DEFINE h == Halves(n)
<1>1. h \in [Nat -> Nat] /\ h[0] = n /\ \A i \in Nat : h[i + 1] = h[i] \div 2
  BY HalvesStep
<1> HIDE DEF h
<1>2. \A k \in Nat : h[k] # 0 => h[k] + k <= n
  <2> DEFINE T == {k \in Nat : h[k] # 0 => h[k] + k <= n}
  <2>1. 0 \in T
    BY <1>1
  <2>2. ASSUME NEW k \in Nat, k \in T PROVE k + 1 \in T
    <3>1. h[k + 1] = h[k] \div 2 /\ h[k] \in Nat /\ (h[k] # 0 => h[k] + k <= n)
      BY <1>1, <2>2
    <3>2. \A v \in Nat : v \div 2 # 0 => v # 0 /\ (v \div 2) + 1 <= v /\ v \div 2 \in Nat
      OBVIOUS
    <3>3. h[k] \div 2 # 0 => (h[k] \div 2) + (k + 1) <= n
      BY <3>1, <3>2
    <3> QED BY <3>1, <3>3
  <2>3. \A k \in Nat : k \in T
    BY <2>1, <2>2, Induction
  <2> QED BY <2>3
<1>3. PICK m \in {v \in Nat : v # 0 /\ \E k \in Nat : h[k] = v} :
         \A v \in {w \in Nat : w # 0 /\ \E k \in Nat : h[k] = w} : m <= v
  <2> DEFINE V == {v \in Nat : v # 0 /\ \E k \in Nat : h[k] = v}
  <2>1. n \in V
    BY <1>1
  <2>2. V \subseteq Nat /\ V # {}
    BY <2>1
  <2> HIDE DEF V
  <2>3. \E m \in V : \A v \in V : m <= v
    BY <2>2, LeastNumber
  <2> QED BY <2>3 DEF V
<1>4. PICK k \in Nat : h[k] = m
  BY <1>3
<1>5. m = 1
  <2> SUFFICES ASSUME m >= 2 PROVE FALSE
    BY <1>3
  <2>1. m \div 2 \in Nat /\ m \div 2 # 0 /\ m \div 2 < m
    OBVIOUS
  <2>2. h[k + 1] = m \div 2
    BY <1>1, <1>4
  <2>3. m <= m \div 2
    BY <1>3, <2>1, <2>2
  <2> QED BY <2>1, <2>3
<1>6. k \in 0..n
  BY <1>2, <1>4, <1>5
<1>7. \E i \in 0..n : h[i] = 1
  BY <1>4, <1>5, <1>6
<1>8. Log2(n) = CHOOSE i \in 0..n : h[i] = 1
  BY DEF Log2, h
<1>9. Log2(n) \in 0..n /\ h[Log2(n)] = 1
  BY <1>7, <1>8
<1> QED BY <1>9 DEF h

(***************************************************************************)
(* A number is written in as many bits as it is given.                     *)
(***************************************************************************)
LEMMA BitsType ==
  ASSUME NEW n \in Nat, NEW k \in Nat
  PROVE  Bits(n, k) \in Seq(Nat) /\ Len(Bits(n, k)) = k
<1>1. \A j \in 1..k : Halves(n)[k - j] \in Nat
  BY HalvesStep
<1>2. \A v \in Nat : v % 2 \in Nat
  OBVIOUS
<1>3. \A j \in 1..k : Halves(n)[k - j] % 2 \in Nat
  BY <1>1, <1>2
<1>4. Bits(n, k) \in [1..k -> Nat]
  BY <1>3 DEF Bits
<1> QED BY <1>4, LenProperties

(***************************************************************************)
(* A number that fits in k bits is read as it was written.                 *)
(***************************************************************************)
LEMMA NumeralOfBits ==
  ASSUME NEW n \in Nat, NEW k \in Nat, Halves(n)[k] = 0
  PROVE  Numeral(Bits(n, k)) = n
<1> DEFINE s == Bits(n, k)
           h == Halves(n)
           Rec(g) == g = [j \in 0..Len(s) |-> IF j = 0 THEN 0 ELSE CHOOSE u \in {2 * v + s[j] : v \in {g[j - 1]}} : TRUE]
           f == [j \in 0..k |-> h[k - j]]
<1>1. Len(s) = k
  BY BitsType
<1>2. h \in [Nat -> Nat] /\ h[k] = 0 /\ h[0] = n /\ \A j \in Nat : h[j + 1] = h[j] \div 2
  BY HalvesStep
<1>3. \A j \in 1..k : s[j] = h[k - j] % 2
  BY DEF Bits
<1>4. Numeral(s) = (CHOOSE g : Rec(g))[Len(s)]
  BY DEF Numeral, Fold, Once
<1>5. \A j \in 0..k : f[j] = h[k - j]
  OBVIOUS
<1> HIDE DEF s, h, f
<1>6. \A j \in 1..k : h[k - j] = 2 * h[k - (j - 1)] + s[j]
  <2> TAKE j \in 1..k
  <2>1. k - j \in Nat /\ (k - j) + 1 = k - (j - 1)
    OBVIOUS
  <2>2. h[k - (j - 1)] = h[k - j] \div 2 /\ h[k - j] \in Nat
    BY <1>2, <2>1
  <2>3. \A v \in Nat : v = 2 * (v \div 2) + (v % 2)
    OBVIOUS
  <2> QED BY <2>2, <2>3, <1>3
<1>7. \A e : (CHOOSE u \in {e} : TRUE) = e
  OBVIOUS
<1>8. Rec(f)
  <2>1. f[0] = 0
    BY <1>2, <1>5
  <2>2. ASSUME NEW j \in 1..k PROVE f[j] = CHOOSE u \in {2 * v + s[j] : v \in {f[j - 1]}} : TRUE
    <3>1. f[j] = 2 * f[j - 1] + s[j]
      BY <1>5, <1>6
    <3>2. {2 * v + s[j] : v \in {f[j - 1]}} = {2 * f[j - 1] + s[j]}
      OBVIOUS
    <3> QED BY <3>1, <3>2, <1>7
  <2>3. f = [j \in 0..k |-> f[j]]
    BY DEF f
  <2> DEFINE R(j) == IF j = 0 THEN 0 ELSE CHOOSE u \in {2 * v + s[j] : v \in {f[j - 1]}} : TRUE
  <2>4. \A j \in 0..k : f[j] = R(j)
    <3> SUFFICES ASSUME NEW j \in 0..k PROVE f[j] = R(j)
      OBVIOUS
    <3>1. CASE j = 0
      BY <3>1, <2>1
    <3>2. CASE j # 0
      <4>1. j \in 1..k
        BY <3>2
      <4> QED BY <4>1, <3>2, <2>2
    <3> QED BY <3>1, <3>2
  <2> HIDE DEF R
  <2>5. f = [j \in 0..k |-> R(j)]
    BY <2>3, <2>4
  <2> QED BY <2>5, <1>1 DEF R
<1> DEFINE g == CHOOSE x : Rec(x)
<1>9. Rec(g)
  <2> HIDE DEF Rec
  <2> QED BY <1>8
<1> HIDE DEF g
<1>10. g[0] = 0
  BY <1>9, <1>1
<1>11. ASSUME NEW j \in 1..k PROVE g[j] = 2 * g[j - 1] + s[j]
  <2>1. g[j] = CHOOSE u \in {2 * v + s[j] : v \in {g[j - 1]}} : TRUE
    BY <1>9, <1>1
  <2>2. {2 * v + s[j] : v \in {g[j - 1]}} = {2 * g[j - 1] + s[j]}
    OBVIOUS
  <2> QED BY <2>1, <2>2, <1>7
<1>12. \A j \in Nat : j <= k => g[j] = h[k - j]
  <2> DEFINE T == {j \in Nat : j <= k => g[j] = h[k - j]}
  <2>1. 0 \in T
    BY <1>10, <1>2
  <2>2. ASSUME NEW j \in Nat, j \in T PROVE j + 1 \in T
    <3> SUFFICES ASSUME j + 1 <= k PROVE g[j + 1] = h[k - (j + 1)]
      OBVIOUS
    <3>1. j + 1 \in 1..k /\ (j + 1) - 1 = j /\ g[j] = h[k - j]
      BY <2>2
    <3> QED BY <3>1, <1>6, <1>11
  <2>3. \A j \in Nat : j \in T
    BY <2>1, <2>2, Induction
  <2> QED BY <2>3
<1>13. g[k] = n
  BY <1>12, <1>2
<1> QED BY <1>4, <1>1, <1>13 DEF g, s

LEMMA Division ==
  ASSUME NEW l \in Nat, NEW b \in Nat \ {0}
  PROVE  l \div b \in Nat /\ b * (l \div b) <= l /\ l < b * ((l \div b) + 1)
OBVIOUS

(***************************************************************************)
(* The length of a block of less than 2 ^ 32 bytes takes one to four       *)
(* bytes, and they hold it (dataSize in EncodingTask::run).                *)
(***************************************************************************)
LEMMA DataSizeEnough ==
  ASSUME NEW n \in Nat, Halves(n)[4 * ByteBits] = 0
  PROVE  DataSize(n) \in 1..4 /\ Halves(n)[ByteBits * DataSize(n)] = 0
<1> USE SizesAssumption
<1>1. CASE Halves(n)[ByteBits] = 0
  BY <1>1 DEF DataSize
<1>2. CASE Halves(n)[ByteBits] # 0
  <2> DEFINE l == Log2(n)
             q == l \div ByteBits
  <2>1. DataSize(n) = q + 1
    BY <1>2 DEF DataSize
  <2>2. n # 0
    <3> SUFFICES ASSUME n = 0 PROVE FALSE
      OBVIOUS
    <3>1. Halves(n)[0] = 0 /\ 0 \in Nat /\ ByteBits \in Nat /\ 0 <= ByteBits
      BY HalvesStep
    <3> QED BY <3>1, <1>2, HalvesVanish
  <2>3. l \in Nat /\ Halves(n)[l] = 1
    BY <2>2, Log2Halves
  <2>4. Halves(n)[l + 1] = 0
    <3>1. Halves(n)[l + 1] = Halves(n)[l] \div 2
      BY <2>3, HalvesStep
    <3>2. 1 \div 2 = 0
      OBVIOUS
    <3> QED BY <2>3, <3>1, <3>2
  <2> HIDE DEF l
  <2>5. q \in Nat /\ ByteBits * q <= l /\ l < ByteBits * (q + 1)
    BY <2>3, Division
  <2> HIDE DEF q
  <2>6. ByteBits * (q + 1) \in Nat /\ l + 1 <= ByteBits * (q + 1)
    BY <2>3, <2>5
  <2>7. Halves(n)[ByteBits * (q + 1)] = 0
    BY <2>3, <2>4, <2>6, HalvesVanish
  <2>8. l < 4 * ByteBits
    <3> SUFFICES ASSUME 4 * ByteBits <= l PROVE FALSE
      BY <2>3
    <3>1. 4 * ByteBits \in Nat
      OBVIOUS
    <3>2. Halves(n)[l] = 0
      BY <2>3, <3>1, HalvesVanish
    <3> QED BY <3>2, <2>3
  <2>9. q < 4
    <3> SUFFICES ASSUME q >= 4 PROVE FALSE
      BY <2>5
    <3>1. ByteBits * q >= ByteBits * 4
      BY <2>5
    <3> QED BY <3>1, <2>3, <2>5, <2>8
  <2> QED BY <2>1, <2>5, <2>7, <2>9
<1> QED BY <1>1, <1>2

(***************************************************************************)
(* The number of these bytes, less one, fits the two bits it is given.     *)
(***************************************************************************)
LEMMA SmallHalves == \A v \in 0..3 : Halves(v)[2] = 0
<1> SUFFICES ASSUME NEW v \in 0..3 PROVE Halves(v)[2] = 0
  OBVIOUS
<1> DEFINE h == Halves(v)
<1>1. v \in Nat
  OBVIOUS
<1>2. h[0] = v /\ \A k \in Nat : h[k + 1] = h[k] \div 2
  BY <1>1, HalvesStep
<1> HIDE DEF h
<1>3. h[0 + 1] = v \div 2
  BY <1>2
<1>4. h[1 + 1] = (v \div 2) \div 2
  BY <1>2, <1>3
<1>5. (v \div 2) \div 2 = 0
  OBVIOUS
<1> QED BY <1>4, <1>5 DEF h

(***************************************************************************)
(* What stands between two other sequences.                                *)
(***************************************************************************)
LEMMA PartBetween ==
  ASSUME NEW S, NEW r \in Seq(S), NEW s \in Seq(S), NEW t \in Seq(S)
  PROVE  Part((r \o s) \o t, Len(r), Len(s)) = s
<1> DEFINE c == (r \o s) \o t
           p == Part(c, Len(r), Len(s))
<1>1. c \in Seq(S) /\ Len(c) = Len(r) + Len(s) + Len(t)
  OBVIOUS
<1>2. Len(r) \in Nat /\ Len(s) \in Nat /\ Len(t) \in Nat
  OBVIOUS
<1>3. p \in Seq(S) /\ Len(p) = Len(s)
  BY <1>1, <1>2 DEF Part
<1>4. ASSUME NEW j \in 1..Len(s) PROVE p[j] = s[j]
  <2>1. p[j] = c[Len(r) + j]
    BY <1>1, <1>2 DEF Part
  <2>2. c[Len(r) + j] = (r \o s)[Len(r) + j]
    BY <1>2
  <2>3. (r \o s)[Len(r) + j] = s[j]
    BY <1>2
  <2> QED BY <2>1, <2>2, <2>3
<1> HIDE DEF p
<1>5. p = s
  BY <1>3, <1>4, SeqEqual
<1> QED BY <1>5 DEF p

(***************************************************************************)
(* Sequences of bits and of bytes.                                         *)
(***************************************************************************)
LEMMA Concatenated ==
  ASSUME NEW S, NEW r \in Seq(S), NEW s \in Seq(S)
  PROVE  /\ r \o s \in Seq(S) /\ Len(r \o s) = Len(r) + Len(s)
         /\ \A j \in 1..Len(r) : (r \o s)[j] = r[j]
         /\ \A j \in 1..Len(s) : (r \o s)[Len(r) + j] = s[j]
OBVIOUS

LEMMA NumbersConcatenated ==
  ASSUME NEW r \in Seq(Nat), NEW s \in Seq(Nat)
  PROVE  /\ r \o s \in Seq(Nat) /\ Len(r \o s) = Len(r) + Len(s)
         /\ \A j \in 1..Len(r) : (r \o s)[j] = r[j]
         /\ \A j \in 1..Len(s) : (r \o s)[Len(r) + j] = s[j]
OBVIOUS

LEMMA Listed ==
  ASSUME NEW S, NEW n \in Nat, NEW s \in [1..n -> S]
  PROVE  s \in Seq(S) /\ Len(s) = n
OBVIOUS

LEMMA Widened ==
  ASSUME NEW S, NEW T, S \subseteq T, NEW s \in Seq(S)
  PROVE  s \in Seq(T)
<1>1. Len(s) \in Nat /\ s = [i \in 1..Len(s) |-> s[i]] /\ \A i \in 1..Len(s) : s[i] \in T
  OBVIOUS
<1> DEFINE n == Len(s)
<1> HIDE DEF n
<1>2. s \in [1..n -> T]
  BY <1>1 DEF n
<1> QED BY <1>1, <1>2, Listed DEF n

LEMMA SequenceOf ==
  ASSUME NEW s, IsSequence(s)
  PROVE  s \in Seq({s[i] : i \in 1..Len(s)})
<1> DEFINE n == Len(s)
           S == {s[i] : i \in 1..n}
<1>1. n \in Nat /\ s = [i \in 1..n |-> s[i]]
  BY DEF IsSequence
<1>2. \A i \in 1..n : s[i] \in S
  OBVIOUS
<1> HIDE DEF n, S
<1>3. s \in [1..n -> S]
  BY <1>1, <1>2
<1>4. s \in Seq(S)
  BY <1>1, <1>3, Listed
<1> QED BY <1>4 DEF n, S

LEMMA PartOfPrefix ==
  ASSUME NEW S, NEW r \in Seq(S), NEW t \in Seq(S), NEW i \in Nat, NEW n \in Nat, i + n <= Len(r)
  PROVE  Part(r \o t, i, n) = Part(r, i, n)
<1> DEFINE p == Part(r \o t, i, n)
           q == Part(r, i, n)
<1>1. r \o t \in Seq(S) /\ Len(r \o t) = Len(r) + Len(t) /\ Len(r) \in Nat /\ Len(t) \in Nat
  OBVIOUS
<1>2. p \in Seq(S) /\ Len(p) = n /\ q \in Seq(S) /\ Len(q) = n
  BY <1>1 DEF Part
<1>3. ASSUME NEW j \in 1..n PROVE p[j] = q[j]
  <2>1. p[j] = (r \o t)[i + j] /\ q[j] = r[i + j]
    BY <1>1 DEF Part
  <2>2. (r \o t)[i + j] = r[i + j]
    BY <1>1
  <2> QED BY <2>1, <2>2
<1> HIDE DEF p, q
<1>4. p = q
  BY <1>2, <1>3, SeqEqual
<1> QED BY <1>4 DEF p, q

(***************************************************************************)
(* The field of the skip flags as it stands in the header: four of them    *)
(* with the kind of block, or eight in a byte of their own.                *)
(***************************************************************************)
FlagField(copy, tokens, flags) ==
  IF copy \/ Len(tokens) <= 4
  THEN <<0>> \o Part(FlagBits(flags), 0, 4)
  ELSE <<1, 0, 0, 0, 0>> \o FlagBits(flags)

FlagWidth(copy, tokens) == IF copy \/ Len(tokens) <= 4 THEN 5 ELSE 13

LEMMA FlagFieldShape ==
  ASSUME NEW copy \in BOOLEAN, NEW tokens, Len(tokens) \in Nat, NEW flags \in SUBSET (0..7)
  PROVE  /\ FlagField(copy, tokens, flags) \in Seq(Nat)
         /\ Len(FlagField(copy, tokens, flags)) = FlagWidth(copy, tokens)
         /\ FlagField(copy, tokens, flags)[1] = (IF copy \/ Len(tokens) <= 4 THEN 0 ELSE 1)
         /\ \A k \in 0..7 : IF copy \/ Len(tokens) <= 4
              THEN k < 4 => FlagField(copy, tokens, flags)[k + 2] = (IF k \in flags THEN 1 ELSE 0)
              ELSE FlagField(copy, tokens, flags)[k + 6] = (IF k \in flags THEN 1 ELSE 0)
<1> DEFINE b == FlagBits(flags)
<1>1. b \in Seq(Nat) /\ Len(b) = 8 /\ \A k \in 0..7 : b[k + 1] = (IF k \in flags THEN 1 ELSE 0)
  <2>1. b \in [1..8 -> Nat]
    BY DEF FlagBits
  <2>2. \A k \in 0..7 : b[k + 1] = (IF k \in flags THEN 1 ELSE 0)
    BY DEF FlagBits
  <2>3. b \in Seq(Nat) /\ Len(b) = 8
    BY <2>1, Listed
  <2> QED BY <2>2, <2>3
<1> HIDE DEF b
<1>2. CASE copy \/ Len(tokens) <= 4
  <2> DEFINE p == Part(b, 0, 4)
  <2>1. p \in Seq(Nat) /\ Len(p) = 4 /\ \A j \in 1..4 : p[j] = b[j]
    BY <1>1 DEF Part
  <2> HIDE DEF p
  <2>2. FlagField(copy, tokens, flags) = <<0>> \o p
    BY <1>2 DEF FlagField, p, b
  <2> DEFINE z == <<0>>
             m == z \o p
  <2>3. z \in Seq(Nat) /\ Len(z) = 1 /\ z[1] = 0
    OBVIOUS
  <2> HIDE DEF z
  <2>4. /\ m \in Seq(Nat) /\ Len(m) = Len(z) + Len(p)
        /\ \A j \in 1..Len(z) : m[j] = z[j]
        /\ \A j \in 1..Len(p) : m[Len(z) + j] = p[j]
    <3>1. z \in Seq(Nat) /\ p \in Seq(Nat)
      BY <2>3, <2>1
    <3> QED BY <3>1, Concatenated
  <2> HIDE DEF m
  <2>5. m \in Seq(Nat) /\ Len(m) = 5 /\ m[1] = 0
    BY <2>3, <2>1, <2>4
  <2>6. ASSUME NEW k \in 0..3 PROVE m[k + 2] = (IF k \in flags THEN 1 ELSE 0)
    <3>1. k + 1 \in 1..4 /\ k + 2 = 1 + (k + 1) /\ k \in 0..7
      OBVIOUS
    <3>2. m[1 + (k + 1)] = p[k + 1] /\ p[k + 1] = b[k + 1]
      BY <3>1, <2>3, <2>1, <2>4
    <3> QED BY <3>1, <3>2, <1>1
  <2>7. FlagField(copy, tokens, flags) = m
    BY <2>2 DEF m, z
  <2> QED BY <2>7, <2>5, <2>6, <1>2 DEF FlagWidth
<1>3. CASE ~(copy \/ Len(tokens) <= 4)
  <2>1. FlagField(copy, tokens, flags) = <<1, 0, 0, 0, 0>> \o b
    BY <1>3 DEF FlagField, b
  <2> DEFINE z == <<1, 0, 0, 0, 0>>
             m == z \o b
  <2>2. z \in Seq(Nat) /\ Len(z) = 5 /\ z[1] = 1
    OBVIOUS
  <2> HIDE DEF z
  <2>3. /\ m \in Seq(Nat) /\ Len(m) = Len(z) + Len(b)
        /\ \A j \in 1..Len(z) : m[j] = z[j]
        /\ \A j \in 1..Len(b) : m[Len(z) + j] = b[j]
    <3>1. z \in Seq(Nat) /\ b \in Seq(Nat)
      BY <2>2, <1>1
    <3> QED BY <3>1, Concatenated
  <2> HIDE DEF m
  <2>4. m \in Seq(Nat) /\ Len(m) = 13 /\ m[1] = 1
    BY <2>2, <1>1, <2>3
  <2>5. ASSUME NEW k \in 0..7 PROVE m[k + 6] = (IF k \in flags THEN 1 ELSE 0)
    <3>1. k + 1 \in 1..8 /\ k + 6 = 5 + (k + 1)
      OBVIOUS
    <3>2. m[5 + (k + 1)] = b[k + 1]
      BY <3>1, <2>2, <1>1, <2>3
    <3> QED BY <3>1, <3>2, <1>1
  <2>6. FlagField(copy, tokens, flags) = m
    BY <2>1 DEF m, z
  <2> QED BY <2>6, <2>4, <2>5, <1>3 DEF FlagWidth
<1> QED BY <1>2, <1>3

(***************************************************************************)
(* The decoding task reads in the header what the encoding task wrote      *)
(* there: the kind of block, the flags that matter, the length, and where  *)
(* the code begins.                                                        *)
(***************************************************************************)
LEMMA HeaderRead ==
  ASSUME NEW copy \in BOOLEAN, NEW tokens, Len(tokens) \in Nat, NEW flags \in SUBSET (0..7),
         NEW n \in Nat, Halves(n)[4 * ByteBits] = 0, NEW S, NEW code \in Seq(S),
         bits = Header(copy, tokens, flags, n) \o code
  PROVE  /\ Len(bits) \in Nat
         /\ Parsed.copy = copy
         /\ Parsed.length = n
         /\ Parsed.at = Len(Header(copy, tokens, flags, n))
         /\ copy => Parsed.flags = {}
         /\ ~copy /\ (Len(tokens) <= 4 => 4..7 \subseteq flags) => Parsed.flags = flags
<1> USE SizesAssumption
<1> DEFINE ds == DataSize(n)
           A == <<IF copy THEN 1 ELSE 0>>
           B == Bits(ds - 1, 2)
           M == FlagField(copy, tokens, flags)
           N == Bits(n, ByteBits * ds)
           P == (A \o B) \o M
           T == Nat \cup S
           few == copy \/ Len(tokens) <= 4
<1>1. ds \in 1..4 /\ Halves(n)[ByteBits * ds] = 0
  BY DataSizeEnough
<1> HIDE DEF ds
<1>2. ds - 1 \in Nat /\ ds - 1 \in 0..3 /\ ByteBits * ds \in Nat
  BY <1>1
<1>3. A \in Seq(Nat) /\ Len(A) = 1 /\ A[1] = (IF copy THEN 1 ELSE 0)
  OBVIOUS
<1>4. B \in Seq(Nat) /\ Len(B) = 2 /\ Numeral(B) = ds - 1
  <2>1. Halves(ds - 1)[2] = 0
    BY <1>2, SmallHalves
  <2> QED BY <1>2, <2>1, BitsType, NumeralOfBits
<1>5. N \in Seq(Nat) /\ Len(N) = ByteBits * ds /\ Numeral(N) = n
  BY <1>1, <1>2, BitsType, NumeralOfBits
<1>6. /\ M \in Seq(Nat) /\ Len(M) = FlagWidth(copy, tokens)
      /\ M[1] = (IF few THEN 0 ELSE 1)
      /\ \A k \in 0..7 : IF few THEN k < 4 => M[k + 2] = (IF k \in flags THEN 1 ELSE 0)
                         ELSE M[k + 6] = (IF k \in flags THEN 1 ELSE 0)
  BY FlagFieldShape
<1>7. Header(copy, tokens, flags, n) = P \o N
  BY DEF Header, FlagField, ds
<1> HIDE DEF A, B, M, N, T, few
<1>8. FlagWidth(copy, tokens) = (IF few THEN 5 ELSE 13)
  BY DEF FlagWidth, few
<1> DEFINE AB == A \o B
<1>9. /\ AB \in Seq(Nat) /\ Len(AB) = Len(A) + Len(B)
      /\ \A j \in 1..Len(A) : AB[j] = A[j]
      /\ \A j \in 1..Len(B) : AB[Len(A) + j] = B[j]
  <2>1. A \in Seq(Nat) /\ B \in Seq(Nat)
    BY <1>3, <1>4
  <2> QED BY <2>1, NumbersConcatenated
<1>10. Part(P, 1, 2) = B
  <2>1. Part((A \o B) \o M, Len(A), Len(B)) = B
    BY <1>3, <1>4, <1>6, PartBetween
  <2> QED BY <2>1, <1>3, <1>4
<1>11. P = AB \o M
  OBVIOUS
<1> HIDE DEF AB, P
<1>12. /\ P \in Seq(Nat) /\ Len(P) = Len(AB) + Len(M)
       /\ \A j \in 1..Len(AB) : P[j] = AB[j]
       /\ \A j \in 1..Len(M) : P[Len(AB) + j] = M[j]
  <2>1. AB \in Seq(Nat) /\ M \in Seq(Nat)
    BY <1>9, <1>6
  <2> QED BY <2>1, <1>11, NumbersConcatenated
<1>13. Len(AB) = 3
  BY <1>9, <1>3, <1>4
<1>14. P \in Seq(Nat) /\ Len(P) = 3 + FlagWidth(copy, tokens)
  BY <1>12, <1>13, <1>6
<1>15. P[1] = (IF copy THEN 1 ELSE 0)
  <2>1. 1 \in 1..Len(AB) /\ 1 \in 1..Len(A)
    BY <1>13, <1>3
  <2>2. P[1] = AB[1] /\ AB[1] = A[1]
    BY <2>1, <1>9, <1>12
  <2> QED BY <2>2, <1>3
<1>16. \A j \in 1..FlagWidth(copy, tokens) : P[3 + j] = M[j]
  BY <1>12, <1>13, <1>6
<1>17. /\ (P \o N) \in Seq(Nat) /\ Len(P \o N) = Len(P) + Len(N)
       /\ \A j \in 1..Len(P) : (P \o N)[j] = P[j]
  <2>1. P \in Seq(Nat) /\ N \in Seq(Nat)
    BY <1>14, <1>5
  <2> QED BY <2>1, NumbersConcatenated
<1>18. (P \o N) \in Seq(Nat) /\ Len(P \o N) = Len(P) + ByteBits * ds
  BY <1>17, <1>5
<1> DEFINE Q == P \o N
<1>19. code \in Seq(T) /\ \A s \in Seq(Nat) : s \in Seq(T)
  <2>1. Nat \subseteq T /\ S \subseteq T
    BY DEF T
  <2>2. code \in Seq(T)
    BY <2>1, Widened
  <2>3. \A s \in Seq(Nat) : s \in Seq(T)
    BY <2>1, Widened
  <2> QED BY <2>2, <2>3
<1>20. (\A j \in 1..Len(Q) : bits[j] = Q[j]) /\ Len(bits) \in Nat
  <2>1. Q \in Seq(T) /\ bits = Q \o code
    BY <1>7, <1>18, <1>19
  <2> HIDE DEF Q
  <2> QED BY <2>1, <1>19, Concatenated
<1>21. \A j \in 1..Len(P) : bits[j] = P[j]
  <2> SUFFICES ASSUME NEW j \in 1..Len(P) PROVE bits[j] = P[j]
    OBVIOUS
  <2>1. Len(P) \in Nat /\ Len(N) \in Nat /\ Len(Q) = Len(P) + Len(N)
    BY <1>17, <1>14, <1>5, <1>2
  <2> HIDE DEF Q
  <2>2. j \in 1..Len(Q)
    BY <2>1
  <2>3. bits[j] = Q[j]
    BY <2>2, <1>20
  <2> QED BY <2>3, <1>17 DEF Q
<1>22. Part(bits, 1, 2) = B
  <2>1. Q \in Seq(Nat) /\ bits = Q \o code /\ Q = P \o N /\ P \in Seq(Nat) /\ N \in Seq(Nat)
    BY <1>7, <1>18, <1>14, <1>5
  <2>2. 1 + 2 <= Len(P) /\ 1 + 2 <= Len(Q)
    BY <1>14, <1>8, <1>18, <1>2
  <2>3. Q \in Seq(Nat) /\ P \in Seq(Nat) /\ N \in Seq(Nat)
    BY <2>1
  <2> HIDE DEF Q
  <2>4. Part(Q \o code, 1, 2) = Part(Q, 1, 2)
    BY <2>3, <2>2, <1>19, PartOfPrefix
  <2>5. Part(P \o N, 1, 2) = Part(P, 1, 2)
    BY <2>3, <2>2, PartOfPrefix
  <2>6. Part(Q, 1, 2) = B
    BY <2>5, <1>10 DEF Q
  <2>7. bits = Q \o code
    BY <2>1
  <2> QED BY <2>4, <2>6, <2>7
<1> HIDE DEF Q
<1>23. 1 \in 1..Len(P) /\ \A j \in 1..FlagWidth(copy, tokens) : 3 + j \in 1..Len(P)
  BY <1>14, <1>8
<1>24. bits[1] = P[1]
  BY <1>23, <1>21
<1>25. \A j \in 1..FlagWidth(copy, tokens) : bits[3 + j] = M[j]
  <2> SUFFICES ASSUME NEW j \in 1..FlagWidth(copy, tokens) PROVE bits[3 + j] = M[j]
    OBVIOUS
  <2>1. 3 + j \in 1..Len(P)
    BY <1>23
  <2>2. bits[3 + j] = P[3 + j]
    BY <2>1, <1>21
  <2> QED BY <2>2, <1>16
<1>26. Part(bits, Len(P), ByteBits * ds) = N
  <2>1. P \in Seq(T) /\ N \in Seq(T)
    BY <1>14, <1>5, <1>19
  <2>2. Part((P \o N) \o code, Len(P), Len(N)) = N
    BY <2>1, <1>19, PartBetween
  <2> QED BY <2>2, <1>7, <1>5
<1>27. (bits[1] = 1) = copy
  BY <1>24, <1>15
<1>28. Parsed.copy = copy
  BY <1>27 DEF Parsed
<1>29. bits[4] = (IF few THEN 0 ELSE 1)
  <2>1. 1 \in 1..FlagWidth(copy, tokens)
    BY <1>8
  <2>2. \A j \in 1..FlagWidth(copy, tokens) : j = 1 => bits[4] = M[1]
    <3> SUFFICES ASSUME NEW j \in 1..FlagWidth(copy, tokens), j = 1 PROVE bits[4] = M[1]
      OBVIOUS
    <3>1. bits[3 + j] = M[j]
      BY <1>25
    <3>2. 3 + j = 4
      OBVIOUS
    <3> QED BY <3>1, <3>2, Zenon
  <2>3. bits[4] = M[1]
    BY <2>1, <2>2
  <2>4. bits[4] = M[1]
    BY <2>3
  <2>5. M[1] = (IF few THEN 0 ELSE 1)
    BY <1>6
  <2> QED BY <2>4, <2>5, Zenon
<1>30. (~(bits[1] = 1) /\ bits[4] = 1) <=> ~few
  BY <1>27, <1>29 DEF few
<1>31. (IF ~(bits[1] = 1) /\ bits[4] = 1 THEN 16 ELSE 8) = Len(P)
  <2>1. ASSUME few PROVE Len(P) = 8
    BY <2>1, <1>14, <1>8
  <2>2. ASSUME ~few PROVE Len(P) = 16
    BY <2>2, <1>14, <1>8
  <2> QED BY <2>1, <2>2, <1>30, Zenon
<1>32. 1 + Numeral(Part(bits, 1, 2)) = ds
  BY <1>22, <1>4, <1>1
<1>33. Parsed.length = n
  BY <1>31, <1>32, <1>26, <1>5 DEF Parsed
<1>34. Parsed.at = Len(Header(copy, tokens, flags, n))
  BY <1>31, <1>32, <1>18, <1>7 DEF Parsed
<1>35. copy => Parsed.flags = {}
  BY <1>27 DEF Parsed
<1>36. ASSUME ~copy, Len(tokens) <= 4 => 4..7 \subseteq flags PROVE Parsed.flags = flags
  <2> DEFINE many == ~(bits[1] = 1) /\ bits[4] = 1
             at0 == IF many THEN 8 ELSE 4
  <2>1. Parsed.flags = {k \in 0..7 : IF many \/ k < 4 THEN bits[at0 + k + 1] = 1 ELSE TRUE}
    BY <1>36, <1>27 DEF Parsed
  <2>2. many <=> ~few
    BY <1>30
  <2> HIDE DEF many
  <2>3. ASSUME NEW k \in 0..7
        PROVE  (IF many \/ k < 4 THEN bits[at0 + k + 1] = 1 ELSE TRUE) <=> k \in flags
    <3>1. CASE few
      <4>1. ~many /\ at0 = 4 /\ 4..7 \subseteq flags
        BY <3>1, <2>2, <1>36 DEF few
      <4>2. CASE k < 4
        <5>1. 4 + k + 1 = 3 + (k + 2) /\ k + 2 \in 1..5
          BY <4>2
        <5>2. bits[4 + k + 1] = M[k + 2]
          BY <5>1, <3>1, <1>8, <1>25
        <5> QED BY <5>2, <4>1, <4>2, <3>1, <1>6
      <4>3. CASE ~(k < 4)
        BY <4>1, <4>3
      <4> QED BY <4>2, <4>3
    <3>2. CASE ~few
      <4>1. many /\ at0 = 8
        BY <3>2, <2>2
      <4>2. 8 + k + 1 = 3 + (k + 6) /\ k + 6 \in 1..13
        OBVIOUS
      <4>3. bits[8 + k + 1] = M[k + 6]
        BY <4>2, <3>2, <1>8, <1>25
      <4>4. M[k + 6] = (IF k \in flags THEN 1 ELSE 0)
        BY <3>2, <1>6
      <4>5. bits[at0 + k + 1] = (IF k \in flags THEN 1 ELSE 0)
        BY <4>1, <4>3, <4>4
      <4> HIDE DEF at0
      <4> QED BY <4>1, <4>5
    <3> QED BY <3>1, <3>2
  <2> HIDE DEF at0
  <2> QED BY <2>1, <2>3
<1> QED BY <1>20, <1>28, <1>33, <1>34, <1>35, <1>36

(***************************************************************************)
(* TransformSequence::getMaxEncodedLength is at least the length of the    *)
(* block and what each transform asks for in turn.                         *)
(***************************************************************************)
LEMMA SizesStep ==
  ASSUME NEW tokens, Len(tokens) \in Nat, NEW n \in Nat,
         \A k \in 1..Len(tokens), m \in Nat : MostEncoded(tokens[k], m) \in Nat
  PROVE  /\ Sizes(tokens, n) \in [0..Len(tokens) -> Nat]
         /\ Sizes(tokens, n)[0] = n
         /\ \A k \in 1..Len(tokens) :
              /\ Sizes(tokens, n)[k - 1] <= Sizes(tokens, n)[k]
              /\ MostEncoded(tokens[k], Sizes(tokens, n)[k - 1]) <= Sizes(tokens, n)[k]
<1> DEFINE L == Len(tokens)
           Step(k, v) == IF MostEncoded(tokens[k], v) > v THEN MostEncoded(tokens[k], v) ELSE v
           Rec(f) == f = [k \in 0..L |-> IF k = 0 THEN n ELSE Step(k, f[k - 1])]
           G == [k \in Nat \ {0} |-> [v \in Nat |-> IF k \in 1..L THEN Step(k, v) ELSE v]]
<1>1. Sizes(tokens, n) = CHOOSE f : Rec(f)
  BY DEF Sizes
<1>2. \A k \in 1..L, v \in Nat : /\ Step(k, v) \in Nat /\ v <= Step(k, v)
                                 /\ MostEncoded(tokens[k], v) <= Step(k, v)
  OBVIOUS
<1> HIDE DEF Step
<1>3. G \in [Nat \ {0} -> [Nat -> Nat]]
  BY <1>2
<1>4. \A k \in 1..L, v \in Nat : G[k][v] = Step(k, v)
  OBVIOUS
<1> HIDE DEF G
<1>5. PICK f : f \in [0..L -> Nat] /\ f[0] = n /\ Follows(f, G, 1..L)
  BY <1>3, FirstValues
<1>6. \A k \in 1..L : f[k] = Step(k, f[k - 1])
  <2> SUFFICES ASSUME NEW k \in 1..L PROVE f[k] = Step(k, f[k - 1])
    OBVIOUS
  <2>1. k - 1 \in 0..L
    OBVIOUS
  <2>2. f[k - 1] \in Nat
    BY <2>1, <1>5
  <2>3. f[k] = G[k][f[k - 1]]
    BY <1>5 DEF Follows
  <2> QED BY <2>2, <2>3, <1>4
<1>7. Rec(f)
  BY <1>5, <1>6
<1> DEFINE s == Sizes(tokens, n)
<1>8. Rec(s)
  <2> HIDE DEF Rec
  <2> QED BY <1>1, <1>7
<1> HIDE DEF s
<1>9. s[0] = n /\ \A k \in 1..L : s[k] = Step(k, s[k - 1])
  <2>1. s = [k \in 0..L |-> IF k = 0 THEN n ELSE Step(k, s[k - 1])]
    BY <1>8
  <2> HIDE DEF Rec
  <2>2. 0 \in 0..L /\ s[0] = n
    BY <2>1
  <2>3. ASSUME NEW k \in 1..L PROVE s[k] = Step(k, s[k - 1])
    <3>1. k \in 0..L /\ k # 0
      OBVIOUS
    <3> QED BY <3>1, <2>1
  <2> QED BY <2>2, <2>3
<1>10. \A k \in Nat : k <= L => s[k] \in Nat
  <2> DEFINE T == {k \in Nat : k <= L => s[k] \in Nat}
  <2>1. 0 \in T
    BY <1>9
  <2>2. ASSUME NEW k \in Nat, k \in T PROVE k + 1 \in T
    <3> SUFFICES ASSUME k + 1 <= L PROVE s[k + 1] \in Nat
      OBVIOUS
    <3>1. k + 1 \in 1..L /\ (k + 1) - 1 = k /\ s[k] \in Nat
      BY <2>2
    <3>2. s[k + 1] = Step(k + 1, s[k])
      BY <3>1, <1>9
    <3> QED BY <3>1, <3>2, <1>2
  <2>3. \A k \in Nat : k \in T
    BY <2>1, <2>2, Induction
  <2> QED BY <2>3
<1>11. s \in [0..L -> Nat]
  <2>1. s = [k \in 0..L |-> s[k]]
    BY <1>8
  <2> QED BY <2>1, <1>10
<1>12. ASSUME NEW k \in 1..L PROVE s[k - 1] <= s[k] /\ MostEncoded(tokens[k], s[k - 1]) <= s[k]
  <2>1. k - 1 \in 0..L
    OBVIOUS
  <2>2. s[k - 1] \in Nat
    BY <2>1, <1>11
  <2>3. s[k] = Step(k, s[k - 1])
    BY <1>9
  <2> QED BY <2>2, <2>3, <1>2
<1> QED BY <1>9, <1>11, <1>12 DEF s

(***************************************************************************)
(* Whatever may stand in an array on the way.                              *)
(***************************************************************************)
Data(D) ==
  {<<>>} \cup UNION {UNION {After(D, j, k) : k \in 0..Len(ChainOf(j))} : j \in Jobs}

LEMMA AfterPlace ==
  ASSUME NEW D, NEW j, NEW k, NEW p \in Places, NEW a \in D[j][k][p]
  PROVE  a \in After(D, j, k)
BY DEF After

LEMMA AfterData ==
  ASSUME NEW D, NEW j \in Jobs, NEW k \in 0..Len(ChainOf(j)), NEW a \in After(D, j, k)
  PROVE  a \in Data(D)
BY DEF Data

LEMMA DataLengths ==
  ASSUME NEW D, StagesKept(D)
  PROVE  /\ \A a \in Data(D) : Len(a) \in Nat
         /\ <<>> \in Data(D) /\ Len(<<>>) = 0
<1>1. <<>> \in Data(D) /\ Len(<<>>) = 0
  BY DEF Data
<1>2. ASSUME NEW a \in Data(D), a # <<>> PROVE Len(a) \in Nat
  <2>1. PICK j \in Jobs : \E k \in 0..Len(ChainOf(j)) : a \in After(D, j, k)
    BY <1>2 DEF Data
  <2>2. PICK k \in 0..Len(ChainOf(j)) : a \in After(D, j, k)
    BY <2>1
  <2>3. PICK p \in Places : a \in D[j][k][p]
    BY <2>2 DEF After
  <2>4. IsSequence(a)
    BY <2>3 DEF StagesKept
  <2> QED BY <2>4 DEF IsSequence
<1>3. ASSUME NEW a \in Data(D), a = <<>> PROVE Len(a) \in Nat
  BY <1>1, <1>3
<1> QED BY <1>1, <1>2, <1>3

(***************************************************************************)
(* b is what transform k of job j makes of a.                              *)
(***************************************************************************)
Made(D, j, k, a, b) ==
  /\ CopiedOf(j) => b = a
  /\ \E p \in Places, t \in j.types : /\ a \in D[j][k - 1][p]
                                       /\ Forwarded(j, k, a, p, t).ok
                                       /\ Forwarded(j, k, a, p, t).out = b

Names == {"input", "output", "buffer"}

LEMMA RecordOfArrays ==
  ASSUME NEW S, NEW x \in S, NEW y \in S, NEW z \in S
  PROVE  /\ [input |-> x, output |-> y, buffer |-> z] \in [Names -> S]
         /\ [input |-> x, output |-> y, buffer |-> z]["input"] = x
         /\ [input |-> x, output |-> y, buffer |-> z]["output"] = y
         /\ [input |-> x, output |-> y, buffer |-> z]["buffer"] = z
BY DEF Names

(***************************************************************************)
(* The three arrays of a task hold data of the way and never more of it    *)
(* than fits; and the data stand in the array of the result after an odd   *)
(* number of turns (TransformSequence::forward and inverse).               *)
(***************************************************************************)
Slot(D) == [data : Data(D), length : Nat]

Arrays(D) ==
  /\ slices \in [Names -> Slot(D)]
  /\ \A a \in Names : Len(slices[a].data) <= slices[a].length

Turns ==
  /\ in \in Names /\ out \in Names /\ in # out
  /\ in = "output" \/ out = "output"
  /\ swaps \in Nat /\ (in = "output" <=> swaps % 2 = 1)

(***************************************************************************)
(* What the next transform writes to: it is not what it reads from, it has *)
(* the room asked for, and the result's own array is one of the two.       *)
(***************************************************************************)
LEMMA TargetTurn ==
  ASSUME NEW D, StagesKept(D), Arrays(D), Turns, NEW needed \in Nat, needed <= slices["output"].length
  PROVE  /\ Target(needed) \in Names /\ Target(needed) # in
         /\ in = "output" \/ Target(needed) = "output"
         /\ Roomy(needed) \in [Names -> Slot(D)]
         /\ \A a \in Names : Len(Roomy(needed)[a].data) <= Roomy(needed)[a].length
         /\ Roomy(needed)[in] = slices[in]
         /\ Roomy(needed)["output"] = slices["output"]
         /\ needed <= Roomy(needed)[Target(needed)].length
         /\ \A a \in Names : a # Target(needed) => Roomy(needed)[a] = slices[a]
         /\ Roomy(needed)[Target(needed)].length
              = Larger(slices[Target(needed)].length, needed)
<1> DEFINE to == Target(needed)
<1>1. slices[out] \in Slot(D) /\ out \in Names /\ in \in Names
  BY DEF Arrays, Turns
<1>2. to \in Names /\ to # in /\ (in = "output" \/ to = "output")
  <2>1. CASE slices[out].length < needed
    <3>1. out # "output" /\ in = "output"
      BY <2>1, <1>1 DEF Turns, Arrays, Names, Slot
    <3>2. to = "buffer"
      BY <2>1 DEF Target
    <3> QED BY <3>1, <3>2 DEF Names
  <2>2. CASE ~(slices[out].length < needed)
    <3>1. to = out
      BY <2>2 DEF Target
    <3> QED BY <3>1 DEF Turns
  <2> QED BY <2>1, <2>2
<1>3. slices[to] \in Slot(D) /\ slices["output"] \in Slot(D)
  BY <1>2 DEF Arrays, Names
<1>4. <<>> \in Data(D) /\ Len(<<>>) = 0
  BY DataLengths
<1>5. Slice(<<>>, needed) \in Slot(D) /\ Slice(<<>>, needed).length = needed /\ Slice(<<>>, needed).data = <<>>
  BY <1>4 DEF Slice, Slot
<1>6. CASE slices[to].length < needed
  <2> DEFINE r == [slices EXCEPT ![to] = Slice(<<>>, needed)]
  <2>1. Roomy(needed) = r
    BY <1>6 DEF Roomy
  <2>2. to # "output"
    BY <1>6, <1>3 DEF Slot
  <2>3. r \in [Names -> Slot(D)]
    BY <1>5, <1>2 DEF Arrays
  <2>4. r[to] = Slice(<<>>, needed) /\ \A a \in Names : a # to => r[a] = slices[a]
    BY <1>2 DEF Arrays
  <2> HIDE DEF r, to
  <2>5. \A a \in Names : Len(r[a].data) <= r[a].length
    <3> SUFFICES ASSUME NEW a \in Names PROVE Len(r[a].data) <= r[a].length
      OBVIOUS
    <3>1. CASE a = to
      BY <3>1, <2>4, <1>5, <1>4
    <3>2. CASE a # to
      BY <3>2, <2>4 DEF Arrays
    <3> QED BY <3>1, <3>2
  <2>6. r[in] = slices[in] /\ r["output"] = slices["output"]
    BY <2>2, <2>4, <1>1, <1>2 DEF Names
  <2>7. needed <= r[to].length
    BY <2>4, <1>5
  <2>8. \A a \in Names : a # to => r[a] = slices[a]
    BY <2>4
  <2>9. r[to].length = Larger(slices[to].length, needed)
    <3>1. slices[to].length \in Nat /\ r[to].length = needed
      BY <1>3, <1>5, <2>4 DEF Slot
    <3> QED BY <3>1, <1>6 DEF Larger
  <2> QED BY <2>1, <2>3, <2>5, <2>6, <2>7, <2>8, <2>9, <1>2 DEF to
<1>7. CASE ~(slices[to].length < needed)
  <2>1. Roomy(needed) = slices
    BY <1>7 DEF Roomy
  <2>2. needed <= slices[to].length
    BY <1>7, <1>3 DEF Slot
  <2>3. slices[to].length = Larger(slices[to].length, needed)
    <3>1. slices[to].length \in Nat
      BY <1>3 DEF Slot
    <3> QED BY <3>1, <2>2 DEF Larger
  <2> HIDE DEF to
  <2>4. slices \in [Names -> Slot(D)] /\ \A a \in Names : Len(slices[a].data) <= slices[a].length
    BY DEF Arrays
  <2> QED BY <2>1, <2>2, <2>3, <2>4, <1>2 DEF to
<1> QED BY <1>6, <1>7

(***************************************************************************)
(* A transform that succeeded leaves its result in the array it wrote to,  *)
(* and the turn is over.                                                   *)
(***************************************************************************)
LEMMA Moved ==
  ASSUME NEW D, StagesKept(D), Arrays(D), Turns, NEW needed \in Nat, needed <= slices["output"].length,
         NEW data \in Data(D), Len(data) <= Roomy(needed)[Target(needed)].length,
         slices' = [Roomy(needed) EXCEPT ![Target(needed)].data = data],
         in' = Target(needed), out' = in, swaps' = swaps + 1
  PROVE  /\ Arrays(D)' /\ Turns'
         /\ slices'[in'].data = data
         /\ needed <= slices'[in'].length
         /\ \A a \in Names : slices'[a].length = Roomy(needed)[a].length
<1> DEFINE to == Target(needed)
           r == Roomy(needed)
<1>1. /\ to \in Names /\ to # in /\ (in = "output" \/ to = "output")
      /\ r \in [Names -> Slot(D)]
      /\ \A a \in Names : Len(r[a].data) <= r[a].length
      /\ r["output"] = slices["output"]
      /\ needed <= r[to].length
  BY TargetTurn
<1>2. slices' = [r EXCEPT ![to].data = data] /\ in' = to /\ Len(data) <= r[to].length
  OBVIOUS
<1> HIDE DEF to, r
<1>3. r[to] \in Slot(D) /\ [r[to] EXCEPT !.data = data] \in Slot(D)
  BY <1>1 DEF Slot
<1>4. [r[to] EXCEPT !.data = data].data = data /\ [r[to] EXCEPT !.data = data].length = r[to].length
  BY <1>3 DEF Slot
<1>5. slices' \in [Names -> Slot(D)]
  BY <1>1, <1>2, <1>3
<1>6. slices'[to] = [r[to] EXCEPT !.data = data] /\ \A a \in Names : a # to => slices'[a] = r[a]
  BY <1>1, <1>2
<1>7. \A a \in Names : Len(slices'[a].data) <= slices'[a].length
  <2> SUFFICES ASSUME NEW a \in Names PROVE Len(slices'[a].data) <= slices'[a].length
    OBVIOUS
  <2>1. CASE a = to
    BY <2>1, <1>6, <1>4, <1>2
  <2>2. CASE a # to
    BY <2>2, <1>6, <1>1
  <2> QED BY <2>1, <2>2
<1>8. \A a \in Names : slices'[a].length = r[a].length
  <2> SUFFICES ASSUME NEW a \in Names PROVE slices'[a].length = r[a].length
    OBVIOUS
  <2>1. CASE a = to
    BY <2>1, <1>6, <1>4
  <2>2. CASE a # to
    BY <2>2, <1>6
  <2> QED BY <2>1, <2>2
<1>9. Turns'
  <2>1. in \in Names /\ in' \in Names /\ out' \in Names /\ in' # out' /\ (in' = "output" \/ out' = "output")
    BY <1>1, <1>2 DEF Turns
  <2>2. swaps' \in Nat /\ (swaps' % 2 = 1 <=> ~(swaps % 2 = 1))
    BY DEF Turns
  <2>3. in' = "output" <=> ~(in = "output")
    BY <1>1, <1>2
  <2> QED BY <2>1, <2>2, <2>3 DEF Turns
<1>10. Arrays(D)'
  BY <1>5, <1>7 DEF Arrays
<1> QED BY <1>1, <1>2, <1>4, <1>6, <1>8, <1>9, <1>10 DEF r

(***************************************************************************)
(* One that failed leaves everything where it was but for the room it was  *)
(* given.                                                                  *)
(***************************************************************************)
LEMMA Stayed ==
  ASSUME NEW D, StagesKept(D), Arrays(D), Turns, NEW needed \in Nat, needed <= slices["output"].length,
         slices' = [Roomy(needed) EXCEPT ![Target(needed)].data = <<>>],
         in' = in, out' = Target(needed), swaps' = swaps
  PROVE  /\ Arrays(D)' /\ Turns'
         /\ slices'[in'] = slices[in]
         /\ \A a \in Names : slices'[a].length = Roomy(needed)[a].length
<1> DEFINE to == Target(needed)
           r == Roomy(needed)
<1>1. /\ to \in Names /\ to # in /\ (in = "output" \/ to = "output")
      /\ r \in [Names -> Slot(D)]
      /\ \A a \in Names : Len(r[a].data) <= r[a].length
      /\ r[in] = slices[in]
      /\ r["output"] = slices["output"]
  BY TargetTurn
<1>2. slices' = [r EXCEPT ![to].data = <<>>] /\ out' = to
  OBVIOUS
<1> HIDE DEF to, r
<1>3. <<>> \in Data(D) /\ Len(<<>>) = 0
  BY DataLengths
<1>4. r[to] \in Slot(D) /\ [r[to] EXCEPT !.data = <<>>] \in Slot(D)
  BY <1>3, <1>1 DEF Slot
<1>5. [r[to] EXCEPT !.data = <<>>].data = <<>> /\ [r[to] EXCEPT !.data = <<>>].length = r[to].length
  BY <1>4 DEF Slot
<1>6. slices' \in [Names -> Slot(D)]
  BY <1>1, <1>2, <1>4
<1>7. slices'[to] = [r[to] EXCEPT !.data = <<>>] /\ \A a \in Names : a # to => slices'[a] = r[a]
  BY <1>1, <1>2
<1>8. \A a \in Names : Len(slices'[a].data) <= slices'[a].length
  <2> SUFFICES ASSUME NEW a \in Names PROVE Len(slices'[a].data) <= slices'[a].length
    OBVIOUS
  <2>1. CASE a = to
    <3>1. r[to].length \in Nat
      BY <1>4 DEF Slot
    <3>2. slices'[a].data = <<>> /\ slices'[a].length = r[to].length
      BY <2>1, <1>7, <1>5
    <3>3. 0 <= r[to].length
      BY <3>1
    <3> QED BY <3>2, <3>3, <1>3
  <2>2. CASE a # to
    BY <2>2, <1>7, <1>1
  <2> QED BY <2>1, <2>2
<1>9. \A a \in Names : slices'[a].length = r[a].length
  <2> SUFFICES ASSUME NEW a \in Names PROVE slices'[a].length = r[a].length
    OBVIOUS
  <2>1. CASE a = to
    BY <2>1, <1>7, <1>5
  <2>2. CASE a # to
    BY <2>2, <1>7
  <2> QED BY <2>1, <2>2
<1>10. Turns'
  BY <1>1, <1>2 DEF Turns
<1>11. Arrays(D)'
  BY <1>6, <1>8 DEF Arrays
<1>12. slices'[in'] = slices[in]
  BY <1>1, <1>7 DEF Turns
<1> QED BY <1>9, <1>10, <1>11, <1>12 DEF r

(***************************************************************************)
(* The inductive invariant. The trail w holds what the block has been      *)
(* after each transform: w[0] is the block, and w[k] is w[k - 1] when      *)
(* transform k was skipped and what it makes of that otherwise. It says    *)
(* what stands in the arrays going forward, what the bits were written     *)
(* from, and what stands in the arrays going back; the lengths of the      *)
(* arrays are those that the contracts speak of.                           *)
(***************************************************************************)
PlaceOf(array) == IF array = "output" THEN "output" ELSE "other"

Linked(D, w, k) ==
  IF ~CopiedOf(job) /\ k - 1 \in skipFlags THEN w[k] = w[k - 1] ELSE Made(D, job, k, w[k - 1], w[k])

Trail(D, w, n) == \A k \in 0..n : w[k] \in After(D, job, k)

Way(w) == chain = ChainOf(job) /\ skipFlags \in SUBSET (0..7) /\ w[0] = job.block

EncoderArrays ==
  /\ slices["output"].length = OutputLength(job)
  /\ slices["input"].length = InputLength(job)
  /\ slices["buffer"].length \in {0, NeededOf(job)}
  /\ in = "buffer" \/ out = "buffer" => InputLength(job) < NeededOf(job)

Forwarding(D, w) ==
  /\ Turns /\ EncoderArrays
  /\ next \in 1..(Len(chain) + 1)
  /\ (next - 1)..7 \subseteq skipFlags
  /\ \A k \in 1..(next - 1) : Linked(D, w, k)
  /\ Trail(D, w, next - 1)
  /\ slices[in].data = w[next - 1]
  /\ w[next - 1] \in D[job][next - 1][PlaceOf(in)]
  /\ skipFlags = SKIP_MASK => w[next - 1] = job.block

Coded(D, w) ==
  /\ Len(chain)..7 \subseteq skipFlags
  /\ \A k \in 1..Len(chain) : Linked(D, w, k)
  /\ Trail(D, w, Len(chain))
  /\ skipFlags = SKIP_MASK => w[Len(chain)] = job.block

Emitting(D, w) ==
  /\ Coded(D, w)
  /\ slices["output"].data = w[Len(chain)]
  /\ slices[in].data = w[Len(chain)]

Reading(D, w) ==
  /\ Coded(D, w)
  /\ bits = Header(Copied, chain, skipFlags, Len(w[Len(chain)]))
              \o EntropyEncode(EntropyOf(Copied), w[Len(chain)], job.heap)

DecoderArrays(D) ==
  /\ slices["output"].length \in InverseLengths(D, job)
  /\ slices["input"].length \in InverseLengths(D, job)
  /\ slices["buffer"].length \in {0, slices["output"].length}
  /\ in = "buffer" => slices["buffer"].length = slices["output"].length

Inverting(D, w) ==
  /\ Turns /\ DecoderArrays(D)
  /\ at = Len(bits)
  /\ next \in 0..Len(chain)
  /\ \A k \in 1..Len(chain) : Linked(D, w, k)
  /\ Trail(D, w, Len(chain))
  /\ slices[in].data = w[next]
  /\ skipFlags = SKIP_MASK => next = 0 /\ slices["output"].data = w[0]

Restored ==
  /\ at = Len(bits)
  /\ slices["output"].data = job.block

Inv(D) ==
  /\ job \in Jobs
  /\ Arrays(D)
  /\ phase \in {"start", "forward", "emit", "read", "inverse", "check", "done", "refused"}
  /\ phase = "forward" => \E w : Way(w) /\ Forwarding(D, w)
  /\ phase = "emit" => \E w : Way(w) /\ Emitting(D, w)
  /\ phase = "read" => \E w : Way(w) /\ Reading(D, w)
  /\ phase = "inverse" => \E w : Way(w) /\ Inverting(D, w)
  /\ phase \in {"check", "done"} => Restored

(***************************************************************************)
(* What the contracts say of the job at hand.                              *)
(***************************************************************************)
LEMMA JobFacts ==
  ASSUME NEW D, StagesKept(D), job \in Jobs
  PROVE  /\ job.block \in D[job][0]["other"] /\ job.block \in Data(D)
         /\ Len(job.block) \in Nat
         /\ CopiedOf(job) \in BOOLEAN /\ Copied = CopiedOf(job) /\ Tokens = ChainOf(job)
         /\ EntropyOf(Copied) = CoderOf(job)
         /\ job.spare \in Nat
         /\ Len(ChainOf(job)) \in 0..8
         /\ NeededOf(job) \in Nat
         /\ \A k \in 0..Len(ChainOf(job)) : \A a \in After(D, job, k) :
              a \in Data(D) /\ IsSequence(a) /\ Len(a) \in Nat
         /\ \A a \in Results(D, job) : Halves(Len(a))[4 * ByteBits] = 0
<1>1. /\ job.block \in D[job][0]["other"]
      /\ job.skip \in BOOLEAN /\ job.spare \in Nat
      /\ Len(ChainOf(job)) \in 0..8
      /\ NeededOf(job) \in Nat
      /\ \A a \in Results(D, job) : Halves(Len(a))[4 * ByteBits] = 0
  BY DEF StagesKept
<1>2. ASSUME NEW k \in 0..Len(ChainOf(job)), NEW a \in After(D, job, k)
      PROVE  a \in Data(D) /\ IsSequence(a) /\ Len(a) \in Nat
  <2>1. PICK p \in Places : a \in D[job][k][p]
    BY <1>2 DEF After
  <2>2. IsSequence(a)
    BY <2>1 DEF StagesKept
  <2>3. a \in Data(D)
    BY AfterData
  <2> QED BY <2>2, <2>3 DEF IsSequence
<1>3. Len(job.block) \in Nat /\ job.block \in Data(D)
  <2>1. 0 \in 0..Len(ChainOf(job)) /\ "other" \in Places
    BY <1>1 DEF Places
  <2>2. job.block \in After(D, job, 0)
    BY <1>1, <2>1, AfterPlace
  <2> QED BY <2>1, <2>2, <1>2
<1>4. SmallBlock \in Nat
  BY SizesAssumption
<1>5. CopiedOf(job) \in BOOLEAN /\ Copied = CopiedOf(job) /\ Tokens = ChainOf(job)
  BY <1>1 DEF CopiedOf, ChainOf, Copied, Tokens
<1>6. EntropyOf(Copied) = CoderOf(job)
  BY <1>5 DEF EntropyOf, CoderOf
<1> QED BY <1>1, <1>2, <1>3, <1>5, <1>6

(***************************************************************************)
(* Start: the trail is the block alone.                                    *)
(***************************************************************************)
LEMMA StartStep ==
  ASSUME NEW D, Contracts(D), Inv(D), Start
  PROVE  Inv(D)'
<1>1. StagesKept(D) /\ job \in Jobs
  BY DEF Contracts, Inv
<1> DEFINE n == Len(job.block)
           a == Slice(job.block, InputLength(job))
           b == Slice(<<>>, OutputLength(job))
<1>2. /\ job.block \in D[job][0]["other"] /\ job.block \in Data(D) /\ n \in Nat /\ job.spare \in Nat
      /\ Tokens = ChainOf(job) /\ Len(ChainOf(job)) \in 0..8
      /\ NeededOf(job) \in Nat
  BY <1>1, JobFacts
<1>3. a \in Slot(D) /\ a.data = job.block /\ Len(a.data) <= a.length /\ a.length = InputLength(job)
  <2> DEFINE m == InputLength(job)
  <2>1. m = Larger(n + n \div 8, BufferFloor)
    BY DEF InputLength
  <2> HIDE DEF n, m
  <2>2. n \in Nat /\ n \div 8 \in Nat /\ BufferFloor \in Nat
    BY <1>2, SizesAssumption
  <2>3. m \in Nat /\ n <= m
    BY <2>1, <2>2 DEF Larger
  <2>4. a = Slice(job.block, m)
    BY DEF m
  <2> HIDE DEF a
  <2>5. n = Len(job.block)
    BY DEF n
  <2> QED BY <1>2, <2>3, <2>4, <2>5 DEF Slice, Slot, m
<1>4. <<>> \in Data(D) /\ Len(<<>>) = 0
  BY <1>1, DataLengths
<1>5. b \in Slot(D) /\ b.data = <<>> /\ Len(b.data) <= b.length /\ b.length = OutputLength(job)
  <2>1. OutputLength(job) \in Nat
    BY <1>2 DEF Larger, OutputLength
  <2> QED BY <2>1, <1>4 DEF Slice, Slot
<1>6. NoSlice \in Slot(D) /\ Len(NoSlice.data) <= NoSlice.length /\ NoSlice.length = 0
  BY <1>4 DEF NoSlice, Slice, Slot
<1>7. /\ phase' = "forward" /\ job' = job
      /\ slices' = [input |-> a, output |-> b, buffer |-> NoSlice]
      /\ chain' = Tokens /\ in' = "input" /\ out' = "output"
      /\ next' = 1 /\ swaps' = 0 /\ skipFlags' = 0..7
  BY <1>2 DEF Start, ForwardBegin, SKIP_MASK, blockSize, InputLength, OutputLength, NeededOf
<1> HIDE DEF a, b, n
<1>8. /\ slices' \in [Names -> Slot(D)] /\ slices'["input"] = a /\ slices'["output"] = b /\ slices'["buffer"] = NoSlice
  BY <1>3, <1>5, <1>6, <1>7, RecordOfArrays
<1>9. Arrays(D)'
  BY <1>3, <1>5, <1>6, <1>8 DEF Arrays, Names
<1>10. PICK w : w = [k \in 0..Len(chain') |-> job.block]
  OBVIOUS
<1>11. w[0] = job.block
  BY <1>2, <1>7, <1>10
<1>12. Way(w)'
  BY <1>2, <1>7, <1>11 DEF Way
<1>13. Turns' /\ EncoderArrays'
  <2>1. Turns'
    BY <1>7 DEF Turns, Names
  <2>2. EncoderArrays'
    BY <1>3, <1>5, <1>6, <1>7, <1>8 DEF EncoderArrays
  <2> QED BY <2>1, <2>2
<1>14. Forwarding(D, w)'
  <2>1. PlaceOf("input") = "other"
    BY DEF PlaceOf
  <2>2. slices'[in'].data = w[next' - 1] /\ w[next' - 1] = job.block
    BY <1>3, <1>7, <1>8, <1>11
  <2>3. /\ next' \in 1..(Len(chain') + 1) /\ next' = 1 /\ next' - 1 = 0 /\ 1..(next' - 1) = {}
        /\ (next' - 1)..7 \subseteq skipFlags'
    BY <1>2, <1>7
  <2>4. w[next' - 1] \in D[job'][next' - 1][PlaceOf(in')]
    BY <2>1, <2>2, <2>3, <1>2, <1>7
  <2>5. \A k \in 1..(next' - 1) : Linked(D, w, k)'
    BY <2>3
  <2>6. Trail(D, w, next - 1)'
    <3>1. job.block \in After(D, job, 0)
      BY <1>2 DEF After, Places
    <3>2. \A k \in 0..(next' - 1) : k = 0
      BY <2>3
    <3> QED BY <3>1, <3>2, <2>3, <1>7, <1>11 DEF Trail
  <2> QED BY <1>7, <1>13, <2>2, <2>3, <2>4, <2>5, <2>6 DEF Forwarding
<1> QED BY <1>1, <1>7, <1>9, <1>12, <1>14 DEF Inv

(***************************************************************************)
(* Going forward, the array of the next transform is as long as TurnLength *)
(* has it, whether it is the block's own, the result's or the third.       *)
(***************************************************************************)
LEMMA EncoderRoom ==
  ASSUME NEW D, StagesKept(D), job \in Jobs, Arrays(D), Turns, EncoderArrays
  PROVE  /\ NeededOf(job) \in Nat /\ NeededOf(job) <= slices["output"].length
         /\ Roomy(NeededOf(job))[Target(NeededOf(job))].length = TurnLength(job, Opposite(PlaceOf(in)))
         /\ PlaceOf(Target(NeededOf(job))) = Opposite(PlaceOf(in))
<1> DEFINE n == NeededOf(job)
           to == Target(n)
           base == InputLength(job)
<1>1. n \in Nat /\ job.spare \in Nat /\ Len(job.block) \in Nat
  BY JobFacts
<1>2. base \in Nat
  <2> DEFINE l == Len(job.block)
  <2>1. base = Larger(l + l \div 8, BufferFloor) /\ l \in Nat
    BY <1>1 DEF InputLength
  <2> HIDE DEF l
  <2>2. l \div 8 \in Nat /\ BufferFloor \in Nat
    BY <2>1, SizesAssumption
  <2> QED BY <2>1, <2>2 DEF Larger
<1>3. slices["output"].length = OutputLength(job) /\ OutputLength(job) \in Nat /\ n <= OutputLength(job)
  BY <1>1 DEF EncoderArrays, OutputLength, Larger
<1>4. n <= slices["output"].length
  BY <1>3
<1>5. /\ to \in Names /\ to # in /\ (in = "output" \/ to = "output")
      /\ Roomy(n)[to].length = Larger(slices[to].length, n)
  BY <1>1, <1>4, TargetTurn
<1>6. CASE in = "output"
  <2>1. TurnLength(job, Opposite(PlaceOf(in))) = Larger(base, n)
    BY <1>6 DEF PlaceOf, Opposite, TurnLength, OtherLength
  <2>2. PlaceOf(to) = Opposite(PlaceOf(in))
    BY <1>5, <1>6 DEF PlaceOf, Opposite
  <2>3. slices["input"].length = base /\ slices["buffer"].length \in {0, n}
    BY DEF EncoderArrays
  <2>4. out \in {"input", "buffer"}
    BY <1>6 DEF Turns, Names
  <2>5. CASE to = "input"
    BY <2>1, <2>2, <2>3, <2>5, <1>1, <1>4, <1>5
  <2>6. CASE to = "buffer"
    <3>1. base < n
      <4>1. CASE out = "buffer"
        BY <4>1 DEF EncoderArrays
      <4>2. CASE out = "input"
        BY <4>2, <2>3, <2>6 DEF Target
      <4> QED BY <4>1, <4>2, <2>4
    <3>2. Larger(slices["buffer"].length, n) = n /\ Larger(base, n) = n
      BY <3>1, <2>3, <1>1, <1>2 DEF Larger
    <3> QED BY <3>2, <2>1, <2>2, <2>6, <1>1, <1>4, <1>5
  <2> QED BY <2>5, <2>6, <1>5, <1>6 DEF Names
<1>7. CASE in # "output"
  <2>1. to = "output"
    BY <1>5, <1>7
  <2>2. TurnLength(job, Opposite(PlaceOf(in))) = OutputLength(job) /\ PlaceOf(to) = Opposite(PlaceOf(in))
    BY <1>7, <2>1 DEF PlaceOf, Opposite, TurnLength
  <2>3. Larger(OutputLength(job), n) = OutputLength(job)
    BY <1>1, <1>3 DEF Larger
  <2> QED BY <2>1, <2>2, <2>3, <1>1, <1>3, <1>4, <1>5
<1> QED BY <1>6, <1>7

LEMMA EncoderTurned ==
  ASSUME NEW D, StagesKept(D), job \in Jobs, Arrays(D), Turns, EncoderArrays, job' = job,
         \A a \in Names : slices'[a].length = Roomy(NeededOf(job))[a].length,
         \/ in' = in /\ out' = Target(NeededOf(job))
         \/ in' = Target(NeededOf(job)) /\ out' = in
  PROVE  EncoderArrays'
<1> DEFINE n == NeededOf(job)
           to == Target(n)
           base == InputLength(job)
<1>1. n \in Nat /\ n <= slices["output"].length
  BY EncoderRoom
<1>2. /\ to \in Names /\ to # in /\ (in = "output" \/ to = "output")
      /\ Roomy(n)["output"] = slices["output"]
      /\ \A a \in Names : a # to => Roomy(n)[a] = slices[a]
      /\ Roomy(n)[to].length = Larger(slices[to].length, n)
  BY <1>1, TargetTurn
<1>3. /\ slices["output"].length = OutputLength(job) /\ slices["input"].length = base
      /\ slices["buffer"].length \in {0, n}
      /\ in = "buffer" \/ out = "buffer" => base < n
  BY DEF EncoderArrays
<1>4. base \in Nat
  BY <1>3 DEF Arrays, Names, Slot
<1>5. to = "buffer" => base < n
  <2> SUFFICES ASSUME to = "buffer" PROVE base < n
    OBVIOUS
  <2>1. CASE out = "buffer"
    BY <2>1, <1>3
  <2>2. CASE out # "buffer"
    <3>1. slices[out].length < n
      BY <2>2 DEF Target
    <3>2. out = "input"
      <4>1. OutputLength(job) \in Nat /\ n <= OutputLength(job)
        BY <1>1, <1>3 DEF Arrays, Names, Slot
      <4>2. out # "output"
        BY <3>1, <4>1, <1>1, <1>3
      <4> QED BY <4>2, <2>2 DEF Turns, Names
    <3> QED BY <3>1, <3>2, <1>3
  <2> QED BY <2>1, <2>2
<1>6. to = "input" => n <= base
  <2> SUFFICES ASSUME to = "input" PROVE n <= base
    OBVIOUS
  <2>1. ~(slices[out].length < n) /\ out = "input"
    BY DEF Target
  <2> QED BY <2>1, <1>1, <1>3, <1>4
<1>7. slices'["output"].length = OutputLength(job)
  BY <1>2, <1>3 DEF Names
<1>8. slices'["input"].length = base
  <2>1. CASE to = "input"
    BY <2>1, <1>1, <1>2, <1>3, <1>4, <1>6 DEF Names, Larger
  <2>2. CASE to # "input"
    BY <2>2, <1>2, <1>3 DEF Names
  <2> QED BY <2>1, <2>2
<1>9. slices'["buffer"].length \in {0, n}
  <2>1. CASE to = "buffer"
    BY <2>1, <1>1, <1>2, <1>3 DEF Names, Larger
  <2>2. CASE to # "buffer"
    BY <2>2, <1>2, <1>3 DEF Names
  <2> QED BY <2>1, <2>2
<1>10. in' = "buffer" \/ out' = "buffer" => base < n
  BY <1>3, <1>5
<1> QED BY <1>7, <1>8, <1>9, <1>10 DEF EncoderArrays

LEMMA Continued ==
  ASSUME NEW w, NEW b, NEW L \in Nat, NEW n \in 0..L
  PROVE  \E u : u[n] = b /\ \A m \in 0..L : m # n => u[m] = w[m]
<1> DEFINE u == [m \in 0..L |-> IF m = n THEN b ELSE w[m]]
<1>1. u[n] = b /\ \A m \in 0..L : m # n => u[m] = w[m]
  OBVIOUS
<1> HIDE DEF u
<1> QED BY <1>1

(***************************************************************************)
(* Transform: a transform that succeeds lengthens the trail by its result, *)
(* one that fails by the same data and a flag.                             *)
(***************************************************************************)
LEMMA TransformStep ==
  ASSUME NEW D, Contracts(D), Inv(D), Transform
  PROVE  Inv(D)'
<1>1. StagesKept(D) /\ ForwardKept(D) /\ job \in Jobs /\ Arrays(D) /\ phase = "forward"
  BY DEF Contracts, Inv, Transform
<1>2. PICK w : Way(w) /\ Forwarding(D, w)
  BY <1>1 DEF Inv
<1> DEFINE L == Len(chain)
           a == w[next - 1]
           needed == NeededOf(job)
           r == Roomy(needed)
           to == Target(needed)
           room == r[to].length
           p == PlaceOf(in)
<1>3. chain = ChainOf(job)
  BY <1>2 DEF Way
<1>4. PICK t \in job.types : ForwardStep(needed, [job.ctx EXCEPT !.type = t])
  BY <1>3 DEF Transform, NeededOf
<1> DEFINE res == Forwarded(job, next, a, p, t)
<1>5. UNCHANGED <<job, phase, bits, checksum, at>> /\ chain' = chain /\ next' = next + 1
  BY <1>4 DEF Transform, ForwardStep
<1>6. L \in 0..8 /\ needed \in Nat
  BY <1>1, <1>3, JobFacts
<1>7. /\ Turns /\ EncoderArrays
      /\ next \in 1..(L + 1) /\ (next - 1)..7 \subseteq skipFlags
      /\ \A k \in 1..(next - 1) : Linked(D, w, k)
      /\ Trail(D, w, next - 1)
      /\ slices[in].data = a
      /\ a \in D[job][next - 1][p]
      /\ skipFlags = SKIP_MASK => a = job.block
  BY <1>2 DEF Forwarding
<1>8. next <= L
  BY <1>4 DEF ForwardStep
<1>9. next \in 1..L /\ next - 1 \in 0..L /\ next - 1 \in 0..7 /\ next \in Nat /\ L \in Nat /\ next \in 0..L
  <2>1. L \in 0..8 /\ next \in 1..(L + 1) /\ next <= L
    BY <1>6, <1>7, <1>8
  <2> HIDE DEF L
  <2> QED BY <2>1
<1>10. w[0] = job.block /\ skipFlags \in SUBSET (0..7) /\ p \in Places
  BY <1>2 DEF Way, PlaceOf, Places
<1>11. /\ needed <= slices["output"].length /\ room = TurnLength(job, Opposite(p))
       /\ PlaceOf(to) = Opposite(p) /\ Opposite(p) \in Places
  BY <1>1, <1>7, EncoderRoom DEF Opposite, Places
<1>12. res = TokenForward(chain[next], slices[in].data, room, [job.ctx EXCEPT !.type = t])
  BY <1>3, <1>7, <1>11 DEF Forwarded
<1> HIDE DEF p, a, res
<1>13. IF res.ok THEN /\ res.out \in D[job][next][Opposite(p)]
                      /\ Len(res.out) <= TurnLength(job, Opposite(p))
                      /\ CopiedOf(job) => res.out = a
       ELSE a \in D[job][next][p] /\ ~CopiedOf(job)
  <2>1. next \in Stages(job)
    BY <1>9, <1>3 DEF Stages
  <2> HIDE DEF L
  <2>2. \A x \in {Forwarded(job, next, a, p, t)} :
          IF x.ok THEN /\ x.out \in D[job][next][Opposite(p)]
                       /\ Len(x.out) <= TurnLength(job, Opposite(p))
                       /\ CopiedOf(job) => x.out = a
          ELSE a \in D[job][next][p] /\ ~CopiedOf(job)
    BY <2>1, <1>1, <1>7, <1>10 DEF ForwardKept
  <2> QED BY <2>2 DEF res
<1>14. \A k \in 0..L : \A q \in Places : \A x \in D[job][k][q] : x \in After(D, job, k) /\ x \in Data(D)
  BY <1>1, <1>3, AfterPlace, AfterData
<1> HIDE DEF r, to, room, needed
<1>15. /\ next' \in 1..(Len(chain') + 1) /\ next' - 1 = next
       /\ next..7 \subseteq (next - 1)..7 /\ next - 1 \notin next..7
  <2> HIDE DEF L
  <2>1. Len(chain') = L
    BY <1>5 DEF L
  <2> QED BY <2>1, <1>5, <1>9
<1>16. \A k \in 1..next : k \in 0..L /\ k - 1 \in 0..L /\ k - 1 # next /\ (k # next => k \in 1..(next - 1) /\ k - 1 # next - 1)
  <2> HIDE DEF L
  <2> QED BY <1>9
<1>17. CASE res.ok
  <2> DEFINE b == res.out
  <2>1. /\ slices' = [r EXCEPT ![to].data = b]
        /\ in' = to /\ out' = in /\ swaps' = swaps + 1
        /\ skipFlags' = skipFlags \ {next - 1}
    BY <1>4, <1>12, <1>17 DEF ForwardStep, r, to, room, needed
  <2>2. /\ b \in D[job][next][Opposite(p)] /\ Len(b) <= room
        /\ CopiedOf(job) => b = a
    BY <1>11, <1>13, <1>17
  <2>3. Made(D, job, next, a, b)
    BY <1>7, <1>10, <1>17, <2>2 DEF Made, res
  <2> HIDE DEF b
  <2>4. b \in Data(D) /\ b \in After(D, job, next)
    BY <1>9, <1>11, <1>14, <2>2
  <2>5. /\ Arrays(D)' /\ Turns' /\ slices'[in'].data = b
        /\ \A x \in Names : slices'[x].length = r[x].length
    BY <1>1, <1>6, <1>7, <1>11, <2>1, <2>2, <2>4, Moved DEF r, to, room
  <2>6. EncoderArrays'
    BY <1>1, <1>5, <1>7, <2>1, <2>5, EncoderTurned DEF r, to, needed
  <2>7. PICK u : u[next] = b /\ \A m \in 0..L : m # next => u[m] = w[m]
    <3> HIDE DEF L
    <3> QED BY <1>9, Continued
  <2>8. Way(u)'
    <3>1. 0 \in 0..L /\ 0 # next
      BY <1>9
    <3>2. skipFlags' \in SUBSET (0..7)
      BY <2>1, <1>10
    <3> QED BY <3>1, <3>2, <1>3, <1>10, <1>5, <2>7 DEF Way
  <2>9. (next' - 1)..7 \subseteq skipFlags'
    BY <1>15, <1>7, <2>1
  <2>10. ASSUME NEW k \in 1..(next' - 1) PROVE Linked(D, u, k)'
    <3>1. k \in 1..next
      BY <1>15
    <3>2. k \in 0..L /\ k - 1 \in 0..L /\ k - 1 # next
      BY <1>16, <3>1
    <3>3. CASE k = next
      <4>1. u[k] = b /\ u[k - 1] = a
        BY <3>2, <3>3, <2>7 DEF a
      <4>2. k - 1 \notin skipFlags'
        BY <3>3, <2>1
      <4> QED BY <4>1, <4>2, <2>3, <3>3, <1>5 DEF Linked
    <3>4. CASE k # next
      <4>1. k \in 1..(next - 1) /\ k - 1 # next - 1
        BY <3>1, <3>4, <1>16
      <4>2. u[k] = w[k] /\ u[k - 1] = w[k - 1]
        BY <3>2, <3>4, <2>7
      <4>3. Linked(D, w, k)
        BY <4>1, <1>7
      <4>4. k - 1 \in skipFlags' <=> k - 1 \in skipFlags
        BY <4>1, <2>1
      <4> QED BY <4>2, <4>3, <4>4, <1>5 DEF Linked
    <3> QED BY <3>3, <3>4
  <2>11. Trail(D, u, next - 1)'
    <3> SUFFICES ASSUME NEW k \in 0..next PROVE u[k] \in After(D, job, k)
      BY <1>5, <1>15 DEF Trail
    <3>1. CASE k = next
      BY <3>1, <2>4, <2>7
    <3>2. CASE k # next
      <4>1. k \in 0..(next - 1) /\ k \in 0..L
        <5> HIDE DEF L
        <5> QED BY <1>9, <3>2
      <4> QED BY <4>1, <3>2, <1>7, <2>7 DEF Trail
    <3> QED BY <3>1, <3>2
  <2>12. skipFlags' # SKIP_MASK
    BY <2>1, <1>9 DEF SKIP_MASK
  <2>13. /\ slices'[in'].data = u[next' - 1]
         /\ u[next' - 1] \in D[job'][next' - 1][PlaceOf(in')]
    BY <2>1, <2>2, <2>5, <2>7, <1>5, <1>11, <1>15
  <2>14. Forwarding(D, u)'
    BY <2>6, <2>5, <2>9, <2>10, <2>11, <2>12, <2>13, <1>15 DEF Forwarding, SKIP_MASK
  <2> QED BY <1>1, <1>5, <2>5, <2>8, <2>14 DEF Inv
<1>18. CASE ~res.ok
  <2>1. /\ slices' = [r EXCEPT ![to].data = <<>>]
        /\ out' = to /\ UNCHANGED <<in, swaps, skipFlags>>
    BY <1>4, <1>12, <1>18 DEF ForwardStep, r, to, room, needed
  <2>2. a \in D[job][next][p] /\ ~CopiedOf(job)
    BY <1>13, <1>18
  <2>3. a \in After(D, job, next)
    BY <1>9, <1>10, <1>14, <2>2
  <2>4. /\ Arrays(D)' /\ Turns' /\ slices'[in'].data = a
        /\ \A x \in Names : slices'[x].length = r[x].length
    BY <1>1, <1>6, <1>7, <1>11, <2>1, Stayed DEF r, to
  <2>5. EncoderArrays'
    BY <1>1, <1>5, <1>7, <2>1, <2>4, EncoderTurned DEF r, to, needed
  <2>6. PICK u : u[next] = a /\ \A m \in 0..L : m # next => u[m] = w[m]
    <3> HIDE DEF L
    <3> QED BY <1>9, Continued
  <2>7. Way(u)'
    <3>1. 0 \in 0..L /\ 0 # next
      BY <1>9
    <3> QED BY <3>1, <2>1, <1>3, <1>10, <1>5, <2>6 DEF Way
  <2>8. (next' - 1)..7 \subseteq skipFlags'
    BY <1>15, <1>7, <2>1
  <2>9. ASSUME NEW k \in 1..(next' - 1) PROVE Linked(D, u, k)'
    <3>1. k \in 1..next
      BY <1>15
    <3>2. k \in 0..L /\ k - 1 \in 0..L /\ k - 1 # next
      BY <1>16, <3>1
    <3>3. CASE k = next
      <4>1. u[k] = a /\ u[k - 1] = a
        BY <3>2, <3>3, <2>6 DEF a
      <4>2. k - 1 \in skipFlags
        BY <3>3, <1>7, <1>9
      <4> QED BY <4>1, <4>2, <2>1, <2>2, <1>5 DEF Linked
    <3>4. CASE k # next
      <4>1. k \in 1..(next - 1)
        BY <3>1, <3>4, <1>16
      <4>2. u[k] = w[k] /\ u[k - 1] = w[k - 1]
        BY <3>2, <3>4, <2>6
      <4>3. Linked(D, w, k)
        BY <4>1, <1>7
      <4> QED BY <4>2, <4>3, <2>1, <1>5 DEF Linked
    <3> QED BY <3>3, <3>4
  <2>10. Trail(D, u, next - 1)'
    <3> SUFFICES ASSUME NEW k \in 0..next PROVE u[k] \in After(D, job, k)
      BY <1>5, <1>15 DEF Trail
    <3>1. CASE k = next
      BY <3>1, <2>3, <2>6
    <3>2. CASE k # next
      <4>1. k \in 0..(next - 1) /\ k \in 0..L
        <5> HIDE DEF L
        <5> QED BY <1>9, <3>2
      <4> QED BY <4>1, <3>2, <1>7, <2>6 DEF Trail
    <3> QED BY <3>1, <3>2
  <2>11. /\ slices'[in'].data = u[next' - 1]
         /\ u[next' - 1] \in D[job'][next' - 1][PlaceOf(in')]
         /\ skipFlags' = SKIP_MASK => u[next' - 1] = job'.block
    BY <2>1, <2>2, <2>4, <2>6, <1>5, <1>7, <1>15 DEF p
  <2>12. Forwarding(D, u)'
    BY <2>5, <2>4, <2>8, <2>9, <2>10, <2>11, <1>15 DEF Forwarding, SKIP_MASK
  <2> QED BY <1>1, <1>5, <2>4, <2>7, <2>12 DEF Inv
<1> QED BY <1>17, <1>18

(***************************************************************************)
(* Transformed: the result ends up in the array of the result.             *)
(***************************************************************************)
LEMMA TransformedStep ==
  ASSUME NEW D, Contracts(D), Inv(D), Transformed
  PROVE  Inv(D)'
<1>1. StagesKept(D) /\ ForwardKept(D) /\ job \in Jobs /\ Arrays(D) /\ phase = "forward"
  BY DEF Contracts, Inv, Transformed
<1>2. PICK w : Way(w) /\ Forwarding(D, w)
  BY <1>1 DEF Inv
<1> DEFINE L == Len(chain)
           c == w[L]
<1>3. /\ phase' = "emit" /\ UNCHANGED <<job, chain, in>>
      /\ next > L /\ ForwardEnd
  BY DEF Transformed, ForwardEnd
<1>4. chain = ChainOf(job) /\ L \in 0..8
  <2>1. chain = ChainOf(job)
    BY <1>2 DEF Way
  <2> QED BY <2>1, <1>1, JobFacts
<1>5. next - 1 = L /\ L \in Nat /\ L \in 0..L
  <2>1. L \in 0..8 /\ next \in 1..(L + 1) /\ next > L
    BY <1>2, <1>3, <1>4 DEF Forwarding
  <2> HIDE DEF L
  <2> QED BY <2>1
<1>6. /\ Turns /\ EncoderArrays
      /\ L..7 \subseteq skipFlags
      /\ \A k \in 1..L : Linked(D, w, k)
      /\ Trail(D, w, L)
      /\ slices[in].data = c
      /\ c \in D[job][L][PlaceOf(in)]
      /\ skipFlags = SKIP_MASK => c = job.block
  BY <1>2, <1>5 DEF Forwarding
<1>7. c \in Data(D) /\ Len(c) \in Nat
  <2>1. c \in After(D, job, L)
    BY <1>5, <1>6 DEF Trail
  <2> QED BY <2>1, <1>1, <1>4, <1>5, JobFacts
<1>8. swaps % 2 # 1 => Len(c) <= slices["output"].length
  <2> SUFFICES ASSUME swaps % 2 # 1 PROVE Len(c) <= slices["output"].length
    OBVIOUS
  <2>1. PlaceOf(in) = "other"
    BY <1>6 DEF Turns, PlaceOf
  <2>2. c \in D[job][Len(ChainOf(job))]["other"]
    BY <2>1, <1>4, <1>6
  <2>3. Len(c) <= OutputLength(job)
    BY <2>2, <1>1 DEF ForwardKept
  <2> QED BY <2>3, <1>6 DEF EncoderArrays
<1>9. slices["output"] \in Slot(D) /\ "output" \in Names /\ in \in Names
  BY <1>1, <1>6 DEF Arrays, Names, Turns
<1> HIDE DEF c, L
<1>10. skipFlags' = skipFlags /\ slices'["output"].data = c /\ slices'[in'].data = c /\ Arrays(D)'
  <2>1. CASE swaps % 2 = 1
    <3>1. slices' = slices /\ skipFlags' = skipFlags
      BY <1>3, <2>1 DEF ForwardEnd
    <3>2. in = "output"
      BY <1>6, <2>1 DEF Turns
    <3>3. Arrays(D)'
      BY <1>1, <3>1 DEF Arrays
    <3> QED BY <3>1, <3>2, <3>3, <1>3, <1>6
  <2>2. CASE ~(swaps % 2 = 1)
    <3>1. Len(c) <= slices["output"].length
      BY <1>8, <2>2
    <3>2. Fits
      BY <3>1, <1>6 DEF Fits
    <3> DEFINE o == [slices["output"] EXCEPT !.data = c]
    <3>3. slices' = [slices EXCEPT !["output"].data = c] /\ skipFlags' = skipFlags
      BY <3>2, <2>2, <1>3, <1>6 DEF ForwardEnd
    <3>4. o \in Slot(D) /\ o.data = c /\ o.length = slices["output"].length
      BY <1>7, <1>9 DEF Slot
    <3>5. slices' \in [Names -> Slot(D)] /\ slices'["output"] = o /\ \A a \in Names : a # "output" => slices'[a] = slices[a]
      BY <3>3, <3>4, <1>1, <1>9 DEF Arrays
    <3> HIDE DEF o
    <3>6. in # "output"
      BY <1>6, <2>2 DEF Turns
    <3>7. \A a \in Names : Len(slices'[a].data) <= slices'[a].length
      <4> SUFFICES ASSUME NEW a \in Names PROVE Len(slices'[a].data) <= slices'[a].length
        OBVIOUS
      <4>1. CASE a = "output"
        BY <4>1, <3>1, <3>4, <3>5
      <4>2. CASE a # "output"
        BY <4>2, <3>5, <1>1 DEF Arrays
      <4> QED BY <4>1, <4>2
    <3>8. Arrays(D)'
      BY <3>5, <3>7 DEF Arrays
    <3> QED BY <3>3, <3>4, <3>5, <3>6, <3>8, <1>3, <1>6, <1>9
  <2> QED BY <2>1, <2>2
<1>11. Way(w)'
  BY <1>2, <1>3, <1>10 DEF Way
<1>12. \A k \in 1..L : Linked(D, w, k)'
  BY <1>3, <1>6, <1>10 DEF Linked
<1>13. Emitting(D, w)'
  BY <1>3, <1>6, <1>10, <1>12 DEF Emitting, Coded, Trail, L, c, SKIP_MASK
<1> QED BY <1>1, <1>3, <1>10, <1>11, <1>13 DEF Inv

(***************************************************************************)
(* Emit: nothing past the end of the result is handed to the entropy       *)
(* coder.                                                                  *)
(***************************************************************************)
LEMMA NothingAdded ==
  ASSUME NEW s, IsSequence(s), NEW v
  PROVE  s \o Fill(v, 0) = s
<1> DEFINE f == Fill(v, 0)
           S == {s[i] : i \in 1..Len(s)}
<1>1. f \in [1..0 -> S]
  BY DEF Fill
<1>2. s \in Seq(S)
  BY SequenceOf
<1> HIDE DEF S
<1>3. f \in Seq(S) /\ Len(f) = 0
  BY <1>1, Listed
<1> HIDE DEF f
<1>4. s \o f \in Seq(S) /\ Len(s \o f) = Len(s) /\ \A j \in 1..Len(s) : (s \o f)[j] = s[j]
  BY <1>2, <1>3
<1> DEFINE t == s \o f
<1> HIDE DEF t
<1>5. t = s
  BY <1>2, <1>4, SeqEqual DEF t
<1> QED BY <1>5 DEF t, f

LEMMA EmitStep ==
  ASSUME NEW D, Contracts(D), Inv(D), Emit
  PROVE  Inv(D)'
<1>1. StagesKept(D) /\ job \in Jobs /\ Arrays(D) /\ phase = "emit"
  BY DEF Contracts, Inv, Emit
<1>2. PICK w : Way(w) /\ Emitting(D, w)
  BY <1>1 DEF Inv
<1>3. phase' = "read" /\ UNCHANGED <<job, chain, slices, skipFlags>>
  BY DEF Emit, seqVars
<1> DEFINE L == Len(chain)
           c == w[L]
<1>4. chain = ChainOf(job) /\ L \in 0..8
  <2>1. chain = ChainOf(job)
    BY <1>2 DEF Way
  <2> QED BY <2>1, <1>1, JobFacts
<1>5. IsSequence(c) /\ Len(c) \in Nat
  <2>1. L \in 0..L
    BY <1>4
  <2>2. c \in After(D, job, L)
    BY <1>2, <2>1 DEF Emitting, Coded, Trail
  <2> QED BY <2>1, <2>2, <1>1, <1>4, JobFacts
<1>6. slices["output"].data = c /\ slices[in].data = c
  BY <1>2 DEF Emitting
<1>7. Handed = c
  <2>1. Len(c) - Len(c) = 0
    BY <1>5
  <2>2. c \o Fill(job.heap, 0) = c
    BY <1>5, NothingAdded
  <2> HIDE DEF c
  <2> QED BY <1>6, <2>1, <2>2 DEF Handed
<1>8. bits' = Header(Copied, chain, skipFlags, Len(c)) \o EntropyEncode(EntropyOf(Copied), c, job.heap)
  BY <1>7 DEF Emit
<1>9. Copied' = Copied /\ (EntropyOf(Copied))' = EntropyOf(Copied)
  BY <1>3 DEF Copied, EntropyOf
<1>10. Way(w)'
  BY <1>2, <1>3 DEF Way
<1>11. Coded(D, w)'
  BY <1>2, <1>3 DEF Emitting, Coded, Linked, Trail
<1>12. bits' = (Header(Copied, chain, skipFlags, Len(c)) \o EntropyEncode(EntropyOf(Copied), c, job.heap))'
  BY <1>3, <1>8, <1>9 DEF Header, FlagBits
<1>13. Reading(D, w)'
  BY <1>11, <1>12 DEF Reading
<1>14. Arrays(D)'
  BY <1>1, <1>3 DEF Arrays
<1> QED BY <1>1, <1>3, <1>10, <1>13, <1>14 DEF Inv

(***************************************************************************)
(* Read: what the decoding task parses and decodes is the last of the      *)
(* trail.                                                                  *)
(***************************************************************************)
Decoded == EntropyDecode(EntropyOf(Parsed.copy), bits, Parsed.at, Parsed.length)

LEMMA BlockLengths ==
  ASSUME NEW D, StagesKept(D), job \in Jobs
  PROVE  /\ BlockLengthOf(job) = blockLength
         /\ blockLength \in Nat /\ Len(job.block) \in Nat /\ Len(job.block) <= blockLength
         /\ \A m \in InverseLengths(D, job) : m \in Nat => blockLength <= m
<1> DEFINE l == Len(job.block)
           B == BlockLengthOf(job)
<1>1. l \in Nat
  BY JobFacts
<1>2. B = blockLength
  BY DEF BlockLengthOf, blockLength, blockSize
<1>3. B \in Nat /\ l <= B
  <2>1. B = Larger(l + ExtraBuffer, l + l \div 16)
    BY DEF BlockLengthOf
  <2> HIDE DEF l, B
  <2>2. l \div 16 \in Nat /\ ExtraBuffer \in Nat
    BY <1>1, SizesAssumption
  <2> QED BY <1>1, <2>1, <2>2 DEF Larger
<1>4. ASSUME NEW m \in InverseLengths(D, job), m \in Nat PROVE B <= m
  <2>1. PICK a \in Results(D, job) : m \in LengthsOf(job, a)
    BY DEF InverseLengths
  <2>2. (\E n : m = Larger(B, n)) \/ m = B
    <3>1. CASE m = Larger(B, Len(a) + ExtraBuffer)
      BY <3>1
    <3>2. CASE \E head \in Headers(job, a) : m = RoomOf(job, head, a)
      <4>1. PICK head \in Headers(job, a) : m = RoomOf(job, head, a)
        BY <3>2
      <4> QED BY <4>1 DEF RoomOf
    <3> QED BY <2>1, <3>1, <3>2 DEF LengthsOf
  <2> HIDE DEF B
  <2> QED BY <1>3, <1>4, <2>2 DEF Larger
<1> QED BY <1>1, <1>2, <1>3, <1>4

LEMMA ReadBack ==
  ASSUME NEW D, Contracts(D), job \in Jobs, NEW w, Way(w), Reading(D, w)
  PROVE  /\ Parsed.length = Len(w[Len(chain)]) /\ Len(w[Len(chain)]) \in Nat
         /\ w[Len(chain)] \in Data(D) /\ w[Len(chain)] \in Results(D, job)
         /\ Parsed.flags = (IF CopiedOf(job) THEN {} ELSE skipFlags)
         /\ Chain(IF Parsed.copy THEN <<>> ELSE job.names) = chain
         /\ Len(bits) \in Nat /\ Room \in Nat /\ blockLength <= Room
         /\ Room \in InverseLengths(D, job)
         /\ Larger(blockLength, Len(w[Len(chain)]) + ExtraBuffer) \in InverseLengths(D, job)
         /\ \E head \in Headers(job, w[Len(chain)]) : Decoded = Decoding(job, head, w[Len(chain)])
         /\ Decoded.ok => Decoded.out = w[Len(chain)] /\ Decoded.at = Len(bits)
<1> DEFINE L == Len(chain)
           c == w[L]
           code == CodeOf(job, c)
           head == Header(CopiedOf(job), chain, skipFlags, Len(c))
<1>1. StagesKept(D) /\ EntropyKept(D)
  BY DEF Contracts
<1>2. chain = ChainOf(job) /\ skipFlags \in SUBSET (0..7)
  BY DEF Way
<1>3. /\ L \in 0..8 /\ L \in 0..L
      /\ CopiedOf(job) \in BOOLEAN /\ Copied = CopiedOf(job) /\ EntropyOf(Copied) = CoderOf(job)
  BY <1>1, <1>2, JobFacts
<1>4. c \in After(D, job, L) /\ c \in Results(D, job)
  BY <1>2, <1>3 DEF Reading, Coded, Trail, Results
<1>5. Len(c) \in Nat /\ Halves(Len(c))[4 * ByteBits] = 0 /\ c \in Data(D)
  BY <1>1, <1>2, <1>3, <1>4, JobFacts
<1>6. IsSequence(code)
  BY <1>1, <1>4 DEF EntropyKept
<1>7. bits = head \o code
  BY <1>3 DEF Reading, CodeOf
<1>8. L \in Nat /\ (L <= 4 => 4..7 \subseteq skipFlags) /\ L..7 \subseteq skipFlags
  <2>1. L..7 \subseteq skipFlags
    BY DEF Reading, Coded
  <2>2. L <= 4 => 4..7 \subseteq L..7
    BY <1>3
  <2> QED BY <2>1, <2>2, <1>3
<1>9. head \in Headers(job, c)
  BY <1>2, <1>8 DEF Headers, SKIP_MASK
<1>10. \E S : code \in Seq(S)
  BY <1>6, SequenceOf
<1> HIDE DEF code
<1>11. /\ Parsed.copy = CopiedOf(job) /\ Parsed.length = Len(c) /\ Parsed.at = Len(head)
       /\ Len(bits) \in Nat
       /\ CopiedOf(job) => Parsed.flags = {}
       /\ ~CopiedOf(job) /\ (L <= 4 => 4..7 \subseteq skipFlags) => Parsed.flags = skipFlags
  <2>1. PICK S : code \in Seq(S)
    BY <1>10
  <2> QED BY <2>1, <1>2, <1>3, <1>5, <1>7, <1>8, HeaderRead
<1> HIDE DEF head
<1>12. Parsed.flags = (IF CopiedOf(job) THEN {} ELSE skipFlags)
  BY <1>8, <1>11, <1>3
<1>13. Chain(IF Parsed.copy THEN <<>> ELSE job.names) = chain
  <2>1. CASE CopiedOf(job)
    BY <2>1, <1>2, <1>11 DEF ChainOf
  <2>2. CASE ~CopiedOf(job)
    BY <2>2, <1>2, <1>11 DEF ChainOf
  <2> QED BY <2>1, <2>2, <1>3
<1>14. EntropyOf(Parsed.copy) = CoderOf(job)
  BY <1>3, <1>11
<1>15. Decoded = Decoding(job, head, c)
  BY <1>7, <1>11, <1>14 DEF Decoded, Decoding, code
<1>16. Decoded.ok => Decoded.out = c /\ Decoded.at = Len(bits)
  <2>1. \A res \in {Decoding(job, head, c)} : res.ok => res.out = c /\ res.at = Len(head \o CodeOf(job, c))
    BY <1>1, <1>4, <1>9 DEF EntropyKept
  <2> QED BY <2>1, <1>7, <1>15 DEF code
<1>17. BlockLengthOf(job) = blockLength /\ blockLength \in Nat
  BY <1>1, BlockLengths
<1>18. Room \in Nat /\ blockLength <= Room
  <2>1. Len(bits) \div ByteBits \in Nat
    BY <1>11, Division, SizesAssumption
  <2> QED BY <2>1, <1>17 DEF Room, Larger
<1>19. Room = RoomOf(job, head, c)
  BY <1>7, <1>17 DEF Room, RoomOf, code
<1>20. LengthsOf(job, c) \subseteq InverseLengths(D, job)
  BY <1>4 DEF InverseLengths
<1>21. Room \in InverseLengths(D, job) /\ Larger(blockLength, Len(c) + ExtraBuffer) \in InverseLengths(D, job)
  <2>1. Room \in LengthsOf(job, c) /\ Larger(blockLength, Len(c) + ExtraBuffer) \in LengthsOf(job, c)
    BY <1>9, <1>17, <1>19 DEF LengthsOf
  <2> QED BY <2>1, <1>20
<1> QED BY <1>4, <1>5, <1>11, <1>12, <1>13, <1>15, <1>16, <1>18, <1>21, <1>9

(***************************************************************************)
(* Read: it either refuses or begins to go back along the trail.           *)
(***************************************************************************)
LEMMA ReadStep ==
  ASSUME NEW D, Contracts(D), Inv(D), Read
  PROVE  Inv(D)'
<1>1. StagesKept(D) /\ job \in Jobs /\ Arrays(D) /\ phase = "read"
  BY DEF Contracts, Inv, Read
<1>2. PICK w : Way(w) /\ Reading(D, w)
  BY <1>1 DEF Inv
<1> DEFINE L == Len(chain)
           c == w[L]
           n == Parsed.length
           flags == Parsed.flags
           data == Slice(Decoded.out, Larger(blockLength, n + ExtraBuffer))
           empty == Slice(<<>>, Room)
           first == IF flags = SKIP_MASK THEN Slice(data.data, empty.length) ELSE empty
<1>3. /\ n = Len(c) /\ n \in Nat /\ c \in Data(D)
      /\ flags = (IF CopiedOf(job) THEN {} ELSE skipFlags)
      /\ Chain(IF Parsed.copy THEN <<>> ELSE job.names) = chain
      /\ Room \in Nat /\ Room \in InverseLengths(D, job)
      /\ Larger(blockLength, n + ExtraBuffer) \in InverseLengths(D, job)
      /\ Decoded.ok => Decoded.out = c /\ Decoded.at = Len(bits)
  BY <1>1, <1>2, ReadBack
<1>4. /\ at' = Decoded.at
      /\ IF Unreadable(Parsed, Decoded) THEN Refuse
         ELSE /\ phase' = "inverse"
              /\ InverseBegin(data, empty, chain, flags)
              /\ UNCHANGED <<job, bits, checksum>>
  BY <1>3 DEF Read, Decoded
<1>5. CASE Unreadable(Parsed, Decoded)
  <2>1. phase' = "refused" /\ UNCHANGED <<job, slices>>
    BY <1>4, <1>5 DEF Refuse, seqVars
  <2>2. Arrays(D)'
    BY <1>1, <2>1 DEF Arrays
  <2> QED BY <1>1, <2>1, <2>2 DEF Inv
<1>6. CASE ~Unreadable(Parsed, Decoded)
  <2>1. Decoded.out = c /\ Decoded.at = Len(bits) /\ ~(n > Room)
    BY <1>3, <1>6 DEF Unreadable
  <2>2. /\ phase' = "inverse" /\ UNCHANGED <<job, bits>> /\ at' = Len(bits)
        /\ slices' = [input |-> data, output |-> first, buffer |-> NoSlice]
        /\ in' = "input" /\ out' = "output"
        /\ next' = (IF flags = SKIP_MASK THEN 0 ELSE L)
        /\ swaps' = 0 /\ chain' = chain /\ skipFlags' = flags
    BY <1>4, <1>6, <2>1 DEF InverseBegin
  <2>3. chain = ChainOf(job) /\ skipFlags \in SUBSET (0..7)
    BY <1>2 DEF Way
  <2>4. /\ L \in 0..8 /\ CopiedOf(job) \in BOOLEAN
    BY <1>1, <2>3, JobFacts
  <2>5. L \in Nat /\ L \in 0..L /\ w[0] = job.block
    BY <1>2, <2>4 DEF Way
  <2>6. Coded(D, w)
    BY <1>2 DEF Reading
  <2>7. flags \in SUBSET (0..7) /\ (flags = SKIP_MASK => c = job.block)
    <3>1. {} # SKIP_MASK
      <4>1. 0 \in SKIP_MASK
        BY DEF SKIP_MASK
      <4> QED BY <4>1
    <3>2. skipFlags = SKIP_MASK => c = job.block
      BY <2>6 DEF Coded
    <3> QED BY <3>1, <3>2, <1>3, <2>3
  <2>8. \A k \in 1..L : Linked(D, w, k)'
    <3> SUFFICES ASSUME NEW k \in 1..L PROVE Linked(D, w, k)'
      OBVIOUS
    <3>1. Linked(D, w, k)
      BY <2>6 DEF Coded
    <3>2. skipFlags' = (IF CopiedOf(job) THEN {} ELSE skipFlags)
      BY <1>3, <2>2
    <3> QED BY <3>1, <3>2, <2>2, <2>4 DEF Linked
  <2>9. Trail(D, w, L)'
    BY <2>2, <2>6 DEF Coded, Trail
  <2>10. /\ Room \in InverseLengths(D, job')
         /\ Larger(blockLength, n + ExtraBuffer) \in InverseLengths(D, job')
    BY <1>3, <2>2
  <2> HIDE DEF c, L, n, flags
  <2>11. /\ Room \in Nat /\ n <= Room
         /\ Larger(blockLength, n + ExtraBuffer) \in Nat
         /\ n <= Larger(blockLength, n + ExtraBuffer)
    <3>1. blockLength \in Nat /\ ExtraBuffer \in Nat
      BY <1>1, BlockLengths, SizesAssumption
    <3> QED BY <3>1, <1>3, <2>1 DEF Larger
  <2>12. <<>> \in Data(D) /\ Len(<<>>) = 0
    BY <1>1, DataLengths
  <2>13. /\ data \in Slot(D) /\ data.data = c /\ Len(data.data) <= data.length
         /\ data.length = Larger(blockLength, n + ExtraBuffer)
    BY <1>3, <2>1, <2>11 DEF Slice, Slot
  <2>14. /\ first \in Slot(D) /\ Len(first.data) <= first.length /\ first.length = Room
         /\ flags = SKIP_MASK => first.data = c
    <3>1. CASE flags = SKIP_MASK
      <4>1. first = Slice(c, Room)
        BY <3>1, <2>13 DEF Slice
      <4> HIDE DEF first
      <4> QED BY <4>1, <1>3, <2>11 DEF Slice, Slot
    <3>2. CASE flags # SKIP_MASK
      <4>1. first = Slice(<<>>, Room)
        BY <3>2
      <4> HIDE DEF first
      <4> QED BY <4>1, <3>2, <2>11, <2>12 DEF Slice, Slot
    <3> QED BY <3>1, <3>2
  <2>15. NoSlice \in Slot(D) /\ Len(NoSlice.data) <= NoSlice.length /\ NoSlice.length = 0
    BY <2>12 DEF NoSlice, Slice, Slot
  <2> HIDE DEF data, first
  <2>16. /\ slices' \in [Names -> Slot(D)]
         /\ slices'["input"] = data /\ slices'["output"] = first /\ slices'["buffer"] = NoSlice
    BY <2>2, <2>13, <2>14, <2>15, RecordOfArrays
  <2>17. Arrays(D)'
    BY <2>13, <2>14, <2>15, <2>16 DEF Arrays, Names
  <2>18. Turns'
    BY <2>2 DEF Turns, Names
  <2>19. DecoderArrays(D)'
    BY <2>2, <2>10, <2>13, <2>14, <2>15, <2>16 DEF DecoderArrays
  <2>20. Way(w)'
    BY <2>2, <2>3, <2>5, <2>7 DEF Way, L
  <2>21. next' \in 0..L /\ slices'[in'].data = w[next']
    <3>1. slices'[in'].data = c
      BY <2>2, <2>13, <2>16
    <3>2. CASE flags = SKIP_MASK
      <4>1. next' = 0
        BY <2>2, <3>2
      <4>2. 0 \in 0..L
        BY <2>5
      <4> QED BY <3>1, <3>2, <4>1, <4>2, <2>5, <2>7
    <3>3. CASE flags # SKIP_MASK
      <4>1. next' = L
        BY <2>2, <3>3
      <4> QED BY <3>1, <4>1, <2>5 DEF c
    <3> QED BY <3>2, <3>3
  <2>22. skipFlags' = SKIP_MASK => next' = 0 /\ slices'["output"].data = w[0]
    BY <2>2, <2>5, <2>7, <2>14, <2>16
  <2>23. Inverting(D, w)'
    BY <2>2, <2>8, <2>9, <2>19, <2>18, <2>21, <2>22 DEF Inverting, L, SKIP_MASK
  <2> QED BY <1>1, <2>2, <2>17, <2>20, <2>23 DEF Inv
<1> QED BY <1>5, <1>6

(***************************************************************************)
(* Skip and Undo: each takes one step back along the trail, and the arrays *)
(* keep the lengths that the contracts speak of.                           *)
(***************************************************************************)
LEMMA SkipStep ==
  ASSUME NEW D, Contracts(D), Inv(D), Skip
  PROVE  Inv(D)'
<1>1. job \in Jobs /\ Arrays(D) /\ phase = "inverse" /\ StagesKept(D)
  BY DEF Contracts, Inv, Skip
<1>2. PICK w : Way(w) /\ Inverting(D, w)
  BY <1>1 DEF Inv
<1>3. /\ UNCHANGED <<job, phase, bits, at, chain, slices, in, out, skipFlags, swaps>>
      /\ next >= 1 /\ next - 1 \in skipFlags /\ next' = next - 1
  BY DEF Skip, InverseSkip
<1> DEFINE L == Len(chain)
<1>4. L \in 0..8
  <2>1. chain = ChainOf(job)
    BY <1>2 DEF Way
  <2> QED BY <2>1, <1>1, JobFacts
<1>5. next \in 1..L /\ next - 1 \in 0..L
  <2>1. next \in 0..L /\ next >= 1
    BY <1>2, <1>3 DEF Inverting
  <2> HIDE DEF L
  <2> QED BY <2>1, <1>4
<1>6. w[next] = w[next - 1]
  <2>1. Linked(D, w, next)
    BY <1>2, <1>5 DEF Inverting
  <2> QED BY <2>1, <1>3 DEF Linked, Made
<1>7. Way(w)'
  BY <1>2, <1>3 DEF Way
<1>8. Turns' /\ DecoderArrays(D)' /\ Trail(D, w, L)' /\ \A k \in 1..L : Linked(D, w, k)'
  BY <1>2, <1>3 DEF Inverting, Turns, DecoderArrays, Trail, Linked
<1>9. Inverting(D, w)'
  <2>1. at' = Len(bits') /\ next' \in 0..Len(chain') /\ slices'[in'].data = w[next']
    BY <1>2, <1>3, <1>5, <1>6 DEF Inverting
  <2>2. skipFlags' = SKIP_MASK => next' = 0 /\ slices'["output"].data = w[0]
    <3>1. skipFlags = SKIP_MASK => next = 0
      BY <1>2 DEF Inverting
    <3> QED BY <3>1, <1>3
  <2> QED BY <2>1, <2>2, <1>3, <1>8 DEF Inverting, SKIP_MASK
<1>10. Arrays(D)'
  BY <1>1, <1>3 DEF Arrays
<1> QED BY <1>1, <1>3, <1>7, <1>9, <1>10 DEF Inv

UndoRoom == Roomy(slices["output"].length)[Target(slices["output"].length)].length

LEMMA DecoderRoom ==
  ASSUME NEW D, StagesKept(D), Arrays(D), Turns, DecoderArrays(D)
  PROVE  /\ slices["output"].length \in Nat
         /\ UndoRoom \in InverseLengths(D, job)
         /\ slices[in].length \in InverseLengths(D, job)
         /\ Target(slices["output"].length) = "buffer" => UndoRoom = slices["output"].length
<1> DEFINE m == slices["output"].length
           to == Target(m)
<1>1. m \in Nat
  BY DEF Arrays, Names, Slot
<1>2. /\ to \in Names /\ to # in
      /\ Roomy(m)[to].length = Larger(slices[to].length, m)
  BY <1>1, TargetTurn
<1>3. /\ m \in InverseLengths(D, job) /\ slices["input"].length \in InverseLengths(D, job)
      /\ slices["buffer"].length \in {0, m}
      /\ in = "buffer" => slices["buffer"].length = m
  BY DEF DecoderArrays
<1>4. UndoRoom = Larger(slices[to].length, m)
  BY <1>2 DEF UndoRoom
<1>5. to = "buffer" => UndoRoom = m
  BY <1>1, <1>3, <1>4 DEF Larger
<1>6. UndoRoom \in InverseLengths(D, job)
  <2>1. CASE to = "buffer"
    BY <2>1, <1>3, <1>5
  <2>2. CASE to # "buffer"
    BY <2>2, <1>2, <1>3, <1>4 DEF Larger, Names
  <2> QED BY <2>1, <2>2
<1>7. slices[in].length \in InverseLengths(D, job)
  BY <1>3 DEF Turns, Names
<1> QED BY <1>1, <1>5, <1>6, <1>7

LEMMA DecoderTurned ==
  ASSUME NEW D, StagesKept(D), Arrays(D), Turns, DecoderArrays(D), job' = job,
         \A a \in Names : slices'[a].length = Roomy(slices["output"].length)[a].length,
         in' = Target(slices["output"].length)
  PROVE  DecoderArrays(D)'
<1> DEFINE m == slices["output"].length
           to == Target(m)
<1>1. m \in Nat /\ UndoRoom \in InverseLengths(D, job) /\ (to = "buffer" => UndoRoom = m)
  BY DecoderRoom
<1>2. /\ to \in Names
      /\ Roomy(m)["output"] = slices["output"]
      /\ \A a \in Names : a # to => Roomy(m)[a] = slices[a]
      /\ Roomy(m)[to].length = UndoRoom
  BY <1>1, TargetTurn DEF UndoRoom
<1>3. /\ m \in InverseLengths(D, job) /\ slices["input"].length \in InverseLengths(D, job)
      /\ slices["buffer"].length \in {0, m}
  BY DEF DecoderArrays
<1>4. slices'["output"].length = m
  BY <1>2 DEF Names
<1> HIDE DEF m, to
<1>5. slices'["input"].length \in InverseLengths(D, job)
  <2>1. CASE to = "input"
    BY <2>1, <1>1, <1>2 DEF Names, m
  <2>2. CASE to # "input"
    BY <2>2, <1>2, <1>3 DEF Names, m
  <2> QED BY <2>1, <2>2
<1>6. slices'["buffer"].length \in {0, m} /\ (in' = "buffer" => slices'["buffer"].length = m)
  <2>1. CASE to = "buffer"
    BY <2>1, <1>1, <1>2 DEF Names, m
  <2>2. CASE to # "buffer"
    BY <2>2, <1>2, <1>3 DEF Names, m, to
  <2> QED BY <2>1, <2>2
<1> QED BY <1>3, <1>4, <1>5, <1>6 DEF DecoderArrays

LEMMA UndoneData ==
  ASSUME NEW D, Contracts(D), job \in Jobs, Arrays(D), NEW w, Way(w), Inverting(D, w),
         next >= 1, next - 1 \notin skipFlags
  PROVE  /\ next \in 1..Len(chain) /\ next - 1 \in 0..Len(chain)
         /\ Made(D, job, next, w[next - 1], w[next])
         /\ w[next - 1] \in Data(D)
         /\ Len(w[next]) <= slices[in].length
         /\ slices["output"].length \in Nat
         /\ slices[in].length \in InverseLengths(D, job) /\ UndoRoom \in InverseLengths(D, job)
         /\ Undone(job.ctx) = Inverted(job, next, w[next], slices[in].length, UndoRoom)
         /\ Undone(job.ctx).ok => /\ Undone(job.ctx).out = w[next - 1]
                                  /\ Len(w[next - 1]) <= UndoRoom
<1> DEFINE L == Len(chain)
           l == slices[in].length
<1>1. StagesKept(D) /\ InverseKept(D)
  BY DEF Contracts
<1>2. chain = ChainOf(job)
  BY DEF Way
<1>3. L \in 0..8
  BY <1>1, <1>2, JobFacts
<1>4. next \in 1..L /\ next - 1 \in 0..L /\ next \in 0..L
  <2>1. next \in 0..L
    BY DEF Inverting
  <2> HIDE DEF L
  <2> QED BY <2>1, <1>3
<1>5. w[next - 1] \in Data(D)
  <2>1. w[next - 1] \in After(D, job, next - 1)
    BY <1>4 DEF Inverting, Trail
  <2> QED BY <2>1, <1>1, <1>2, <1>4, JobFacts
<1>6. Made(D, job, next, w[next - 1], w[next])
  <2>1. Linked(D, w, next)
    BY <1>4 DEF Inverting
  <2> QED BY <2>1 DEF Linked
<1>7. Turns /\ slices[in].data = w[next] /\ DecoderArrays(D)
  BY DEF Inverting
<1>8. Len(w[next]) <= l
  BY <1>7 DEF Arrays, Turns, Names
<1>9. /\ slices["output"].length \in Nat
      /\ l \in InverseLengths(D, job) /\ UndoRoom \in InverseLengths(D, job)
  BY <1>1, <1>7, DecoderRoom
<1>10. Undone(job.ctx) = Inverted(job, next, w[next], l, UndoRoom)
  BY <1>2, <1>7 DEF Undone, Inverted, UndoRoom
<1>11. Undone(job.ctx).ok => Undone(job.ctx).out = w[next - 1] /\ Len(w[next - 1]) <= UndoRoom
  <2>1. next \in Stages(job)
    BY <1>2, <1>4 DEF Stages
  <2>2. PICK p \in Places : \E t \in job.types :
          /\ w[next - 1] \in D[job][next - 1][p]
          /\ Forwarded(job, next, w[next - 1], p, t).ok
          /\ Forwarded(job, next, w[next - 1], p, t).out = w[next]
    BY <1>6 DEF Made
  <2>3. PICK t \in job.types :
          /\ w[next - 1] \in D[job][next - 1][p]
          /\ Forwarded(job, next, w[next - 1], p, t).ok
          /\ Forwarded(job, next, w[next - 1], p, t).out = w[next]
    BY <2>2
  <2> HIDE DEF L, l
  <2>4. \A made \in {Forwarded(job, next, w[next - 1], p, t)} : made.ok =>
          \A length, room \in InverseLengths(D, job) : Len(made.out) <= length =>
            \A res \in {Inverted(job, next, made.out, length, room)} :
              res.ok => res.out = w[next - 1] /\ Len(w[next - 1]) <= room
    BY <2>1, <2>3, <1>1 DEF InverseKept
  <2>5. \A length, room \in InverseLengths(D, job) : Len(w[next]) <= length =>
          \A res \in {Inverted(job, next, w[next], length, room)} :
            res.ok => res.out = w[next - 1] /\ Len(w[next - 1]) <= room
    BY <2>3, <2>4
  <2>6. \A res \in {Inverted(job, next, w[next], l, UndoRoom)} :
          res.ok => res.out = w[next - 1] /\ Len(w[next - 1]) <= UndoRoom
    BY <2>5, <1>8, <1>9
  <2> QED BY <2>6, <1>10
<1> QED BY <1>4, <1>5, <1>6, <1>8, <1>9, <1>10, <1>11

LEMMA UndoStep ==
  ASSUME NEW D, Contracts(D), Inv(D), Undo
  PROVE  Inv(D)'
<1>1. job \in Jobs /\ Arrays(D) /\ phase = "inverse" /\ StagesKept(D)
  BY DEF Contracts, Inv, Undo
<1>2. PICK w : Way(w) /\ Inverting(D, w)
  BY <1>1 DEF Inv
<1> DEFINE m == slices["output"].length
           res == Undone(job.ctx)
           a == w[next - 1]
<1>3. /\ next >= 1 /\ next - 1 \notin skipFlags /\ at' = at
      /\ IF res.ok THEN InverseStep(res) /\ UNCHANGED <<job, phase, bits, checksum>>
         ELSE Refuse
  BY DEF Undo
<1>4. /\ next \in 1..Len(chain) /\ next - 1 \in 0..Len(chain)
      /\ a \in Data(D) /\ m \in Nat
      /\ res.ok => res.out = a /\ Len(a) <= UndoRoom
  BY <1>1, <1>2, <1>3, UndoneData
<1> HIDE DEF res
<1>5. CASE res.ok
  <2>1. /\ UNCHANGED <<job, phase, bits, chain, skipFlags>> /\ next' = next - 1
        /\ slices' = [Roomy(m) EXCEPT ![Target(m)].data = a]
        /\ in' = Target(m) /\ out' = in /\ swaps' = swaps + 1
    BY <1>3, <1>4, <1>5 DEF InverseStep
  <2>2. Len(a) <= Roomy(m)[Target(m)].length
    BY <1>4, <1>5 DEF UndoRoom
  <2>3. Turns /\ DecoderArrays(D)
    BY <1>2 DEF Inverting
  <2> HIDE DEF a
  <2>4. /\ Arrays(D)' /\ Turns' /\ slices'[in'].data = a
        /\ \A x \in Names : slices'[x].length = Roomy(m)[x].length
    BY <1>1, <1>4, <2>1, <2>2, <2>3, Moved
  <2>5. DecoderArrays(D)'
    BY <1>1, <2>1, <2>3, <2>4, DecoderTurned
  <2>6. Way(w)'
    BY <1>2, <2>1 DEF Way
  <2>7. Trail(D, w, Len(chain))' /\ \A k \in 1..Len(chain) : Linked(D, w, k)'
    BY <1>2, <2>1 DEF Inverting, Linked, Trail
  <2>8. skipFlags # SKIP_MASK
    <3>1. next # 0
      BY <1>4
    <3> QED BY <3>1, <1>2 DEF Inverting
  <2>9. at' = Len(bits') /\ next' \in 0..Len(chain') /\ slices'[in'].data = w[next']
    BY <1>2, <1>3, <1>4, <2>1, <2>4 DEF Inverting, a
  <2>10. Inverting(D, w)'
    BY <2>1, <2>4, <2>7, <2>8, <2>9, <2>5 DEF Inverting, SKIP_MASK
  <2> QED BY <1>1, <2>1, <2>4, <2>6, <2>10 DEF Inv
<1>6. CASE ~res.ok
  <2>1. phase' = "refused" /\ UNCHANGED <<job, slices>>
    BY <1>3, <1>6 DEF Refuse, seqVars
  <2>2. Arrays(D)'
    BY <1>1, <2>1 DEF Arrays
  <2> QED BY <1>1, <2>1, <2>2 DEF Inv
<1> QED BY <1>5, <1>6

(***************************************************************************)
(* Finish and Check: at the end of the trail stands the block.             *)
(***************************************************************************)
LEMMA FinishStep ==
  ASSUME NEW D, Contracts(D), Inv(D), Finish
  PROVE  Inv(D)'
<1>1. job \in Jobs /\ Arrays(D) /\ phase = "inverse" /\ StagesKept(D)
  BY DEF Contracts, Inv, Finish
<1>2. PICK w : Way(w) /\ Inverting(D, w)
  BY <1>1 DEF Inv
<1> DEFINE a == job.block
<1>3. /\ next = 0 /\ at' = at
      /\ IF swaps % 2 = 0 /\ skipFlags # SKIP_MASK /\ ~Fits THEN Refuse
         ELSE InverseEnd /\ phase' = "check" /\ UNCHANGED <<job, bits, checksum>>
  BY DEF Finish
<1>4. /\ Turns /\ at = Len(bits) /\ slices[in].data = a
      /\ skipFlags = SKIP_MASK => slices["output"].data = a
  BY <1>2, <1>3 DEF Inverting, Way
<1>5. a \in Data(D) /\ Len(a) \in Nat
  BY <1>1, JobFacts
<1>6. slices["output"] \in Slot(D) /\ "output" \in Names
  BY <1>1 DEF Arrays, Names
<1> HIDE DEF a
<1>7. CASE swaps % 2 = 0 /\ skipFlags # SKIP_MASK /\ ~Fits
  <2>1. phase' = "refused" /\ UNCHANGED <<job, slices>>
    BY <1>3, <1>7 DEF Refuse, seqVars
  <2>2. Arrays(D)'
    BY <1>1, <2>1 DEF Arrays
  <2> QED BY <1>1, <2>1, <2>2 DEF Inv
<1>8. CASE ~(swaps % 2 = 0 /\ skipFlags # SKIP_MASK /\ ~Fits)
  <2>1. InverseEnd /\ phase' = "check" /\ UNCHANGED <<job, bits>>
    BY <1>3, <1>8
  <2>2. Arrays(D)' /\ slices'["output"].data = a
    <3>1. CASE swaps % 2 = 1 \/ skipFlags = SKIP_MASK
      <4>1. slices' = slices
        BY <2>1, <3>1 DEF InverseEnd
      <4>2. swaps % 2 = 1 => in = "output"
        BY <1>4 DEF Turns
      <4>3. Arrays(D)'
        BY <1>1, <4>1 DEF Arrays
      <4> QED BY <4>1, <4>2, <4>3, <3>1, <1>4
    <3>2. CASE ~(swaps % 2 = 1 \/ skipFlags = SKIP_MASK)
      <4> DEFINE o == [slices["output"] EXCEPT !.data = a]
      <4>1. Fits /\ slices' = [slices EXCEPT !["output"].data = a]
        BY <2>1, <3>2, <1>4 DEF InverseEnd
      <4>2. Len(a) <= slices["output"].length
        BY <4>1, <1>4 DEF Fits
      <4>3. o \in Slot(D) /\ o.data = a /\ o.length = slices["output"].length
        BY <1>5, <1>6 DEF Slot
      <4>4. /\ slices' \in [Names -> Slot(D)] /\ slices'["output"] = o
            /\ \A x \in Names : x # "output" => slices'[x] = slices[x]
        BY <4>1, <4>3, <1>1, <1>6 DEF Arrays
      <4> HIDE DEF o
      <4>5. \A x \in Names : Len(slices'[x].data) <= slices'[x].length
        <5> SUFFICES ASSUME NEW x \in Names PROVE Len(slices'[x].data) <= slices'[x].length
          OBVIOUS
        <5>1. CASE x = "output"
          BY <5>1, <4>2, <4>3, <4>4
        <5>2. CASE x # "output"
          BY <5>2, <4>4, <1>1 DEF Arrays
        <5> QED BY <5>1, <5>2
      <4>6. Arrays(D)'
        BY <4>4, <4>5 DEF Arrays
      <4> QED BY <4>3, <4>4, <4>6
    <3> QED BY <3>1, <3>2
  <2>3. Restored'
    BY <1>3, <1>4, <2>1, <2>2 DEF Restored, a
  <2> QED BY <1>1, <2>1, <2>2, <2>3 DEF Inv
<1> QED BY <1>7, <1>8

LEMMA CheckStep ==
  ASSUME NEW D, Inv(D), Check
  PROVE  Inv(D)'
<1>1. UNCHANGED <<job, bits, at, slices>> /\ phase = "check" /\ phase' \in {"refused", "done"}
  BY DEF Check, seqVars
<1>2. Arrays(D)' /\ Restored'
  BY <1>1 DEF Inv, Arrays, Restored
<1> QED BY <1>1, <1>2 DEF Inv

(***************************************************************************)
(* The invariant holds in the beginning and is kept by every step.         *)
(***************************************************************************)
LEMMA InitInv ==
  ASSUME NEW D, Contracts(D), Init
  PROVE  Inv(D)
<1>1. <<>> \in Data(D) /\ Len(<<>>) = 0
  BY DataLengths DEF Contracts
<1>2. NoSlice \in Slot(D) /\ Len(NoSlice.data) <= NoSlice.length
  BY <1>1 DEF NoSlice, Slice, Slot
<1>3. /\ slices \in [Names -> Slot(D)]
      /\ slices["input"] = NoSlice /\ slices["output"] = NoSlice /\ slices["buffer"] = NoSlice
  BY <1>2, RecordOfArrays DEF Init
<1>4. Arrays(D)
  BY <1>2, <1>3 DEF Arrays, Names
<1> QED BY <1>4 DEF Init, Inv

LEMMA StutterInv ==
  ASSUME NEW D, Inv(D), UNCHANGED vars
  PROVE  Inv(D)'
<1>1. UNCHANGED <<job, phase, bits, checksum, at, chain, slices, in, out, next, skipFlags, swaps>>
  BY DEF vars, seqVars
<1>2. Arrays(D)' /\ (Restored => Restored')
  BY <1>1 DEF Inv, Arrays, Restored
<1>3. ASSUME NEW w PROVE Way(w) => Way(w)'
  BY <1>1 DEF Way
<1>4. ASSUME NEW w
      PROVE  /\ Forwarding(D, w) => Forwarding(D, w)'
             /\ Emitting(D, w) => Emitting(D, w)'
             /\ Reading(D, w) => Reading(D, w)'
             /\ Inverting(D, w) => Inverting(D, w)'
  <2>1. Turns => Turns'
    BY <1>1 DEF Turns
  <2>2. \A k : Linked(D, w, k) <=> Linked(D, w, k)'
    BY <1>1 DEF Linked
  <2>3. /\ EncoderArrays => EncoderArrays'
        /\ DecoderArrays(D) => DecoderArrays(D)'
        /\ \A n : Trail(D, w, n) => Trail(D, w, n)'
    BY <1>1 DEF EncoderArrays, DecoderArrays, Trail
  <2>4. Coded(D, w) => Coded(D, w)'
    BY <1>1, <2>2, <2>3 DEF Coded
  <2>5. Forwarding(D, w) => Forwarding(D, w)'
    BY <1>1, <2>1, <2>2, <2>3 DEF Forwarding
  <2>6. Emitting(D, w) => Emitting(D, w)'
    BY <1>1, <2>4 DEF Emitting
  <2>7. Reading(D, w) => Reading(D, w)'
    <3>1. Copied' = Copied /\ (EntropyOf(Copied))' = EntropyOf(Copied)
      BY <1>1 DEF Copied, EntropyOf
    <3> QED BY <1>1, <2>4, <3>1 DEF Reading, Header, FlagBits
  <2>8. Inverting(D, w) => Inverting(D, w)'
    BY <1>1, <2>1, <2>2, <2>3 DEF Inverting
  <2> QED BY <2>5, <2>6, <2>7, <2>8
<1> QED BY <1>1, <1>2, <1>3, <1>4 DEF Inv

LEMMA NextInv ==
  ASSUME NEW D, Contracts(D), Inv(D), [Next]_vars
  PROVE  Inv(D)'
<1>1. CASE Start
  BY <1>1, StartStep
<1>2. CASE Transform
  BY <1>2, TransformStep
<1>3. CASE Transformed
  BY <1>3, TransformedStep
<1>4. CASE Emit
  BY <1>4, EmitStep
<1>5. CASE Read
  BY <1>5, ReadStep
<1>6. CASE Skip
  BY <1>6, SkipStep
<1>7. CASE Undo
  BY <1>7, UndoStep
<1>8. CASE Finish
  BY <1>8, FinishStep
<1>9. CASE Check
  BY <1>9, CheckStep
<1>10. CASE UNCHANGED vars
  BY <1>10, StutterInv
<1> QED BY <1>1, <1>2, <1>3, <1>4, <1>5, <1>6, <1>7, <1>8, <1>9, <1>10 DEF Next

(***************************************************************************)
(* Whatever the transforms and entropy coders do within their contracts,   *)
(* the trail leads from the block to the bits and back (EncodingTask::run  *)
(* and DecodingTask::run with TransformSequence in between).               *)
(***************************************************************************)
THEOREM BlockInvariant ==
  ASSUME NEW CONSTANT D, Contracts(D)
  PROVE  Spec => []Inv(D)
<1>1. Init => Inv(D)
  BY InitInv
<1>2. Inv(D) /\ [Next]_vars => Inv(D)'
  BY NextInv
<1> QED BY <1>1, <1>2, PTL DEF Spec

(***************************************************************************)
(* Nothing is refused: with AcceptanceKept the decoding task finds each    *)
(* block to be of a length it has room for, and every decoder succeeds.    *)
(***************************************************************************)
Accepting ==
  /\ phase # "refused"
  /\ phase # "start" /\ job.hashed => checksum = job.block

LEMMA ReadAccepted ==
  ASSUME NEW D, Contracts(D), AcceptanceKept(D), Inv(D), Accepting, Read
  PROVE  Accepting'
<1>1. StagesKept(D) /\ job \in Jobs /\ phase = "read"
  BY DEF Contracts, Inv, Read
<1>2. PICK w : Way(w) /\ Reading(D, w)
  BY <1>1 DEF Inv
<1> DEFINE c == w[Len(chain)]
           n == Parsed.length
           data == Slice(Decoded.out, Larger(blockLength, n + ExtraBuffer))
           empty == Slice(<<>>, Room)
<1>3. /\ n = Len(c) /\ c \in Results(D, job)
      /\ Chain(IF Parsed.copy THEN <<>> ELSE job.names) = chain
      /\ Len(bits) \in Nat /\ Room \in Nat /\ blockLength <= Room
      /\ \E head \in Headers(job, c) : Decoded = Decoding(job, head, c)
      /\ Decoded.ok => Decoded.at = Len(bits)
  BY <1>1, <1>2, ReadBack
<1> HIDE DEF c
<1>4. Decoded.ok
  BY <1>1, <1>3 DEF AcceptanceKept
<1>5. n \in 1..blockLength /\ blockLength \in Nat
  <2>1. BlockLengthOf(job) = blockLength /\ blockLength \in Nat
    BY <1>1, BlockLengths
  <2> QED BY <2>1, <1>1, <1>3 DEF AcceptanceKept
<1> HIDE DEF n
<1>6. maxTransformSize \in Nat /\ blockLength <= maxTransformSize
  <2> DEFINE l == blockLength
  <2>1. TransformFloor \in Nat /\ l \in Nat
    BY <1>5, SizesAssumption
  <2>2. maxTransformSize = Larger(l + l \div 2, TransformFloor)
    BY DEF maxTransformSize
  <2> HIDE DEF l
  <2>3. maxTransformSize \in Nat /\ l <= maxTransformSize
    BY <2>1, <2>2 DEF Larger
  <2> QED BY <2>3 DEF l
<1>7. ~Unreadable(Parsed, Decoded)
  <2>1. n \in 1..maxTransformSize /\ ~(n > Room)
    BY <1>3, <1>5, <1>6
  <2>2. ~(Decoded.at > Len(bits))
    BY <1>3, <1>4
  <2> QED BY <2>1, <2>2, <1>4 DEF Unreadable, n
<1>8. IF Unreadable(Parsed, Decoded) THEN Refuse
      ELSE /\ phase' = "inverse"
           /\ InverseBegin(data, empty, chain, Parsed.flags)
           /\ UNCHANGED <<job, bits, checksum>>
  BY <1>3 DEF Read, Decoded, n
<1>9. phase' = "inverse" /\ UNCHANGED <<job, checksum>>
  BY <1>7, <1>8
<1> QED BY <1>1, <1>9 DEF Accepting

LEMMA UndoAccepted ==
  ASSUME NEW D, Contracts(D), AcceptanceKept(D), Inv(D), Accepting, Undo
  PROVE  Accepting'
<1>1. job \in Jobs /\ Arrays(D) /\ phase = "inverse"
  BY DEF Inv, Undo
<1>2. PICK w : Way(w) /\ Inverting(D, w)
  BY <1>1 DEF Inv
<1> DEFINE res == Undone(job.ctx)
           a == w[next - 1]
           b == w[next]
           l == slices[in].length
<1>3. /\ next >= 1 /\ next - 1 \notin skipFlags
      /\ IF res.ok THEN InverseStep(res) /\ UNCHANGED <<job, phase, bits, checksum>>
         ELSE Refuse
  BY DEF Undo
<1>4. /\ next \in 1..Len(chain) /\ Made(D, job, next, a, b)
      /\ Len(b) <= l
      /\ l \in InverseLengths(D, job) /\ UndoRoom \in InverseLengths(D, job)
      /\ res = Inverted(job, next, b, l, UndoRoom)
  BY <1>1, <1>2, <1>3, UndoneData
<1>5. next \in Stages(job)
  BY <1>2, <1>4 DEF Way, Stages
<1> HIDE DEF a, b, l, res
<1>6. PICK p \in Places : \E t \in job.types :
        /\ a \in D[job][next - 1][p]
        /\ Forwarded(job, next, a, p, t).ok
        /\ Forwarded(job, next, a, p, t).out = b
  BY <1>4 DEF Made
<1>7. PICK t \in job.types :
        /\ a \in D[job][next - 1][p]
        /\ Forwarded(job, next, a, p, t).ok
        /\ Forwarded(job, next, a, p, t).out = b
  BY <1>6
<1>8. \A made \in {Forwarded(job, next, a, p, t)} : made.ok =>
        \A length, room \in InverseLengths(D, job) :
          Len(made.out) <= length => Inverted(job, next, made.out, length, room).ok
  BY <1>1, <1>5, <1>7 DEF AcceptanceKept
<1>9. \A length, room \in InverseLengths(D, job) :
        Len(b) <= length => Inverted(job, next, b, length, room).ok
  BY <1>7, <1>8
<1>10. res.ok
  BY <1>4, <1>9
<1>11. UNCHANGED <<job, phase, checksum>>
  BY <1>3, <1>10
<1> QED BY <1>1, <1>11 DEF Accepting

LEMMA FinishAccepted ==
  ASSUME NEW D, Contracts(D), Inv(D), Accepting, Finish
  PROVE  Accepting'
<1>1. job \in Jobs /\ Arrays(D) /\ phase = "inverse" /\ StagesKept(D)
  BY DEF Contracts, Inv, Finish
<1>2. PICK w : Way(w) /\ Inverting(D, w)
  BY <1>1 DEF Inv
<1>3. slices[in].data = job.block
  BY <1>2 DEF Inverting, Way, Finish
<1>4. Fits
  <2> DEFINE l == Len(job.block)
             m == slices["output"].length
  <2>1. m \in Nat /\ m \in InverseLengths(D, job)
    BY <1>1, <1>2 DEF Arrays, Slot, Names, Inverting, DecoderArrays
  <2>2. l \in Nat /\ blockLength \in Nat /\ l <= blockLength /\ blockLength <= m
    BY <1>1, <2>1, BlockLengths
  <2> HIDE DEF l, m
  <2>3. l <= m
    BY <2>1, <2>2
  <2> QED BY <2>3, <1>3 DEF Fits, l, m
<1>5. phase' = "check" /\ UNCHANGED <<job, checksum>>
  BY <1>4 DEF Finish
<1> QED BY <1>1, <1>5 DEF Accepting

LEMMA NextAccepted ==
  ASSUME NEW D, Contracts(D), AcceptanceKept(D), Inv(D), Accepting, [Next]_vars
  PROVE  Accepting'
<1>1. CASE Start
  <2>1. phase' = "forward" /\ job' = job /\ checksum' = IF job.hashed THEN job.block ELSE <<>>
    BY <1>1 DEF Start
  <2> QED BY <2>1 DEF Accepting
<1>2. CASE Transform \/ Transformed \/ Emit
  <2>1. /\ UNCHANGED <<job, checksum>>
        /\ phase \in {"forward", "emit"} /\ phase' \in {"forward", "emit", "read"}
    BY <1>2 DEF Transform, Transformed, Emit
  <2> QED BY <2>1 DEF Accepting
<1>3. CASE Read
  BY <1>3, ReadAccepted
<1>4. CASE Skip
  BY <1>4 DEF Skip, Accepting
<1>5. CASE Undo
  BY <1>5, UndoAccepted
<1>6. CASE Finish
  BY <1>6, FinishAccepted
<1>7. CASE Check
  <2>1. UNCHANGED <<job, checksum>> /\ phase = "check"
    BY <1>7 DEF Check
  <2>2. slices["output"].data = job.block
    BY <2>1 DEF Inv, Restored
  <2>3. job.hashed => checksum = job.block
    BY <2>1 DEF Accepting
  <2>4. phase' = "done"
    BY <1>7, <2>2, <2>3 DEF Check
  <2> QED BY <2>1, <2>3, <2>4 DEF Accepting
<1>8. CASE UNCHANGED vars
  BY <1>8 DEF Accepting, vars
<1> QED BY <1>1, <1>2, <1>3, <1>4, <1>5, <1>6, <1>7, <1>8 DEF Next

(***************************************************************************)
(* A block that was coded and decoded comes back byte for byte, for every  *)
(* block, every chain of up to eight transforms, every choice of those     *)
(* that gave up, and every number of bytes that its length takes           *)
(* (EncodingTask::run and DecodingTask::run).                              *)
(***************************************************************************)
THEOREM LosslessHolds ==
  ASSUME NEW D, Contracts(D)
  PROVE  Spec => []LosslessBlock
<1>1. Inv(D) => LosslessBlock
  BY DEF Inv, Restored, LosslessBlock
<1> QED BY <1>1, BlockInvariant, PTL

(***************************************************************************)
(* The decoding task stops reading exactly where the encoding task stopped *)
(* writing, so the next block of the bitstream is read from where it       *)
(* begins (DecodingTask::run).                                             *)
(***************************************************************************)
THEOREM ReadsAllHolds ==
  ASSUME NEW D, Contracts(D)
  PROVE  Spec => []ReadsAllWritten
<1>1. Inv(D) => ReadsAllWritten
  BY DEF Inv, Restored, Inverting, ReadsAllWritten
<1> QED BY <1>1, BlockInvariant, PTL

(***************************************************************************)
(* However the three arrays take turns, and whichever transforms are       *)
(* skipped, no array holds more than its length                            *)
(* (TransformSequence::forward and inverse).                               *)
(***************************************************************************)
THEOREM WithinArraysHolds ==
  ASSUME NEW D, Contracts(D)
  PROVE  Spec => []WithinArrays
<1>1. Inv(D) => WithinArrays
  BY DEF Inv, Arrays, WithinArrays
<1> QED BY <1>1, BlockInvariant, PTL

(***************************************************************************)
(* When the transforms' own tasks agree on what forward made, they agree   *)
(* on whatever the decoding task hands them, since that is what forward    *)
(* made (TransformSequence::inverse, BWT::inverse).                        *)
(***************************************************************************)
THEOREM ChunksAgreeHolds ==
  ASSUME NEW D, Contracts(D), TasksKept(D)
  PROVE  Spec => []ChunksAgree
<1>1. ASSUME Inv(D) PROVE ChunksAgree
  <2> SUFFICES ASSUME phase = "inverse", next >= 1, next - 1 \notin skipFlags
               PROVE  InverseTasksAgree(chain[next], slices[in].data, job.ctx)
    BY DEF ChunksAgree
  <2>1. job \in Jobs /\ Arrays(D)
    BY <1>1 DEF Inv
  <2>2. PICK w : Way(w) /\ Inverting(D, w)
    BY <1>1 DEF Inv
  <2>3. next \in 1..Len(chain) /\ Made(D, job, next, w[next - 1], w[next])
    BY <2>1, <2>2, UndoneData
  <2>4. chain = ChainOf(job) /\ slices[in].data = w[next] /\ next \in Stages(job)
    BY <2>2, <2>3 DEF Way, Inverting, Stages
  <2>5. PICK p \in Places : \E t \in job.types :
          /\ w[next - 1] \in D[job][next - 1][p]
          /\ Forwarded(job, next, w[next - 1], p, t).ok
          /\ Forwarded(job, next, w[next - 1], p, t).out = w[next]
    BY <2>3 DEF Made
  <2>6. InverseTasksAgree(ChainOf(job)[next], w[next], job.ctx)
    BY <2>1, <2>4, <2>5 DEF TasksKept
  <2> QED BY <2>4, <2>6
<1> QED BY <1>1, BlockInvariant, PTL

(***************************************************************************)
(* When moreover no result is longer than what the decoding task sets      *)
(* aside and the decoders succeed on what their encoders wrote, the        *)
(* decoding task refuses nothing (the checks of DecodingTask::run).        *)
(***************************************************************************)
THEOREM NothingRefusedHolds ==
  ASSUME NEW D, Contracts(D), AcceptanceKept(D)
  PROVE  Spec => []NothingRefused
<1>1. Init => Inv(D) /\ Accepting
  BY InitInv DEF Init, Accepting
<1>2. Inv(D) /\ Accepting /\ [Next]_vars => Inv(D)' /\ Accepting'
  BY NextInv, NextAccepted
<1>3. Accepting => NothingRefused
  BY DEF Accepting, NothingRefused
<1> QED BY <1>1, <1>2, <1>3, PTL DEF Spec

(***************************************************************************)
(* The contracts are kept where blocks are copied: this shows that they    *)
(* can be, and what they come to for the small blocks and for those that   *)
(* look compressed.                                                        *)
(***************************************************************************)
LEMMA HeaderType ==
  ASSUME NEW copy \in BOOLEAN, NEW tokens, Len(tokens) \in Nat, NEW flags \in SUBSET (0..7),
         NEW n \in Nat, Halves(n)[4 * ByteBits] = 0
  PROVE  Header(copy, tokens, flags, n) \in Seq(Nat)
<1> USE SizesAssumption
<1> DEFINE ds == DataSize(n)
           A == <<IF copy THEN 1 ELSE 0>>
           B == Bits(ds - 1, 2)
           M == FlagField(copy, tokens, flags)
           N == Bits(n, ByteBits * ds)
<1>1. ds \in 1..4
  BY DataSizeEnough
<1> HIDE DEF ds
<1>2. ds - 1 \in Nat /\ ByteBits * ds \in Nat
  BY <1>1
<1>3. A \in Seq(Nat)
  OBVIOUS
<1>4. B \in Seq(Nat) /\ N \in Seq(Nat)
  BY <1>2, BitsType
<1>5. M \in Seq(Nat)
  BY FlagFieldShape
<1>6. Header(copy, tokens, flags, n) = ((A \o B) \o M) \o N
  BY DEF Header, FlagField, ds
<1> HIDE DEF A, B, M, N
<1>7. A \o B \in Seq(Nat)
  BY <1>3, <1>4, NumbersConcatenated
<1>8. (A \o B) \o M \in Seq(Nat)
  BY <1>5, <1>7, NumbersConcatenated
<1>9. ((A \o B) \o M) \o N \in Seq(Nat)
  BY <1>4, <1>8, NumbersConcatenated
<1> QED BY <1>6, <1>9

LEMMA PartAtEnd ==
  ASSUME NEW r \in Seq(Nat), NEW s, IsSequence(s)
  PROVE  Part(r \o s, Len(r), Len(s)) = s /\ Len(r \o s) = Len(r) + Len(s)
<1> DEFINE S == {s[i] : i \in 1..Len(s)}
           T == Nat \cup S
<1>1. s \in Seq(S)
  BY SequenceOf
<1>2. Nat \subseteq T /\ S \subseteq T
  OBVIOUS
<1> HIDE DEF S, T
<1>3. s \in Seq(T)
  BY <1>1, <1>2, Widened
<1>4. r \in Seq(T)
  BY <1>2, Widened
<1>5. <<>> \in Seq(T) /\ (r \o s) \o <<>> = r \o s /\ Len(r \o s) = Len(r) + Len(s)
  BY <1>3, <1>4
<1>6. Part((r \o s) \o <<>>, Len(r), Len(s)) = s
  BY <1>3, <1>4, <1>5, PartBetween
<1> QED BY <1>5, <1>6

(***************************************************************************)
(* NullTransform, NullEntropyEncoder and NullEntropyDecoder.               *)
(***************************************************************************)
Copying ==
  /\ Chain(<<>>) = <<"NONE">>
  /\ \A a, room, ctx : TokenForward("NONE", a, room, ctx) = IF Len(a) > room THEN Fail ELSE Done(a)
  /\ \A a, slack, room, ctx :
       TokenInverse("NONE", a, slack, room, ctx) = IF Len(a) > room THEN Fail ELSE Done(a)
  /\ \A n : MostEncoded("NONE", n) = n
  /\ \A a, ctx : InverseTasksAgree("NONE", a, ctx)
  /\ \A a, heap : EntropyEncode("NONE", a, heap) = a
  /\ \A s, i, n : EntropyDecode("NONE", s, i, n) = [ok |-> TRUE, out |-> Part(s, i, n), at |-> i + n]

(***************************************************************************)
(* Every block is copied; its length is an int of four bytes.              *)
(***************************************************************************)
AllCopied ==
  \A j \in Jobs :
    /\ CopiedOf(j)
    /\ IsSequence(j.block) /\ Len(j.block) # 0 /\ Halves(Len(j.block))[4 * ByteBits] = 0
    /\ j.skip \in BOOLEAN /\ j.spare \in Nat

Unchanged == [j \in Jobs |-> [k \in 0..1 |-> [p \in Places |-> {j.block}]]]

(***************************************************************************)
(* One set is enough for every stage: that of the block itself.            *)
(***************************************************************************)
LEMMA CopiedJob ==
  ASSUME Copying, AllCopied, NEW j \in Jobs
  PROVE  /\ j.block \in Seq({j.block[i] : i \in 1..Len(j.block)})
         /\ Len(j.block) \in Nat
         /\ ChainOf(j) = <<"NONE">> /\ Len(ChainOf(j)) = 1 /\ Stages(j) = 1..1
         /\ CoderOf(j) = "NONE" /\ CodeOf(j, j.block) = j.block
         /\ \A k \in 0..1, p \in Places : Unchanged[j][k][p] = {j.block}
         /\ Results(Unchanged, j) = {j.block}
         /\ NeededOf(j) \in Nat /\ Len(j.block) <= NeededOf(j)
         /\ \A p \in Places : Len(j.block) <= TurnLength(j, p)
         /\ BlockLengthOf(j) \in Nat /\ Len(j.block) <= BlockLengthOf(j)
         /\ \A m \in InverseLengths(Unchanged, j) : Len(j.block) <= m /\ ~(Len(j.block) > m)
         /\ \A head \in Headers(j, j.block) : head \in Seq(Nat)
<1> DEFINE l == Len(j.block)
           B == BlockLengthOf(j)
<1>1. /\ CopiedOf(j) /\ IsSequence(j.block) /\ l \in Nat /\ Halves(l)[4 * ByteBits] = 0
      /\ j.spare \in Nat
  BY DEF AllCopied, IsSequence
<1>2. ChainOf(j) = <<"NONE">> /\ CoderOf(j) = "NONE"
  BY <1>1 DEF Copying, ChainOf, CoderOf
<1>3. Len(<<"NONE">>) = 1 /\ <<"NONE">>[1] = "NONE"
  OBVIOUS
<1>4. Len(ChainOf(j)) = 1 /\ Stages(j) = 1..1 /\ CodeOf(j, j.block) = j.block
  BY <1>2, <1>3 DEF Stages, CodeOf, Copying
<1>5. \A k \in 0..1, p \in Places : Unchanged[j][k][p] = {j.block}
  BY DEF Unchanged
<1>6. Results(Unchanged, j) = {j.block}
  <2>1. 1 \in 0..1 /\ "output" \in Places
    BY DEF Places
  <2> QED BY <2>1, <1>4, <1>5 DEF Results, After
<1>7. NeededOf(j) \in Nat /\ l <= NeededOf(j)
  <2> DEFINE tokens == <<"NONE">>
             s == Sizes(tokens, l)
  <2>1. \A k \in 1..Len(tokens), m \in Nat : MostEncoded(tokens[k], m) \in Nat
    <3> SUFFICES ASSUME NEW k \in 1..Len(tokens), NEW m \in Nat PROVE MostEncoded(tokens[k], m) \in Nat
      OBVIOUS
    <3>1. tokens[k] = "NONE"
      BY <1>3
    <3> QED BY <3>1 DEF Copying
  <2>2. Len(tokens) = 1
    BY <1>3
  <2>3. NeededOf(j) = s[1]
    BY <1>2, <2>2 DEF NeededOf, getMaxEncodedLength
  <2>4. Len(tokens) \in Nat /\ l \in Nat
    BY <1>1, <2>2
  <2> HIDE DEF tokens, l
  <2>5. /\ Sizes(tokens, l) \in [0..Len(tokens) -> Nat] /\ Sizes(tokens, l)[0] = l
        /\ \A k \in 1..Len(tokens) : Sizes(tokens, l)[k - 1] <= Sizes(tokens, l)[k]
    BY <2>1, <2>4, SizesStep
  <2> HIDE DEF s
  <2>6. /\ s \in [0..1 -> Nat] /\ s[0] = l
        /\ \A k \in 1..1 : s[k - 1] <= s[k]
    BY <2>5, <2>2 DEF s
  <2>7. s[1] \in Nat /\ l <= s[1]
    <3>1. \A k \in 1..1 : k - 1 = 0
      OBVIOUS
    <3>2. s[0] <= s[1]
      BY <2>6, <3>1
    <3> QED BY <2>6, <3>2
  <2> QED BY <2>7, <2>3
<1>8. ASSUME NEW p \in Places PROVE l <= TurnLength(j, p)
  <2> DEFINE i == InputLength(j)
             n == NeededOf(j)
  <2>1. i = Larger(l + l \div 8, BufferFloor)
    BY DEF InputLength
  <2> HIDE DEF l, n, i
  <2>2. i \in Nat
    <3>1. l \div 8 \in Nat /\ BufferFloor \in Nat
      BY <1>1, SizesAssumption
    <3> QED BY <3>1, <2>1, <1>1 DEF Larger
  <2>3. n \in Nat /\ l <= n
    BY <1>7 DEF n
  <2>4. l <= Larger(j.spare, n) /\ l <= Larger(i, n)
    BY <2>2, <2>3, <1>1 DEF Larger
  <2> QED BY <2>4 DEF TurnLength, OutputLength, OtherLength, n, i
<1>9. B \in Nat /\ l <= B
  <2>1. B = Larger(l + ExtraBuffer, l + l \div 16)
    BY DEF BlockLengthOf
  <2> HIDE DEF l, B
  <2>2. l \div 16 \in Nat /\ ExtraBuffer \in Nat
    BY <1>1, SizesAssumption
  <2> QED BY <1>1, <2>1, <2>2 DEF Larger
<1>10. ASSUME NEW head \in Headers(j, j.block) PROVE head \in Seq(Nat)
  <2>1. PICK flags \in SUBSET (0..7) : head = Header(CopiedOf(j), ChainOf(j), flags, l)
    BY DEF Headers, SKIP_MASK
  <2>2. CopiedOf(j) \in BOOLEAN /\ Len(ChainOf(j)) \in Nat
    BY <1>1, <1>4
  <2>3. l \in Nat /\ Halves(l)[4 * ByteBits] = 0
    BY <1>1
  <2> HIDE DEF l
  <2>4. Header(CopiedOf(j), ChainOf(j), flags, l) \in Seq(Nat)
    BY <2>2, <2>3, HeaderType
  <2> QED BY <2>1, <2>4
<1>11. ASSUME NEW m \in InverseLengths(Unchanged, j) PROVE l <= m /\ ~(l > m)
  <2>1. m \in LengthsOf(j, j.block)
    BY <1>6 DEF InverseLengths
  <2>2. (\E n \in Nat : m = Larger(B, n)) \/ m = B
    <3>1. CASE m = Larger(B, l + ExtraBuffer)
      <4>1. l + ExtraBuffer \in Nat
        BY <1>1, SizesAssumption
      <4> QED BY <3>1, <4>1
    <3>2. CASE \E head \in Headers(j, j.block) : m = RoomOf(j, head, j.block)
      <4>1. PICK head \in Headers(j, j.block) : m = RoomOf(j, head, j.block)
        BY <3>2
      <4>2. Len(head \o j.block) \in Nat
        <5>1. head \in Seq(Nat) /\ Len(head) \in Nat
          BY <1>10
        <5>2. Len(head \o j.block) = Len(head) + l
          BY <5>1, <1>1, PartAtEnd
        <5> QED BY <5>1, <5>2, <1>1
      <4>3. Len(head \o j.block) \div ByteBits \in Nat
        BY <4>2, Division, SizesAssumption
      <4> QED BY <4>1, <4>3, <1>4 DEF RoomOf
    <3> QED BY <2>1, <3>1, <3>2 DEF LengthsOf
  <2> HIDE DEF B, l
  <2> QED BY <1>1, <1>9, <2>2 DEF Larger
<1>12. j.block \in Seq({j.block[i] : i \in 1..Len(j.block)})
  BY <1>1, SequenceOf
<1> QED BY <1>1, <1>2, <1>4, <1>5, <1>6, <1>7, <1>8, <1>9, <1>10, <1>11, <1>12

LEMMA CopiedForward ==
  ASSUME Copying, AllCopied, NEW j \in Jobs, NEW k \in 1..1, NEW p \in Places, NEW t
  PROVE  Forwarded(j, k, j.block, p, t) = Done(j.block)
<1>1. ChainOf(j)[k] = "NONE"
  <2>1. k = 1 /\ <<"NONE">>[1] = "NONE"
    OBVIOUS
  <2> QED BY <2>1, CopiedJob
<1>2. Opposite(p) \in Places
  BY DEF Opposite, Places
<1> DEFINE l == Len(j.block)
           m == TurnLength(j, Opposite(p))
<1>3. l \in Nat /\ l <= m
  BY <1>2, CopiedJob
<1>4. Forwarded(j, k, j.block, p, t) = IF l > m THEN Fail ELSE Done(j.block)
  BY <1>1 DEF Forwarded, Copying
<1>5. m \in Nat
  <2>1. j.spare \in Nat /\ NeededOf(j) \in Nat
    BY CopiedJob DEF AllCopied
  <2> DEFINE i == InputLength(j)
             n == NeededOf(j)
  <2>2. i = Larger(l + l \div 8, BufferFloor) /\ n \in Nat
    BY <2>1 DEF InputLength
  <2> HIDE DEF l, i, n
  <2>3. l \div 8 \in Nat /\ BufferFloor \in Nat
    BY <1>3, SizesAssumption
  <2>4. i \in Nat
    BY <2>2, <2>3, <1>3 DEF Larger
  <2> QED BY <2>1, <2>2, <2>4 DEF TurnLength, OutputLength, OtherLength, Larger, i, n
<1> HIDE DEF l, m
<1>6. ~(l > m)
  BY <1>3, <1>5
<1> QED BY <1>4, <1>6

LEMMA CopiedBack ==
  ASSUME Copying, AllCopied, NEW j \in Jobs
  PROVE  /\ \A k \in 1..1, length \in InverseLengths(Unchanged, j), room \in InverseLengths(Unchanged, j) :
              Inverted(j, k, j.block, length, room) = Done(j.block)
         /\ \A head \in Headers(j, j.block) :
              Decoding(j, head, j.block) =
                [ok |-> TRUE, out |-> j.block, at |-> Len(head \o CodeOf(j, j.block))]
<1>1. ASSUME NEW k \in 1..1, NEW length \in InverseLengths(Unchanged, j),
             NEW room \in InverseLengths(Unchanged, j)
      PROVE  Inverted(j, k, j.block, length, room) = Done(j.block)
  <2>1. ChainOf(j)[k] = "NONE"
    <3>1. k = 1 /\ <<"NONE">>[1] = "NONE"
      OBVIOUS
    <3> QED BY <3>1, CopiedJob
  <2>2. ~(Len(j.block) > room)
    BY CopiedJob
  <2>3. Inverted(j, k, j.block, length, room) = IF Len(j.block) > room THEN Fail ELSE Done(j.block)
    BY <2>1 DEF Inverted, Copying
  <2> QED BY <2>2, <2>3
<1>2. ASSUME NEW head \in Headers(j, j.block)
      PROVE  Decoding(j, head, j.block) =
               [ok |-> TRUE, out |-> j.block, at |-> Len(head \o CodeOf(j, j.block))]
  <2>1. head \in Seq(Nat) /\ IsSequence(j.block)
    BY CopiedJob DEF AllCopied
  <2>2. /\ Part(head \o j.block, Len(head), Len(j.block)) = j.block
        /\ Len(head \o j.block) = Len(head) + Len(j.block)
    BY <2>1, PartAtEnd
  <2>3. CodeOf(j, j.block) = j.block /\ CoderOf(j) = "NONE"
    BY CopiedJob
  <2>4. Decoding(j, head, j.block) =
          [ok |-> TRUE, out |-> Part(head \o j.block, Len(head), Len(j.block)),
           at |-> Len(head) + Len(j.block)]
    BY <2>3 DEF Decoding, Copying
  <2> QED BY <2>2, <2>3, <2>4
<1> QED BY <1>1, <1>2

LEMMA CopiedContracts ==
  ASSUME Copying, AllCopied
  PROVE  Contracts(Unchanged) /\ TasksKept(Unchanged) /\ AcceptanceKept(Unchanged)
<1>1. ASSUME NEW j \in Jobs, NEW k \in Stages(j), NEW p \in Places,
             NEW a \in Unchanged[j][k - 1][p], NEW t
      PROVE  /\ k \in 1..1 /\ a = j.block
             /\ Forwarded(j, k, a, p, t) = Done(a)
  <2>1. k \in 1..1 /\ k - 1 \in 0..1
    <3>1. k \in 1..1
      BY CopiedJob
    <3> QED BY <3>1
  <2>2. a = j.block
    BY <2>1, CopiedJob
  <2> QED BY <2>1, <2>2, CopiedForward
<1>2. StagesKept(Unchanged)
  <2> SUFFICES ASSUME NEW j \in Jobs
               PROVE  /\ j.skip \in BOOLEAN /\ j.spare \in Nat
                      /\ Len(ChainOf(j)) \in 0..8
                      /\ NeededOf(j) \in Nat
                      /\ j.block \in Unchanged[j][0]["other"]
                      /\ \A k \in 0..Len(ChainOf(j)), p \in Places :
                           \A a \in Unchanged[j][k][p] : IsSequence(a)
                      /\ \A a \in Results(Unchanged, j) : Halves(Len(a))[4 * ByteBits] = 0
    BY DEF StagesKept
  <2>1. /\ j.skip \in BOOLEAN /\ j.spare \in Nat /\ IsSequence(j.block)
        /\ Halves(Len(j.block))[4 * ByteBits] = 0
    BY DEF AllCopied
  <2>2. Len(ChainOf(j)) = 1 /\ NeededOf(j) \in Nat /\ Results(Unchanged, j) = {j.block}
    BY CopiedJob
  <2>3. \A k \in 0..1, p \in Places : Unchanged[j][k][p] = {j.block}
    BY CopiedJob
  <2>4. 0 \in 0..1 /\ "other" \in Places
    BY DEF Places
  <2> QED BY <2>1, <2>2, <2>3, <2>4
<1>3. ForwardKept(Unchanged)
  <2>1. ASSUME NEW j \in Jobs, NEW k \in Stages(j), NEW p \in Places,
               NEW a \in Unchanged[j][k - 1][p], NEW t \in j.types,
               NEW res \in {Forwarded(j, k, a, p, t)}
        PROVE  IF res.ok THEN /\ res.out \in Unchanged[j][k][Opposite(p)]
                              /\ Len(res.out) <= TurnLength(j, Opposite(p))
                              /\ CopiedOf(j) => res.out = a
               ELSE a \in Unchanged[j][k][p] /\ ~CopiedOf(j)
    <3>1. res.ok /\ res.out = j.block /\ a = j.block
      BY <1>1 DEF Done
    <3>2. k \in 0..1 /\ Opposite(p) \in Places
      BY <1>1 DEF Opposite, Places
    <3>3. j.block \in Unchanged[j][k][Opposite(p)] /\ Len(j.block) <= TurnLength(j, Opposite(p))
      BY <3>2, CopiedJob
    <3> QED BY <3>1, <3>3
  <2>2. ASSUME NEW j \in Jobs, NEW a \in Unchanged[j][Len(ChainOf(j))]["other"]
        PROVE  Len(a) <= OutputLength(j)
    <3>1. 1 \in 0..1 /\ "other" \in Places /\ "output" \in Places
      BY DEF Places
    <3>2. Unchanged[j][Len(ChainOf(j))]["other"] = {j.block}
      <4>1. Len(ChainOf(j)) = 1
        BY CopiedJob
      <4> QED BY <3>1, <4>1, CopiedJob
    <3>3. a = j.block /\ Len(j.block) <= TurnLength(j, "output")
      BY <3>1, <3>2, CopiedJob
    <3> QED BY <3>3 DEF TurnLength
  <2> QED BY <2>1, <2>2 DEF ForwardKept
<1>4. ASSUME NEW j \in Jobs, NEW k \in Stages(j), NEW p \in Places,
             NEW a \in Unchanged[j][k - 1][p], NEW t \in j.types,
             NEW made \in {Forwarded(j, k, a, p, t)},
             NEW length \in InverseLengths(Unchanged, j), NEW room \in InverseLengths(Unchanged, j)
      PROVE  Inverted(j, k, made.out, length, room) = Done(a) /\ Len(a) <= room
  <2>1. k \in 1..1 /\ a = j.block /\ made.out = j.block
    BY <1>1 DEF Done
  <2>2. \A m \in InverseLengths(Unchanged, j) : Len(j.block) <= m
    BY CopiedJob
  <2>3. Inverted(j, k, j.block, length, room) = Done(j.block)
    BY <2>1, CopiedBack
  <2> QED BY <2>1, <2>2, <2>3
<1>5. InverseKept(Unchanged)
  <2>1. ASSUME NEW j \in Jobs, NEW k \in Stages(j), NEW p \in Places,
               NEW a \in Unchanged[j][k - 1][p], NEW t \in j.types,
               NEW made \in {Forwarded(j, k, a, p, t)},
               NEW length \in InverseLengths(Unchanged, j), NEW room \in InverseLengths(Unchanged, j),
               NEW res \in {Inverted(j, k, made.out, length, room)}
        PROVE  res.ok => res.out = a /\ Len(a) <= room
    <3>1. res = Done(a) /\ Len(a) <= room
      BY <1>4
    <3> QED BY <3>1 DEF Done
  <2> QED BY <2>1 DEF InverseKept
<1>6. EntropyKept(Unchanged)
  <2>1. ASSUME NEW j \in Jobs, NEW a \in Results(Unchanged, j)
        PROVE  a = j.block /\ IsSequence(CodeOf(j, a))
    <3>1. a = j.block /\ CodeOf(j, j.block) = j.block
      BY CopiedJob
    <3> QED BY <3>1 DEF AllCopied
  <2>2. ASSUME NEW j \in Jobs, NEW a \in Results(Unchanged, j), NEW head \in Headers(j, a),
               NEW res \in {Decoding(j, head, a)}
        PROVE  res.ok => res.out = a /\ res.at = Len(head \o CodeOf(j, a))
    <3>1. a = j.block
      BY <2>1
    <3>2. head \in Headers(j, j.block)
      BY <3>1
    <3>3. Decoding(j, head, j.block) =
            [ok |-> TRUE, out |-> j.block, at |-> Len(head \o CodeOf(j, j.block))]
      BY <3>2, CopiedBack
    <3> QED BY <3>1, <3>3
  <2> QED BY <2>1, <2>2 DEF EntropyKept
<1>7. TasksKept(Unchanged)
  <2> SUFFICES ASSUME NEW j \in Jobs, NEW k \in Stages(j), NEW b
               PROVE  InverseTasksAgree(ChainOf(j)[k], b, j.ctx)
    BY DEF TasksKept
  <2>1. k = 1 /\ ChainOf(j) = <<"NONE">>
    <3>1. k \in 1..1 /\ ChainOf(j) = <<"NONE">>
      BY CopiedJob
    <3> QED BY <3>1
  <2>2. <<"NONE">>[1] = "NONE"
    OBVIOUS
  <2> QED BY <2>1, <2>2 DEF Copying
<1>8. AcceptanceKept(Unchanged)
  <2>1. ASSUME NEW j \in Jobs, NEW a \in Results(Unchanged, j)
        PROVE  /\ Len(a) \in 1..BlockLengthOf(j)
               /\ \A head \in Headers(j, a) : Decoding(j, head, a).ok
    <3>1. a = j.block
      BY CopiedJob
    <3>2. Len(j.block) \in Nat /\ BlockLengthOf(j) \in Nat /\ Len(j.block) <= BlockLengthOf(j)
      BY CopiedJob
    <3>3. Len(j.block) # 0
      BY DEF AllCopied
    <3>4. Len(j.block) \in 1..BlockLengthOf(j)
      BY <3>2, <3>3
    <3>5. \A head \in Headers(j, j.block) :
            Decoding(j, head, j.block) =
              [ok |-> TRUE, out |-> j.block, at |-> Len(head \o CodeOf(j, j.block))]
      BY CopiedBack
    <3>6. ASSUME NEW head \in Headers(j, j.block)
          PROVE  Decoding(j, head, j.block).ok
      <4> DEFINE made == [ok |-> TRUE, out |-> j.block, at |-> Len(head \o CodeOf(j, j.block))]
      <4>1. made.ok
        OBVIOUS
      <4>2. Decoding(j, head, j.block) = made
        BY <3>5
      <4> HIDE DEF made
      <4> QED BY <4>1, <4>2
    <3> QED BY <3>1, <3>4, <3>6
  <2>2. ASSUME NEW j \in Jobs, NEW k \in Stages(j), NEW p \in Places,
               NEW a \in Unchanged[j][k - 1][p], NEW t \in j.types,
               NEW made \in {Forwarded(j, k, a, p, t)},
               NEW length \in InverseLengths(Unchanged, j), NEW room \in InverseLengths(Unchanged, j)
        PROVE  Inverted(j, k, made.out, length, room).ok
    <3>1. Inverted(j, k, made.out, length, room) = Done(a)
      BY <1>4
    <3> QED BY <3>1 DEF Done
  <2> QED BY <2>1, <2>2 DEF AcceptanceKept
<1> QED BY <1>2, <1>3, <1>5, <1>6, <1>7, <1>8 DEF Contracts

(***************************************************************************)
(* Blocks that are copied, because they are of a few bytes or because      *)
(* --skip leaves those alone that look compressed, come back whole and are *)
(* never refused, read to the end, and stay in their arrays; of the codecs *)
(* only the null ones matter (the copy branch of EncodingTask::run,        *)
(* NullTransform, NullEntropyEncoder and NullEntropyDecoder).              *)
(***************************************************************************)
THEOREM CopiedBlocksReturn ==
  ASSUME Copying, AllCopied
  PROVE  Spec => [](LosslessBlock /\ NothingRefused /\ WithinArrays /\ ReadsAllWritten /\ ChunksAgree)
<1>1. Contracts(Unchanged) /\ TasksKept(Unchanged) /\ AcceptanceKept(Unchanged)
  BY CopiedContracts
<1>2. Spec => []LosslessBlock
  BY <1>1, LosslessHolds
<1>3. Spec => []NothingRefused
  BY <1>1, NothingRefusedHolds
<1>4. Spec => []WithinArrays
  BY <1>1, WithinArraysHolds
<1>5. Spec => []ReadsAllWritten
  BY <1>1, ReadsAllHolds
<1>6. Spec => []ChunksAgree
  BY <1>1, ChunksAgreeHolds
<1> QED BY <1>2, <1>3, <1>4, <1>5, <1>6, PTL
==============================================================================
