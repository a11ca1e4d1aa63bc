---------------------------- MODULE TextsProofs ----------------------------
(***************************************************************************)
(* What the folds of Texts compute, for texts of every length.  Induction  *)
(* is over sets of natural numbers, which have a least element; a fold is  *)
(* compared with a function F, F[v][c] being the value behind character c. *)
(***************************************************************************)
EXTENDS Texts, WellFoundedInduction, SequenceTheorems, TLAPS

-----------------------------------------------------------------------------
(* Induction *)

\* A set of natural numbers has a least element.
LEMMA LeastElement ==
  ASSUME NEW T \in SUBSET Nat, T # {}
  PROVE  \E m \in T : \A k \in T : m <= k
<1>1. PICK m \in T : \A k \in T : ~ (<<k, m>> \in OpToRel(<, Nat))
  BY WFMin, NatLessThanWellFounded DEF OpToRel
<1>2. \A k \in T : <<k, m>> \in Nat \X Nat /\ k \in Nat /\ m \in Nat
  OBVIOUS
<1>3. \A k \in T : ~ (k < m)
  BY <1>1, <1>2 DEF OpToRel
<1> QED BY <1>2, <1>3

\* A set that holds 0 and the successor of each of its members holds Nat.
LEMMA SetInduction ==
  ASSUME NEW S, 0 \in S, \A n \in Nat : n \in S => n + 1 \in S
  PROVE  Nat \subseteq S
<1> DEFINE T == Nat \ S
<1>1. SUFFICES ASSUME T # {} PROVE FALSE
  OBVIOUS
<1>2. PICK m \in T : \A k \in T : m <= k
  BY <1>1, LeastElement
<1>3. m \in Nat /\ m # 0 /\ m - 1 \in Nat /\ m - 1 + 1 = m /\ ~ (m <= m - 1)
  BY <1>2
<1>4. m - 1 \in S
  BY <1>2, <1>3
<1> QED BY <1>2, <1>3, <1>4

\* The same for the numbers up to n.
LEMMA RangeInduction ==
  ASSUME NEW n \in Nat, NEW S, 0 \in S, \A k \in 1 .. n : k - 1 \in S => k \in S
  PROVE  0 .. n \subseteq S
<1> DEFINE U == {k \in Nat : k <= n => k \in S}
<1>1. 0 \in U
  OBVIOUS
<1>2. ASSUME NEW k \in Nat, k \in U PROVE k + 1 \in U
  <2>1. SUFFICES ASSUME k + 1 <= n PROVE k + 1 \in S
    OBVIOUS
  <2>2. k + 1 \in 1 .. n /\ (k + 1) - 1 = k /\ k \in S
    BY <1>2, <2>1
  <2> QED BY <2>2
<1>3. Nat \subseteq U
  <2> HIDE DEF U
  <2> QED BY <1>1, <1>2, SetInduction
<1> QED BY <1>3

-----------------------------------------------------------------------------
(* Numbers *)

\* Quotient and remainder.
LEMMA DivMod ==
  ASSUME NEW n \in Nat, NEW m \in Nat \ {0}
  PROVE  /\ n \div m \in Nat /\ n % m \in Nat /\ n % m < m
         /\ n = m * (n \div m) + (n % m)
<1>1. n \div m \in Nat
  OBVIOUS
<1>2. n % m \in Nat /\ n % m < m
  OBVIOUS
<1>3. n = m * (n \div m) + (n % m)
  OBVIOUS
<1> QED BY <1>1, <1>2, <1>3

\* A remainder is no larger than its number, and equal to a number below m.
LEMMA RemainderBelow ==
  ASSUME NEW n \in Nat, NEW m \in Nat \ {0}
  PROVE  n % m \in Nat /\ n % m <= n /\ (n < m => n % m = n)
<1>1. n % m \in Nat /\ n % m <= n
  <2>1. n \div m \in Nat /\ n % m \in Nat /\ n = m * (n \div m) + (n % m)
    BY DivMod
  <2>2. m * (n \div m) \in Nat
    BY <2>1
  <2> QED BY <2>1, <2>2
<1>2. n < m => n % m = n
  OBVIOUS
<1> QED BY <1>1, <1>2

\* A number below m in front of a multiple of m is the remainder.
LEMMA DivModUnique ==
  ASSUME NEW m \in Nat \ {0}, NEW q \in Nat, NEW r \in Nat, r < m
  PROVE  (m * q + r) \div m = q /\ (m * q + r) % m = r
<1> DEFINE n == m * q + r
           a == n \div m
           b == n % m
<1>1. n \in Nat
  OBVIOUS
<1>2. a \in Nat /\ b \in Nat /\ b < m /\ n = m * a + b
  BY <1>1, DivMod
<1> HIDE DEF a, b
<1>3. ASSUME NEW x \in Nat, NEW y \in Nat, x < y PROVE m * x + m <= m * y
  <2>1. y - x - 1 \in Nat /\ y = x + 1 + (y - x - 1)
    BY <1>3
  <2>2. PICK d \in Nat : y = x + 1 + d
    BY <2>1
  <2>3. m * y = m * x + m + m * d /\ m * d \in Nat /\ m * x \in Nat
    BY <2>2
  <2> QED BY <2>3
<1>4. m * a \in Nat /\ m * q \in Nat /\ m * q + r = m * a + b
  BY <1>2
<1>5. ~ (a < q)
  BY <1>2, <1>3, <1>4
<1>6. ~ (q < a)
  BY <1>2, <1>3, <1>4
<1>7. a = q
  BY <1>2, <1>5, <1>6
<1>8. b = r
  BY <1>2, <1>4, <1>7
<1> QED BY <1>7, <1>8 DEF a, b

\* A multiple of m does not change a remainder.
LEMMA ModShift ==
  ASSUME NEW m \in Nat \ {0}, NEW q \in Nat, NEW n \in Nat
  PROVE  (m * q + n) % m = n % m
<1> DEFINE a == n \div m
           b == n % m
<1>1. a \in Nat /\ b \in Nat /\ b < m /\ n = m * a + b
  BY DivMod
<1> HIDE DEF a, b
<1>2. m * q + n = m * (q + a) + b
  <2>1. m * (q + a) = m * q + m * a /\ m * q \in Nat /\ m * a \in Nat
    BY <1>1
  <2> QED BY <1>1, <2>1
<1>3. (m * (q + a) + b) % m = b
  BY <1>1, DivModUnique
<1> QED BY <1>2, <1>3 DEF b

\* An accumulator that wraps at m is the remainder of the one that does not.
LEMMA ModStep ==
  ASSUME NEW m \in Nat \ {0}, NEW n \in Nat, NEW base \in Nat, NEW c \in Nat
  PROVE  ((n % m) * base + c) % m = (n * base + c) % m
<1> DEFINE a == n \div m
           b == n % m
<1>1. a \in Nat /\ b \in Nat /\ n = m * a + b
  BY DivMod
<1> HIDE DEF a, b
<1>2. n * base + c = m * (a * base) + (b * base + c)
  <2>1. (m * a + b) * base = (m * a) * base + b * base
    BY <1>1
  <2>2. (m * a) * base = m * (a * base)
    BY <1>1
  <2>3. m * (a * base) \in Nat /\ b * base \in Nat
    BY <1>1
  <2> QED BY <1>1, <2>1, <2>2, <2>3
<1>3. a * base \in Nat /\ b * base + c \in Nat
  BY <1>1
<1>4. (m * (a * base) + (b * base + c)) % m = (b * base + c) % m
  BY <1>3, ModShift
<1> QED BY <1>2, <1>4 DEF b

\* Dividing twice is dividing by the product.
LEMMA DivDiv ==
  ASSUME NEW n \in Nat, NEW x \in Nat \ {0}, NEW y \in Nat \ {0}
  PROVE  (n \div x) \div y = n \div (x * y)
<1> DEFINE a == n \div x
           b == n % x
           d == a \div y
           e == a % y
<1>1. a \in Nat /\ b \in Nat /\ b < x /\ n = x * a + b
  BY DivMod
<1>2. d \in Nat /\ e \in Nat /\ e < y /\ a = y * d + e
  <2> HIDE DEF a
  <2> QED BY <1>1, DivMod
<1> HIDE DEF a, b, d, e
<1>3. n = (x * y) * d + (x * e + b)
  <2>1. x * (y * d + e) = x * (y * d) + x * e
    BY <1>2
  <2>2. x * (y * d) = (x * y) * d
    BY <1>2
  <2>3. x * e \in Nat /\ (x * y) * d \in Nat
    BY <1>2
  <2> QED BY <1>1, <1>2, <2>1, <2>2, <2>3
<1>4. x * e + b < x * y /\ x * e + b \in Nat
  <2>1. PICK k \in Nat : y = e + 1 + k
    <3>1. y - e - 1 \in Nat /\ y = e + 1 + (y - e - 1)
      BY <1>2
    <3> QED BY <3>1
  <2>2. x * y = x * e + x + x * k /\ x * k \in Nat /\ x * e \in Nat
    BY <1>2, <2>1
  <2> QED BY <1>1, <2>2
<1>5. x * y \in Nat \ {0}
  OBVIOUS
<1>6. n \div (x * y) = d
  <2> DEFINE xy == x * y
             r == x * e + b
  <2>1. xy \in Nat \ {0} /\ r \in Nat /\ r < xy /\ n = xy * d + r
    BY <1>3, <1>4, <1>5
  <2>2. n \div xy = d
    <3> HIDE DEF xy, r
    <3> QED BY <1>2, <2>1, DivModUnique
  <2> QED BY <2>2
<1> QED BY <1>6 DEF a, d

-----------------------------------------------------------------------------
(* Sequences *)

\* A text over some characters is one over more of them.
LEMMA SeqOver ==
  ASSUME NEW A, NEW B, A \subseteq B, NEW s \in Seq(A)
  PROVE  s \in Seq(B)
<1>1. Len(s) \in Nat /\ s = [k \in 1 .. Len(s) |-> s[k]] /\ \A k \in 1 .. Len(s) : s[k] \in B
  OBVIOUS
<1>2. s \in [1 .. Len(s) -> B]
  BY <1>1
<1> QED BY <1>1, <1>2, SeqDef

\* One more character of a text, and of two texts in a row.
LEMMA MoreText ==
  ASSUME NEW s \in Seq(Int), NEW c \in Int
  PROVE  /\ Append(s, c) \in Seq(Int) /\ Append(s, c) # <<>> /\ Len(s) \in Nat
         /\ Len(Append(s, c)) = Len(s) + 1 /\ Append(s, c)[Len(s) + 1] = c
         /\ \A k \in 1 .. Len(s) : Append(s, c)[k] = s[k]
<1>1. Append(s, c) \in Seq(Int) /\ Len(s) \in Nat
  OBVIOUS
<1>2. /\ Len(Append(s, c)) = Len(s) + 1 /\ Append(s, c)[Len(s) + 1] = c
      /\ \A k \in 1 .. Len(s) : Append(s, c)[k] = s[k]
  OBVIOUS
<1>3. Append(s, c) # <<>>
  BY <1>1, <1>2
<1> QED BY <1>1, <1>2, <1>3

LEMMA MoreBehind ==
  ASSUME NEW s \in Seq(Int), NEW t \in Seq(Int), NEW c \in Int
  PROVE  s \o t \in Seq(Int) /\ Append(s \o t, c) = s \o Append(t, c)
<1>1. s \o t \in Seq(Int) /\ <<c>> \in Seq(Int)
  OBVIOUS
<1>2. Append(s \o t, c) = (s \o t) \o <<c>> /\ Append(t, c) = t \o <<c>>
  BY <1>1, AppendIsConcat
<1>3. (s \o t) \o <<c>> = s \o (t \o <<c>>)
  BY <1>1, ConcatAssociative
<1> QED BY <1>1, <1>2, <1>3

\* Two texts in a row, and a text without its first character.
LEMMA ConcatAt ==
  ASSUME NEW s \in Seq(Int), NEW t \in Seq(Int)
  PROVE  /\ Len(s) \in Nat /\ Len(t) \in Nat /\ Len(s \o t) = Len(s) + Len(t)
         /\ \A k \in 1 .. Len(s) : (s \o t)[k] = s[k]
         /\ \A k \in 1 .. Len(t) : (s \o t)[Len(s) + k] = t[k]
OBVIOUS

LEMMA TailAt ==
  ASSUME NEW t \in Seq(Int) \ {<<>>}
  PROVE  /\ Len(t) \in Nat /\ Len(t) > 0 /\ Tail(t) \in Seq(Int) /\ Len(Tail(t)) = Len(t) - 1
         /\ \A k \in 1 .. Len(t) - 1 : Tail(t)[k] = t[k + 1]
OBVIOUS

-----------------------------------------------------------------------------
(* Folds *)

\* The largest element of a set of positions.
LEMMA MaxOf ==
  ASSUME NEW n \in Nat, NEW t \in SUBSET (1 .. n), t # {}
  PROVE  Max(t) \in t /\ \A y \in t : y <= Max(t)
<1> DEFINE T == {k \in Nat : \A y \in t : y <= k}
<1>1. n \in T
  OBVIOUS
<1>2. PICK m \in T : \A k \in T : m <= k
  BY <1>1, LeastElement
<1>3. m \in t
  <2>1. SUFFICES ASSUME m \notin t PROVE FALSE
    OBVIOUS
  <2>2. PICK y \in t : TRUE
    OBVIOUS
  <2>3. m \in Nat /\ y \in 1 .. n /\ y <= m /\ y # m
    BY <1>2, <2>1, <2>2
  <2>4. m - 1 \in Nat
    BY <2>3
  <2>5. \A z \in t : z \in Int /\ z <= m /\ z # m
    BY <1>2, <2>1
  <2>6. \A z \in t : z <= m - 1
    BY <2>3, <2>5
  <2>7. m <= m - 1
    BY <1>2, <2>4, <2>6
  <2> QED BY <2>3, <2>7
<1>4. \E x \in t : \A y \in t : x >= y
  BY <1>2, <1>3
<1>5. Max(t) = CHOOSE x \in t : \A y \in t : x >= y
  BY DEF Max
<1>6. Max(t) \in t /\ \A y \in t : Max(t) >= y
  BY <1>4, <1>5
<1> QED BY <1>6

\* The equation of the table FoldLeft is computed by, over sets of positions.
IsTable(h, F, b, s) ==
  \A t \in SUBSET DOMAIN s :
    h[t] = IF t = {} THEN b ELSE F[h[t \ {Max(t)}]][s[Max(t)]]

\* The same along the text: r[k] is the value behind k characters.
IsRun(r, F, b, s) ==
  r[0] = b /\ \A k \in 1 .. Len(s) : r[k] = F[r[k - 1]][s[k]]

\* A typed step function has a table over the positions of every text.
LEMMA TableExists ==
  ASSUME NEW V, NEW C, NEW F \in [V -> [C -> V]], NEW b \in V, NEW s \in Seq(C)
  PROVE  \E h \in [SUBSET DOMAIN s -> V] : IsTable(h, F, b, s)
<1> DEFINE Entry(h, t) == IF t = {} THEN b ELSE F[h[t \ {Max(t)}]][s[Max(t)]]
           Has(n) == \E h \in [SUBSET (1 .. n) -> V] :
                       \A t \in SUBSET (1 .. n) : h[t] = Entry(h, t)
           S == {n \in Nat : n <= Len(s) => Has(n)}
<1>1. Len(s) \in Nat /\ DOMAIN s = 1 .. Len(s) /\ \A k \in 1 .. Len(s) : s[k] \in C
  OBVIOUS
<1>2. Has(0)
  <2> DEFINE h0 == [t \in SUBSET (1 .. 0) |-> b]
  <2>1. \A t \in SUBSET (1 .. 0) : t = {}
    OBVIOUS
  <2>2. h0 \in [SUBSET (1 .. 0) -> V] /\ \A t \in SUBSET (1 .. 0) : h0[t] = Entry(h0, t)
    BY <2>1
  <2> QED BY <2>2
<1>3. ASSUME NEW n \in Nat, Has(n), n + 1 <= Len(s) PROVE Has(n + 1)
  <2>1. PICK h \in [SUBSET (1 .. n) -> V] : \A t \in SUBSET (1 .. n) : h[t] = Entry(h, t)
    BY <1>3
  <2>2. s[n + 1] \in C
    <3>1. n + 1 \in 1 .. Len(s)
      BY <1>1, <1>3
    <3> QED BY <1>1, <3>1
  <2>3. ASSUME NEW t \in SUBSET (1 .. n + 1)
        PROVE  t \ {n + 1} \in SUBSET (1 .. n) /\ (n + 1 \notin t => t \in SUBSET (1 .. n))
    <3>1. \A y \in 1 .. n + 1 : y # n + 1 => y \in 1 .. n
      OBVIOUS
    <3> QED BY <3>1
  <2>4. ASSUME NEW t \in SUBSET (1 .. n) PROVE t \in SUBSET (1 .. n + 1) /\ n + 1 \notin t
    <3>1. 1 .. n \subseteq 1 .. n + 1 /\ n + 1 \notin 1 .. n
      OBVIOUS
    <3> QED BY <3>1
  <2>5. ASSUME NEW t \in SUBSET (1 .. n + 1), n + 1 \in t PROVE Max(t) = n + 1
    <3>1. n + 1 \in Nat /\ t # {}
      BY <2>5
    <3>2. Max(t) \in t /\ \A y \in t : y <= Max(t)
      BY <3>1, MaxOf
    <3>3. Max(t) \in 1 .. n + 1 /\ n + 1 <= Max(t)
      BY <2>5, <3>2
    <3>4. \A m \in 1 .. n + 1 : n + 1 <= m => m = n + 1
      OBVIOUS
    <3> QED BY <3>3, <3>4
  <2> DEFINE g == [t \in SUBSET (1 .. n + 1) |->
                     IF n + 1 \in t THEN F[h[t \ {n + 1}]][s[n + 1]] ELSE h[t]]
  <2>6. g \in [SUBSET (1 .. n + 1) -> V]
    <3>1. ASSUME NEW t \in SUBSET (1 .. n + 1)
          PROVE  (IF n + 1 \in t THEN F[h[t \ {n + 1}]][s[n + 1]] ELSE h[t]) \in V
      <4>1. CASE n + 1 \in t
        <5>1. h[t \ {n + 1}] \in V
          BY <2>1, <2>3
        <5>2. \A v \in V, c \in C : F[v][c] \in V
          OBVIOUS
        <5>3. F[h[t \ {n + 1}]][s[n + 1]] \in V
          BY <2>2, <5>1, <5>2
        <5> QED BY <4>1, <5>3
      <4>2. CASE n + 1 \notin t
        BY <2>1, <2>3, <4>2
      <4> QED BY <4>1, <4>2
    <3> QED BY <3>1
  <2>7. \A t \in SUBSET (1 .. n) : g[t] = h[t]
    BY <2>4
  <2>8. \A t \in SUBSET (1 .. n + 1) : n + 1 \in t => g[t] = F[h[t \ {n + 1}]][s[n + 1]]
    OBVIOUS
  <2> HIDE DEF g
  <2>9. ASSUME NEW t \in SUBSET (1 .. n + 1) PROVE g[t] = Entry(g, t)
    <3>1. CASE n + 1 \in t
      <4>1. g[t \ {n + 1}] = h[t \ {n + 1}]
        BY <2>3, <2>7
      <4> QED BY <2>5, <2>8, <3>1, <4>1
    <3>2. CASE n + 1 \notin t
      <4>1. t \in SUBSET (1 .. n) /\ t \ {Max(t)} \in SUBSET (1 .. n)
        BY <2>3, <3>2
      <4>2. g[t] = h[t] /\ g[t \ {Max(t)}] = h[t \ {Max(t)}] /\ h[t] = Entry(h, t)
        BY <2>1, <2>7, <4>1
      <4> QED BY <4>2
    <3> QED BY <3>1, <3>2
  <2> QED BY <2>6, <2>9
<1> HIDE DEF Has
<1>4. 0 \in S
  BY <1>2
<1>5. ASSUME NEW n \in Nat, n \in S PROVE n + 1 \in S
  <2>1. SUFFICES ASSUME n + 1 <= Len(s) PROVE Has(n + 1)
    OBVIOUS
  <2>2. n <= Len(s)
    BY <1>1, <2>1
  <2>3. Has(n)
    BY <1>5, <2>2
  <2> QED BY <1>3, <2>1, <2>3
<1>6. Nat \subseteq S
  <2> HIDE DEF S
  <2> QED BY <1>4, <1>5, SetInduction
<1>7. Has(Len(s))
  BY <1>1, <1>6
<1> QED BY <1>1, <1>7 DEF IsTable, Has

\* What a fold of F over s ends with.
FoldsTo(v, V, C, F, b, s) ==
  /\ F \in [V -> [C -> V]] /\ b \in V /\ s \in Seq(C)
  /\ \E r \in [0 .. Len(s) -> V] : IsRun(r, F, b, s) /\ v = r[Len(s)]

\* The positions in front of k, and the last of them.
LEMMA Positions ==
  ASSUME NEW n \in Nat, NEW k \in 1 .. n
  PROVE  /\ 1 .. k \in SUBSET (1 .. n) /\ 1 .. k # {} /\ Max(1 .. k) = k
         /\ (1 .. k) \ {k} = 1 .. k - 1
<1>1. 1 .. k \in SUBSET (1 .. n) /\ k \in 1 .. k
  OBVIOUS
<1>2. Max(1 .. k) \in 1 .. k /\ k <= Max(1 .. k)
  BY <1>1, MaxOf
<1>3. Max(1 .. k) = k
  BY <1>2
<1>4. (1 .. k) \ {k} = 1 .. k - 1
  OBVIOUS
<1> QED BY <1>1, <1>3, <1>4

\* A table g of a fold gives the run: its entries for the first k characters.
LEMMA TableFolds ==
  ASSUME NEW V, NEW C, NEW F \in [V -> [C -> V]], NEW b \in V, NEW s \in Seq(C),
         NEW g, g[{}] = b,
         \A k \in 1 .. Len(s) : g[1 .. k - 1] \in V => g[1 .. k] = F[g[1 .. k - 1]][s[k]]
  PROVE  FoldsTo(g[DOMAIN s], V, C, F, b, s)
<1> DEFINE r == [k \in 0 .. Len(s) |-> g[1 .. k]]
           S == {k \in 0 .. Len(s) : g[1 .. k] \in V}
<1>1. Len(s) \in Nat /\ DOMAIN s = 1 .. Len(s) /\ \A k \in 1 .. Len(s) : s[k] \in C
  OBVIOUS
<1>2. 0 .. Len(s) \subseteq S
  <2>1. 0 \in S
    <3>1. 1 .. 0 = {} /\ 0 \in 0 .. Len(s)
      BY <1>1
    <3> QED BY <3>1
  <2>2. ASSUME NEW k \in 1 .. Len(s), k - 1 \in S PROVE k \in S
    <3>1. k \in 0 .. Len(s) /\ g[1 .. k - 1] \in V /\ s[k] \in C
      BY <1>1, <2>2
    <3>2. \A v \in V, c \in C : F[v][c] \in V
      OBVIOUS
    <3> QED BY <3>1, <3>2
  <2> HIDE DEF S
  <2> QED BY <1>1, <2>1, <2>2, RangeInduction
<1>3. r \in [0 .. Len(s) -> V]
  BY <1>2
<1>4. r[0] = b
  <2>1. 1 .. 0 = {} /\ 0 \in 0 .. Len(s)
    BY <1>1
  <2> QED BY <2>1
<1>5. ASSUME NEW k \in 1 .. Len(s) PROVE r[k] = F[r[k - 1]][s[k]]
  <2>1. k - 1 \in 0 .. Len(s) /\ k \in 0 .. Len(s)
    BY <1>1
  <2>2. g[1 .. k - 1] \in V
    BY <1>2, <2>1
  <2> QED BY <2>1, <2>2
<1>6. r[Len(s)] = g[DOMAIN s] /\ Len(s) \in 0 .. Len(s)
  BY <1>1
<1> HIDE DEF r
<1> QED BY <1>3, <1>4, <1>5, <1>6 DEF FoldsTo, IsRun

\* A fold has a value of the type, the base for the empty text.
LEMMA FoldType ==
  ASSUME NEW V, NEW C, NEW F, NEW b, NEW s, NEW v, FoldsTo(v, V, C, F, b, s)
  PROVE  v \in V /\ (s = <<>> => v = b)
<1>1. Len(s) \in Nat
  BY DEF FoldsTo
<1>2. PICK r \in [0 .. Len(s) -> V] : IsRun(r, F, b, s) /\ v = r[Len(s)]
  BY DEF FoldsTo
<1>3. Len(s) \in 0 .. Len(s)
  BY <1>1
<1>4. v \in V
  BY <1>2, <1>3
<1>5. s = <<>> => v = b
  BY <1>2 DEF IsRun
<1> QED BY <1>4, <1>5

\* One more character is one more step.
LEMMA FoldSnoc ==
  ASSUME NEW V, NEW C, NEW F, NEW b, NEW s, NEW c \in C, NEW v, NEW w,
         FoldsTo(v, V, C, F, b, s), FoldsTo(w, V, C, F, b, Append(s, c))
  PROVE  w = F[v][c]
<1>a. Len(s) \in Nat /\ s \in Seq(C)
  BY DEF FoldsTo
<1>b. PICK r \in [0 .. Len(s) -> V] : IsRun(r, F, b, s) /\ v = r[Len(s)]
  BY DEF FoldsTo
<1>1. Append(s, c) \in Seq(C) /\ Len(Append(s, c)) = Len(s) + 1
      /\ Append(s, c)[Len(s) + 1] = c /\ \A k \in 1 .. Len(s) : Append(s, c)[k] = s[k]
  OBVIOUS
<1>2. PICK q \in [0 .. Len(s) + 1 -> V] :
        IsRun(q, F, b, Append(s, c)) /\ w = q[Len(s) + 1]
  BY <1>1 DEF FoldsTo
<1>3. \A k \in 1 .. Len(s) + 1 : q[k] = F[q[k - 1]][Append(s, c)[k]]
  BY <1>1, <1>2 DEF IsRun
<1>4. \A k \in 1 .. Len(s) : k \in 1 .. Len(s) + 1
  BY <1>a
<1> DEFINE S == {k \in 0 .. Len(s) : r[k] = q[k]}
<1>5. ASSUME NEW k \in 1 .. Len(s), k - 1 \in S PROVE k \in S
  <2>1. q[k] = F[q[k - 1]][s[k]]
    BY <1>1, <1>3, <1>4
  <2>2. r[k] = F[r[k - 1]][s[k]]
    BY <1>b DEF IsRun
  <2>3. r[k - 1] = q[k - 1] /\ k \in 0 .. Len(s)
    BY <1>a, <1>5
  <2> QED BY <2>1, <2>2, <2>3
<1>6. 0 \in S
  BY <1>a, <1>b, <1>2 DEF IsRun
<1>7. 0 .. Len(s) \subseteq S
  <2> HIDE DEF S
  <2> QED BY <1>a, <1>5, <1>6, RangeInduction
<1>8. q[Len(s)] = v
  <2>1. Len(s) \in 0 .. Len(s)
    BY <1>a
  <2> QED BY <1>b, <1>7, <2>1
<1>9. ASSUME NEW m \in 1 .. Len(s) + 1, m = Len(s) + 1 PROVE q[m] = F[v][c]
  <2>1. q[m] = F[q[m - 1]][Append(s, c)[m]]
    BY <1>3
  <2>2. m - 1 = Len(s)
    BY <1>a, <1>9
  <2> QED BY <1>1, <1>8, <1>9, <2>1, <2>2
<1>10. Len(s) + 1 \in 1 .. Len(s) + 1
  BY <1>a
<1> QED BY <1>2, <1>9, <1>10

\* Value reads one more digit as a positional system does.
LEMMA ValueSteps ==
  ASSUME NEW base \in Nat
  PROVE  /\ Value(<<>>, base) = 0
         /\ \A s \in Seq(Nat) : Value(s, base) \in Nat
         /\ \A s \in Seq(Nat), c \in Nat :
              Value(Append(s, c), base) = Value(s, base) * base + c
<1> DEFINE F == [n \in Nat |-> [c \in Nat |-> n * base + c]]
<1>1. F \in [Nat -> [Nat -> Nat]] /\ \A n, c \in Nat : F[n][c] = n * base + c
  OBVIOUS
<1> HIDE DEF F
<1>2. ASSUME NEW s \in Seq(Nat) PROVE FoldsTo(Value(s, base), Nat, Nat, F, 0, s)
  <2> DEFINE Entry(g, t) == IF t = {} THEN 0 ELSE g[t \ {Max(t)}] * base + s[Max(t)]
             P(g) == g = [t \in SUBSET DOMAIN s |-> Entry(g, t)]
             table == CHOOSE g : P(g)
  <2>1. PICK h \in [SUBSET DOMAIN s -> Nat] : IsTable(h, F, 0, s)
    BY <1>1, TableExists
  <2>2. Len(s) \in Nat /\ DOMAIN s = 1 .. Len(s)
    OBVIOUS
  <2>3. ASSUME NEW t \in SUBSET DOMAIN s PROVE h[t] = Entry(h, t)
    <3>1. CASE t = {}
      BY <2>1, <3>1 DEF IsTable
    <3>2. CASE t # {}
      <4>1. Max(t) \in DOMAIN s
        BY <2>2, <3>2, MaxOf
      <4>2. s[Max(t)] \in Nat /\ h[t \ {Max(t)}] \in Nat
        BY <2>1, <4>1
      <4> QED BY <1>1, <2>1, <3>2, <4>2 DEF IsTable
    <3> QED BY <3>1, <3>2
  <2>4. P(h)
    BY <2>3
  <2>5. Value(s, base) = table[DOMAIN s]
    BY DEF Value, FoldLeft, MapThenFoldSet
  <2>6. P(table)
    <3> HIDE DEF P
    <3> QED BY <2>4
  <2>7. \A t \in SUBSET DOMAIN s : table[t] = Entry(table, t)
    <3> HIDE DEF table, Entry
    <3> QED BY <2>6
  <2> HIDE DEF table, P
  <2>8. table[{}] = 0
    BY <2>7
  <2>9. ASSUME NEW k \in 1 .. Len(s), table[1 .. k - 1] \in Nat
        PROVE  table[1 .. k] = F[table[1 .. k - 1]][s[k]]
    <3>1. /\ 1 .. k \in SUBSET DOMAIN s /\ 1 .. k # {} /\ Max(1 .. k) = k
          /\ (1 .. k) \ {k} = 1 .. k - 1
      BY <2>2, Positions
    <3>2. table[1 .. k] = table[1 .. k - 1] * base + s[k]
      BY <2>7, <3>1
    <3>3. s[k] \in Nat
      BY <2>2
    <3> QED BY <1>1, <2>9, <3>2, <3>3
  <2>10. FoldsTo(table[DOMAIN s], Nat, Nat, F, 0, s)
    <3> DEFINE V == Nat
    <3>1. /\ F \in [V -> [V -> V]] /\ s \in Seq(V) /\ 0 \in V
          /\ \A k \in 1 .. Len(s) : table[1 .. k - 1] \in V
                                    => table[1 .. k] = F[table[1 .. k - 1]][s[k]]
      BY <1>1, <2>9
    <3>2. FoldsTo(table[DOMAIN s], V, V, F, 0, s)
      <4> HIDE DEF V
      <4> QED BY <2>8, <3>1, TableFolds
    <3> QED BY <3>2
  <2> QED BY <2>5, <2>10
<1>3. \A s \in Seq(Nat), c \in Nat :
        /\ Value(s, base) \in Nat /\ (s = <<>> => Value(s, base) = 0)
        /\ Value(Append(s, c), base) = F[Value(s, base)][c]
  <2> TAKE s \in Seq(Nat), c \in Nat
  <2>1. FoldsTo(Value(s, base), Nat, Nat, F, 0, s)
    BY <1>2
  <2>2. Append(s, c) \in Seq(Nat)
    OBVIOUS
  <2>3. FoldsTo(Value(Append(s, c), base), Nat, Nat, F, 0, Append(s, c))
    BY <1>2, <2>2, Zenon
  <2>4. Value(s, base) \in Nat /\ (s = <<>> => Value(s, base) = 0)
    BY <2>1, FoldType
  <2>5. Value(Append(s, c), base) = F[Value(s, base)][c]
    BY <2>1, <2>3, FoldSnoc
  <2> QED BY <2>4, <2>5
<1>4. <<>> \in Seq(Nat) /\ 0 \in Nat
  OBVIOUS
<1> QED BY <1>1, <1>3, <1>4

\* The pieces with one more character.
WithLast(ps, c, mark) ==
  IF c = mark THEN Append(ps, <<>>) ELSE [ps EXCEPT ![Len(ps)] = Append(@, c)]

\* SplitAt begins a new piece at a mark and otherwise extends the last one.
LEMMA SplitSteps ==
  ASSUME NEW mark
  PROVE  /\ SplitAt(<<>>, mark) = << <<>> >>
         /\ \A s \in Seq(Int) : SplitAt(s, mark) \in Seq(Seq(Int)) \ {<<>>}
         /\ \A s \in Seq(Int), c \in Int :
              SplitAt(Append(s, c), mark) = WithLast(SplitAt(s, mark), c, mark)
<1> DEFINE V == Seq(Seq(Int)) \ {<<>>}
           b == << <<>> >>
           F == [ps \in V |-> [c \in Int |-> WithLast(ps, c, mark)]]
<1>1. \A ps \in V, c \in Int : WithLast(ps, c, mark) \in V
  <2> TAKE ps \in V, c \in Int
  <2>1. Len(ps) \in 1 .. Len(ps) /\ ps[Len(ps)] \in Seq(Int)
    OBVIOUS
  <2>2. Append(ps, <<>>) \in V
    <3>1. <<>> \in Seq(Int)
      OBVIOUS
    <3>2. Append(ps, <<>>) \in Seq(Seq(Int)) /\ Len(Append(ps, <<>>)) = Len(ps) + 1
      BY <3>1
    <3>3. Len(ps) \in Nat
      OBVIOUS
    <3> QED BY <3>2, <3>3
  <2>3. Append(ps[Len(ps)], c) \in Seq(Int)
    BY <2>1
  <2>4. [ps EXCEPT ![Len(ps)] = Append(@, c)] \in V
    BY <2>1, <2>3
  <2> QED BY <2>2, <2>4 DEF WithLast
<1>2. /\ F \in [V -> [Int -> V]] /\ b \in V
      /\ \A ps \in V, c \in Int : F[ps][c] = WithLast(ps, c, mark)
  <2>1. b \in V
    <3>1. <<>> \in Seq(Int)
      OBVIOUS
    <3> QED BY <3>1
  <2> HIDE DEF V, b
  <2> QED BY <1>1, <2>1
<1> HIDE DEF F, V, b
<1>3. ASSUME NEW s \in Seq(Int) PROVE FoldsTo(SplitAt(s, mark), V, Int, F, b, s)
  <2> DEFINE Entry(g, t) == IF t = {} THEN b ELSE WithLast(g[t \ {Max(t)}], s[Max(t)], mark)
             P(g) == g = [t \in SUBSET DOMAIN s |-> Entry(g, t)]
             table == CHOOSE g : P(g)
  <2>1. PICK h \in [SUBSET DOMAIN s -> V] : IsTable(h, F, b, s)
    BY <1>2, TableExists
  <2>2. Len(s) \in Nat /\ DOMAIN s = 1 .. Len(s)
    OBVIOUS
  <2>3. ASSUME NEW t \in SUBSET DOMAIN s PROVE h[t] = Entry(h, t)
    <3>1. CASE t = {}
      BY <2>1, <3>1 DEF IsTable
    <3>2. CASE t # {}
      <4>1. Max(t) \in DOMAIN s
        BY <2>2, <3>2, MaxOf
      <4>2. s[Max(t)] \in Int /\ h[t \ {Max(t)}] \in V
        BY <2>1, <4>1
      <4> QED BY <1>2, <2>1, <3>2, <4>2 DEF IsTable
    <3> QED BY <3>1, <3>2
  <2>4. P(h)
    BY <2>3
  <2>5. SplitAt(s, mark) = table[DOMAIN s]
    BY DEF SplitAt, FoldLeft, MapThenFoldSet, WithLast, b
  <2>6. P(table)
    <3> HIDE DEF P
    <3> QED BY <2>4
  <2>7. \A t \in SUBSET DOMAIN s : table[t] = Entry(table, t)
    <3> HIDE DEF table, Entry
    <3> QED BY <2>6
  <2> HIDE DEF table, P
  <2>8. table[{}] = b
    BY <2>7
  <2>9. ASSUME NEW k \in 1 .. Len(s), table[1 .. k - 1] \in V
        PROVE  table[1 .. k] = F[table[1 .. k - 1]][s[k]]
    <3>1. /\ 1 .. k \in SUBSET DOMAIN s /\ 1 .. k # {} /\ Max(1 .. k) = k
          /\ (1 .. k) \ {k} = 1 .. k - 1
      BY <2>2, Positions
    <3>2. table[1 .. k] = WithLast(table[1 .. k - 1], s[k], mark)
      BY <2>7, <3>1
    <3>3. s[k] \in Int
      BY <2>2
    <3> QED BY <1>2, <2>9, <3>2, <3>3
  <2>10. FoldsTo(table[DOMAIN s], V, Int, F, b, s)
    BY <1>2, <2>8, <2>9, TableFolds
  <2> QED BY <2>5, <2>10
<1>4. ASSUME NEW s \in Seq(Int), NEW c \in Int
      PROVE  /\ SplitAt(s, mark) \in V /\ (s = <<>> => SplitAt(s, mark) = b)
             /\ SplitAt(Append(s, c), mark) = F[SplitAt(s, mark)][c]
  <2>1. FoldsTo(SplitAt(s, mark), V, Int, F, b, s)
    BY <1>3
  <2>2. Append(s, c) \in Seq(Int)
    OBVIOUS
  <2>3. FoldsTo(SplitAt(Append(s, c), mark), V, Int, F, b, Append(s, c))
    BY <1>3, <2>2, Zenon
  <2>4. SplitAt(s, mark) \in V /\ (s = <<>> => SplitAt(s, mark) = b)
    BY <2>1, FoldType
  <2>5. SplitAt(Append(s, c), mark) = F[SplitAt(s, mark)][c]
    BY <2>1, <2>3, FoldSnoc
  <2> QED BY <2>4, <2>5
<1>5. <<>> \in Seq(Int) /\ 0 \in Int
  OBVIOUS
<1>6. SplitAt(<<>>, mark) = b /\ \A s \in Seq(Int) : SplitAt(s, mark) \in V
  BY <1>4, <1>5
<1>7. \A s \in Seq(Int), c \in Int :
        SplitAt(Append(s, c), mark) = WithLast(SplitAt(s, mark), c, mark)
  BY <1>2, <1>4
<1> QED BY <1>6, <1>7 DEF V, b

-----------------------------------------------------------------------------
(* The digits of a number *)

\* The equation of DigitsOf, for a table g.
DigitsEntry(g, k, base) == IF k < base THEN <<k>> ELSE Append(g[k \div base], k % base)

\* The tables of the digits of the numbers up to n.
DigitTables(n, base) ==
  {g \in [0 .. n -> Seq(0 .. base - 1) \ {<<>>}] : \A k \in 0 .. n : g[k] = DigitsEntry(g, k, base)}

\* The number without its last digit is smaller.
LEMMA Quotient ==
  ASSUME NEW base \in Nat, base > 1, NEW k \in Nat, ~ (k < base)
  PROVE  /\ k \div base \in Nat /\ k \div base < k /\ k % base \in 0 .. base - 1
         /\ k = (k \div base) * base + (k % base)
<1> DEFINE a == k \div base
           b == k % base
<1>1. a \in Nat /\ b \in Nat /\ b < base /\ k = base * a + b
  BY DivMod
<1> HIDE DEF a, b
<1>2. a # 0
  BY <1>1
<1>3. PICK e \in Nat : base = e + 2
  <2>1. base - 2 \in Nat /\ base = (base - 2) + 2
    OBVIOUS
  <2> QED BY <2>1
<1>4. base * a = e * a + 2 * a /\ e * a \in Nat /\ base * a = a * base
  BY <1>1, <1>3
<1>5. a < k /\ k = a * base + b
  BY <1>1, <1>2, <1>4
<1> QED BY <1>1, <1>5 DEF a, b

\* Two tables agree where both are defined.
LEMMA TablesAgree ==
  ASSUME NEW base \in Nat, base > 1, NEW n \in Nat, NEW m \in Nat,
         NEW g \in DigitTables(n, base), NEW h \in DigitTables(m, base)
  PROVE  \A k \in Nat : k <= n /\ k <= m => g[k] = h[k]
<1> DEFINE T == {k \in Nat : k <= n /\ k <= m /\ g[k] # h[k]}
<1>1. SUFFICES ASSUME T # {} PROVE FALSE
  OBVIOUS
<1>2. PICK k \in T : \A j \in T : k <= j
  <2>1. T \in SUBSET Nat
    OBVIOUS
  <2> HIDE DEF T
  <2> QED BY <1>1, <2>1, LeastElement
<1>3. k \in Nat /\ k \in 0 .. n /\ k \in 0 .. m /\ g[k] # h[k]
  OBVIOUS
<1>4. g[k] = DigitsEntry(g, k, base) /\ h[k] = DigitsEntry(h, k, base)
  BY <1>3 DEF DigitTables
<1>5. CASE k < base
  BY <1>3, <1>4, <1>5 DEF DigitsEntry
<1>6. CASE ~ (k < base)
  <2> DEFINE j == k \div base
  <2>1. j \in Nat /\ j < k
    BY <1>3, <1>6, Quotient
  <2>2. j \notin T
    <3> HIDE DEF j, T
    <3> QED BY <1>2, <1>3, <2>1
  <2>3. g[j] = h[j]
    <3> HIDE DEF j
    <3> QED BY <1>3, <2>1, <2>2
  <2> QED BY <1>3, <1>4, <1>6, <2>3 DEF DigitsEntry
<1> QED BY <1>5, <1>6

\* There is one up to every number.
LEMMA DigitTableExists ==
  ASSUME NEW base \in Nat, base > 1
  PROVE  \A n \in Nat : DigitTables(n, base) # {}
<1> DEFINE V == Seq(0 .. base - 1) \ {<<>>}
           S == {n \in Nat : DigitTables(n, base) # {}}
<1>1. ASSUME NEW k \in Nat, NEW g, ~ (k < base) => g[k \div base] \in V
      PROVE  DigitsEntry(g, k, base) \in V
  <2>1. CASE k < base
    <3>1. k \in 0 .. base - 1
      BY <2>1
    <3>2. <<k>> \in V
      BY <3>1
    <3> QED BY <2>1, <3>2 DEF DigitsEntry
  <2>2. CASE ~ (k < base)
    <3>1. k % base \in 0 .. base - 1
      BY <2>2, Quotient
    <3>2. Append(g[k \div base], k % base) \in V
      <4> DEFINE A == 0 .. base - 1
                 s == g[k \div base]
                 c == k % base
      <4>1. s \in Seq(A) /\ c \in A
        BY <1>1, <2>2, <3>1
      <4> HIDE DEF A, s, c
      <4>2. Append(s, c) \in Seq(A) /\ Len(Append(s, c)) = Len(s) + 1 /\ Len(s) \in Nat
        BY <4>1
      <4>3. Append(s, c) # <<>>
        BY <4>2
      <4> QED BY <4>2, <4>3 DEF A, s, c, V
    <3> QED BY <2>2, <3>2 DEF DigitsEntry
  <2> QED BY <2>1, <2>2
<1> HIDE DEF V
<1>2. ASSUME NEW n \in Nat, NEW g \in [0 .. n -> V],
             \A k \in 0 .. n : g[k] = DigitsEntry(g, k, base)
      PROVE  g \in DigitTables(n, base)
  BY <1>2 DEF DigitTables, V
<1>3. 0 \in S
  <2> DEFINE g == [k \in 0 .. 0 |-> <<0>>]
  <2>1. \A k \in 0 .. 0 : k = 0 /\ k < base
    OBVIOUS
  <2>2. <<0>> \in V
    BY DEF V
  <2>3. g \in [0 .. 0 -> V]
    BY <2>2
  <2>4. \A k \in 0 .. 0 : g[k] = DigitsEntry(g, k, base)
    BY <2>1 DEF DigitsEntry
  <2> HIDE DEF g
  <2>5. g \in DigitTables(0, base)
    BY <1>2, <2>3, <2>4
  <2> QED BY <2>5
<1>4. ASSUME NEW n \in Nat, n \in S PROVE n + 1 \in S
  <2>1. PICK g : g \in DigitTables(n, base)
    BY <1>4
  <2>2. g \in [0 .. n -> V] /\ \A k \in 0 .. n : g[k] = DigitsEntry(g, k, base)
    BY <2>1 DEF DigitTables, V
  <2> DEFINE new == DigitsEntry(g, n + 1, base)
             h == [k \in 0 .. n + 1 |-> IF k = n + 1 THEN new ELSE g[k]]
  <2>3. \A k \in 0 .. n + 1 : k = n + 1 \/ k \in 0 .. n
    OBVIOUS
  <2>4. \A k \in 0 .. n : k \in 0 .. n + 1 /\ k # n + 1
    OBVIOUS
  <2>5. ASSUME NEW k \in 0 .. n + 1, ~ (k < base) PROVE k \div base \in 0 .. n
    <3> DEFINE j == k \div base
    <3>1. j \in Nat /\ j < k
      BY <2>5, Quotient
    <3> HIDE DEF j
    <3>2. j \in 0 .. n
      BY <3>1
    <3> QED BY <3>2 DEF j
  <2>6. new \in V
    <3>1. n + 1 \in Nat /\ n + 1 \in 0 .. n + 1
      OBVIOUS
    <3>2. ~ (n + 1 < base) => g[(n + 1) \div base] \in V
      BY <2>2, <2>5, <3>1
    <3> QED BY <1>1, <3>1, <3>2
  <2> HIDE DEF new
  <2>7. h \in [0 .. n + 1 -> V]
    BY <2>2, <2>3, <2>6
  <2>8. \A k \in 0 .. n : h[k] = g[k]
    BY <2>4
  <2>9. h[n + 1] = new
    OBVIOUS
  <2> HIDE DEF h
  <2>10. ASSUME NEW k \in 0 .. n + 1 PROVE h[k] = DigitsEntry(h, k, base)
    <3>1. h[k] = DigitsEntry(g, k, base)
      BY <2>2, <2>3, <2>8, <2>9 DEF new
    <3>2. CASE k < base
      BY <3>1, <3>2 DEF DigitsEntry
    <3>3. CASE ~ (k < base)
      <4>1. h[k \div base] = g[k \div base]
        BY <2>5, <2>8, <3>3
      <4> QED BY <3>1, <3>3, <4>1 DEF DigitsEntry
    <3> QED BY <3>2, <3>3
  <2>11. n + 1 \in Nat
    OBVIOUS
  <2>12. h \in DigitTables(n + 1, base)
    BY <1>2, <2>7, <2>10, <2>11
  <2> QED BY <2>11, <2>12
<1>5. Nat \subseteq S
  <2> HIDE DEF S
  <2> QED BY <1>3, <1>4, SetInduction
<1> QED BY <1>5

\* DigitsOf satisfies its equation: the recursion is well founded.
LEMMA DigitsOfEquation ==
  ASSUME NEW base \in Nat, base > 1
  PROVE  /\ \A k \in Nat : DigitsOf(k, base) \in Seq(0 .. base - 1) \ {<<>>}
         /\ \A k \in Nat : DigitsOf(k, base) =
              IF k < base THEN <<k>> ELSE Append(DigitsOf(k \div base, base), k % base)
<1> DEFINE V == Seq(0 .. base - 1) \ {<<>>}
           P(g) == g = [k \in Nat |-> IF k < base THEN <<k>>
                                       ELSE Append(g[k \div base], k % base)]
           table == CHOOSE g : P(g)
           top(n) == CHOOSE g \in DigitTables(n, base) : TRUE
           f == [k \in Nat |-> top(k)[k]]
<1>1. \A n \in Nat : top(n) \in DigitTables(n, base)
  BY DigitTableExists
<1> HIDE DEF top
<1>2. ASSUME NEW k \in Nat
      PROVE  f[k] \in V /\ f[k] = DigitsEntry(f, k, base)
  <2>1. f[k] = top(k)[k] /\ k \in 0 .. k
    OBVIOUS
  <2>2. top(k)[k] \in V /\ top(k)[k] = DigitsEntry(top(k), k, base)
    BY <1>1, <2>1 DEF DigitTables
  <2>3. CASE k < base
    BY <2>1, <2>2, <2>3 DEF DigitsEntry
  <2>4. CASE ~ (k < base)
    <3> DEFINE j == k \div base
    <3>1. j \in Nat /\ j < k /\ j <= k /\ j <= j
      BY <2>4, Quotient
    <3> HIDE DEF j
    <3>2. top(k)[j] = top(j)[j]
      BY <1>1, <3>1, TablesAgree
    <3>3. f[j] = top(j)[j]
      BY <3>1
    <3> HIDE DEF f
    <3>4. DigitsEntry(top(k), k, base) = DigitsEntry(f, k, base)
      BY <2>4, <3>2, <3>3 DEF DigitsEntry, j
    <3> QED BY <2>1, <2>2, <3>4
  <2> QED BY <2>3, <2>4
<1>3. P(f)
  <2>1. f = [k \in Nat |-> f[k]]
    OBVIOUS
  <2> HIDE DEF f
  <2> QED BY <1>2, <2>1 DEF DigitsEntry
<1>4. P(table)
  <2> HIDE DEF P
  <2> QED BY <1>3
<1>5. \A k \in Nat : DigitsOf(k, base) = table[k]
  BY DEF DigitsOf
<1>6. \A k \in Nat : table[k] = DigitsEntry(table, k, base)
  <2> HIDE DEF table
  <2> QED BY <1>4 DEF DigitsEntry
<1> HIDE DEF table, P, V
<1>7. \A k \in Nat : table[k] = f[k]
  <2> DEFINE T == {k \in Nat : table[k] # f[k]}
  <2>1. SUFFICES ASSUME T # {} PROVE FALSE
    OBVIOUS
  <2>2. PICK k \in T : \A j \in T : k <= j
    <3>1. T \in SUBSET Nat
      OBVIOUS
    <3> HIDE DEF T
    <3> QED BY <2>1, <3>1, LeastElement
  <2>3. k \in Nat /\ table[k] # f[k]
    OBVIOUS
  <2> HIDE DEF f
  <2>4. table[k] = DigitsEntry(table, k, base) /\ f[k] = DigitsEntry(f, k, base)
    BY <1>2, <1>6, <2>3
  <2>5. ~ (k < base)
    BY <2>3, <2>4 DEF DigitsEntry
  <2> DEFINE j == k \div base
  <2>6. j \in Nat /\ j < k
    BY <2>3, <2>5, Quotient
  <2> HIDE DEF j
  <2>7. j \notin T
    <3> HIDE DEF T
    <3> QED BY <2>2, <2>3, <2>6
  <2>8. table[j] = f[j]
    BY <2>6, <2>7
  <2> QED BY <2>3, <2>4, <2>5, <2>8 DEF DigitsEntry, j
<1> HIDE DEF f
<1>8. ASSUME NEW k \in Nat, ~ (k < base)
      PROVE  DigitsOf(k, base) = Append(DigitsOf(k \div base, base), k % base)
  <2>1. k \div base \in Nat
    BY <1>8, Quotient
  <2>2. table[k \div base] = DigitsOf(k \div base, base)
    BY <1>5, <2>1
  <2> QED BY <1>5, <1>6, <1>8, <2>2 DEF DigitsEntry
<1>9. ASSUME NEW k \in Nat, k < base PROVE DigitsOf(k, base) = <<k>>
  BY <1>5, <1>6, <1>9 DEF DigitsEntry
<1>10. \A k \in Nat : DigitsOf(k, base) \in V
  BY <1>2, <1>5, <1>7
<1> QED BY <1>8, <1>9, <1>10 DEF V

\* A digit is its own value.
LEMMA ValueOfOne == ASSUME NEW c \in Nat, NEW base \in Nat PROVE Value(<<c>>, base) = c
<1>1. <<>> \in Seq(Nat) /\ <<c>> = Append(<<>>, c)
  OBVIOUS
<1>2. Value(Append(<<>>, c), base) = Value(<<>>, base) * base + c /\ Value(<<>>, base) = 0
  BY <1>1, ValueSteps
<1> QED BY <1>1, <1>2

\* The digits of a number have the value of the number.
LEMMA DigitsValue ==
  ASSUME NEW base \in Nat, base > 1
  PROVE  \A n \in Nat : Value(DigitsOf(n, base), base) = n
<1> DEFINE T == {n \in Nat : Value(DigitsOf(n, base), base) # n}
<1>1. SUFFICES ASSUME T # {} PROVE FALSE
  OBVIOUS
<1>2. PICK n \in T : \A m \in T : n <= m
  <2>1. T \in SUBSET Nat
    OBVIOUS
  <2> HIDE DEF T
  <2> QED BY <1>1, <2>1, LeastElement
<1>3. n \in Nat /\ Value(DigitsOf(n, base), base) # n
  OBVIOUS
<1>4. CASE n < base
  <2>1. DigitsOf(n, base) = <<n>>
    BY <1>3, <1>4, DigitsOfEquation
  <2>2. Value(<<n>>, base) = n
    BY <1>3, ValueOfOne
  <2> QED BY <1>3, <2>1, <2>2
<1>5. CASE ~ (n < base)
  <2> DEFINE m == n \div base
             c == n % base
             s == DigitsOf(m, base)
  <2>1. m \in Nat /\ m < n /\ c \in Nat /\ n = m * base + c
    BY <1>3, <1>5, Quotient
  <2>2. DigitsOf(n, base) = Append(s, c)
    BY <1>3, <1>5, DigitsOfEquation
  <2> HIDE DEF m, c
  <2>3. m \notin T
    <3> HIDE DEF T
    <3> QED BY <1>2, <1>3, <2>1
  <2>4. Value(s, base) = m
    BY <2>1, <2>3
  <2>5. s \in Seq(Nat)
    <3> DEFINE N == Nat
               A == 0 .. base - 1
    <3>1. A \subseteq N
      OBVIOUS
    <3>2. s \in Seq(A)
      BY <2>1, DigitsOfEquation
    <3>3. s \in Seq(N)
      <4> HIDE DEF N, A, s
      <4> QED BY <3>1, <3>2, SeqOver
    <3> QED BY <3>3
  <2> HIDE DEF s
  <2>6. Value(Append(s, c), base) = Value(s, base) * base + c
    BY <2>1, <2>5, ValueSteps
  <2> QED BY <1>3, <2>1, <2>2, <2>4, <2>6
<1> QED BY <1>4, <1>5

-----------------------------------------------------------------------------
(* Leading digits *)

\* s is digits d and then e, which is empty or begins with no digit.
Leads(d, e, s, D) ==
  /\ d \in Seq(D) /\ e \in Seq(Int) /\ s = d \o e
  /\ e = <<>> \/ e[1] \notin D

\* One more character is one more leading digit or leaves them as they are.
LEMMA LeadsOn ==
  ASSUME NEW D \in SUBSET Int, NEW d, NEW e, NEW s, Leads(d, e, s, D), NEW c \in Int
  PROVE  /\ e = <<>> /\ c \in D => Leads(Append(d, c), <<>>, Append(s, c), D)
         /\ ~ (e = <<>> /\ c \in D) => Leads(d, Append(e, c), Append(s, c), D) /\ Append(e, c) # <<>>
<1>1. d \in Seq(D) /\ e \in Seq(Int) /\ s = d \o e /\ <<>> \in Seq(Int)
  BY DEF Leads
<1>a. d \in Seq(Int)
  BY <1>1, SeqOver
<1>2. Append(s, c) = d \o Append(e, c)
  BY <1>1, <1>a, MoreBehind
<1>3. Append(e, c) \in Seq(Int) /\ Append(e, c) # <<>> /\ Len(e) \in Nat
  BY <1>1, MoreText
<1>4. ASSUME e = <<>>, c \in D PROVE Leads(Append(d, c), <<>>, Append(s, c), D)
  <2>1. Append(d, c) \in Seq(D)
    BY <1>1, <1>4, AppendProperties, Zenon
  <2>2. d \o <<>> = d /\ Append(d, c) \o <<>> = Append(d, c)
    BY <1>a
  <2> QED BY <1>1, <1>4, <2>1, <2>2 DEF Leads
<1>5. ASSUME ~ (e = <<>> /\ c \in D) PROVE Leads(d, Append(e, c), Append(s, c), D)
  <2>1. CASE e = <<>>
    <3>1. Append(e, c)[1] = c
      BY <2>1
    <3> QED BY <1>1, <1>2, <1>3, <1>5, <2>1, <3>1 DEF Leads
  <2>2. CASE e # <<>>
    <3>1. Len(e) > 0
      BY <1>1, <1>3, <2>2
    <3>2. Append(e, c)[1] = e[1] /\ e[1] \notin D
      BY <1>1, <2>2, <3>1 DEF Leads
    <3> QED BY <1>1, <1>2, <1>3, <3>2 DEF Leads
  <2> QED BY <2>1, <2>2
<1> QED BY <1>3, <1>4, <1>5

\* t is m characters and then s.
EndsWith(t, m, s) == Len(t) = m + Len(s) /\ \A k \in 1 .. Len(s) : t[m + k] = s[k]

\* DigitsFrom finds the leading digits of s behind the first m characters.
LEMMA DigitsFromLeads ==
  ASSUME NEW base \in Nat, NEW t \in Seq(Int), NEW s \in Seq(Int), NEW m \in Nat,
         EndsWith(t, m, s), NEW d, NEW e, Leads(d, e, s, 0 .. base - 1)
  PROVE  DigitsFrom(t, m + 1, base) = d
<1> DEFINE D == 0 .. base - 1
           n == Len(d)
           I == {i \in m + 1 .. Len(t) : t[i] \notin 0 .. base - 1}
           stop == IF I # {} THEN Min(I) ELSE 0
<1>1. d \in Seq(D) /\ e \in Seq(Int) /\ s = d \o e
  BY DEF Leads
<1>a. d \in Seq(Int)
  <2>1. D \subseteq Int
    OBVIOUS
  <2> HIDE DEF D
  <2> QED BY <1>1, <2>1, SeqOver
<1>2. /\ n \in Nat /\ Len(e) \in Nat /\ Len(t) = m + n + Len(e)
      /\ \A k \in 1 .. n : t[m + k] = d[k] /\ d[k] \in D
      /\ \A k \in 1 .. Len(e) : t[m + n + k] = e[k]
  <2>1. /\ n \in Nat /\ Len(e) \in Nat /\ Len(s) = n + Len(e)
        /\ \A k \in 1 .. n : s[k] = d[k]
        /\ \A k \in 1 .. Len(e) : s[n + k] = e[k]
    BY <1>1, <1>a, ConcatAt
  <2>2. Len(t) = m + n + Len(e)
    BY <2>1 DEF EndsWith
  <2>3. ASSUME NEW k \in 1 .. n PROVE t[m + k] = d[k] /\ d[k] \in D
    <3>1. k \in 1 .. Len(s)
      BY <2>1
    <3> HIDE DEF D
    <3> QED BY <1>1, <2>1, <3>1 DEF EndsWith
  <2>4. ASSUME NEW k \in 1 .. Len(e) PROVE t[m + n + k] = e[k]
    <3>1. n + k \in 1 .. Len(s) /\ m + (n + k) = m + n + k
      BY <2>1
    <3>2. t[m + (n + k)] = s[n + k]
      BY <3>1 DEF EndsWith
    <3> QED BY <2>1, <3>1, <3>2
  <2> QED BY <2>1, <2>2, <2>3, <2>4
<1>b. D \subseteq Int
  OBVIOUS
<1> HIDE DEF n, D
<1>3. \A i \in m + 1 .. m + n : t[i] \in D
  <2> TAKE i \in m + 1 .. m + n
  <2>1. i - m \in 1 .. n /\ m + (i - m) = i
    BY <1>2
  <2> QED BY <1>2, <2>1
<1>4. SubSeq(t, m + 1, m + n) = d
  <2>1. /\ SubSeq(t, m + 1, m + n) \in Seq(Int) /\ Len(SubSeq(t, m + 1, m + n)) = n
        /\ \A k \in 1 .. n : SubSeq(t, m + 1, m + n)[k] = t[m + k]
    <3>1. m + n <= Len(t)
      BY <1>2
    <3> QED BY <1>2, <3>1
  <2>2. Len(d) = n
    BY DEF n
  <2> QED BY <1>a, <1>2, <2>1, <2>2, SeqEqual
<1>5. DigitsFrom(t, m + 1, base) = SubSeq(t, m + 1, IF stop = 0 THEN Len(t) ELSE stop - 1)
  BY DEF DigitsFrom, SelectInSubSeq
<1>6. CASE e = <<>>
  <2>1. Len(t) = m + n
    BY <1>2, <1>6
  <2>2. I = {}
    BY <1>3, <2>1 DEF D
  <2>3. stop = 0
    BY <2>2
  <2> HIDE DEF stop
  <2> QED BY <1>4, <1>5, <2>1, <2>3
<1>7. CASE e # <<>>
  <2>1. Len(e) > 0 /\ 1 \in 1 .. Len(e) /\ e[1] \notin D
    <3>1. e[1] \notin D
      BY <1>7 DEF Leads, D
    <3>2. Len(e) > 0
      BY <1>1, <1>2, <1>7
    <3> QED BY <1>2, <3>1, <3>2
  <2>2. t[m + n + 1] \notin D /\ m + n + 1 \in m + 1 .. Len(t)
    BY <1>2, <2>1
  <2>3. m + n + 1 \in I
    BY <2>2 DEF D
  <2>4. \A i \in I : m + n + 1 <= i
    <3> TAKE i \in I
    <3>1. i \in Nat /\ i >= m + 1 /\ i \notin m + 1 .. m + n
      BY <1>3 DEF D
    <3> QED BY <1>2, <3>1
  <2>5. \A i \in I : i \in Int
    OBVIOUS
  <2> HIDE DEF I
  <2>6. Min(I) = m + n + 1
    <3>1. Min(I) = CHOOSE x \in I : \A y \in I : x <= y
      BY DEF Min
    <3>2. Min(I) \in I /\ \A y \in I : Min(I) <= y
      BY <2>3, <2>4, <3>1
    <3>3. Min(I) <= m + n + 1 /\ m + n + 1 <= Min(I) /\ Min(I) \in Int
      BY <2>3, <2>4, <2>5, <3>2
    <3>4. ASSUME NEW x \in Int, NEW y \in Int, x <= y, y <= x PROVE x = y
      BY <3>4
    <3>5. m + n + 1 \in Int
      BY <1>2
    <3> QED BY <3>3, <3>4, <3>5
  <2>7. stop = m + n + 1
    BY <2>3, <2>6
  <2> HIDE DEF stop
  <2>8. stop # 0 /\ stop - 1 = m + n
    BY <1>2, <2>7
  <2> QED BY <1>4, <1>5, <2>8
<1> QED BY <1>6, <1>7
=============================================================================
