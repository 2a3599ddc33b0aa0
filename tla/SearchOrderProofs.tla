------------------------- MODULE SearchOrderProofs -------------------------
(***************************************************************************)
(* Facts about numbers, finite sets, sums and sorted sequences that the    *)
(* proofs about the search modules use. Induction is over sets of numbers: *)
(* each set of naturals has a least element.                               *)
(***************************************************************************)
EXTENDS SearchOrder, FiniteSetTheorems, TLAPS

(* A set of naturals has a least element. *)
LEMMA LeastNat ==
  ASSUME NEW T \in SUBSET Nat, T # {}
  PROVE  \E x \in T : \A y \in T : x <= y
<1> DEFINE R == {ss \in Nat \X Nat : ss[1] < ss[2]}
<1>1. IsWellFoundedOn(R, Nat)
  BY NatLessThanWellFounded, Zenon DEF OpToRel
<1>2. PICK x \in T : \A y \in T : ~(<<y, x>> \in R)
  <2> HIDE DEF R
  <2> QED BY <1>1, WFMin
<1>3. \A i, j \in Nat : <<i, j>> \in R <=> i < j
  OBVIOUS
<1>4. \A y \in T : x <= y
  <2> HIDE DEF R
  <2> TAKE y \in T
  <2>1. ~(y < x)
    BY <1>2, <1>3
  <2> QED BY <2>1
<1> QED BY <1>4

(* A bounded set of naturals has a greatest element. *)
LEMMA GreatestNat ==
  ASSUME NEW T \in SUBSET Nat, T # {}, NEW b \in Nat, \A x \in T : x <= b
  PROVE  \E x \in T : \A y \in T : y <= x
<1> DEFINE U == {k \in Nat : b - k \in T}
<1>1. PICK x \in T : TRUE
  OBVIOUS
<1>2. b - x \in U
  BY <1>1
<1>3. PICK k \in U : \A y \in U : k <= y
  BY <1>2, LeastNat
<1>4. \A y \in T : y <= b - k
  <2> TAKE y \in T
  <2>1. b - y \in U
    OBVIOUS
  <2>2. k <= b - y
    BY <1>3, <2>1
  <2> QED BY <2>2
<1> QED BY <1>3, <1>4

(* Induction over the naturals, for a set. *)
LEMMA SetInduction ==
  ASSUME NEW S, 0 \in S, \A n \in Nat : n \in S => n + 1 \in S
  PROVE  Nat \subseteq S
<1> DEFINE T == Nat \ S
<1> SUFFICES ASSUME T # {} PROVE FALSE
  OBVIOUS
<1>1. PICK x \in T : \A y \in T : x <= y
  BY LeastNat
<1>2. x # 0 /\ x - 1 \in Nat /\ x - 1 \notin T
  BY <1>1
<1> QED BY <1>1, <1>2

(* A finite set of naturals is bounded. *)
LEMMA FiniteBounded ==
  ASSUME NEW T \in SUBSET Nat, IsFiniteSet(T)
  PROVE  \E b \in Nat : \A x \in T : x <= b
<1>1. PICK n \in Nat : ExistsBijection(1 .. n, T)
  BY FS_CardinalityType
<1>2. PICK f \in Bijection(1 .. n, T) : TRUE
  BY <1>1 DEF ExistsBijection
<1>3. f \in [1 .. n -> T] /\ \A x \in T : \E i \in 1 .. n : f[i] = x
  BY <1>2 DEF Bijection, Injection, Surjection
<1> DEFINE S == {k \in Nat : k <= n => \E b \in Nat : \A i \in 1 .. k : f[i] <= b}
<1>4. 0 \in S
  OBVIOUS
<1>5. ASSUME NEW k \in Nat, k \in S PROVE k + 1 \in S
  <2> SUFFICES ASSUME k + 1 <= n PROVE \E b \in Nat : \A i \in 1 .. (k + 1) : f[i] <= b
    OBVIOUS
  <2>1. PICK b \in Nat : \A i \in 1 .. k : f[i] <= b
    BY <1>1, <1>5
  <2>2. f[k + 1] \in Nat /\ \A i \in 1 .. k : f[i] \in Nat
    <3> HIDE DEF S
    <3>1. \A i \in 1 .. n : f[i] \in Nat
      BY <1>3
    <3>2. k + 1 \in 1 .. n /\ 1 .. k \subseteq 1 .. n
      OBVIOUS
    <3> QED BY <3>1, <3>2
  <2> DEFINE c == IF f[k + 1] <= b THEN b ELSE f[k + 1]
  <2>3. c \in Nat /\ b <= c /\ f[k + 1] <= c
    BY <2>2
  <2>4. \A i \in 1 .. (k + 1) : f[i] <= c
    <3> HIDE DEF c
    <3> TAKE i \in 1 .. (k + 1)
    <3>1. CASE i = k + 1
      BY <3>1, <2>3
    <3>2. CASE i \in 1 .. k
      BY <3>2, <2>1, <2>2, <2>3
    <3> QED BY <3>1, <3>2
  <2> QED BY <2>3, <2>4
<1>6. n \in S
  <2> HIDE DEF S
  <2> QED BY <1>1, <1>4, <1>5, SetInduction
<1>7. PICK b \in Nat : \A i \in 1 .. n : f[i] <= b
  BY <1>1, <1>6
<1> QED BY <1>3, <1>7

(* A finite set of naturals has a greatest element. *)
LEMMA FiniteGreatest ==
  ASSUME NEW T \in SUBSET Nat, IsFiniteSet(T), T # {}
  PROVE  \E x \in T : \A y \in T : y <= x
BY FiniteBounded, GreatestNat

-----------------------------------------------------------------------------
(* A function that adds up a sequence exists. *)
LEMMA SumsExist ==
  ASSUME NEW n \in Nat, NEW s, \A i \in 1 .. n : s[i] \in Int
  PROVE  \E f \in [0 .. n -> Int] : f = [i \in 0 .. n |-> IF i = 0 THEN 0 ELSE f[i - 1] + s[i]]
<1> DEFINE Adds(f, k) == /\ f \in [0 .. k -> Int]
                         /\ f[0] = 0
                         /\ \A i \in 1 .. k : f[i] = f[i - 1] + s[i]
           S == {k \in Nat : k <= n => \E f \in [0 .. k -> Int] : Adds(f, k)}
<1>1. 0 \in S
  <2> DEFINE f == [i \in 0 .. 0 |-> 0]
  <2>1. Adds(f, 0)
    OBVIOUS
  <2> QED BY <2>1
<1>2. ASSUME NEW k \in Nat, k \in S PROVE k + 1 \in S
  <2> SUFFICES ASSUME k + 1 <= n PROVE \E f \in [0 .. (k + 1) -> Int] : Adds(f, k + 1)
    <3> HIDE DEF Adds
    <3> QED OBVIOUS
  <2>1. PICK f \in [0 .. k -> Int] : Adds(f, k)
    BY <1>2
  <2> DEFINE g == [i \in 0 .. (k + 1) |-> IF i = k + 1 THEN f[k] + s[k + 1] ELSE f[i]]
  <2>2. g \in [0 .. (k + 1) -> Int]
    <3>1. f[k] \in Int /\ s[k + 1] \in Int
      BY <2>1
    <3>2. \A i \in 0 .. (k + 1) : i # k + 1 => f[i] \in Int
      BY <2>1
    <3> QED BY <3>1, <3>2
  <2>3. g[0] = 0
    BY <2>1
  <2>4. ASSUME NEW i \in 1 .. (k + 1) PROVE g[i] = g[i - 1] + s[i]
    <3>1. CASE i = k + 1
      BY <3>1
    <3>2. CASE i \in 1 .. k
      BY <3>2, <2>1
    <3> QED BY <3>1, <3>2
  <2> QED BY <2>2, <2>3, <2>4
<1>3. n \in S
  <2> HIDE DEF S
  <2> QED BY <1>1, <1>2, SetInduction
<1>4. PICK f \in [0 .. n -> Int] : Adds(f, n)
  BY <1>3
<1>5. f = [i \in 0 .. n |-> IF i = 0 THEN 0 ELSE f[i - 1] + s[i]]
  <2>1. ASSUME NEW i \in 0 .. n PROVE f[i] = IF i = 0 THEN 0 ELSE f[i - 1] + s[i]
    <3>1. CASE i = 0
      BY <3>1, <1>4
    <3>2. CASE i \in 1 .. n
      BY <3>2, <1>4
    <3> QED BY <3>1, <3>2
  <2> QED BY <2>1
<1> QED BY <1>5

(* The sums of the first elements. *)
LEMMA PartialSums ==
  ASSUME NEW s, Len(s) \in Nat, \A i \in 1 .. Len(s) : s[i] \in Int
  PROVE  /\ Partial(s) \in [0 .. Len(s) -> Int]
         /\ Partial(s)[0] = 0
         /\ \A i \in 1 .. Len(s) : Partial(s)[i] = Partial(s)[i - 1] + s[i]
<1> DEFINE n == Len(s)
           Fixed(f) == f = [i \in 0 .. n |-> IF i = 0 THEN 0 ELSE f[i - 1] + s[i]]
<1>1. \E f : Fixed(f)
  BY SumsExist
<1>2. Partial(s) = CHOOSE f : Fixed(f)
  BY DEF Partial
<1>3. Fixed(Partial(s))
  <2> HIDE DEF Fixed
  <2> QED BY <1>1, <1>2
<1> DEFINE p == Partial(s)
<1>4. p = [i \in 0 .. n |-> IF i = 0 THEN 0 ELSE p[i - 1] + s[i]]
  BY <1>3
<1>5. p[0] = 0 /\ \A i \in 1 .. n : p[i] = p[i - 1] + s[i]
  <2> HIDE DEF p
  <2>1. 0 \in 0 .. n
    OBVIOUS
  <2>2. p[0] = 0
    BY <1>4, <2>1
  <2>3. ASSUME NEW i \in 1 .. n PROVE p[i] = p[i - 1] + s[i]
    <3>1. i \in 0 .. n /\ i # 0
      OBVIOUS
    <3> QED BY <1>4, <3>1
  <2> QED BY <2>2, <2>3
<1> DEFINE S == {k \in Nat : k <= n => p[k] \in Int}
<1>6. 0 \in S
  BY <1>5
<1>7. ASSUME NEW k \in Nat, k \in S PROVE k + 1 \in S
  <2> SUFFICES ASSUME k + 1 <= n PROVE p[k + 1] \in Int
    OBVIOUS
  <2>1. k + 1 \in 1 .. n /\ p[k] \in Int /\ s[k + 1] \in Int
    BY <1>7
  <2>2. p[k + 1] = p[k] + s[k + 1]
    <3> HIDE DEF p
    <3>1. p[k + 1] = p[(k + 1) - 1] + s[k + 1]
      BY <1>5, <2>1
    <3> QED BY <3>1
  <2> QED BY <2>1, <2>2
<1>8. Nat \subseteq S
  <2> HIDE DEF S
  <2> QED BY <1>6, <1>7, SetInduction
<1>9. p \in [0 .. n -> Int]
  <2>1. \A k \in 0 .. n : p[k] \in Int
    BY <1>8
  <2>2. DOMAIN p = 0 .. n
    <3> HIDE DEF p
    <3> QED BY <1>4
  <2>3. p = [k \in 0 .. n |-> p[k]]
    <3> HIDE DEF p
    <3> QED BY <1>4
  <2> QED BY <2>1, <2>2, <2>3
<1> QED BY <1>5, <1>9
(* Two sequences that begin alike have the same first sums. *)
LEMMA PartialAgree ==
  ASSUME NEW s, Len(s) \in Nat, \A i \in 1 .. Len(s) : s[i] \in Int,
         NEW t, Len(t) \in Nat, \A i \in 1 .. Len(t) : t[i] \in Int,
         NEW n \in Nat, n <= Len(s), n <= Len(t), \A i \in 1 .. n : s[i] = t[i]
  PROVE  \A k \in 0 .. n : Partial(s)[k] = Partial(t)[k]
<1> DEFINE p == Partial(s)
           q == Partial(t)
           S == {k \in Nat : k <= n => p[k] = q[k]}
<1>1. p[0] = 0 /\ \A i \in 1 .. Len(s) : p[i] = p[i - 1] + s[i]
  BY PartialSums
<1>2. q[0] = 0 /\ \A i \in 1 .. Len(t) : q[i] = q[i - 1] + t[i]
  BY PartialSums
<1> HIDE DEF p, q
<1>3. 0 \in S
  BY <1>1, <1>2
<1>4. ASSUME NEW k \in Nat, k \in S PROVE k + 1 \in S
  <2> SUFFICES ASSUME k + 1 <= n PROVE p[k + 1] = q[k + 1]
    OBVIOUS
  <2>1. k + 1 \in 1 .. Len(s) /\ k + 1 \in 1 .. Len(t) /\ k + 1 \in 1 .. n /\ (k + 1) - 1 = k /\ p[k] = q[k]
    BY <1>4
  <2> HIDE DEF S
  <2>2. p[k + 1] = p[k] + s[k + 1] /\ q[k + 1] = q[k] + t[k + 1] /\ s[k + 1] = t[k + 1]
    BY <1>1, <1>2, <2>1
  <2> QED BY <2>1, <2>2
<1>5. Nat \subseteq S
  <2> HIDE DEF S
  <2> QED BY <1>3, <1>4, SetInduction
<1> QED BY <1>5 DEF p, q

(* One more element adds itself. *)
LEMMA SumOne ==
  ASSUME NEW s, Len(s) \in Nat, \A i \in 1 .. Len(s) : s[i] \in Int,
         NEW t, Len(t) = Len(s) + 1, \A i \in 1 .. Len(t) : t[i] \in Int,
         \A i \in 1 .. Len(s) : s[i] = t[i]
  PROVE  Sum(s) \in Int /\ Sum(t) = Sum(s) + t[Len(t)]
<1> DEFINE n == Len(s)
<1>1. Partial(t)[n] = Partial(s)[n]
  <2>1. n \in Nat /\ n <= Len(s) /\ n <= Len(t) /\ Len(t) \in Nat /\ n \in 0 .. n
    OBVIOUS
  <2>2. \A k \in 0 .. n : Partial(s)[k] = Partial(t)[k]
    BY <2>1, PartialAgree
  <2> QED BY <2>1, <2>2
<1>2. Partial(t)[n + 1] = Partial(t)[(n + 1) - 1] + t[n + 1]
  BY PartialSums
<1>3. Partial(s)[n] \in Int
  BY PartialSums
<1> QED BY <1>1, <1>2, <1>3 DEF Sum

(* Sums of naturals do not decrease. *)
LEMMA PartialNondecreasing ==
  ASSUME NEW s, Len(s) \in Nat, \A i \in 1 .. Len(s) : s[i] \in Nat
  PROVE  \A a, b \in 0 .. Len(s) : a <= b => Partial(s)[a] <= Partial(s)[b]
<1> SUFFICES ASSUME NEW a \in 0 .. Len(s)
             PROVE  \A b \in 0 .. Len(s) : a <= b => Partial(s)[a] <= Partial(s)[b]
  OBVIOUS
<1> DEFINE p == Partial(s)
           n == Len(s)
           S == {k \in Nat : a <= k /\ k <= n => p[a] <= p[k]}
<1>1. p \in [0 .. n -> Int] /\ \A i \in 1 .. n : p[i] = p[i - 1] + s[i]
  BY PartialSums
<1> HIDE DEF p
<1>2. 0 \in S
  BY <1>1
<1>3. ASSUME NEW k \in Nat, k \in S PROVE k + 1 \in S
  <2> SUFFICES ASSUME a <= k + 1, k + 1 <= n PROVE p[a] <= p[k + 1]
    OBVIOUS
  <2>1. k + 1 \in 1 .. n /\ (k + 1) - 1 = k /\ (a <= k => p[a] <= p[k])
    BY <1>3
  <2> HIDE DEF S
  <2>2. p[k + 1] = p[k] + s[k + 1]
    BY <1>1, <2>1
  <2>3. p[k] \in Int /\ p[a] \in Int /\ s[k + 1] \in Nat
    <3>1. k \in 0 .. n /\ a \in 0 .. n /\ k + 1 \in 1 .. Len(s)
      BY <2>1
    <3> QED BY <1>1, <3>1
  <2>4. CASE a = k + 1
    BY <2>4, <2>3, <2>2
  <2>5. CASE a <= k
    BY <2>5, <2>1, <2>2, <2>3
  <2> QED BY <2>4, <2>5
<1>4. Nat \subseteq S
  <2> HIDE DEF S
  <2> QED BY <1>2, <1>3, SetInduction
<1> QED BY <1>4 DEF p

-----------------------------------------------------------------------------
(* In a finite set with a strict total order, the number of an element's   *)
(* predecessors is its place: each place is taken, by one element.         *)
LEMMA Places ==
  ASSUME NEW S, IsFiniteSet(S), NEW R,
         \A m \in S : <<m, m>> \notin R,
         \A m, n \in S : m # n => <<m, n>> \in R \/ <<n, m>> \in R,
         \A l, m, n \in S : <<l, m>> \in R /\ <<m, n>> \in R => <<l, n>> \in R
  PROVE  LET Rank(m) == Cardinality({n \in S : <<n, m>> \in R})
         IN  /\ \A m \in S : Rank(m) \in 0 .. (Cardinality(S) - 1)
             /\ \A i \in 1 .. Cardinality(S) : \E m \in S : Rank(m) = i - 1
             /\ \A m, n \in S : Rank(m) = Rank(n) => m = n
<1> DEFINE Before(m) == {n \in S : <<n, m>> \in R}
           Rank(m) == Cardinality(Before(m))
           c == Cardinality(S)
<1>1. c \in Nat
  BY FS_CardinalityType
<1>2. ASSUME NEW m \in S PROVE IsFiniteSet(Before(m)) /\ Rank(m) \in 0 .. (c - 1)
  <2>1. Before(m) \in SUBSET S /\ Before(m) # S
    OBVIOUS
  <2> HIDE DEF Before
  <2>2. IsFiniteSet(Before(m)) /\ Rank(m) <= c /\ (c = Rank(m) => S = Before(m))
    BY <2>1, FS_Subset
  <2>3. Rank(m) \in Nat
    BY <2>2, FS_CardinalityType
  <2> HIDE DEF Rank, c
  <2> QED BY <1>1, <2>1, <2>2, <2>3
<1>3. ASSUME NEW m \in S, NEW n \in S, <<m, n>> \in R PROVE Rank(m) < Rank(n)
  <2>1. Before(m) \in SUBSET Before(n) /\ m \in Before(n) /\ m \notin Before(m)
    BY <1>3
  <2> HIDE DEF Before
  <2>2. Rank(m) <= Rank(n) /\ (Rank(n) = Rank(m) => Before(n) = Before(m))
    BY <1>2, <2>1, FS_Subset
  <2>3. Rank(m) \in Nat /\ Rank(n) \in Nat
    BY <1>1, <1>2
  <2> HIDE DEF Rank
  <2> QED BY <2>1, <2>2, <2>3
<1>4. ASSUME NEW m \in S, NEW n \in S, Rank(m) = Rank(n) PROVE m = n
  <2> HIDE DEF Rank
  <2>1. Rank(m) \in 0 .. (c - 1)
    BY <1>2
  <2>2. ~(Rank(m) < Rank(n)) /\ ~(Rank(n) < Rank(m))
    BY <1>1, <1>4, <2>1
  <2> QED BY <1>3, <2>2
<1> DEFINE f == [m \in S |-> Rank(m)]
<1>5. f \in Injection(S, 0 .. (c - 1))
  <2> HIDE DEF Rank, c
  <2> QED BY <1>2, <1>4 DEF Injection, IsInjective
<1>6. IsFiniteSet(0 .. (c - 1)) /\ Cardinality(0 .. (c - 1)) = c
  <2> HIDE DEF c
  <2> QED BY <1>1, FS_Interval
<1>7. f \in Surjection(S, 0 .. (c - 1))
  <2> HIDE DEF f
  <2> QED BY <1>5, <1>6, FS_Injection
<1>8. ASSUME NEW i \in 1 .. c PROVE \E m \in S : Rank(m) = i - 1
  <2> HIDE DEF Rank, c
  <2>1. i - 1 \in 0 .. (c - 1)
    BY <1>1
  <2> QED BY <1>7, <2>1 DEF Surjection
<1> QED BY <1>2, <1>4, <1>8
=============================================================================
