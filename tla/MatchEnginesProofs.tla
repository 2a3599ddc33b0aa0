------------------------- MODULE MatchEnginesProofs -------------------------
(***************************************************************************)
(* Proofs about MatchEngines, for any dictionaries.  The inductive         *)
(* invariant of building is BuildInv; before it come facts about sorting,  *)
(* about the suffixes and prefixes of words, and about walks over failure  *)
(* links.  The inductive invariant of a query is EngineInv; before it come *)
(* the output chains, the rows of the DFA, a step of each engine, and what *)
(* one rune adds to each kind of answer.                                   *)
(***************************************************************************)
EXTENDS MatchEngines, SearchOrderProofs, SequenceTheorems

(* Sorting a finite set of numbers gives each once, in order. *)
LEMMA LessSorts ==
  ASSUME NEW S \in SUBSET Int, IsFiniteSet(S)
  PROVE  /\ Sorted(S) \in Seq(S) /\ DOMAIN Sorted(S) = 1 .. Cardinality(S) /\ Range(Sorted(S)) = S
         /\ \A i, j \in DOMAIN Sorted(S) : i # j => Sorted(S)[i] # Sorted(S)[j]
         /\ Len(Sorted(S)) = Cardinality(S)
<1> DEFINE R == {p \in S \X S : p[1] < p[2]}
           Rank(m) == Cardinality({n \in S : n < m})
           c == Cardinality(S)
           f == [i \in 1 .. c |-> CHOOSE m \in S : Rank(m) = i - 1]
<1>1. \A m, n \in S : <<m, n>> \in R <=> m < n
  OBVIOUS
<1>3. /\ \A m \in S : <<m, m>> \notin R
      /\ \A m, n \in S : m # n => <<m, n>> \in R \/ <<n, m>> \in R
      /\ \A k, m, n \in S : <<k, m>> \in R /\ <<m, n>> \in R => <<k, n>> \in R
  <2> HIDE DEF R
  <2> QED BY <1>1
<1>4. c \in Nat
  BY FS_CardinalityType
<1>6. /\ \A m \in S : Rank(m) \in 0 .. (c - 1)
      /\ \A i \in 1 .. c : \E m \in S : Rank(m) = i - 1
      /\ \A m, n \in S : Rank(m) = Rank(n) => m = n
  <2> DEFINE Rank2(m) == Cardinality({n \in S : <<n, m>> \in R})
  <2>1. /\ \A m \in S : Rank2(m) \in 0 .. (c - 1)
        /\ \A i \in 1 .. c : \E m \in S : Rank2(m) = i - 1
        /\ \A m, n \in S : Rank2(m) = Rank2(n) => m = n
    <3> HIDE DEF R
    <3> QED BY <1>3, Places
  <2>2. ASSUME NEW m \in S PROVE Rank(m) = Rank2(m)
    <3>1. {n \in S : n < m} = {n \in S : <<n, m>> \in R}
      BY <1>1
    <3> QED BY <3>1
  <2> HIDE DEF Rank, Rank2
  <2> QED BY <2>1, <2>2
<1>7. Sorted(S) = f
  BY DEF Sorted, InOrder, Less
<1> HIDE DEF Rank, R, c
<1>8. \A i \in 1 .. c : f[i] \in S /\ Rank(f[i]) = i - 1
  BY <1>6
<1>9. DOMAIN f = 1 .. c /\ f \in [1 .. c -> S]
  BY <1>8
<1> HIDE DEF f
<1>10. \A i, j \in 1 .. c : i # j => f[i] # f[j]
  BY <1>4, <1>8, <1>9
<1>11. ASSUME NEW m \in S PROVE m \in Range(f)
  <2>1. Rank(m) + 1 \in 1 .. c
    BY <1>4, <1>6
  <2>2. Rank(f[Rank(m) + 1]) = Rank(m) /\ f[Rank(m) + 1] \in S
    BY <1>4, <1>6, <1>8, <2>1
  <2> QED BY <1>6, <1>9, <2>1, <2>2 DEF Range
<1>12. Range(f) = S
  BY <1>9, <1>11 DEF Range
<1>13. f \in Seq(S) /\ Len(f) = c
  BY <1>4, <1>9
<1> QED BY <1>7, <1>9, <1>10, <1>12, <1>13 DEF c

-----------------------------------------------------------------------------
(* Words: what a suffix and a prefix are, rune by rune. *)
LEMMA SuffixMeaning ==
  ASSUME NEW s \in Seq(Nat), NEW t \in Seq(Nat)
  PROVE  IsSuffix(s, t) <=> /\ Len(s) <= Len(t)
                            /\ \A i \in 1 .. Len(s) : s[i] = t[Len(t) - Len(s) + i]
<1> DEFINE r == Reverse(s)
           q == Reverse(t)
<1>1. Len(s) \in Nat /\ Len(t) \in Nat
  OBVIOUS
<1>2. /\ r \in Seq(Nat) /\ Len(r) = Len(s) /\ \A i \in 1 .. Len(s) : r[i] = s[Len(s) - i + 1]
      /\ q \in Seq(Nat) /\ Len(q) = Len(t) /\ \A i \in 1 .. Len(t) : q[i] = t[Len(t) - i + 1]
  BY <1>1 DEF Reverse
<1> HIDE DEF r, q
<1>3. IsSuffix(s, t) <=> Len(s) <= Len(t) /\ \A i \in 1 .. Len(s) : r[i] = q[i]
  <2>1. IsSuffix(s, t) <=> IsPrefix(r, q)
    BY DEF IsSuffix, r, q
  <2>2. IsPrefix(r, q) <=> Len(r) <= Len(q) /\ SubSeq(r, 1, Len(r)) = SubSeq(q, 1, Len(r))
    BY DEF IsPrefix
  <2>3. ASSUME Len(r) <= Len(q) PROVE SubSeq(r, 1, Len(r)) = SubSeq(q, 1, Len(r)) <=> \A i \in 1 .. Len(r) : r[i] = q[i]
    <3> DEFINE u == SubSeq(r, 1, Len(r))
               v == SubSeq(q, 1, Len(r))
    <3>0. r \in Seq(Nat) /\ q \in Seq(Nat) /\ Len(r) \in Nat
      BY <1>2
    <3>1. /\ u \in Seq(Nat) /\ Len(u) = Len(r) /\ \A i \in 1 .. Len(r) : u[i] = r[i]
          /\ v \in Seq(Nat) /\ Len(v) = Len(r) /\ \A i \in 1 .. Len(r) : v[i] = q[i]
      BY <2>3, <3>0
    <3> HIDE DEF u, v
    <3>2. (\A i \in 1 .. Len(u) : u[i] = v[i]) => u = v
      BY <3>1, SeqEqual
    <3> QED BY <3>1, <3>2 DEF u, v
  <2>4. Len(r) = Len(s) /\ Len(q) = Len(t)
    BY <1>2
  <2> QED BY <2>1, <2>2, <2>3, <2>4
<1>4. ASSUME Len(s) <= Len(t), \A i \in 1 .. Len(s) : r[i] = q[i], NEW i \in 1 .. Len(s)
      PROVE  s[i] = t[Len(t) - Len(s) + i]
  <2>1. Len(s) - i + 1 \in 1 .. Len(s) /\ Len(s) - i + 1 \in 1 .. Len(t)
    BY <1>1, <1>4
  <2>2. r[Len(s) - i + 1] = s[Len(s) - (Len(s) - i + 1) + 1] /\ q[Len(s) - i + 1] = t[Len(t) - (Len(s) - i + 1) + 1]
    BY <1>2, <2>1
  <2>3. Len(s) - (Len(s) - i + 1) + 1 = i /\ Len(t) - (Len(s) - i + 1) + 1 = Len(t) - Len(s) + i
    BY <1>1
  <2> QED BY <1>4, <2>1, <2>2, <2>3
<1>5. ASSUME Len(s) <= Len(t), \A i \in 1 .. Len(s) : s[i] = t[Len(t) - Len(s) + i], NEW i \in 1 .. Len(s)
      PROVE  r[i] = q[i]
  <2>1. Len(s) - i + 1 \in 1 .. Len(s) /\ i \in 1 .. Len(t)
    BY <1>1, <1>5
  <2>2. s[Len(s) - i + 1] = t[Len(t) - Len(s) + (Len(s) - i + 1)]
    BY <1>5, <2>1
  <2>3. Len(t) - Len(s) + (Len(s) - i + 1) = Len(t) - i + 1
    BY <1>1
  <2> QED BY <1>2, <2>1, <2>2, <2>3
<1> QED BY <1>3, <1>4, <1>5

(* The same for prefixes. *)
LEMMA PrefixMeaning ==
  ASSUME NEW s \in Seq(Nat), NEW t \in Seq(Nat)
  PROVE  IsPrefix(s, t) <=> Len(s) <= Len(t) /\ \A i \in 1 .. Len(s) : s[i] = t[i]
<1>1. Len(s) \in Nat /\ Len(t) \in Nat
  OBVIOUS
<1>2. ASSUME Len(s) <= Len(t) PROVE SubSeq(s, 1, Len(s)) = SubSeq(t, 1, Len(s)) <=> \A i \in 1 .. Len(s) : s[i] = t[i]
  <2> DEFINE u == SubSeq(s, 1, Len(s))
             v == SubSeq(t, 1, Len(s))
  <2>1. /\ u \in Seq(Nat) /\ Len(u) = Len(s) /\ \A i \in 1 .. Len(s) : u[i] = s[i]
        /\ v \in Seq(Nat) /\ Len(v) = Len(s) /\ \A i \in 1 .. Len(s) : v[i] = t[i]
    BY <1>1, <1>2
  <2> HIDE DEF u, v
  <2>2. (\A i \in 1 .. Len(u) : u[i] = v[i]) => u = v
    BY <2>1, SeqEqual
  <2> QED BY <2>1, <2>2 DEF u, v
<1> QED BY <1>2 DEF IsPrefix

(* A word ends in itself and in the empty word; no other suffix is as long. *)
LEMMA SuffixBasics ==
  ASSUME NEW s \in Seq(Nat), NEW t \in Seq(Nat)
  PROVE  /\ IsSuffix(s, s) /\ IsSuffix(<<>>, s)
         /\ IsSuffix(s, t) => Len(s) <= Len(t) /\ (s # t => Len(s) < Len(t))
<1>1. Len(s) \in Nat /\ Len(t) \in Nat /\ <<>> \in Seq(Nat) /\ Len(<<>>) = 0
  OBVIOUS
<1>2. IsSuffix(s, s)
  <2>1. \A i \in 1 .. Len(s) : s[i] = s[Len(s) - Len(s) + i]
    BY <1>1
  <2> QED BY <1>1, <2>1, SuffixMeaning
<1>3. IsSuffix(<<>>, s)
  <2> DEFINE e == <<>>
  <2>1. e \in Seq(Nat) /\ Len(e) = 0
    BY <1>1
  <2> HIDE DEF e
  <2>2. Len(e) <= Len(s) /\ \A i \in 1 .. Len(e) : e[i] = s[Len(s) - Len(e) + i]
    BY <1>1, <2>1
  <2> QED BY <2>1, <2>2, SuffixMeaning DEF e
<1>4. ASSUME IsSuffix(s, t) PROVE Len(s) <= Len(t) /\ (Len(s) = Len(t) => s = t)
  <2>1. Len(s) <= Len(t) /\ \A i \in 1 .. Len(s) : s[i] = t[Len(t) - Len(s) + i]
    BY <1>4, SuffixMeaning
  <2>2. ASSUME Len(s) = Len(t) PROVE \A i \in 1 .. Len(s) : s[i] = t[i]
    BY <1>1, <2>1, <2>2
  <2>3. ASSUME Len(s) = Len(t) PROVE s = t
    BY <2>2, <2>3, SeqEqual
  <2> QED BY <2>1, <2>3
<1> QED BY <1>1, <1>2, <1>3, <1>4

(* A suffix of a suffix is one. *)
LEMMA SuffixOfSuffix ==
  ASSUME NEW a \in Seq(Nat), NEW b \in Seq(Nat), NEW c \in Seq(Nat), IsSuffix(a, b), IsSuffix(b, c)
  PROVE  IsSuffix(a, c)
<1>1. Len(a) \in Nat /\ Len(b) \in Nat /\ Len(c) \in Nat
  OBVIOUS
<1>2. /\ Len(a) <= Len(b) /\ \A i \in 1 .. Len(a) : a[i] = b[Len(b) - Len(a) + i]
      /\ Len(b) <= Len(c) /\ \A i \in 1 .. Len(b) : b[i] = c[Len(c) - Len(b) + i]
  BY SuffixMeaning
<1>3. ASSUME NEW i \in 1 .. Len(a) PROVE a[i] = c[Len(c) - Len(a) + i]
  <2>1. Len(b) - Len(a) + i \in 1 .. Len(b)
    BY <1>1, <1>2
  <2>2. b[Len(b) - Len(a) + i] = c[Len(c) - Len(b) + (Len(b) - Len(a) + i)]
    BY <1>2, <2>1
  <2>3. Len(c) - Len(b) + (Len(b) - Len(a) + i) = Len(c) - Len(a) + i
    BY <1>1
  <2> QED BY <1>2, <2>2, <2>3
<1> QED BY <1>1, <1>2, <1>3, SuffixMeaning

(* Of two suffixes of a word the shorter one is a suffix of the other. *)
LEMMA SuffixNested ==
  ASSUME NEW a \in Seq(Nat), NEW b \in Seq(Nat), NEW c \in Seq(Nat),
         IsSuffix(a, c), IsSuffix(b, c), Len(a) <= Len(b)
  PROVE  IsSuffix(a, b)
<1>1. Len(a) \in Nat /\ Len(b) \in Nat /\ Len(c) \in Nat
  OBVIOUS
<1>2. /\ Len(a) <= Len(c) /\ \A i \in 1 .. Len(a) : a[i] = c[Len(c) - Len(a) + i]
      /\ Len(b) <= Len(c) /\ \A i \in 1 .. Len(b) : b[i] = c[Len(c) - Len(b) + i]
  BY SuffixMeaning
<1>3. ASSUME NEW i \in 1 .. Len(a) PROVE a[i] = b[Len(b) - Len(a) + i]
  <2>1. Len(b) - Len(a) + i \in 1 .. Len(b)
    BY <1>1
  <2>2. b[Len(b) - Len(a) + i] = c[Len(c) - Len(b) + (Len(b) - Len(a) + i)]
    BY <1>2, <2>1
  <2>3. Len(c) - Len(b) + (Len(b) - Len(a) + i) = Len(c) - Len(a) + i
    BY <1>1
  <2> QED BY <1>2, <2>2, <2>3
<1> QED BY <1>3, SuffixMeaning

(* A word and its last rune. *)
LEMMA LastRune ==
  /\ \A s \in Seq(Nat), c \in Nat :
       /\ Append(s, c) \in Seq(Nat) /\ Append(s, c) # <<>> /\ Len(Append(s, c)) = Len(s) + 1
       /\ Front(Append(s, c)) = s /\ Last(Append(s, c)) = c
       /\ Append(s, c)[Len(s) + 1] = c /\ \A i \in 1 .. Len(s) : Append(s, c)[i] = s[i]
  /\ \A n \in Seq(Nat) : n # <<>> =>
       /\ Front(n) \in Seq(Nat) /\ Last(n) \in Nat /\ Len(Front(n)) = Len(n) - 1 /\ Len(n) > 0
       /\ n = Append(Front(n), Last(n))
<1>1. ASSUME NEW s \in Seq(Nat), NEW c \in Nat
      PROVE  /\ Append(s, c) \in Seq(Nat) /\ Append(s, c) # <<>> /\ Len(Append(s, c)) = Len(s) + 1
             /\ Front(Append(s, c)) = s /\ Last(Append(s, c)) = c
             /\ Append(s, c)[Len(s) + 1] = c /\ \A i \in 1 .. Len(s) : Append(s, c)[i] = s[i]
  <2> DEFINE a == Append(s, c)
  <2>1. a \in Seq(Nat) /\ a # <<>> /\ Len(a) = Len(s) + 1 /\ a[Len(s) + 1] = c /\ \A i \in 1 .. Len(s) : a[i] = s[i]
    BY AppendProperties
  <2> HIDE DEF a
  <2>2. Front(a) = SubSeq(a, 1, Len(s))
    BY <2>1 DEF Front
  <2>3. SubSeq(a, 1, Len(s)) = s
    <3> DEFINE u == SubSeq(a, 1, Len(s))
    <3>1. u \in Seq(Nat) /\ Len(u) = Len(s) /\ \A i \in 1 .. Len(s) : u[i] = a[i]
      BY <2>1
    <3>2. \A i \in 1 .. Len(u) : u[i] = s[i]
      BY <2>1, <3>1
    <3> HIDE DEF u
    <3> QED BY <3>1, <3>2, SeqEqual DEF u
  <2>4. Last(a) = c
    BY <2>1 DEF Last
  <2> QED BY <2>1, <2>2, <2>3, <2>4 DEF a
<1>2. ASSUME NEW n \in Seq(Nat), n # <<>>
      PROVE  /\ Front(n) \in Seq(Nat) /\ Last(n) \in Nat /\ Len(Front(n)) = Len(n) - 1 /\ Len(n) > 0
             /\ n = Append(Front(n), Last(n))
  <2>1. PICK s \in Seq(Nat), c \in Nat : n = Append(s, c)
    BY <1>2, SequenceEmptyOrAppend
  <2>2. Front(n) = s /\ Last(n) = c /\ Len(n) = Len(s) + 1
    BY <1>1, <2>1
  <2>3. Len(s) \in Nat
    OBVIOUS
  <2> QED BY <2>1, <2>2, <2>3
<1> QED BY <1>1, <1>2

(* One rune more on both sides. *)
LEMMA SuffixAppend ==
  ASSUME NEW a \in Seq(Nat), NEW b \in Seq(Nat), NEW c \in Nat, NEW d \in Nat
  PROVE  IsSuffix(Append(a, c), Append(b, d)) <=> IsSuffix(a, b) /\ c = d
<1> DEFINE u == Append(a, c)
           v == Append(b, d)
<1>1. /\ u \in Seq(Nat) /\ Len(u) = Len(a) + 1 /\ u[Len(a) + 1] = c /\ \A i \in 1 .. Len(a) : u[i] = a[i]
      /\ v \in Seq(Nat) /\ Len(v) = Len(b) + 1 /\ v[Len(b) + 1] = d /\ \A i \in 1 .. Len(b) : v[i] = b[i]
  BY LastRune
<1>2. Len(a) \in Nat /\ Len(b) \in Nat
  OBVIOUS
<1> HIDE DEF u, v
<1>3. ASSUME IsSuffix(u, v) PROVE IsSuffix(a, b) /\ c = d
  <2>1. Len(u) <= Len(v) /\ \A i \in 1 .. Len(u) : u[i] = v[Len(v) - Len(u) + i]
    BY <1>1, <1>3, SuffixMeaning
  <2>2. Len(v) - Len(u) = Len(b) - Len(a) /\ Len(a) <= Len(b)
    BY <1>1, <1>2, <2>1
  <2>3. ASSUME NEW i \in 1 .. Len(a) PROVE a[i] = b[Len(b) - Len(a) + i]
    <3>1. i \in 1 .. Len(u) /\ Len(b) - Len(a) + i \in 1 .. Len(b)
      BY <1>1, <1>2, <2>2
    <3> QED BY <1>1, <2>1, <2>2, <3>1
  <2>4. c = d
    <3>1. Len(a) + 1 \in 1 .. Len(u) /\ Len(v) - Len(u) + (Len(a) + 1) = Len(b) + 1
      BY <1>1, <1>2
    <3>2. u[Len(a) + 1] = v[Len(v) - Len(u) + (Len(a) + 1)]
      BY <2>1, <3>1
    <3>3. v[Len(v) - Len(u) + (Len(a) + 1)] = v[Len(b) + 1]
      BY <3>1
    <3> QED BY <1>1, <3>2, <3>3
  <2> QED BY <2>2, <2>3, <2>4, SuffixMeaning
<1>4. ASSUME IsSuffix(a, b), c = d PROVE IsSuffix(u, v)
  <2>1. Len(a) <= Len(b) /\ \A i \in 1 .. Len(a) : a[i] = b[Len(b) - Len(a) + i]
    BY <1>4, SuffixMeaning
  <2>2. Len(v) - Len(u) = Len(b) - Len(a) /\ Len(u) <= Len(v)
    BY <1>1, <1>2, <2>1
  <2>3. ASSUME NEW i \in 1 .. Len(u) PROVE u[i] = v[Len(v) - Len(u) + i]
    <3>1. CASE i \in 1 .. Len(a)
      <4>1. Len(b) - Len(a) + i \in 1 .. Len(b)
        BY <1>2, <2>1, <3>1
      <4> QED BY <1>1, <2>1, <2>2, <3>1, <4>1
    <3>2. CASE i = Len(a) + 1
      <4>1. Len(b) - Len(a) + (Len(a) + 1) = Len(b) + 1
        BY <1>2
      <4> QED BY <1>1, <1>4, <2>2, <3>2, <4>1
    <3> QED BY <1>1, <1>2, <3>1, <3>2
  <2> QED BY <1>1, <2>2, <2>3, SuffixMeaning
<1> QED BY <1>3, <1>4 DEF u, v

(* The suffixes of a word with one more rune. *)
LEMMA SuffixesOfAppend ==
  ASSUME NEW x \in Seq(Nat), NEW b \in Seq(Nat), NEW d \in Nat, IsSuffix(x, Append(b, d)), x # <<>>
  PROVE  x = Append(Front(x), d) /\ Front(x) \in Seq(Nat) /\ IsSuffix(Front(x), b) /\ Last(x) = d
<1>1. x = Append(Front(x), Last(x)) /\ Front(x) \in Seq(Nat) /\ Last(x) \in Nat
  BY LastRune
<1>2. IsSuffix(Append(Front(x), Last(x)), Append(b, d))
  BY <1>1
<1>3. IsSuffix(Front(x), b) /\ Last(x) = d
  BY <1>1, <1>2, SuffixAppend
<1> QED BY <1>1, <1>3

(* The prefixes of a word with one more rune. *)
LEMMA PrefixBasics ==
  ASSUME NEW a \in Seq(Nat), NEW b \in Seq(Nat)
  PROVE  /\ IsPrefix(a, a) /\ IsPrefix(<<>>, a)
         /\ IsPrefix(a, b) => Len(a) <= Len(b) /\ (a # b => Len(a) < Len(b))
         /\ \A c \in Seq(Nat) : IsPrefix(a, b) /\ IsPrefix(b, c) => IsPrefix(a, c)
         /\ \A c \in Nat : IsPrefix(a, Append(b, c)) <=> IsPrefix(a, b) \/ a = Append(b, c)
<1>1. Len(a) \in Nat /\ Len(b) \in Nat /\ <<>> \in Seq(Nat) /\ Len(<<>>) = 0
  OBVIOUS
<1>2. IsPrefix(a, a) /\ IsPrefix(<<>>, a)
  <2> DEFINE e == <<>>
  <2>1. e \in Seq(Nat) /\ Len(e) = 0
    BY <1>1
  <2> HIDE DEF e
  <2>2. Len(e) <= Len(a) /\ \A i \in 1 .. Len(e) : e[i] = a[i]
    BY <1>1, <2>1
  <2>3. IsPrefix(e, a)
    BY <2>1, <2>2, PrefixMeaning
  <2>4. IsPrefix(a, a)
    BY <1>1, PrefixMeaning
  <2> QED BY <2>3, <2>4 DEF e
<1>3. ASSUME IsPrefix(a, b) PROVE Len(a) <= Len(b) /\ (Len(a) = Len(b) => a = b)
  <2>1. Len(a) <= Len(b) /\ \A i \in 1 .. Len(a) : a[i] = b[i]
    BY <1>3, PrefixMeaning
  <2> QED BY <2>1, SeqEqual
<1>4. ASSUME NEW c \in Seq(Nat), IsPrefix(a, b), IsPrefix(b, c) PROVE IsPrefix(a, c)
  <2>1. /\ Len(a) <= Len(b) /\ \A i \in 1 .. Len(a) : a[i] = b[i]
        /\ Len(b) <= Len(c) /\ \A i \in 1 .. Len(b) : b[i] = c[i]
    BY <1>4, PrefixMeaning
  <2>2. \A i \in 1 .. Len(a) : i \in 1 .. Len(b)
    BY <1>1, <2>1
  <2>3. Len(a) <= Len(c) /\ Len(c) \in Nat
    BY <1>1, <2>1
  <2> QED BY <2>1, <2>2, <2>3, PrefixMeaning
<1>5. ASSUME NEW c \in Nat PROVE IsPrefix(a, Append(b, c)) <=> IsPrefix(a, b) \/ a = Append(b, c)
  <2> DEFINE v == Append(b, c)
  <2>1. v \in Seq(Nat) /\ Len(v) = Len(b) + 1 /\ v[Len(b) + 1] = c /\ \A i \in 1 .. Len(b) : v[i] = b[i]
    BY LastRune
  <2> HIDE DEF v
  <2>2. ASSUME IsPrefix(a, v) PROVE IsPrefix(a, b) \/ a = v
    <3>1. Len(a) <= Len(v) /\ \A i \in 1 .. Len(a) : a[i] = v[i]
      BY <2>1, <2>2, PrefixMeaning
    <3>2. CASE Len(a) = Len(v)
      BY <2>1, <3>1, <3>2, SeqEqual
    <3>3. CASE Len(a) <= Len(b)
      <4>1. \A i \in 1 .. Len(a) : a[i] = b[i]
        BY <1>1, <2>1, <3>1, <3>3
      <4> QED BY <3>3, <4>1, PrefixMeaning
    <3> QED BY <1>1, <2>1, <3>1, <3>2, <3>3
  <2>3. ASSUME IsPrefix(a, b) PROVE IsPrefix(a, v)
    <3>1. Len(a) <= Len(b) /\ \A i \in 1 .. Len(a) : a[i] = b[i]
      BY <2>3, PrefixMeaning
    <3>2. Len(a) <= Len(v) /\ \A i \in 1 .. Len(a) : a[i] = v[i]
      BY <1>1, <2>1, <3>1
    <3> QED BY <2>1, <3>2, PrefixMeaning
  <2>4. IsPrefix(v, v)
    BY <2>1, PrefixMeaning
  <2> QED BY <2>2, <2>3, <2>4 DEF v
<1> QED BY <1>1, <1>2, <1>3, <1>4, <1>5

(* Prefixes are what IsPrefix says. *)
LEMMA PrefixesMeaning ==
  ASSUME NEW kw \in Seq(Nat)
  PROVE  Prefixes(kw) = {p \in Seq(Nat) : IsPrefix(p, kw)}
<1>1. Len(kw) \in Nat
  OBVIOUS
<1>2. ASSUME NEW k \in 0 .. Len(kw) PROVE SubSeq(kw, 1, k) \in Seq(Nat) /\ IsPrefix(SubSeq(kw, 1, k), kw)
  <2> DEFINE u == SubSeq(kw, 1, k)
  <2>1. u \in Seq(Nat) /\ Len(u) = k /\ \A i \in 1 .. k : u[i] = kw[i]
    BY <1>1
  <2> HIDE DEF u
  <2>2. Len(u) <= Len(kw)
    BY <1>1, <2>1
  <2> QED BY <2>1, <2>2, PrefixMeaning DEF u
<1>3. ASSUME NEW p \in Seq(Nat), IsPrefix(p, kw) PROVE p \in Prefixes(kw)
  <2>1. Len(p) <= Len(kw) /\ \A i \in 1 .. Len(p) : p[i] = kw[i]
    BY <1>3, PrefixMeaning
  <2> DEFINE u == SubSeq(kw, 1, Len(p))
  <2>2. u \in Seq(Nat) /\ Len(u) = Len(p) /\ \A i \in 1 .. Len(p) : u[i] = kw[i]
    BY <1>1, <2>1
  <2> HIDE DEF u
  <2>3. u = p
    BY <2>1, <2>2, SeqEqual
  <2>4. Len(p) \in 0 .. Len(kw)
    BY <1>1, <2>1
  <2> QED BY <2>3, <2>4 DEF u, Prefixes
<1> QED BY <1>2, <1>3 DEF Prefixes

-----------------------------------------------------------------------------
(* The trie. *)

(* The values of a function on a finite set are finite in number. *)
LEMMA ImageFinite ==
  ASSUME NEW S, IsFiniteSet(S), NEW f, DOMAIN f = S
  PROVE  IsFiniteSet(Range(f))
<1> DEFINE g == [x \in S |-> f[x]]
<1>2. g \in Surjection(S, Range(f))
  BY DEF Surjection, Range
<1> QED BY <1>2, FS_Surjection

(* The keywords are words, finite in number, with finitely many runes. *)
LEMMA DictFacts ==
  ASSUME TrieInv
  PROVE  /\ dict \in SUBSET Seq(Nat) /\ IsFiniteSet(dict)
         /\ Runes \in SUBSET Nat /\ IsFiniteSet(Runes)
<1>1. dict \in SUBSET Seq(Nat) /\ IsFiniteSet(dict)
  BY EngineConstants DEF TrieInv
<1>2. ASSUME NEW kw \in dict PROVE IsFiniteSet(Range(kw)) /\ Range(kw) \subseteq Nat
  <2>1. kw \in Seq(Nat) /\ DOMAIN kw = 1 .. Len(kw) /\ Len(kw) \in Nat
    BY <1>1
  <2>2. IsFiniteSet(DOMAIN kw)
    BY <2>1, FS_Interval
  <2> QED BY <2>1, <2>2, ImageFinite, RangeOfSeq
<1> DEFINE f == [kw \in dict |-> Range(kw)]
<1>3. IsFiniteSet(Range(f))
  <2>1. DOMAIN f = dict
    OBVIOUS
  <2> HIDE DEF f
  <2> QED BY <1>1, <2>1, ImageFinite
<1>4. Range(f) = {Range(kw) : kw \in dict}
  BY DEF Range
<1>5. IsFiniteSet(UNION {Range(kw) : kw \in dict})
  BY <1>2, <1>3, <1>4, FS_UNION
<1> QED BY <1>1, <1>2, <1>5 DEF Runes

(* The root is the empty word. *)
LEMMA RootFacts ==
  /\ Root \in Seq(Nat) /\ Len(Root) = 0
  /\ \A n \in Seq(Nat) : n # Root => Len(n) > 0
  /\ \A n \in Seq(Nat) : IsSuffix(Root, n) /\ IsPrefix(Root, n)
BY SuffixBasics, PrefixBasics DEF Root

(* The nodes are finitely many words, with their prefixes. *)
LEMMA NodeFacts ==
  ASSUME TrieInv
  PROVE  /\ Root \in nodes /\ nodes \in SUBSET Seq(Nat) /\ IsFiniteSet(nodes)
         /\ \A n \in nodes : \A p \in Seq(Nat) : IsPrefix(p, n) => p \in nodes
         /\ \A n \in nodes : n # Root =>
              /\ Front(n) \in nodes /\ Last(n) \in Runes /\ n = Append(Front(n), Last(n))
              /\ Len(n) > 0 /\ Len(Front(n)) = Len(n) - 1
         /\ \A kw \in dict \ todo : kw \in nodes
<1>1. dict \in SUBSET Seq(Nat) /\ IsFiniteSet(dict)
  BY DictFacts
<1>2. nodes = {Root} \cup UNION {Prefixes(kw) : kw \in dict \ todo}
  BY DEF TrieInv
<1>3. \A n : n \in nodes <=> n = Root \/ (n \in Seq(Nat) /\ \E kw \in dict \ todo : IsPrefix(n, kw))
  <2>1. \A kw \in dict : Prefixes(kw) = {p \in Seq(Nat) : IsPrefix(p, kw)}
    BY <1>1, PrefixesMeaning
  <2> QED BY <1>2, <2>1
<1>4. Root \in nodes /\ nodes \in SUBSET Seq(Nat)
  BY <1>3, RootFacts
<1>5. IsFiniteSet(nodes)
  <2>1. ASSUME NEW kw \in dict \ todo PROVE IsFiniteSet(Prefixes(kw))
    <3>1. Len(kw) \in Nat
      BY <1>1
    <3> DEFINE f == [k \in 0 .. Len(kw) |-> SubSeq(kw, 1, k)]
    <3>2. Range(f) = Prefixes(kw) /\ DOMAIN f = 0 .. Len(kw)
      BY DEF Range, Prefixes
    <3> HIDE DEF f
    <3>3. IsFiniteSet(0 .. Len(kw))
      BY <3>1, FS_Interval
    <3> QED BY <3>2, <3>3, ImageFinite
  <2> DEFINE g == [kw \in dict \ todo |-> Prefixes(kw)]
  <2>2. Range(g) = {Prefixes(kw) : kw \in dict \ todo} /\ DOMAIN g = dict \ todo
    BY DEF Range
  <2>3. IsFiniteSet(dict \ todo)
    BY <1>1, FS_Difference
  <2>4. IsFiniteSet(Range(g))
    <3> HIDE DEF g
    <3> QED BY <2>2, <2>3, ImageFinite
  <2>5. IsFiniteSet(UNION {Prefixes(kw) : kw \in dict \ todo})
    BY <2>1, <2>2, <2>4, FS_UNION
  <2> QED BY <1>2, <2>5, FS_Singleton, FS_Union
<1>6. ASSUME NEW n \in nodes, NEW p \in Seq(Nat), IsPrefix(p, n) PROVE p \in nodes
  <2>1. CASE n = Root
    <3>1. Len(p) <= Len(n) /\ Len(n) = 0 /\ Len(p) \in Nat
      BY <1>4, <1>6, <2>1, PrefixBasics, RootFacts
    <3> QED BY <1>4, <3>1, RootFacts
  <2>2. CASE n # Root
    <3>1. PICK kw \in dict \ todo : IsPrefix(n, kw)
      BY <1>3, <2>2
    <3>2. IsPrefix(p, kw)
      BY <1>1, <1>4, <1>6, <3>1, PrefixBasics
    <3> QED BY <1>3, <3>2
  <2> QED BY <2>1, <2>2
<1>7. ASSUME NEW n \in nodes, n # Root
      PROVE  /\ Front(n) \in nodes /\ Last(n) \in Runes /\ n = Append(Front(n), Last(n))
             /\ Len(n) > 0 /\ Len(Front(n)) = Len(n) - 1
  <2>1. /\ n \in Seq(Nat) /\ Front(n) \in Seq(Nat) /\ Last(n) \in Nat /\ n = Append(Front(n), Last(n))
        /\ Len(n) > 0 /\ Len(Front(n)) = Len(n) - 1
    BY <1>4, <1>7, LastRune DEF Root
  <2>2. IsPrefix(Front(n), n)
    <3>1. IsPrefix(Front(n), Front(n)) /\ (IsPrefix(Front(n), Append(Front(n), Last(n))) <=> IsPrefix(Front(n), Front(n)) \/ Front(n) = Append(Front(n), Last(n)))
      BY <2>1, PrefixBasics
    <3> QED BY <2>1, <3>1
  <2>3. PICK kw \in dict \ todo : IsPrefix(n, kw)
    BY <1>3, <1>7
  <2>4. kw \in Seq(Nat) /\ Len(n) <= Len(kw) /\ Len(n) \in 1 .. Len(n) /\ \A i \in 1 .. Len(n) : n[i] = kw[i]
    BY <1>1, <2>1, <2>3, PrefixMeaning
  <2>5. Len(n) \in DOMAIN kw /\ Last(n) = kw[Len(n)]
    BY <2>1, <2>4 DEF Last
  <2>6. Last(n) \in Range(kw)
    BY <2>5 DEF Range
  <2> QED BY <1>6, <2>1, <2>2, <2>6 DEF Runes
<1>8. ASSUME NEW kw \in dict \ todo PROVE kw \in nodes
  BY <1>1, <1>3, PrefixBasics
<1> QED BY <1>4, <1>5, <1>6, <1>7, <1>8

(* The children of a node are the nodes one rune longer. *)
LEMMA ChildFacts ==
  ASSUME TrieInv, NEW s \in nodes
  PROVE  /\ ChildNodes(s) = {n \in nodes : n # Root /\ Front(n) = s}
         /\ IsFiniteSet(ChildNodes(s)) /\ Children(s) \in SUBSET Nat /\ IsFiniteSet(Children(s))
         /\ \A ch \in Nat : ch \in Children(s) <=> Append(s, ch) \in nodes
         /\ \A n \in ChildNodes(s) : n \in nodes /\ n # Root /\ Front(n) = s /\ Len(n) = Len(s) + 1 /\ Last(n) \in Children(s)
                                     /\ n = Append(s, Last(n))
         /\ \A ch \in Children(s) : Append(s, ch) \in ChildNodes(s) /\ Last(Append(s, ch)) = ch
<1>1. /\ s \in Seq(Nat) /\ nodes \in SUBSET Seq(Nat) /\ IsFiniteSet(nodes) /\ Runes \in SUBSET Nat /\ IsFiniteSet(Runes)
      /\ \A n \in nodes : n # Root =>
              /\ Front(n) \in nodes /\ Last(n) \in Runes /\ n = Append(Front(n), Last(n))
              /\ Len(n) > 0 /\ Len(Front(n)) = Len(n) - 1
  BY NodeFacts, DictFacts
<1>2. \A ch \in Nat : /\ Append(s, ch) # Root /\ Front(Append(s, ch)) = s /\ Last(Append(s, ch)) = ch
                      /\ Len(Append(s, ch)) = Len(s) + 1
  BY <1>1, LastRune DEF Root
<1>3. \A ch \in Nat : ch \in Children(s) <=> Append(s, ch) \in nodes
  BY <1>1, <1>2 DEF Children
<1>4. Children(s) \in SUBSET Nat /\ Children(s) \in SUBSET Runes
  BY <1>1 DEF Children
<1>5. ChildNodes(s) = {n \in nodes : n # Root /\ Front(n) = s}
  <2>1. ASSUME NEW n \in ChildNodes(s) PROVE n \in nodes /\ n # Root /\ Front(n) = s
    <3>1. PICK ch \in Children(s) : n = Append(s, ch)
      BY <2>1 DEF ChildNodes
    <3> QED BY <1>2, <1>3, <1>4, <3>1
  <2>2. ASSUME NEW n \in nodes, n # Root, Front(n) = s PROVE n \in ChildNodes(s)
    <3>1. n = Append(s, Last(n)) /\ Last(n) \in Nat
      BY <1>1, <2>2
    <3>2. Last(n) \in Children(s)
      BY <1>3, <3>1
    <3> QED BY <3>1, <3>2 DEF ChildNodes
  <2> QED BY <2>1, <2>2
<1>6. IsFiniteSet(ChildNodes(s)) /\ IsFiniteSet(Children(s))
  <2>1. ChildNodes(s) \in SUBSET nodes
    BY <1>5
  <2> QED BY <1>1, <1>4, <2>1, FS_Subset
<1>7. ASSUME NEW n \in ChildNodes(s)
      PROVE  /\ n \in nodes /\ n # Root /\ Front(n) = s /\ Len(n) = Len(s) + 1 /\ Last(n) \in Children(s)
             /\ n = Append(s, Last(n))
  <2>1. n \in nodes /\ n # Root /\ Front(n) = s
    BY <1>5
  <2>2. n = Append(s, Last(n)) /\ Last(n) \in Nat
    BY <1>1, <2>1
  <2> QED BY <1>2, <1>3, <2>1, <2>2
<1>8. \A ch \in Children(s) : Append(s, ch) \in ChildNodes(s) /\ Last(Append(s, ch)) = ch
  BY <1>2, <1>4 DEF ChildNodes
<1> QED BY <1>3, <1>4, <1>5, <1>6, <1>7, <1>8

(* Below a strict prefix there is a child on the way down. *)
LEMMA StepDown ==
  ASSUME TrieInv, NEW s \in nodes, NEW n \in nodes, IsStrictPrefix(s, n)
  PROVE  \E m \in ChildNodes(s) : IsPrefix(m, n)
<1>1. /\ s \in Seq(Nat) /\ n \in Seq(Nat) /\ IsPrefix(s, n) /\ Len(s) < Len(n) /\ Len(s) \in Nat /\ Len(n) \in Nat
      /\ \A i \in 1 .. Len(s) : s[i] = n[i]
  <2>1. s \in Seq(Nat) /\ n \in Seq(Nat) /\ IsPrefix(s, n) /\ s # n
    BY NodeFacts DEF IsStrictPrefix
  <2> QED BY <2>1, PrefixBasics, PrefixMeaning
<1> DEFINE c == n[Len(s) + 1]
           m == Append(s, c)
<1>2. c \in Nat
  BY <1>1
<1> HIDE DEF c
<1>3. m \in Seq(Nat) /\ Len(m) = Len(s) + 1 /\ m[Len(s) + 1] = c /\ \A i \in 1 .. Len(s) : m[i] = s[i]
  BY <1>1, <1>2, LastRune
<1> HIDE DEF m
<1>4. ASSUME NEW i \in 1 .. Len(m) PROVE m[i] = n[i]
  <2>1. i \in 1 .. Len(s) \/ i = Len(s) + 1
    BY <1>1, <1>3
  <2> QED BY <1>1, <1>3, <2>1 DEF c
<1>5. IsPrefix(m, n)
  <2>1. Len(m) <= Len(n) /\ n \in Seq(Nat) /\ m \in Seq(Nat)
    BY <1>1, <1>3
  <2> QED BY <1>4, <2>1, PrefixMeaning
<1>6. m \in nodes
  <2>1. \A k \in nodes : \A p \in Seq(Nat) : IsPrefix(p, k) => p \in nodes
    BY NodeFacts
  <2> QED BY <1>3, <1>5, <2>1
<1>7. m \in ChildNodes(s)
  BY <1>1, <1>2, <1>6, ChildFacts DEF m
<1> QED BY <1>5, <1>7

\* No node of a set is above another.
Incomparable(P) == P \in SUBSET nodes /\ \A a, b \in P : a # b => ~IsPrefix(a, b)
\* A sequence of the children of a node, each once.
ListsChildren(ord, s) ==
    /\ ord \in Seq(ChildNodes(s)) /\ Range(ord) = ChildNodes(s)
    /\ \A i, j \in DOMAIN ord : i # j => ord[i] # ord[j]
\* A queue without its head, and then another sequence.
Shifted(Q, ord, Q2) ==
    /\ 1 \in DOMAIN Q /\ DOMAIN Q = 1 .. Len(Q) /\ Len(Q) \in Nat /\ Len(ord) \in Nat
    /\ DOMAIN Q2 = 1 .. (Len(Q) - 1 + Len(ord))
    /\ \A i \in DOMAIN Q2 :
         \/ i + 1 \in DOMAIN Q /\ i + 1 > 1 /\ i < Len(Q) /\ Q2[i] = Q[i + 1]
         \/ i - Len(Q) + 1 \in DOMAIN ord /\ i >= Len(Q) /\ Q2[i] = ord[i - Len(Q) + 1]
    /\ \A i \in DOMAIN Q : i > 1 => i - 1 \in DOMAIN Q2 /\ Q2[i - 1] = Q[i]
    /\ \A i \in DOMAIN ord : i + Len(Q) - 1 \in DOMAIN Q2 /\ Q2[i + Len(Q) - 1] = ord[i]

(* Taking the head off a queue and putting words at its end. *)
LEMMA QueueSeq ==
  ASSUME NEW N, NEW Q \in Seq(N), Q # <<>>, NEW ord \in Seq(N), NEW Q2, Q2 = Tail(Q) \o ord
  PROVE  Head(Q) = Q[1] /\ Q2 \in Seq(N) /\ Tail(Q) \in Seq(N) /\ Shifted(Q, ord, Q2)
<1> DEFINE T == Tail(Q)
<1>1. T \in Seq(N) /\ Len(T) = Len(Q) - 1 /\ (\A i \in 1 .. Len(T) : T[i] = Q[i + 1]) /\ Len(Q) \in Nat \ {0} /\ Len(ord) \in Nat
      /\ DOMAIN Q = 1 .. Len(Q) /\ DOMAIN ord = 1 .. Len(ord) /\ Head(Q) = Q[1]
  BY HeadTailProperties, EmptySeq, LenProperties
<1> HIDE DEF T
<1>2. /\ Q2 \in Seq(N) /\ Len(Q2) = Len(Q) - 1 + Len(ord)
      /\ \A i \in 1 .. (Len(T) + Len(ord)) : Q2[i] = IF i <= Len(T) THEN T[i] ELSE ord[i - Len(T)]
  <2>1. Q2 = T \o ord
    BY DEF T
  <2> QED BY <1>1, <2>1, ConcatProperties
<1>3. DOMAIN Q2 = 1 .. (Len(Q) - 1 + Len(ord))
  BY <1>2, LenProperties
<1>4. ASSUME NEW i \in DOMAIN Q2
      PROVE  \/ i + 1 \in DOMAIN Q /\ i + 1 > 1 /\ i < Len(Q) /\ Q2[i] = Q[i + 1]
             \/ i - Len(Q) + 1 \in DOMAIN ord /\ i >= Len(Q) /\ Q2[i] = ord[i - Len(Q) + 1]
  <2>1. i - Len(T) = i - Len(Q) + 1 /\ i \in Nat
    BY <1>1, <1>3
  <2>2. CASE i <= Len(T)
    <3>1. Q2[i] = T[i] /\ T[i] = Q[i + 1]
      BY <1>1, <1>2, <1>3, <2>2
    <3> QED BY <1>1, <1>3, <2>2, <3>1
  <2>3. CASE ~(i <= Len(T))
    <3>1. Q2[i] = ord[i - Len(T)]
      BY <1>1, <1>2, <1>3, <2>3
    <3>2. i - Len(Q) + 1 \in DOMAIN ord /\ i >= Len(Q)
      BY <1>1, <1>3, <2>3
    <3> QED BY <2>1, <3>1, <3>2
  <2> QED BY <2>2, <2>3
<1>5. ASSUME NEW i \in DOMAIN Q, i > 1 PROVE i - 1 \in DOMAIN Q2 /\ Q2[i - 1] = Q[i]
  BY <1>1, <1>2, <1>3, <1>5
<1>6. ASSUME NEW i \in DOMAIN ord PROVE i + Len(Q) - 1 \in DOMAIN Q2 /\ Q2[i + Len(Q) - 1] = ord[i]
  <2>1. (i + Len(Q) - 1) - Len(T) = i /\ ~(i + Len(Q) - 1 <= Len(T))
    BY <1>1
  <2>2. i + Len(Q) - 1 \in DOMAIN Q2 /\ i + Len(Q) - 1 \in 1 .. (Len(T) + Len(ord))
    BY <1>1, <1>3
  <2>3. Q2[i + Len(Q) - 1] = ord[(i + Len(Q) - 1) - Len(T)]
    BY <1>2, <2>1, <2>2
  <2> QED BY <2>1, <2>2, <2>3
<1> QED BY <1>1, <1>2, <1>3, <1>4, <1>5, <1>6 DEF T, Shifted

(* An order of a finite set holds each element once. *)
LEMMA OrdersFacts ==
  ASSUME NEW S, IsFiniteSet(S), NEW ord \in Orders(S)
  PROVE  ord \in Seq(S) /\ Range(ord) = S /\ \A i, j \in DOMAIN ord : i # j => ord[i] # ord[j]
<1> DEFINE c == Cardinality(S)
<1>1. c \in Nat /\ IsFiniteSet(1 .. c) /\ Cardinality(1 .. c) = c
  BY FS_CardinalityType, FS_Interval
<1>2. ord \in [1 .. c -> S] /\ \A i, j \in 1 .. c : ord[i] = ord[j] => i = j
  BY DEF Orders, IsInjective
<1>3. ord \in Injection(1 .. c, S)
  BY <1>2 DEF Injection, IsInjective
<1>4. ord \in Surjection(1 .. c, S)
  BY <1>1, <1>3, FS_Injection
<1>5. Range(ord) = S
  BY <1>2, <1>4 DEF Surjection, Range
<1> QED BY <1>1, <1>2, <1>5

(* Replacing a node by its children keeps the nodes of a set apart, and frees
   just the children from waiting. *)
LEMMA Frontier ==
  ASSUME TrieInv, NEW P, Incomparable(P), NEW s \in P,
         NEW K, K = ChildNodes(s), NEW P2, P2 = (P \ {s}) \cup K
  PROVE  /\ Incomparable(P2)
         /\ P \cap K = {}
         /\ \A n \in nodes : (\E m \in P2 : IsStrictPrefix(m, n)) <=>
                             (\E m \in P : IsStrictPrefix(m, n)) /\ n \notin K
<1>0. P \in SUBSET nodes /\ \A a, b \in P : a # b => ~IsPrefix(a, b)
  BY DEF Incomparable
<1>1. nodes \in SUBSET Seq(Nat) /\ s \in nodes /\ s \in Seq(Nat)
  BY <1>0, NodeFacts
<1>2. \A k \in K : k \in nodes /\ k \in Seq(Nat) /\ Len(k) = Len(s) + 1 /\ Last(k) \in Nat /\ k = Append(s, Last(k))
  BY <1>1, ChildFacts
<1>3. \A a, b \in nodes : IsPrefix(a, b) => Len(a) <= Len(b) /\ (a # b => Len(a) < Len(b))
  BY <1>1, PrefixBasics
<1>4. \A a, b, c \in nodes : IsPrefix(a, b) /\ IsPrefix(b, c) => IsPrefix(a, c)
  BY <1>1, PrefixBasics
<1>5. ASSUME NEW a \in nodes, NEW k \in K PROVE IsPrefix(a, k) <=> IsPrefix(a, s) \/ a = k
  <2>1. a \in Seq(Nat) /\ s \in Seq(Nat) /\ Last(k) \in Nat /\ k = Append(s, Last(k))
    BY <1>1, <1>2
  <2>2. \A c \in Nat : IsPrefix(a, Append(s, c)) <=> IsPrefix(a, s) \/ a = Append(s, c)
    BY <2>1, PrefixBasics
  <2> QED BY <2>1, <2>2
<1>6. \A k \in K : IsPrefix(s, k) /\ s # k
  <2>1. IsPrefix(s, s) /\ Len(s) \in Nat
    BY <1>1, PrefixBasics
  <2> QED BY <1>1, <1>2, <1>5, <2>1
<1>7. \A a \in nodes : Len(a) \in Nat
  BY <1>1
<1>17. \A n \in nodes : IsStrictPrefix(s, n) => \E m \in K : IsPrefix(m, n)
  BY <1>1, StepDown
<1>18. \A m, n : IsStrictPrefix(m, n) <=> IsPrefix(m, n) /\ m # n
  BY DEF IsStrictPrefix
<1>8. P2 \in SUBSET nodes
  BY <1>0, <1>2
<1>9. P \cap K = {}
  BY <1>0, <1>1, <1>6
<1>10. ASSUME NEW a \in P2, NEW b \in P2, a # b PROVE ~IsPrefix(a, b)
  <2>1. CASE a \in P /\ b \in P
    BY <1>0, <1>10, <2>1
  <2>2. CASE a \in P \ {s} /\ b \in K
    BY <1>0, <1>9, <1>5, <2>2
  <2>3. CASE a \in K /\ b \in P \ {s}
    BY <1>0, <1>1, <1>2, <1>4, <1>6, <2>3
  <2>4. CASE a \in K /\ b \in K
    BY <1>0, <1>2, <1>3, <1>7, <1>10, <2>4
  <2> QED BY <2>1, <2>2, <2>3, <2>4
<1>11. ASSUME NEW n \in nodes, NEW m \in P2, IsStrictPrefix(m, n)
       PROVE  (\E x \in P : IsStrictPrefix(x, n)) /\ n \notin K
  <2>1. CASE m \in P \ {s}
    <3>1. n \notin K
      BY <1>0, <1>5, <1>11, <1>18, <2>1
    <3> QED BY <1>0, <1>11, <2>1, <3>1
  <2>2. CASE m \in K
    <3>1. IsPrefix(m, n) /\ m # n /\ m \in nodes
      BY <1>0, <1>2, <1>11, <1>18, <2>2
    <3>2. Len(m) < Len(n) /\ Len(s) < Len(n)
      BY <1>0, <1>1, <1>2, <1>3, <1>7, <2>2, <3>1
    <3>3. IsPrefix(s, n) /\ s # n
      BY <1>0, <1>1, <1>4, <1>6, <2>2, <3>1, <3>2, <1>7
    <3>4. n \notin K
      BY <1>0, <1>2, <1>7, <2>2, <3>2
    <3> QED BY <1>0, <1>18, <3>3, <3>4
  <2> QED BY <2>1, <2>2
<1>12. ASSUME NEW n \in nodes, n \notin K, NEW m \in P, IsStrictPrefix(m, n)
       PROVE  \E x \in P2 : IsStrictPrefix(x, n)
  <2>1. CASE m = s
    <3>1. PICK k \in K : IsPrefix(k, n)
      BY <1>0, <1>12, <1>17, <2>1
    <3> QED BY <1>0, <1>12, <1>18, <3>1
  <2>2. CASE m # s
    BY <1>0, <1>12, <2>2
  <2> QED BY <2>1, <2>2
<1> QED BY <1>8, <1>9, <1>10, <1>11, <1>12 DEF Incomparable

(* A breadth-first step, given what the queue looks like after it. *)
LEMMA QueueStepped ==
  ASSUME TrieInv, NEW Q, Apart(Q), NEW s, s = Q[1], NEW ord, ListsChildren(ord, s), NEW Q2, Q2 \in Seq(nodes), Shifted(Q, ord, Q2)
  PROVE  /\ Apart(Q2) /\ s \in nodes /\ ~Waits(s, Q)
         /\ Range(Q2) = (Range(Q) \ {s}) \cup ChildNodes(s)
         /\ \A n \in nodes : Waits(n, Q2) <=> Waits(n, Q) /\ n \notin ChildNodes(s)
         /\ Layered(Q) => Layered(Q2)
         /\ \A n \in nodes : Layered(Q) /\ Len(n) <= Len(s) => ~Waits(n, Q)
         /\ \A n \in ChildNodes(s) : Waits(n, Q)
<1> DEFINE K == ChildNodes(s)
           P == Range(Q)
           P2 == (P \ {s}) \cup K
<1>1. Q \in Seq(nodes) /\ \A i, j \in DOMAIN Q : i # j => ~IsPrefix(Q[i], Q[j])
  BY DEF Apart
<1>2. nodes \in SUBSET Seq(Nat) /\ s \in nodes /\ \A n \in nodes : Len(n) \in Nat
  <2>1. 1 \in DOMAIN Q
    BY DEF Shifted
  <2> QED BY <1>1, <2>1, NodeFacts
<1>3. K \in SUBSET nodes /\ \A k \in K : Len(k) = Len(s) + 1 /\ IsStrictPrefix(s, k)
  <2>1. \A k \in K : k \in nodes /\ Len(k) = Len(s) + 1
    BY <1>2, ChildFacts
  <2>2. ASSUME NEW k \in K PROVE IsStrictPrefix(s, k)
    <3>1. k = Append(s, Last(k)) /\ Last(k) \in Nat /\ s \in Seq(Nat) /\ Len(s) \in Nat
      BY <1>2, ChildFacts
    <3>2. IsPrefix(s, s) /\ \A c \in Nat : IsPrefix(s, Append(s, c)) <=> IsPrefix(s, s) \/ s = Append(s, c)
      BY <3>1, PrefixBasics
    <3>3. IsPrefix(s, Append(s, Last(k)))
      BY <3>1, <3>2
    <3>4. s # k
      BY <2>1, <3>1
    <3> QED BY <3>1, <3>3, <3>4 DEF IsStrictPrefix
  <2> QED BY <2>1, <2>2
<1>50. ord \in Seq(K) /\ Range(ord) = K /\ \A i, j \in DOMAIN ord : i # j => ord[i] # ord[j]
  BY DEF ListsChildren
<1>5. /\ s = Q[1] /\ 1 \in DOMAIN Q /\ DOMAIN Q = 1 .. Len(Q) /\ Len(Q) \in Nat /\ Len(ord) \in Nat
      /\ Q2 \in Seq(nodes) /\ DOMAIN Q2 = 1 .. (Len(Q) - 1 + Len(ord))
      /\ \A i \in DOMAIN Q2 :
           \/ i + 1 \in DOMAIN Q /\ i + 1 > 1 /\ i < Len(Q) /\ Q2[i] = Q[i + 1]
           \/ i - Len(Q) + 1 \in DOMAIN ord /\ i >= Len(Q) /\ Q2[i] = ord[i - Len(Q) + 1]
      /\ \A i \in DOMAIN Q : i > 1 => i - 1 \in DOMAIN Q2 /\ Q2[i - 1] = Q[i]
      /\ \A i \in DOMAIN ord : i + Len(Q) - 1 \in DOMAIN Q2 /\ Q2[i + Len(Q) - 1] = ord[i]
  BY DEF Shifted
<1>6. /\ P \in SUBSET nodes /\ s \in P
      /\ \A i \in DOMAIN Q : Q[i] \in P
      /\ \A m \in P : \E i \in DOMAIN Q : m = Q[i]
      /\ \A i \in DOMAIN ord : ord[i] \in K
      /\ \A k \in K : \E i \in DOMAIN ord : k = ord[i]
  BY <1>1, <1>5, <1>50, RangeOfSeq DEF Range
<1>7. \A i, j \in DOMAIN Q : i # j => Q[i] # Q[j]
  <2>1. \A n \in nodes : IsPrefix(n, n)
    BY <1>2, PrefixBasics
  <2> QED BY <1>1, <1>6, <2>1
<1>8. \A a, b \in P : a # b => ~IsPrefix(a, b)
  BY <1>1, <1>6
<1>9. /\ P2 \in SUBSET nodes
      /\ \A a, b \in P2 : a # b => ~IsPrefix(a, b)
      /\ P \cap K = {}
      /\ \A n \in nodes : (\E m \in P2 : IsStrictPrefix(m, n)) <=>
                          (\E m \in P : IsStrictPrefix(m, n)) /\ n \notin K
  <2>1. Incomparable(P) /\ s \in P
    BY <1>6, <1>8 DEF Incomparable
  <2>2. K = ChildNodes(s) /\ P2 = (P \ {s}) \cup K
    OBVIOUS
  <2> HIDE DEF P, K, P2
  <2>3. Incomparable(P2) /\ P \cap K = {}
        /\ \A n \in nodes : (\E m \in P2 : IsStrictPrefix(m, n)) <=>
                            (\E m \in P : IsStrictPrefix(m, n)) /\ n \notin K
    BY <2>1, <2>2, Frontier
  <2> QED BY <2>3 DEF Incomparable
<1>10. \A n : Waits(n, Q) <=> \E m \in P : IsStrictPrefix(m, n)
  BY <1>6 DEF Waits
<1> HIDE DEF K, P
<1>11. \A m : m \in P2 <=> \E i \in DOMAIN Q2 : m = Q2[i]
  <2>1. ASSUME NEW i \in DOMAIN Q2 PROVE Q2[i] \in P2
    <3>1. CASE i + 1 \in DOMAIN Q /\ i + 1 > 1 /\ i < Len(Q) /\ Q2[i] = Q[i + 1]
      <4>1. Q[i + 1] # Q[1]
        <5>1. 1 \in DOMAIN Q /\ i + 1 # 1
          BY <1>5, <3>1
        <5> QED BY <1>7, <3>1, <5>1
      <4> QED BY <1>5, <1>6, <3>1, <4>1
    <3>2. CASE i - Len(Q) + 1 \in DOMAIN ord /\ i >= Len(Q) /\ Q2[i] = ord[i - Len(Q) + 1]
      BY <1>6, <3>2
    <3> QED BY <1>5, <3>1, <3>2
  <2>2. ASSUME NEW m \in P, m # s PROVE \E i \in DOMAIN Q2 : m = Q2[i]
    <3>1. PICK i \in DOMAIN Q : m = Q[i]
      BY <1>6
    <3>2. i > 1
      BY <1>5, <2>2, <3>1
    <3> QED BY <1>5, <3>1, <3>2
  <2>3. ASSUME NEW m \in K PROVE \E i \in DOMAIN Q2 : m = Q2[i]
    BY <1>5, <1>6
  <2> QED BY <2>1, <2>2, <2>3
<1>12. \A i, j \in DOMAIN Q2 : i # j => Q2[i] # Q2[j]
  <2> SUFFICES ASSUME NEW i \in DOMAIN Q2, NEW j \in DOMAIN Q2, i < j PROVE Q2[i] # Q2[j]
    BY <1>5
  <2>1. CASE i + 1 \in DOMAIN Q /\ Q2[i] = Q[i + 1] /\ j + 1 \in DOMAIN Q /\ Q2[j] = Q[j + 1]
    <3>1. i + 1 # j + 1
      BY <1>5
    <3> QED BY <1>7, <2>1, <3>1
  <2>2. CASE i + 1 \in DOMAIN Q /\ Q2[i] = Q[i + 1] /\ j - Len(Q) + 1 \in DOMAIN ord /\ Q2[j] = ord[j - Len(Q) + 1]
    <3>1. Q[i + 1] \in P /\ ord[j - Len(Q) + 1] \in K
      BY <1>6, <2>2
    <3> QED BY <1>9, <2>2, <3>1
  <2>3. CASE i - Len(Q) + 1 \in DOMAIN ord /\ Q2[i] = ord[i - Len(Q) + 1] /\ j - Len(Q) + 1 \in DOMAIN ord /\ Q2[j] = ord[j - Len(Q) + 1]
    <3>1. i - Len(Q) + 1 # j - Len(Q) + 1
      BY <1>5
    <3> QED BY <1>50, <2>3, <3>1
  <2>4. ~(i >= Len(Q) /\ j < Len(Q))
    BY <1>5
  <2> QED BY <1>5, <2>1, <2>2, <2>3, <2>4
<1>13. Apart(Q2)
  <2>1. ASSUME NEW i \in DOMAIN Q2, NEW j \in DOMAIN Q2, i # j PROVE ~IsPrefix(Q2[i], Q2[j])
    <3>1. Q2[i] \in P2 /\ Q2[j] \in P2 /\ Q2[i] # Q2[j]
      BY <1>11, <1>12, <2>1
    <3> QED BY <1>9, <3>1
  <2> QED BY <1>5, <2>1 DEF Apart
<1>14. Range(Q2) = P2
  BY <1>11 DEF Range
<1>15. \A n : Waits(n, Q2) <=> \E m \in P2 : IsStrictPrefix(m, n)
  BY <1>11 DEF Waits
<1>16. \A n \in nodes : Waits(n, Q2) <=> Waits(n, Q) /\ n \notin K
  BY <1>9, <1>10, <1>15
<1>17. ~Waits(s, Q)
  BY <1>6, <1>8, <1>10 DEF IsStrictPrefix
<1>18. \A n \in K : Waits(n, Q)
  BY <1>3, <1>6, <1>10
<1>19. ASSUME Layered(Q) PROVE Layered(Q2)
  <2>1. /\ \A i, j \in DOMAIN Q : i < j => Len(Q[i]) <= Len(Q[j])
        /\ \A n \in nodes : Waits(n, Q) \/ \A i \in DOMAIN Q : Len(n) <= Len(Q[i]) + 1
    BY <1>19 DEF Layered
  <2>2. \A m \in P : Len(s) <= Len(m) /\ Len(m) <= Len(s) + 1
    <3>1. ASSUME NEW m \in P PROVE Len(s) <= Len(m) /\ Len(m) <= Len(s) + 1
      <4>1. PICK i \in DOMAIN Q : m = Q[i]
        BY <1>6
      <4>2. i \in Nat /\ (i = 1 \/ 1 < i)
        BY <1>5
      <4>3. Len(s) <= Len(m)
        BY <1>2, <1>5, <2>1, <4>1, <4>2
      <4>4. ~Waits(m, Q)
        BY <1>6, <1>8, <1>10 DEF IsStrictPrefix
      <4>5. Len(m) <= Len(s) + 1
        BY <1>5, <1>6, <2>1, <4>4
      <4> QED BY <4>3, <4>5
    <3> QED BY <3>1
  <2>3. ASSUME NEW i \in DOMAIN Q2, NEW j \in DOMAIN Q2, i < j PROVE Len(Q2[i]) <= Len(Q2[j])
    <3>1. CASE i + 1 \in DOMAIN Q /\ Q2[i] = Q[i + 1] /\ j + 1 \in DOMAIN Q /\ Q2[j] = Q[j + 1]
      <4>1. i + 1 < j + 1
        BY <1>5, <2>3
      <4> QED BY <2>1, <3>1, <4>1
    <3>2. CASE i + 1 \in DOMAIN Q /\ Q2[i] = Q[i + 1] /\ j - Len(Q) + 1 \in DOMAIN ord /\ Q2[j] = ord[j - Len(Q) + 1]
      <4>1. Q[i + 1] \in P /\ ord[j - Len(Q) + 1] \in K
        BY <1>6, <3>2
      <4> QED BY <1>3, <2>2, <3>2, <4>1
    <3>3. CASE i - Len(Q) + 1 \in DOMAIN ord /\ Q2[i] = ord[i - Len(Q) + 1] /\ j - Len(Q) + 1 \in DOMAIN ord /\ Q2[j] = ord[j - Len(Q) + 1]
      <4>1. Q2[i] \in K /\ Q2[j] \in K
        BY <1>6, <3>3
      <4> QED BY <1>2, <1>3, <4>1
    <3>4. ~(i >= Len(Q) /\ j < Len(Q))
      BY <1>5, <2>3
    <3> QED BY <1>5, <3>1, <3>2, <3>3, <3>4
  <2>4. \A i \in DOMAIN Q2 : Len(s) <= Len(Q2[i]) /\ Len(Q2[i]) \in Nat
    BY <1>2, <1>3, <1>9, <1>11, <2>2
  <2>5. ASSUME NEW n \in nodes, ~Waits(n, Q2), NEW i \in DOMAIN Q2 PROVE Len(n) <= Len(Q2[i]) + 1
    <3>1. Len(n) <= Len(s) + 1
      <4>1. CASE n \in K
        BY <1>2, <1>3, <4>1
      <4>2. CASE ~Waits(n, Q)
        BY <1>5, <2>1, <4>2
      <4> QED BY <1>16, <2>5, <4>1, <4>2
    <3>2. Len(s) <= Len(Q2[i]) /\ Len(Q2[i]) \in Nat /\ Len(s) \in Nat /\ Len(n) \in Nat
      BY <1>2, <2>4
    <3> QED BY <3>1, <3>2
  <2> QED BY <2>3, <2>5 DEF Layered
<1>20. ASSUME NEW n \in nodes, Layered(Q), Len(n) <= Len(s) PROVE ~Waits(n, Q)
  <2> SUFFICES ASSUME NEW i \in DOMAIN Q, IsStrictPrefix(Q[i], n) PROVE FALSE
    BY DEF Waits
  <2>1. Q[i] \in nodes /\ Q[i] \in Seq(Nat) /\ n \in Seq(Nat)
    BY <1>2, <1>6
  <2>2. Len(Q[i]) < Len(n)
    BY <2>1, PrefixBasics DEF IsStrictPrefix
  <2>3. Len(s) <= Len(Q[i])
    <3>1. i \in Nat /\ (i = 1 \/ 1 < i)
      BY <1>5
    <3>2. \A k, j \in DOMAIN Q : k < j => Len(Q[k]) <= Len(Q[j])
      BY <1>20 DEF Layered
    <3> QED BY <1>2, <1>5, <3>1, <3>2
  <2> QED BY <1>2, <1>20, <2>1, <2>2, <2>3
<1> QED BY <1>2, <1>13, <1>14, <1>16, <1>17, <1>18, <1>19, <1>20 DEF K, P

(* A breadth-first step: the head leaves, its children enter. *)
LEMMA QueueStep ==
  ASSUME TrieInv, NEW Q, Apart(Q), Q # <<>>, NEW s, s = Head(Q), NEW ord, ListsChildren(ord, s),
         NEW Q2, Q2 = Tail(Q) \o ord
  PROVE  /\ Apart(Q2) /\ s \in nodes /\ ~Waits(s, Q)
         /\ Range(Q2) = (Range(Q) \ {s}) \cup ChildNodes(s)
         /\ \A n \in nodes : Waits(n, Q2) <=> Waits(n, Q) /\ n \notin ChildNodes(s)
         /\ Layered(Q) => Layered(Q2)
         /\ \A n \in nodes : Layered(Q) /\ Len(n) <= Len(s) => ~Waits(n, Q)
         /\ \A n \in ChildNodes(s) : Waits(n, Q)
<1>1. Q \in Seq(nodes)
  BY DEF Apart
<1>2. s \in nodes
  BY <1>1, HeadTailProperties
<1>3. ord \in Seq(nodes)
  <2>1. ChildNodes(s) \subseteq nodes
    BY <1>2, ChildFacts
  <2> QED BY <2>1, SeqMonotonic DEF ListsChildren
<1>4. s = Q[1] /\ Q2 \in Seq(nodes) /\ Shifted(Q, ord, Q2)
  BY <1>1, <1>3, QueueSeq
<1> QED BY <1>4, QueueStepped

-----------------------------------------------------------------------------
(* Walks over failure links. *)

\* The longest suffix of a word in a set of words.
LongestIn(m, n, T) ==
    m \in T /\ IsSuffix(m, n) /\ \A u \in T : IsSuffix(u, n) => Len(u) <= Len(m)
\* States named by words: those of N0 are linked to the longest suffix there
\* is, the others to the root.
LinksOf(N, N0, pos, fl) ==
    /\ N \in SUBSET Seq(Nat) /\ N0 \in SUBSET N /\ Root \in N0
    /\ \A m, n \in N : pos[m] = pos[n] => m = n
    /\ \A n \in N0 : n # Root => \E m \in N0 : fl[pos[n]] = pos[m] /\ LongestIn(m, n, N \ {n})
    /\ \A n \in N \ N0 : fl[pos[n]] = pos[Root]
StatesOf(pos, N) == {pos[n] : n \in N}
StopsIn(pos, N, stops) == {u \in N : pos[u] \in stops}
WalkOver(D, fl, stops) == CHOOSE f : f = [s \in D |-> IF s \in stops THEN s ELSE f[fl[s]]]

(* A word of the set is its own longest suffix in it. *)
LEMMA LongestSelf ==
  ASSUME NEW T \in SUBSET Seq(Nat), NEW n \in T, NEW x
  PROVE  LongestIn(x, n, T) <=> x = n
<1>1. ASSUME LongestIn(x, n, T) PROVE x = n
  <2>1. x \in T /\ x \in Seq(Nat) /\ n \in Seq(Nat) /\ IsSuffix(x, n) /\ \A u \in T : IsSuffix(u, n) => Len(u) <= Len(x)
    BY <1>1 DEF LongestIn
  <2>2. IsSuffix(n, n)
    BY SuffixBasics
  <2>3. Len(n) <= Len(x) /\ Len(n) \in Nat /\ Len(x) \in Nat
    BY <2>1, <2>2
  <2>4. x # n => Len(x) < Len(n)
    BY <2>1, SuffixBasics
  <2> QED BY <2>3, <2>4
<1>2. LongestIn(n, n, T)
  <2>1. IsSuffix(n, n) /\ \A u \in T : IsSuffix(u, n) => Len(u) <= Len(n)
    BY SuffixBasics
  <2> QED BY <2>1 DEF LongestIn
<1> QED BY <1>1, <1>2

(* Two longest suffixes are one. *)
LEMMA LongestUnique ==
  ASSUME NEW T \in SUBSET Seq(Nat), NEW n \in Seq(Nat), NEW x, NEW y, LongestIn(x, n, T), LongestIn(y, n, T)
  PROVE  x = y
<1>1. /\ x \in Seq(Nat) /\ y \in Seq(Nat) /\ IsSuffix(x, n) /\ IsSuffix(y, n)
      /\ Len(x) <= Len(y) /\ Len(y) <= Len(x) /\ Len(x) \in Nat /\ Len(y) \in Nat
  BY DEF LongestIn
<1>2. IsSuffix(x, y)
  BY <1>1, SuffixNested
<1> QED BY <1>1, <1>2, SuffixBasics

(* A word outside the set has the same longest suffix in it as the longest of
   its own suffixes has. *)
LEMMA LongestOfLongest ==
  ASSUME NEW N \in SUBSET Seq(Nat), NEW T \in SUBSET N, NEW n \in N, n \notin T, NEW m, LongestIn(m, n, N \ {n}), NEW x
  PROVE  LongestIn(x, n, T) <=> LongestIn(x, m, T)
<1>1. n \in Seq(Nat) /\ m \in Seq(Nat) /\ IsSuffix(m, n) /\ \A u \in N \ {n} : IsSuffix(u, n) => Len(u) <= Len(m)
  BY DEF LongestIn
<1>2. ASSUME NEW u \in T PROVE IsSuffix(u, n) <=> IsSuffix(u, m)
  <2>1. u \in Seq(Nat) /\ u \in N \ {n}
    OBVIOUS
  <2>2. ASSUME IsSuffix(u, n) PROVE IsSuffix(u, m)
    <3>1. Len(u) <= Len(m)
      BY <1>1, <2>1, <2>2
    <3> QED BY <1>1, <2>1, <2>2, <3>1, SuffixNested
  <2>3. ASSUME IsSuffix(u, m) PROVE IsSuffix(u, n)
    BY <1>1, <2>1, <2>3, SuffixOfSuffix
  <2> QED BY <2>2, <2>3
<1> QED BY <1>2 DEF LongestIn

(* The walk from a linked state ends at the longest suffix among the stops. *)
LEMMA WalkStops ==
  ASSUME NEW N, NEW N0, NEW pos, NEW fl, LinksOf(N, N0, pos, fl),
         NEW stops, pos[Root] \in stops, NEW n0 \in N0
  PROVE  \E m \in N0 : /\ WalkOver(StatesOf(pos, N), fl, stops)[pos[n0]] = pos[m]
                       /\ LongestIn(m, n0, StopsIn(pos, N, stops))
<1> DEFINE D == {pos[n] : n \in N}
           T == {u \in N : pos[u] \in stops}
           name(s) == CHOOSE n \in N : pos[n] = s
           best(n) == CHOOSE m \in N0 : LongestIn(m, n, T)
           there(s) == IF s \in stops THEN s ELSE IF name(s) \in N0 THEN pos[best(name(s))] ELSE pos[Root]
           g == [s \in D |-> there(s)]
           w == WalkOver(D, fl, stops)
<1>1. /\ N \in SUBSET Seq(Nat) /\ N0 \in SUBSET N /\ Root \in N0
      /\ \A m, n \in N : pos[m] = pos[n] => m = n
      /\ \A n \in N0 : n # Root => \E m \in N0 : fl[pos[n]] = pos[m] /\ LongestIn(m, n, N \ {n})
      /\ \A n \in N \ N0 : fl[pos[n]] = pos[Root]
  BY DEF LinksOf
<1>2. \A n \in N : pos[n] \in D
  OBVIOUS
<1>3. \A n \in N : name(pos[n]) = n
  BY <1>1
<1>4. T \in SUBSET N /\ T \in SUBSET Seq(Nat) /\ Root \in T /\ \A n \in N : n \in T <=> pos[n] \in stops
  BY <1>1
<1>5. \A s \in D : \E n \in N : s = pos[n]
  OBVIOUS
<1> HIDE DEF D, T, name
<1>6. ASSUME NEW n \in N0, n \notin T
      PROVE  \E m \in N0 : fl[pos[n]] = pos[m] /\ LongestIn(m, n, N \ {n}) /\ Len(m) < Len(n)
                           /\ \A x : LongestIn(x, n, T) <=> LongestIn(x, m, T)
  <2>1. PICK m \in N0 : fl[pos[n]] = pos[m] /\ LongestIn(m, n, N \ {n})
    BY <1>1, <1>4, <1>6
  <2>2. \A x : LongestIn(x, n, T) <=> LongestIn(x, m, T)
    BY <1>1, <1>4, <1>6, <2>1, LongestOfLongest
  <2>3. m \in Seq(Nat) /\ n \in Seq(Nat) /\ m # n /\ IsSuffix(m, n)
    BY <1>1, <2>1 DEF LongestIn
  <2>4. Len(m) < Len(n)
    BY <2>3, SuffixBasics
  <2> QED BY <2>1, <2>2, <2>4
<1>7. g = [s \in D |-> IF s \in stops THEN s ELSE g[fl[s]]]
  <2>1. ASSUME NEW s \in D, s \notin stops PROVE g[s] = g[fl[s]]
    <3>1. PICK n \in N : s = pos[n]
      BY <1>5
    <3>2. n \notin T /\ name(s) = n
      BY <1>3, <1>4, <2>1, <3>1
    <3>3. CASE n \in N0
      <4>1. PICK m \in N0 : fl[pos[n]] = pos[m] /\ \A x : LongestIn(x, n, T) <=> LongestIn(x, m, T)
        BY <1>6, <3>2, <3>3
      <4>2. g[s] = pos[best(n)]
        BY <2>1, <3>2, <3>3
      <4>3. m \in N /\ pos[m] \in D /\ name(pos[m]) = m
        BY <1>1, <1>2, <1>3
      <4>4. best(n) = best(m)
        BY <4>1
      <4>5. CASE m \in T
        <5>1. \A x : LongestIn(x, m, T) <=> x = m
          BY <1>4, <4>5, LongestSelf
        <5>2. best(m) = m
          BY <5>1
        <5>3. g[pos[m]] = pos[m]
          BY <1>4, <4>3, <4>5
        <5> QED BY <3>1, <4>1, <4>2, <4>4, <5>2, <5>3
      <4>6. CASE m \notin T
        <5>1. g[pos[m]] = pos[best(m)]
          BY <1>4, <4>3, <4>6
        <5> QED BY <3>1, <4>1, <4>2, <4>4, <5>1
      <4> QED BY <4>5, <4>6
    <3>4. CASE n \notin N0
      <4>1. g[s] = pos[Root] /\ fl[s] = pos[Root]
        BY <1>1, <2>1, <3>1, <3>2, <3>4
      <4>2. g[pos[Root]] = pos[Root]
        BY <1>1, <1>2
      <4> QED BY <4>1, <4>2
    <3> QED BY <3>3, <3>4
  <2>2. \A s \in D : g[s] = IF s \in stops THEN s ELSE g[fl[s]]
    <3>1. ASSUME NEW s \in D, s \in stops PROVE g[s] = s
      BY <3>1
    <3> HIDE DEF g
    <3> QED BY <2>1, <3>1
  <2>3. DOMAIN g = D /\ g = [s \in D |-> g[s]]
    <3> HIDE DEF there
    <3> QED OBVIOUS
  <2> HIDE DEF g
  <2> QED BY <2>2, <2>3
<1>8. w = [s \in D |-> IF s \in stops THEN s ELSE w[fl[s]]]
  <2> HIDE DEF g
  <2> QED BY <1>7 DEF WalkOver
<1> HIDE DEF w, g
<1>9. \A s \in D : w[s] = IF s \in stops THEN s ELSE w[fl[s]]
  BY <1>8
<1> DEFINE Good(n) == \E m \in N0 : w[pos[n]] = pos[m] /\ LongestIn(m, n, T)
           S == {k \in Nat : \A n \in N0 : Len(n) <= k => Good(n)}
<1>10. ASSUME NEW n \in N0, n \in T PROVE Good(n)
  <2>1. LongestIn(n, n, T)
    BY <1>4, <1>10, LongestSelf
  <2>2. w[pos[n]] = pos[n]
    BY <1>1, <1>2, <1>4, <1>9, <1>10
  <2> QED BY <2>1, <2>2
<1>11. \A n \in N0 : n \in Seq(Nat) /\ Len(n) \in Nat
  BY <1>1
<1> HIDE DEF Good
<1>12. 0 \in S
  <2>1. ASSUME NEW n \in N0, Len(n) <= 0 PROVE n \in T
    BY <1>4, <1>11, <2>1, RootFacts
  <2> QED BY <1>10, <2>1
<1>13. ASSUME NEW k \in Nat, k \in S PROVE k + 1 \in S
  <2>1. ASSUME NEW n \in N0, Len(n) <= k + 1, n \notin T PROVE Good(n)
    <3>1. PICK m \in N0 : fl[pos[n]] = pos[m] /\ Len(m) < Len(n) /\ \A x : LongestIn(x, n, T) <=> LongestIn(x, m, T)
      BY <1>6, <2>1
    <3>2. Len(m) <= k
      BY <1>11, <2>1, <3>1
    <3>3. Good(m)
      BY <1>13, <3>2
    <3>4. w[pos[n]] = w[pos[m]]
      BY <1>1, <1>2, <1>4, <1>9, <2>1, <3>1
    <3> QED BY <3>1, <3>3, <3>4 DEF Good
  <2> QED BY <1>10, <2>1
<1>14. Nat \subseteq S
  <2> HIDE DEF S
  <2> QED BY <1>12, <1>13, SetInduction
<1>15. Good(n0)
  BY <1>11, <1>14
<1> QED BY <1>15 DEF Good, T, w, D, StatesOf, StopsIn

(* LongestSuffix is the longest suffix among the other nodes. *)
LEMMA LongestSuffixIs ==
  ASSUME TrieInv, NEW n \in nodes, n # Root
  PROVE  /\ LongestIn(LongestSuffix(n), n, nodes \ {n})
         /\ LongestSuffix(n) \in nodes /\ Len(LongestSuffix(n)) < Len(n) /\ LongestSuffix(n) # n
         /\ \A f : LongestIn(f, n, nodes \ {n}) => LongestSuffix(n) = f
<1> DEFINE T == nodes \ {n}
           K == {k \in Nat : \E u \in T : IsSuffix(u, n) /\ k = Len(u)}
<1>1. nodes \in SUBSET Seq(Nat) /\ Root \in nodes /\ \A u \in nodes : u \in Seq(Nat) /\ Len(u) \in Nat
  BY NodeFacts
<1>2. \A u \in nodes : IsSuffix(u, n) => Len(u) <= Len(n) /\ (u # n => Len(u) < Len(n))
  BY <1>1, SuffixBasics
<1>3. 0 \in K
  BY <1>1, RootFacts
<1>4. \A k \in K : k <= Len(n)
  BY <1>2
<1>5. PICK x \in K : \A y \in K : y <= x
  <2>1. K \in SUBSET Nat /\ K # {} /\ Len(n) \in Nat
    BY <1>1, <1>3
  <2> HIDE DEF K
  <2> QED BY <1>4, <2>1, GreatestNat
<1>6. PICK u \in T : IsSuffix(u, n) /\ x = Len(u)
  OBVIOUS
<1>7. \A v \in T : IsSuffix(v, n) => Len(v) \in K
  BY <1>1
<1>8. LongestIn(u, n, T)
  BY <1>5, <1>6, <1>7 DEF LongestIn
<1>9. \A f : LongestIn(f, n, T) <=> (f \in nodes /\ f # n /\ IsSuffix(f, n) /\ \A g \in nodes : g # n /\ IsSuffix(g, n) => Len(g) <= Len(f))
  BY DEF LongestIn
<1>10. LongestIn(LongestSuffix(n), n, T)
  <2>1. \E f \in nodes : /\ f # n /\ IsSuffix(f, n)
                         /\ \A g \in nodes : g # n /\ IsSuffix(g, n) => Len(g) <= Len(f)
    BY <1>8, <1>9
  <2>2. /\ LongestSuffix(n) \in nodes /\ LongestSuffix(n) # n /\ IsSuffix(LongestSuffix(n), n)
        /\ \A g \in nodes : g # n /\ IsSuffix(g, n) => Len(g) <= Len(LongestSuffix(n))
    BY <2>1, Zenon DEF LongestSuffix
  <2> QED BY <1>9, <2>2
<1>11. T \in SUBSET Seq(Nat) /\ n \in Seq(Nat)
  BY <1>1
<1> HIDE DEF T
<1>12. \A f : LongestIn(f, n, T) => LongestSuffix(n) = f
  BY <1>10, <1>11, LongestUnique
<1>13. LongestSuffix(n) \in T /\ IsSuffix(LongestSuffix(n), n)
  BY <1>10 DEF LongestIn
<1> QED BY <1>2, <1>10, <1>12, <1>13 DEF T

(* One rune more: the longest suffix of a word goes down by the rune from the
   longest one that can. *)
LEMMA NextLongest ==
  ASSUME TrieInv, NEW A \in SUBSET nodes, NEW B \in SUBSET nodes, NEW t \in Seq(Nat), NEW ch \in Nat,
         NEW m, LongestIn(m, t, A), NEW f \in A, LongestIn(f, m, {u \in nodes : u = Root \/ Append(u, ch) \in nodes}),
         Root \in B, \A u \in A : Append(u, ch) \in nodes => Append(u, ch) \in B,
         \A g \in B : g # Root /\ Last(g) = ch => Front(g) \in A
  PROVE  LongestIn(IF Append(f, ch) \in nodes THEN Append(f, ch) ELSE Root, Append(t, ch), B)
<1> DEFINE n == Append(t, ch)
           r == IF Append(f, ch) \in nodes THEN Append(f, ch) ELSE Root
<1>1. nodes \in SUBSET Seq(Nat) /\ \A u \in nodes : u \in Seq(Nat) /\ Len(u) \in Nat
  BY NodeFacts
<1>2. m \in A /\ m \in Seq(Nat) /\ IsSuffix(m, t) /\ \A u \in A : IsSuffix(u, t) => Len(u) <= Len(m)
  BY <1>1 DEF LongestIn
<1>3. /\ f \in nodes /\ f \in Seq(Nat) /\ IsSuffix(f, m) /\ (f = Root \/ Append(f, ch) \in nodes)
      /\ \A u \in nodes : (u = Root \/ Append(u, ch) \in nodes) /\ IsSuffix(u, m) => Len(u) <= Len(f)
  BY <1>1 DEF LongestIn
<1>4. IsSuffix(f, t)
  BY <1>2, <1>3, SuffixOfSuffix
<1>5. n \in Seq(Nat) /\ Append(f, ch) \in Seq(Nat) /\ Len(Append(f, ch)) = Len(f) + 1 /\ Len(f) \in Nat
  BY <1>1, <1>3, LastRune
<1>6. IsSuffix(Append(f, ch), n)
  BY <1>3, <1>4, SuffixAppend
<1>7. IsSuffix(Root, n)
  BY <1>5, RootFacts
<1> HIDE DEF n
<1>8. r \in B /\ IsSuffix(r, n)
  BY <1>6, <1>7
<1>9. ASSUME NEW g \in B, IsSuffix(g, n), g # Root
      PROVE  Append(f, ch) \in nodes /\ Len(g) <= Len(f) + 1
  <2>1. g \in Seq(Nat) /\ g \in nodes
    BY <1>1
  <2>2. g = Append(Front(g), ch) /\ Front(g) \in Seq(Nat) /\ IsSuffix(Front(g), t) /\ Last(g) = ch
    BY <1>9, <2>1, SuffixesOfAppend DEF n, Root
  <2>3. Front(g) \in A /\ Front(g) \in nodes /\ Append(Front(g), ch) \in nodes
    BY <1>9, <2>1, <2>2
  <2>4. Len(Front(g)) <= Len(m)
    BY <1>2, <2>2, <2>3
  <2>5. IsSuffix(Front(g), m)
    BY <1>2, <2>2, <2>4, SuffixNested
  <2>6. Len(Front(g)) <= Len(f)
    BY <1>3, <2>3, <2>5
  <2>7. Len(g) = Len(Front(g)) + 1 /\ Len(Front(g)) \in Nat
    BY <2>2, LastRune
  <2>8. Append(f, ch) \in nodes
    <3>1. CASE f = Root
      <4>1. Len(Front(g)) = 0
        BY <2>6, <2>7, <3>1, RootFacts
      <4>2. Front(g) = Root
        BY <2>2, <4>1, RootFacts
      <4> QED BY <2>3, <3>1, <4>2
    <3> QED BY <1>3, <3>1
  <2> QED BY <1>5, <2>6, <2>7, <2>8
<1>10. ASSUME NEW g \in B, IsSuffix(g, n) PROVE Len(g) <= Len(r)
  <2>1. CASE g = Root
    BY <1>1, <1>5, <2>1, RootFacts
  <2>2. CASE g # Root
    BY <1>5, <1>9, <1>10, <2>2
  <2> QED BY <2>1, <2>2
<1> HIDE DEF r
<1>11. LongestIn(r, n, B)
  BY <1>8, <1>10 DEF LongestIn
<1> QED BY <1>11 DEF n, r

(* The longest suffix of a child, from that of its parent. *)
LEMMA ChildSuffix ==
  ASSUME TrieInv, NEW s \in nodes, s # Root, NEW n \in ChildNodes(s), NEW ch, ch = Last(n),
         NEW f, LongestIn(f, LongestSuffix(s), {u \in nodes : u = Root \/ Append(u, ch) \in nodes})
  PROVE  LongestSuffix(n) = IF Append(f, ch) \in nodes THEN Append(f, ch) ELSE Root
<1> DEFINE A == nodes \ {s}
           B == nodes \ {n}
           m == LongestSuffix(s)
           r == IF Append(f, ch) \in nodes THEN Append(f, ch) ELSE Root
<1>1. nodes \in SUBSET Seq(Nat) /\ Root \in nodes /\ \A u \in nodes : u \in Seq(Nat) /\ Len(u) \in Nat
  BY NodeFacts
<1>2. n \in nodes /\ n # Root /\ Front(n) = s /\ ch \in Nat /\ n = Append(s, ch)
  BY ChildFacts
<1>3. LongestIn(m, s, A) /\ m \in nodes /\ Len(m) < Len(s)
  BY LongestSuffixIs
<1> HIDE DEF m
<1>4. f \in nodes /\ IsSuffix(f, m)
  BY DEF LongestIn, m
<1>5. Len(f) <= Len(m)
  BY <1>1, <1>3, <1>4, SuffixBasics
<1>6. f \in A
  BY <1>1, <1>3, <1>4, <1>5
<1>7. ASSUME NEW u \in A, Append(u, ch) \in nodes PROVE Append(u, ch) \in B
  BY <1>1, <1>2, <1>7, LastRune
<1>8. ASSUME NEW g \in B, g # Root, Last(g) = ch PROVE Front(g) \in A
  BY <1>2, <1>8, NodeFacts
<1>9. LongestIn(r, Append(s, ch), B)
  <2>1. A \in SUBSET nodes /\ B \in SUBSET nodes /\ Root \in B /\ s \in Seq(Nat)
    BY <1>1, <1>2
  <2>2. LongestIn(f, m, {u \in nodes : u = Root \/ Append(u, ch) \in nodes})
    BY DEF m
  <2> HIDE DEF A, B
  <2> QED BY <1>2, <1>3, <1>6, <1>7, <1>8, <2>1, <2>2, NextLongest
<1> HIDE DEF r
<1>10. LongestIn(r, n, nodes \ {n})
  BY <1>2, <1>9
<1>11. LongestSuffix(n) = r
  BY <1>2, <1>10, LongestSuffixIs
<1> QED BY <1>11 DEF r
-----------------------------------------------------------------------------
(* The links as the engines have them. *)

\* The nodes that have their links.
Settled == {n \in nodes : ~Waits(n, NodeQueue)}

(* Below a settled node's depth every node is settled. *)
LEMMA SettledFacts ==
  ASSUME TrieInv, QueueInv, phase \notin {"insert", "place"}
  PROVE  /\ Root \in Settled /\ Settled \in SUBSET nodes
         /\ \A n \in Settled, u \in nodes : Len(u) < Len(n) => u \in Settled
         /\ phase # "link" => Settled = nodes
<1>1. nodes \in SUBSET Seq(Nat) /\ Root \in nodes /\ \A u \in nodes : u \in Seq(Nat) /\ Len(u) \in Nat
  BY NodeFacts
<1> DEFINE Q == NodeQueue
<1>2. CASE phase = "link"
  <2>1. Apart(Q) /\ Layered(Q)
    BY <1>2 DEF QueueInv
  <2> HIDE DEF Q
  <2>2. \A i \in DOMAIN Q : Q[i] \in nodes
    BY <2>1 DEF Apart
  <2>3. \A n \in nodes : Waits(n, Q) \/ \A i \in DOMAIN Q : Len(n) <= Len(Q[i]) + 1
    BY <2>1 DEF Layered
  <2>4. \A i \in DOMAIN Q : \A u \in nodes : IsStrictPrefix(Q[i], u) => Len(Q[i]) < Len(u)
    BY <1>1, <2>2, PrefixBasics DEF IsStrictPrefix
  <2>5. ~Waits(Root, Q)
    BY <1>1, <2>2, <2>4, RootFacts DEF Waits
  <2>6. ASSUME NEW n \in nodes, ~Waits(n, Q), NEW u \in nodes, Len(u) < Len(n) PROVE ~Waits(u, Q)
    <3> SUFFICES ASSUME NEW i \in DOMAIN Q, IsStrictPrefix(Q[i], u) PROVE FALSE
      BY DEF Waits
    <3>1. Len(Q[i]) < Len(u) /\ Len(n) <= Len(Q[i]) + 1 /\ Len(Q[i]) \in Nat /\ Len(u) \in Nat /\ Len(n) \in Nat
      BY <1>1, <2>2, <2>3, <2>4, <2>6
    <3> QED BY <2>6, <3>1
  <2> QED BY <1>1, <1>2, <2>5, <2>6 DEF Settled, Q
<1>3. CASE phase # "link"
  <2>1. queue = Empty /\ NodeQueue = queue
    BY <1>3 DEF QueueInv, NodeQueue
  <2>2. DOMAIN Empty = {}
    BY DEF Empty
  <2>3. \A n : ~Waits(n, NodeQueue)
    BY <2>1, <2>2 DEF Waits
  <2>4. Settled = nodes
    BY <2>3 DEF Settled
  <2> QED BY <1>1, <2>4
<1> QED BY <1>2, <1>3

(* States and nodes correspond. *)
LEMMA StateFacts ==
  ASSUME TrieInv, SlotInv, phase \notin {"insert", "place"}
  PROVE  /\ \A m, n \in nodes : StateOf(m) = StateOf(n) => m = n
         /\ preset = "balanced" => \A n \in nodes : StateOf(n) = datPos[n] /\ StateOf(n) \in Nat /\ StateOf(n) # 0
         /\ preset # "balanced" => \A n \in nodes : StateOf(n) = n
<1>1. CASE preset = "balanced"
  <2>1. /\ \A n \in nodes : datPos[n] \in Nat /\ (IF n = Root THEN datPos[n] = DatRoot ELSE datPos[n] > DatRoot)
        /\ \A m, n \in nodes : datPos[m] = datPos[n] => m = n
    BY <1>1 DEF SlotInv, Placed
  <2> QED BY <1>1, <2>1 DEF StateOf, DatRoot
<1>2. CASE preset # "balanced"
  BY <1>2 DEF StateOf
<1> QED BY <1>1, <1>2

(* The walk over the failure links from a settled node ends at the longest
   suffix among the stops. *)
LEMMA WalkFacts ==
  ASSUME TrieInv, QueueInv, SlotInv, LinkInv, phase \notin {"insert", "place"},
         NEW stops, StateOf(Root) \in stops, NEW n0 \in Settled
  PROVE  \E m \in Settled : Walk(stops, StateOf(n0)) = StateOf(m) /\ LongestIn(m, n0, {u \in nodes : StateOf(u) \in stops})
<1> DEFINE N0 == Settled
           N == IF preset = "balanced" THEN Settled ELSE nodes
           pos == [u \in nodes |-> StateOf(u)]
           D == {r \in DOMAIN fail : fail[r] \in DOMAIN fail}
<1>1. nodes \in SUBSET Seq(Nat) /\ Root \in nodes /\ \A u \in nodes : u \in Seq(Nat) /\ Len(u) \in Nat
  BY NodeFacts
<1>2. Root \in N0 /\ N0 \in SUBSET nodes /\ \A n \in N0, u \in nodes : Len(u) < Len(n) => u \in N0
  BY SettledFacts
<1>3. N0 \in SUBSET N /\ N \in SUBSET nodes
  BY <1>2
<1>4. \A u \in nodes : pos[u] = StateOf(u)
  OBVIOUS
<1>5. \A m, n \in nodes : pos[m] = pos[n] => m = n
  BY <1>4, StateFacts
<1>6. /\ DOMAIN fail = {StateOf(n) : n \in nodes}
      /\ fail[StateOf(Root)] = StateOf(Root)
      /\ \A n \in N0 : n # Root => fail[pos[n]] = pos[LongestSuffix(n)]
      /\ \A n \in nodes \ N0 : n # Root => fail[pos[n]] = IF preset = "balanced" THEN 0 ELSE Root
  <2>1. \A n \in nodes : n # Root => LongestSuffix(n) \in nodes
    BY LongestSuffixIs
  <2> QED BY <1>2, <1>4, <2>1 DEF LinkInv, Settled
<1>7. ASSUME NEW n \in N0, n # Root
      PROVE  \E m \in N0 : fail[pos[n]] = pos[m] /\ LongestIn(m, n, N \ {n})
  <2>1. LongestIn(LongestSuffix(n), n, nodes \ {n}) /\ LongestSuffix(n) \in nodes /\ Len(LongestSuffix(n)) < Len(n) /\ LongestSuffix(n) # n
    BY <1>2, <1>7, LongestSuffixIs
  <2>2. LongestSuffix(n) \in N0
    BY <1>2, <2>1
  <2>3. LongestIn(LongestSuffix(n), n, N \ {n})
    BY <1>3, <2>1, <2>2 DEF LongestIn
  <2> QED BY <1>6, <1>7, <2>2, <2>3
<1>8. ASSUME NEW n \in N \ N0 PROVE fail[pos[n]] = pos[Root]
  <2>1. preset # "balanced" /\ n \in nodes \ N0 /\ n # Root
    BY <1>2, <1>3
  <2>2. StateOf(Root) = Root
    BY <1>1, <2>1, StateFacts
  <2> QED BY <1>1, <1>6, <2>1, <2>2
<1>9. D = {pos[n] : n \in N}
  <2>1. ASSUME NEW n \in nodes PROVE pos[n] \in DOMAIN fail /\ (n \in N <=> fail[pos[n]] \in DOMAIN fail)
    <3>1. pos[n] \in DOMAIN fail
      BY <1>6
    <3>2. CASE n \in N
      <4>1. CASE n = Root
        BY <1>1, <1>3, <1>6, <3>2, <4>1
      <4>2. CASE n \in N0 /\ n # Root
        <5>1. PICK m \in N0 : fail[pos[n]] = pos[m]
          BY <1>7, <4>2
        <5>2. m \in nodes /\ StateOf(m) \in DOMAIN fail
          BY <1>2, <1>6
        <5> QED BY <1>4, <3>1, <3>2, <5>1, <5>2
      <4>3. CASE n \notin N0
        BY <1>1, <1>6, <1>8, <3>1, <3>2, <4>3
      <4> QED BY <4>1, <4>2, <4>3
    <3>3. CASE n \notin N
      <4>1. preset = "balanced" /\ n \in nodes \ N0 /\ n # Root
        BY <1>2, <3>3
      <4>2. fail[pos[n]] = 0
        BY <1>6, <4>1
      <4>3. 0 \notin DOMAIN fail
        BY <1>6, <4>1, StateFacts
      <4> QED BY <3>1, <3>3, <4>2, <4>3
    <3> QED BY <3>2, <3>3
  <2>2. \A r \in DOMAIN fail : \E n \in nodes : r = pos[n]
    BY <1>6
  <2> HIDE DEF N, pos
  <2> QED BY <1>3, <2>1, <2>2
<1>10. LinksOf(N, N0, pos, fail)
  <2>1. N \in SUBSET Seq(Nat)
    BY <1>1, <1>3
  <2> HIDE DEF N, N0, pos
  <2> QED BY <1>2, <1>3, <1>5, <1>7, <1>8, <2>1 DEF LinksOf
<1>11. Walk(stops, StateOf(n0)) = WalkOver(D, fail, stops)[StateOf(n0)]
  BY Zenon DEF Walk, WalkOver
<1>12. n0 \in N0 /\ pos[Root] \in stops
  BY <1>1
<1> HIDE DEF N, N0, pos, D
<1>13. PICK m \in N0 : WalkOver(D, fail, stops)[pos[n0]] = pos[m] /\ LongestIn(m, n0, {u \in N : pos[u] \in stops})
  <2>1. PICK m \in N0 : WalkOver(StatesOf(pos, N), fail, stops)[pos[n0]] = pos[m] /\ LongestIn(m, n0, StopsIn(pos, N, stops))
    BY <1>10, <1>12, WalkStops
  <2> QED BY <1>9, <2>1 DEF StatesOf, StopsIn
<1>14. LongestIn(m, n0, {u \in nodes : StateOf(u) \in stops})
  <2>1. /\ m \in N /\ pos[m] \in stops /\ IsSuffix(m, n0)
        /\ \A u \in N : pos[u] \in stops /\ IsSuffix(u, n0) => Len(u) <= Len(m)
    BY <1>13 DEF LongestIn
  <2>2. ASSUME NEW u \in nodes, StateOf(u) \in stops, IsSuffix(u, n0) PROVE Len(u) <= Len(m)
    <3>1. n0 \in Seq(Nat) /\ u \in Seq(Nat) /\ n0 \in N0
      BY <1>1, <1>2, <1>12
    <3>2. u = n0 \/ Len(u) < Len(n0)
      BY <2>2, <3>1, SuffixBasics
    <3>3. u \in N
      BY <1>2, <1>3, <3>1, <3>2
    <3> QED BY <1>4, <2>1, <2>2, <3>3
  <2> QED BY <1>3, <1>4, <2>1, <2>2 DEF LongestIn
<1> QED BY <1>2, <1>4, <1>11, <1>12, <1>13, <1>14 DEF N0
-----------------------------------------------------------------------------
(* The double array. *)

(* Codes number the runes of the dictionary. *)
LEMMA AlphabetFacts ==
  ASSUME TrieInv
  PROVE  /\ Alphabet \in Seq(Runes) /\ DOMAIN Alphabet = 1 .. Len(Alphabet) /\ Len(Alphabet) \in Nat
         /\ \A i \in DOMAIN Alphabet : Alphabet[i] \in Runes /\ Code(Alphabet[i]) = i - 1
         /\ \A ch \in Runes : Code(ch) \in 0 .. (Len(Alphabet) - 1) /\ Code(ch) + 1 \in DOMAIN Alphabet /\ Alphabet[Code(ch) + 1] = ch
         /\ \A ch : ch \notin Runes => Code(ch) = -1
         /\ \A c, d \in Runes : Code(c) = Code(d) => c = d
<1> DEFINE a == Alphabet
<1>1. Runes \in SUBSET Int /\ IsFiniteSet(Runes)
  BY DictFacts
<1>2. /\ a \in Seq(Runes) /\ DOMAIN a = 1 .. Cardinality(Runes) /\ Range(a) = Runes
      /\ \A i, j \in DOMAIN a : i # j => a[i] # a[j]
      /\ Len(a) = Cardinality(Runes)
  BY <1>1, LessSorts DEF Alphabet
<1> HIDE DEF a
<1>3. Len(a) \in Nat /\ DOMAIN a = 1 .. Len(a)
  BY <1>2
<1>4. \A ch : Code(ch) = IF \E i \in DOMAIN a : a[i] = ch THEN (CHOOSE i \in DOMAIN a : a[i] = ch) - 1 ELSE -1
  BY DEF Code, a
<1>5. /\ \A i \in DOMAIN a : a[i] \in Runes
      /\ \A ch \in Runes : \E i \in DOMAIN a : a[i] = ch
  BY <1>2 DEF Range
<1>6. ASSUME NEW i \in DOMAIN a PROVE Code(a[i]) = i - 1
  <2>1. (CHOOSE j \in DOMAIN a : a[j] = a[i]) = i
    BY <1>2
  <2> QED BY <1>4, <2>1
<1>7. ASSUME NEW ch \in Runes PROVE Code(ch) \in 0 .. (Len(a) - 1) /\ Code(ch) + 1 \in DOMAIN a /\ a[Code(ch) + 1] = ch
  <2>1. PICK i \in DOMAIN a : a[i] = ch
    BY <1>5
  <2>2. Code(ch) = i - 1 /\ i \in 1 .. Len(a)
    BY <1>3, <1>6, <2>1
  <2>3. Code(ch) + 1 = i
    BY <2>2
  <2> QED BY <1>3, <2>1, <2>2, <2>3
<1>8. \A ch : ch \notin Runes => Code(ch) = -1
  BY <1>4, <1>5
<1>9. \A c, d \in Runes : Code(c) = Code(d) => c = d
  BY <1>7
<1> QED BY <1>2, <1>3, <1>5, <1>6, <1>7, <1>8, <1>9 DEF a

\* The slots, once every node has one.
SlotsDone ==
    /\ DOMAIN datPos = nodes
    /\ \A n \in nodes : datPos[n] \in Nat /\ (IF n = Root THEN datPos[n] = DatRoot ELSE datPos[n] > DatRoot)
    /\ \A m, n \in nodes : datPos[m] = datPos[n] => m = n
    /\ DOMAIN own = Range(datPos)
    /\ DOMAIN check = {0} \cup {datPos[n] : n \in nodes \ {Root}}
    /\ check[0] = -1
    /\ DOMAIN base \subseteq Range(datPos) /\ \A p \in DOMAIN base : base[p] \in Int
    /\ \A n \in nodes \ {Root} :
         /\ check[datPos[n]] = datPos[Front(n)]
         /\ datPos[Front(n)] \in DOMAIN base /\ datPos[n] = base[datPos[Front(n)]] + Code(Last(n))

(* The array is as large as its last slot asks. *)
LEMMA DatSizeFacts ==
  ASSUME TrieInv, SlotsDone
  PROVE  DatSize \in Nat /\ \A n \in nodes : datPos[n] < DatSize
<1>1. /\ IsFiniteSet(nodes) /\ Root \in nodes /\ DOMAIN own = Range(datPos) /\ DOMAIN datPos = nodes
      /\ \A n \in nodes : datPos[n] \in Nat /\ datPos[n] \in Range(datPos)
  BY NodeFacts DEF SlotsDone, Range
<1>2. IsFiniteSet(Range(datPos)) /\ Range(datPos) \in SUBSET Nat /\ Range(datPos) # {}
  <2>1. Range(datPos) \in SUBSET Nat
    BY <1>1 DEF Range
  <2> QED BY <1>1, <2>1, ImageFinite
<1>3. \E x \in DOMAIN own : \A y \in DOMAIN own : y <= x
  BY <1>1, <1>2, FiniteGreatest
<1> DEFINE last == CHOOSE p \in DOMAIN own : \A r \in DOMAIN own : r <= p
<1>4. last \in DOMAIN own /\ \A r \in DOMAIN own : r <= last
  BY <1>3
<1>5. DatSize = 1 + last
  BY DEF DatSize
<1> HIDE DEF last
<1> QED BY <1>1, <1>2, <1>4, <1>5

(* A lookup finds the child the trie has. *)
LEMMA GotoFacts ==
  ASSUME TrieInv, SlotsDone, NEW n \in nodes, NEW i \in DOMAIN Alphabet
  PROVE  /\ Goto(datPos[n], i - 1) = IF Append(n, Alphabet[i]) \in nodes THEN datPos[Append(n, Alphabet[i])] ELSE 0
         /\ Goto(datPos[n], i - 1) # 0 <=> Append(n, Alphabet[i]) \in nodes
<1> DEFINE p == datPos[n]
           c == i - 1
           t == At(base, p) + c
           k == Append(n, Alphabet[i])
<1>1. nodes \in SUBSET Seq(Nat) /\ n \in Seq(Nat) /\ Runes \in SUBSET Nat /\ Alphabet[i] \in Runes /\ Code(Alphabet[i]) = c /\ c \in Nat
      /\ \A a, b \in Runes : Code(a) = Code(b) => a = b
  <2>1. nodes \in SUBSET Seq(Nat) /\ Runes \in SUBSET Nat
    BY NodeFacts, DictFacts
  <2>2. Alphabet[i] \in Runes /\ Code(Alphabet[i]) = i - 1 /\ \A a, b \in Runes : Code(a) = Code(b) => a = b
    BY AlphabetFacts
  <2>3. i \in Nat /\ i >= 1
    BY AlphabetFacts
  <2> QED BY <2>1, <2>2, <2>3
<1>2. /\ \A u \in nodes : datPos[u] \in Nat /\ datPos[u] > 0
      /\ \A u \in nodes : u # Root => datPos[u] > 1
      /\ \A u, v \in nodes : datPos[u] = datPos[v] => u = v
      /\ DOMAIN check = {0} \cup {datPos[u] : u \in nodes \ {Root}}
      /\ check[0] = -1
      /\ \A u \in nodes : u # Root =>
           /\ check[datPos[u]] = datPos[Front(u)]
           /\ datPos[Front(u)] \in DOMAIN base /\ datPos[u] = base[datPos[Front(u)]] + Code(Last(u))
  BY DEF SlotsDone, DatRoot
<1>3. \A u \in nodes : u # Root => Front(u) \in nodes /\ Last(u) \in Runes /\ u = Append(Front(u), Last(u))
  BY NodeFacts
<1>4. Goto(p, c) = IF t >= 0 /\ t < DatSize /\ At(check, t) = p THEN t ELSE 0
  BY DEF Goto
<1>5. ASSUME k \in nodes PROVE Goto(p, c) = datPos[k]
  <2>1. k # Root /\ Front(k) = n /\ Last(k) = Alphabet[i]
    BY <1>1, LastRune DEF Root
  <2>2. check[datPos[k]] = p /\ p \in DOMAIN base /\ datPos[k] = base[p] + c
    BY <1>1, <1>2, <1>5, <2>1
  <2>3. t = datPos[k]
    BY <2>2 DEF At
  <2>4. datPos[k] \in DOMAIN check /\ At(check, datPos[k]) = p
    BY <1>2, <1>5, <2>1, <2>2 DEF At
  <2>5. datPos[k] < DatSize /\ datPos[k] >= 0
    BY <1>2, <1>5, DatSizeFacts
  <2> QED BY <1>4, <2>3, <2>4, <2>5
<1>6. ASSUME At(check, t) = p PROVE k \in nodes
  <2>1. p # 0 /\ p # -1
    BY <1>2
  <2>2. t \in DOMAIN check /\ check[t] = p
    BY <1>6, <2>1 DEF At
  <2>3. PICK u \in nodes : u # Root /\ t = datPos[u]
    BY <1>2, <2>1, <2>2
  <2>4. p = datPos[Front(u)] /\ p \in DOMAIN base /\ datPos[u] = base[p] + Code(Last(u))
    BY <1>2, <2>2, <2>3
  <2>5. Front(u) = n
    BY <1>2, <1>3, <2>3, <2>4
  <2>6. base[p] + c = base[p] + Code(Last(u))
    BY <2>3, <2>4 DEF At
  <2>7. Code(Last(u)) = c
    <3>1. base[p] \in Int /\ Code(Last(u)) \in Int
      BY <1>3, <2>3, <2>4, AlphabetFacts DEF SlotsDone
    <3> QED BY <1>1, <2>6, <3>1
  <2>8. Last(u) = Alphabet[i]
    BY <1>1, <1>3, <2>3, <2>7
  <2> QED BY <1>3, <2>3, <2>5, <2>8
<1>7. ASSUME k \notin nodes PROVE Goto(p, c) = 0
  BY <1>4, <1>6, <1>7
<1> HIDE DEF t
<1> QED BY <1>2, <1>5, <1>7
-----------------------------------------------------------------------------
(* The links of the children of a settled node. *)

(* Every node has its slot once the links are made. *)
LEMMA SlotsAreDone ==
  ASSUME SlotInv, preset = "balanced", phase \notin {"insert", "place"}
  PROVE  SlotsDone
BY DEF SlotInv, SlotsDone, Placed

(* goto and fail in the two tries: the child's link is its longest suffix. *)
LEMMA MapChildFail ==
  ASSUME BuildInv, phase = "link", preset # "balanced", NEW s \in Settled, s # Root, NEW n \in ChildNodes(s)
  PROVE  ChildFail(s, Last(n)) = LongestSuffix(n)
<1> DEFINE ch == Last(n)
           stops == {u \in nodes : u = Root \/ Append(u, ch) \in nodes}
           f == LongestSuffix(s)
<1>1. TrieInv /\ QueueInv /\ SlotInv /\ LinkInv
  BY DEF BuildInv
<1>2. nodes \in SUBSET Seq(Nat) /\ Root \in nodes /\ s \in nodes
  BY <1>1, NodeFacts, SettledFacts
<1>3. \A u \in nodes : StateOf(u) = u
  BY <1>1, StateFacts
<1>4. f \in nodes /\ Len(f) < Len(s)
  BY <1>1, <1>2, LongestSuffixIs
<1>5. f \in Settled
  BY <1>1, <1>4, SettledFacts
<1>6. fail[s] = f
  <2>1. ~Waits(s, NodeQueue)
    BY DEF Settled
  <2>2. fail[StateOf(s)] = StateOf(LongestSuffix(s))
    BY <1>1, <1>2, <2>1 DEF LinkInv
  <2> QED BY <1>2, <1>3, <1>4, <2>2
<1>7. StateOf(Root) \in stops
  BY <1>2, <1>3
<1>8. {u \in nodes : StateOf(u) \in stops} = stops
  BY <1>3
<1>9. FailWalk(fail[s], ch) = Walk(stops, StateOf(f))
  BY <1>3, <1>4, <1>6 DEF FailWalk
<1> HIDE DEF f
<1>10. PICK m \in Settled : Walk(stops, StateOf(f)) = StateOf(m) /\ LongestIn(m, f, stops)
  <2> HIDE DEF stops
  <2>1. PICK m \in Settled : Walk(stops, StateOf(f)) = StateOf(m) /\ LongestIn(m, f, {u \in nodes : StateOf(u) \in stops})
    BY <1>1, <1>5, <1>7, WalkFacts
  <2> QED BY <1>8, <2>1
<1>11. m \in nodes /\ FailWalk(fail[s], ch) = m
  BY <1>1, <1>3, <1>9, <1>10, SettledFacts
<1>12. m = Root \/ Append(m, ch) \in nodes
  BY <1>10 DEF LongestIn
<1>13. LongestSuffix(n) = IF Append(m, ch) \in nodes THEN Append(m, ch) ELSE Root
  BY <1>1, <1>2, <1>10, ChildSuffix DEF f
<1>14. ChildFail(s, ch) = IF Append(m, ch) \in nodes THEN Append(m, ch) ELSE m
  BY <1>11 DEF ChildFail
<1> QED BY <1>12, <1>13, <1>14

(* followFailByCode goes where the trie says. *)
LEMMA DatFollow ==
  ASSUME BuildInv, phase \notin {"insert", "place"}, preset = "balanced", NEW n \in Settled, NEW i \in DOMAIN Alphabet,
         NEW ch, ch = Alphabet[i]
  PROVE  \E m \in Settled :
           /\ LongestIn(m, n, {u \in nodes : u = Root \/ Append(u, ch) \in nodes})
           /\ FollowFail(datPos[n], i - 1) = datPos[IF Append(m, ch) \in nodes THEN Append(m, ch) ELSE Root]
<1> DEFINE c == i - 1
           stops == {r \in DOMAIN fail : r = DatRoot \/ Goto(r, c) # 0}
           down == {u \in nodes : u = Root \/ Append(u, ch) \in nodes}
<1>1. TrieInv /\ QueueInv /\ SlotInv /\ LinkInv /\ SlotsDone
  BY SlotsAreDone DEF BuildInv
<1>2. Root \in nodes /\ n \in nodes /\ Settled \in SUBSET nodes
  BY <1>1, NodeFacts, SettledFacts
<1>3. \A u \in nodes : StateOf(u) = datPos[u]
  BY <1>1, StateFacts
<1>4. \A u \in nodes : Goto(datPos[u], c) = IF Append(u, ch) \in nodes THEN datPos[Append(u, ch)] ELSE 0
  BY <1>1, GotoFacts
<1>5. \A u \in nodes : Goto(datPos[u], c) # 0 <=> Append(u, ch) \in nodes
  BY <1>1, GotoFacts
<1>6. \A u \in nodes : datPos[u] \in DOMAIN fail /\ (datPos[u] = DatRoot <=> u = Root)
  <2>1. DOMAIN fail = {StateOf(u) : u \in nodes}
    BY <1>1 DEF LinkInv
  <2>2. datPos[Root] = DatRoot
    BY <1>1, <1>2 DEF SlotsDone
  <2> QED BY <1>1, <1>2, <1>3, <2>1, <2>2 DEF SlotsDone
<1>7. \A u \in nodes : StateOf(u) \in stops <=> u \in down
  BY <1>3, <1>5, <1>6
<1>8. StateOf(Root) \in stops
  BY <1>2, <1>7
<1>9. {u \in nodes : StateOf(u) \in stops} = down
  <2> HIDE DEF stops
  <2> QED BY <1>7
<1>10. PICK m \in Settled : Walk(stops, StateOf(n)) = StateOf(m) /\ LongestIn(m, n, down)
  <2> HIDE DEF stops, down
  <2>1. PICK m \in Settled : Walk(stops, StateOf(n)) = StateOf(m) /\ LongestIn(m, n, {u \in nodes : StateOf(u) \in stops})
    BY <1>1, <1>8, WalkFacts
  <2> QED BY <1>9, <2>1
<1>11. m \in nodes /\ Walk(stops, datPos[n]) = datPos[m]
  BY <1>2, <1>3, <1>10
<1>12. FollowFail(datPos[n], c) = IF Goto(datPos[m], c) # 0 THEN Goto(datPos[m], c) ELSE DatRoot
  BY <1>11 DEF FollowFail
<1>13. FollowFail(datPos[n], c) = datPos[IF Append(m, ch) \in nodes THEN Append(m, ch) ELSE Root]
  BY <1>2, <1>4, <1>5, <1>6, <1>11, <1>12
<1> QED BY <1>10, <1>13
-----------------------------------------------------------------------------
(* The steps of building. *)

(* What follows from the trie alone stays with it. *)
LEMMA TrieKept ==
  ASSUME UNCHANGED <<dict, nodes>>
  PROVE  /\ Runes' = Runes /\ Alphabet' = Alphabet
         /\ \A ch : Code(ch)' = Code(ch)
         /\ \A n : Assigned(n)' = Assigned(n)
         /\ \A n : LongestSuffix(n)' = LongestSuffix(n)
         /\ \A n : ChildNodes(n)' = ChildNodes(n)
<1>1. dict' = dict /\ nodes' = nodes
  OBVIOUS
<1>2. Runes' = Runes
  BY <1>1 DEF Runes
<1>3. Alphabet' = Alphabet
  BY <1>2 DEF Alphabet, Sorted
<1>4. ASSUME NEW CONSTANT ch PROVE Code(ch)' = Code(ch)
  BY <1>3 DEF Code
<1>5. ASSUME NEW CONSTANT n PROVE Assigned(n)' = Assigned(n)
  BY <1>1 DEF Assigned
<1>6. ASSUME NEW CONSTANT n PROVE LongestSuffix(n)' = LongestSuffix(n)
  BY <1>1 DEF LongestSuffix
<1>7. ASSUME NEW CONSTANT n PROVE ChildNodes(n)' = ChildNodes(n)
  BY <1>1, <1>2 DEF ChildNodes, Children
<1> QED BY <1>2, <1>3, <1>4, <1>5, <1>6, <1>7

(* The trie, once its keywords are in. *)
LEMMA TrieInvKept ==
  ASSUME TrieInv, todo = {}, UNCHANGED trieVars,
         phase' \in {"place", "link", "rows", "ready", "scan", "done"},
         phase' = "place" => preset = "balanced", phase' = "rows" => preset = "speed"
  PROVE  TrieInv'
<1>1. preset' = preset /\ dict' = dict /\ todo' = todo /\ nodes' = nodes
  BY DEF trieVars
<1> QED BY <1>1 DEF TrieInv

(* The array, once every node has its slot. *)
LEMMA SlotInvKept ==
  ASSUME SlotInv, phase \notin {"insert", "place"} \/ (phase = "place" /\ Placed = nodes) \/ (phase = "insert" /\ preset # "balanced"),
         phase' \notin {"insert", "place"}, UNCHANGED <<trieVars, datVars, own>>
  PROVE  SlotInv'
<1>1. /\ preset' = preset /\ dict' = dict /\ todo' = todo /\ nodes' = nodes
      /\ base' = base /\ check' = check /\ datPos' = datPos /\ depth' = depth /\ own' = own
  BY DEF trieVars, datVars
<1>2. (\A ch : Code(ch)' = Code(ch)) /\ \A n : Assigned(n)' = Assigned(n)
  BY <1>1, TrieKept
<1>3. Placed' = nodes
  BY <1>1 DEF Placed
<1>4. CASE preset = "balanced"
  <2>1. Placed = nodes /\ phase # "insert"
    BY <1>4 DEF Placed
  <2> QED BY <1>1, <1>2, <1>3, <1>4, <2>1 DEF SlotInv
<1>5. CASE preset # "balanced"
  BY <1>1, <1>5 DEF SlotInv
<1> QED BY <1>4, <1>5

(* A node is linked: its children get their longest suffixes and enter the queue. *)
LEMMA LinkStep ==
  ASSUME BuildInv, phase = "link", phase' = "link", UNCHANGED <<trieVars, datVars, own>>,
         NEW s, s = NodeQueue[1], NEW ord, ListsChildren(ord, s),
         NodeQueue' \in Seq(nodes), Shifted(NodeQueue, ord, NodeQueue'),
         preset = "balanced" => queue' \in Seq(Range(datPos)),
         DOMAIN fail' = DOMAIN fail,
         \A n \in nodes : fail'[StateOf(n)] = IF n \in ChildNodes(s) THEN StateOf(LongestSuffix(n)) ELSE fail[StateOf(n)]
  PROVE  BuildInv'
<1> DEFINE Q == NodeQueue
           Q2 == NodeQueue'
<1>1. TrieInv /\ QueueInv /\ SlotInv /\ LinkInv
  BY DEF BuildInv
<1>2. /\ preset' = preset /\ dict' = dict /\ todo' = todo /\ nodes' = nodes /\ datPos' = datPos /\ todo = {}
  BY <1>1 DEF trieVars, datVars, TrieInv
<1>3. Apart(Q) /\ Layered(Q) /\ Root \notin Range(Q)
  BY <1>1 DEF QueueInv
<1>4. Apart(Q2) /\ s \in nodes /\ Range(Q2) = (Range(Q) \ {s}) \cup ChildNodes(s) /\ Layered(Q2)
      /\ \A n \in nodes : Waits(n, Q2) <=> Waits(n, Q) /\ n \notin ChildNodes(s)
  BY <1>1, <1>3, QueueStepped
<1>5. TrieInv' /\ SlotInv'
  BY <1>1, <1>2, TrieInvKept, SlotInvKept
<1>6. Root \notin Range(Q2)
  BY <1>1, <1>3, <1>4, ChildFacts
<1> HIDE DEF Q, Q2
<1>7. QueueInv'
  <2>1. Apart(NodeQueue)'
    BY <1>2, <1>4 DEF Apart, Q2
  <2>2. Layered(NodeQueue)'
    BY <1>2, <1>4 DEF Layered, Waits, Q2
  <2>3. Root \notin Range(NodeQueue')
    BY <1>6 DEF Q2
  <2>4. Range(datPos)' = Range(datPos)
    BY <1>2
  <2> QED BY <1>2, <2>1, <2>2, <2>3, <2>4 DEF QueueInv
<1>8. \A n : StateOf(n)' = StateOf(n)
  BY <1>2 DEF StateOf
<1>9. \A n : LongestSuffix(n)' = LongestSuffix(n)
  BY <1>2, TrieKept
<1>10. \A n : Waits(n, NodeQueue)' <=> Waits(n, Q2)
  BY DEF Waits, Q2
<1>11. /\ DOMAIN fail = {StateOf(n) : n \in nodes}
       /\ fail[StateOf(Root)] = StateOf(Root)
       /\ \A n \in nodes : n # Root =>
            fail[StateOf(n)] = IF ~Waits(n, Q) THEN StateOf(LongestSuffix(n))
                               ELSE IF preset = "balanced" THEN 0 ELSE Root
  BY <1>1 DEF LinkInv, Q
<1>12. Root \in nodes /\ Root \notin ChildNodes(s)
  BY <1>1, <1>4, NodeFacts, ChildFacts
<1>13. /\ DOMAIN fail' = {StateOf(n) : n \in nodes}
       /\ fail'[StateOf(Root)] = StateOf(Root)
       /\ \A n \in nodes : n # Root =>
            fail'[StateOf(n)] = IF ~Waits(n, Q2) THEN StateOf(LongestSuffix(n))
                               ELSE IF preset = "balanced" THEN 0 ELSE Root
  BY <1>4, <1>11, <1>12
<1>14. LinkInv'
  BY <1>2, <1>8, <1>9, <1>10, <1>13 DEF LinkInv
<1> QED BY <1>5, <1>7, <1>14 DEF BuildInv

\* The node s is served: its children ord enter the queue, with their output links.
Moved(s, ord) ==
    /\ s = NodeQueue[1] /\ ListsChildren(ord, s) /\ NodeQueue' \in Seq(nodes) /\ Shifted(NodeQueue, ord, NodeQueue')
    /\ DOMAIN outLink' = DOMAIN fail
    /\ \A n \in nodes :
         outLink'[StateOf(n)] = IF n \in ChildNodes(s) THEN OutLinkOf(StateOf(LongestSuffix(n))) ELSE outLink[StateOf(n)]

(* A node of a trie is linked. *)
LEMMA TrieLinkStep ==
  ASSUME BuildInv, phase = "link", preset # "balanced", queue # Empty, NEW s, s = Head(queue),
         LinkChildren(s, ChildNodes(s)), NEW ord, ListsChildren(ord, s), queue' = Tail(queue) \o ord
  PROVE  BuildInv' /\ Moved(s, ord)
<1>1. TrieInv /\ QueueInv /\ SlotInv /\ LinkInv
  BY DEF BuildInv
<1>2. /\ phase' = phase /\ preset' = preset /\ UNCHANGED <<trieVars, datVars, own>>
      /\ fail' = [n \in nodes |-> IF n \in ChildNodes(s) THEN ChildFail(s, Last(n)) ELSE fail[n]]
      /\ outLink' = [n \in nodes |-> IF n \in ChildNodes(s) THEN OutLinkOf(ChildFail(s, Last(n))) ELSE outLink[n]]
  BY DEF LinkChildren, trieVars
<1>3. NodeQueue = queue /\ NodeQueue' = queue'
  BY <1>2 DEF NodeQueue
<1>4. Apart(queue) /\ Root \notin Range(queue) /\ queue # <<>>
  BY <1>1, <1>3 DEF QueueInv, Empty
<1>5. queue \in Seq(nodes)
  BY <1>4 DEF Apart
<1>6. s \in nodes
  BY <1>4, <1>5, HeadTailProperties
<1>7. ord \in Seq(nodes)
  <2>1. ChildNodes(s) \subseteq nodes
    BY <1>1, <1>6, ChildFacts
  <2> QED BY <2>1, SeqMonotonic DEF ListsChildren
<1>8. Head(queue) = queue[1] /\ queue' \in Seq(nodes) /\ Shifted(queue, ord, queue')
  BY <1>4, <1>5, <1>7, QueueSeq
<1>9. ~Waits(s, queue) /\ s # Root
  <2>1. ~Waits(s, queue)
    BY <1>1, <1>4, <1>8, QueueStepped
  <2>2. s \in Range(queue)
    BY <1>8 DEF Range, Shifted
  <2> QED BY <1>4, <2>1, <2>2
<1>10. s \in Settled
  BY <1>3, <1>6, <1>9 DEF Settled
<1>11. \A n \in ChildNodes(s) : ChildFail(s, Last(n)) = LongestSuffix(n)
  BY <1>9, <1>10, MapChildFail
<1>12. \A n \in nodes : StateOf(n) = n
  BY <1>1, StateFacts
<1>13. DOMAIN fail = nodes
  <2>1. DOMAIN fail = {StateOf(n) : n \in nodes}
    BY <1>1 DEF LinkInv
  <2> QED BY <1>12, <2>1
<1>14. ASSUME NEW n \in nodes
       PROVE  fail'[StateOf(n)] = IF n \in ChildNodes(s) THEN StateOf(LongestSuffix(n)) ELSE fail[StateOf(n)]
  <2>1. fail'[n] = IF n \in ChildNodes(s) THEN ChildFail(s, Last(n)) ELSE fail[n]
    BY <1>2
  <2>2. n \in ChildNodes(s) => LongestSuffix(n) \in nodes
    BY <1>1, <1>6, ChildFacts, LongestSuffixIs
  <2> QED BY <1>11, <1>12, <2>1, <2>2
<1>15. DOMAIN fail' = DOMAIN fail /\ DOMAIN outLink' = DOMAIN fail
  BY <1>2, <1>13
<1>16. BuildInv'
  BY <1>2, <1>3, <1>8, <1>14, <1>15, LinkStep
<1>17. ASSUME NEW n \in nodes
       PROVE  outLink'[StateOf(n)] = IF n \in ChildNodes(s) THEN OutLinkOf(StateOf(LongestSuffix(n))) ELSE outLink[StateOf(n)]
  <2>1. outLink'[n] = IF n \in ChildNodes(s) THEN OutLinkOf(ChildFail(s, Last(n))) ELSE outLink[n]
    BY <1>2
  <2>2. n \in ChildNodes(s) => StateOf(LongestSuffix(n)) = LongestSuffix(n)
    BY <1>1, <1>6, <1>12, ChildFacts, LongestSuffixIs
  <2> QED BY <1>11, <1>12, <2>1, <2>2
<1>18. Moved(s, ord)
  BY <1>3, <1>8, <1>15, <1>17 DEF Moved
<1> QED BY <1>16, <1>18

(* A node of the map trie is linked. *)
LEMMA MapLinkStep ==
  ASSUME BuildInv, MapLink
  PROVE  BuildInv' /\ \E node, kidsOf : Moved(node, kidsOf)
<1> DEFINE s == Head(queue)
<1>1. TrieInv /\ QueueInv
  BY DEF BuildInv
<1>2. /\ phase = "link" /\ preset # "balanced" /\ queue # Empty /\ LinkChildren(s, ChildNodes(s))
      /\ \E ord \in Orders(ChildNodes(s)) : queue' = Tail(queue) \o ord
  BY DEF MapLink
<1>3. PICK ord \in Orders(ChildNodes(s)) : queue' = Tail(queue) \o ord
  BY <1>2
<1>4. s \in nodes
  <2>1. queue \in Seq(nodes) /\ queue # <<>>
    BY <1>1, <1>2 DEF QueueInv, Apart, NodeQueue, Empty
  <2> QED BY <2>1, HeadTailProperties
<1> HIDE DEF s
<1>5. ListsChildren(ord, s)
  BY <1>1, <1>4, ChildFacts, OrdersFacts DEF ListsChildren
<1>6. BuildInv' /\ Moved(s, ord)
  BY <1>2, <1>3, <1>5, TrieLinkStep DEF s
<1> QED BY <1>6

(* A node of the flat trie is linked. *)
LEMMA SpeedLinkStep ==
  ASSUME BuildInv, SpeedLink
  PROVE  BuildInv' /\ \E node, kidsOf : Moved(node, kidsOf)
<1> DEFINE s == Head(queue)
           srt == Sorted(Children(s))
           ord == [i \in DOMAIN srt |-> Append(s, srt[i])]
<1>1. TrieInv /\ QueueInv
  BY DEF BuildInv
<1>2. phase = "link" /\ preset # "balanced" /\ queue # Empty /\ LinkChildren(s, ChildNodes(s)) /\ queue' = Tail(queue) \o ord
  BY DEF SpeedLink
<1>3. s \in nodes
  <2>1. queue \in Seq(nodes) /\ queue # <<>>
    BY <1>1, <1>2 DEF QueueInv, Apart, NodeQueue, Empty
  <2> QED BY <2>1, HeadTailProperties
<1> HIDE DEF s
<1>4. /\ srt \in Seq(Children(s)) /\ Range(srt) = Children(s) /\ DOMAIN srt = 1 .. Len(srt) /\ Len(srt) \in Nat
      /\ \A i, j \in DOMAIN srt : i # j => srt[i] # srt[j]
  <2>1. Children(s) \in SUBSET Int /\ IsFiniteSet(Children(s))
    BY <1>1, <1>3, ChildFacts
  <2> QED BY <2>1, LessSorts
<1>5. /\ \A ch \in Children(s) : ch \in Nat /\ Append(s, ch) \in ChildNodes(s) /\ Last(Append(s, ch)) = ch
      /\ \A n \in ChildNodes(s) : Last(n) \in Children(s) /\ n = Append(s, Last(n))
  BY <1>1, <1>3, ChildFacts
<1> HIDE DEF srt
<1>6. \A i \in DOMAIN srt : srt[i] \in Children(s)
  BY <1>4
<1>7. \A ch \in Children(s) : \E i \in DOMAIN srt : ch = srt[i]
  BY <1>4 DEF Range
<1>8. DOMAIN ord = DOMAIN srt /\ \A i \in DOMAIN srt : ord[i] = Append(s, srt[i]) /\ ord[i] \in ChildNodes(s) /\ Last(ord[i]) = srt[i]
  BY <1>5, <1>6
<1>9. ord \in Seq(ChildNodes(s))
  BY <1>4, <1>8
<1> HIDE DEF ord
<1>10. \A i, j \in DOMAIN ord : i # j => ord[i] # ord[j]
  BY <1>4, <1>8
<1>11. ASSUME NEW n \in ChildNodes(s) PROVE n \in Range(ord)
  <2>1. PICK i \in DOMAIN srt : Last(n) = srt[i]
    BY <1>5, <1>7
  <2> QED BY <1>5, <1>8, <2>1 DEF Range
<1>12. Range(ord) = ChildNodes(s)
  BY <1>8, <1>11 DEF Range
<1>13. ListsChildren(ord, s)
  BY <1>9, <1>10, <1>12 DEF ListsChildren
<1>14. BuildInv' /\ Moved(s, ord)
  BY <1>2, <1>13, TrieLinkStep DEF s
<1> QED BY <1>14

(* Which node a slot belongs to. *)
LEMMA NodeOfFacts ==
  ASSUME TrieInv, SlotsDone
  PROVE  /\ \A n \in nodes : NodeOf(datPos[n]) = n /\ datPos[n] \in Range(datPos)
         /\ \A p \in Range(datPos) : NodeOf(p) \in nodes /\ datPos[NodeOf(p)] = p
<1>1. DOMAIN datPos = nodes /\ \A m, n \in nodes : datPos[m] = datPos[n] => m = n
  BY DEF SlotsDone
<1>2. \A p \in Range(datPos) : \E n \in nodes : datPos[n] = p
  BY <1>1 DEF Range
<1> QED BY <1>1, <1>2 DEF NodeOf, Range

\* The nodes of a queue of slots.
NodesOf(Q) == [i \in DOMAIN Q |-> NodeOf(Q[i])]

(* A queue of slots is shifted as the queue of their nodes is. *)
LEMMA ShiftedNodes ==
  ASSUME NEW R, NEW Q \in Seq(R), NEW ord \in Seq(R), NEW Q2 \in Seq(R), Shifted(Q, ord, Q2),
         \A p \in R : NodeOf(p) \in nodes
  PROVE  NodesOf(Q2) \in Seq(nodes) /\ Shifted(NodesOf(Q), NodesOf(ord), NodesOf(Q2))
<1> DEFINE nQ == NodesOf(Q)
           nOrd == NodesOf(ord)
           nQ2 == NodesOf(Q2)
<1>1. /\ DOMAIN Q = 1 .. Len(Q) /\ Len(Q) \in Nat /\ \A i \in DOMAIN Q : Q[i] \in R
      /\ DOMAIN ord = 1 .. Len(ord) /\ Len(ord) \in Nat /\ \A i \in DOMAIN ord : ord[i] \in R
      /\ DOMAIN Q2 = 1 .. Len(Q2) /\ Len(Q2) \in Nat /\ \A i \in DOMAIN Q2 : Q2[i] \in R
  OBVIOUS
<1>2. /\ nQ \in Seq(nodes) /\ Len(nQ) = Len(Q) /\ DOMAIN nQ = DOMAIN Q /\ \A i \in DOMAIN Q : nQ[i] = NodeOf(Q[i])
  BY <1>1 DEF NodesOf
<1>3. /\ nOrd \in Seq(nodes) /\ Len(nOrd) = Len(ord) /\ DOMAIN nOrd = DOMAIN ord /\ \A i \in DOMAIN ord : nOrd[i] = NodeOf(ord[i])
  BY <1>1 DEF NodesOf
<1>4. /\ nQ2 \in Seq(nodes) /\ Len(nQ2) = Len(Q2) /\ DOMAIN nQ2 = DOMAIN Q2 /\ \A i \in DOMAIN Q2 : nQ2[i] = NodeOf(Q2[i])
  BY <1>1 DEF NodesOf
<1> HIDE DEF nQ, nOrd, nQ2
<1>5. /\ 1 \in DOMAIN nQ /\ DOMAIN nQ = 1 .. Len(nQ) /\ Len(nQ) \in Nat /\ Len(nOrd) \in Nat
      /\ DOMAIN nQ2 = 1 .. (Len(nQ) - 1 + Len(nOrd))
  BY <1>2, <1>3, <1>4 DEF Shifted
<1>6. ASSUME NEW i \in DOMAIN nQ2
      PROVE  \/ i + 1 \in DOMAIN nQ /\ i + 1 > 1 /\ i < Len(nQ) /\ nQ2[i] = nQ[i + 1]
             \/ i - Len(nQ) + 1 \in DOMAIN nOrd /\ i >= Len(nQ) /\ nQ2[i] = nOrd[i - Len(nQ) + 1]
  <2>1. nQ2[i] = NodeOf(Q2[i]) /\ i \in DOMAIN Q2
    BY <1>4
  <2>2. CASE i + 1 \in DOMAIN Q /\ i + 1 > 1 /\ i < Len(Q) /\ Q2[i] = Q[i + 1]
    BY <1>2, <2>1, <2>2
  <2>3. CASE i - Len(Q) + 1 \in DOMAIN ord /\ i >= Len(Q) /\ Q2[i] = ord[i - Len(Q) + 1]
    BY <1>2, <1>3, <2>1, <2>3
  <2> QED BY <2>1, <2>2, <2>3 DEF Shifted
<1>7. ASSUME NEW i \in DOMAIN nQ, i > 1 PROVE i - 1 \in DOMAIN nQ2 /\ nQ2[i - 1] = nQ[i]
  <2>1. i \in DOMAIN Q
    BY <1>2
  <2>2. i - 1 \in DOMAIN Q2 /\ Q2[i - 1] = Q[i]
    BY <1>7, <2>1 DEF Shifted
  <2> QED BY <1>2, <1>4, <2>1, <2>2
<1>8. ASSUME NEW i \in DOMAIN nOrd PROVE i + Len(nQ) - 1 \in DOMAIN nQ2 /\ nQ2[i + Len(nQ) - 1] = nOrd[i]
  <2>1. i \in DOMAIN ord
    BY <1>3
  <2>2. i + Len(Q) - 1 \in DOMAIN Q2 /\ Q2[i + Len(Q) - 1] = ord[i]
    BY <2>1 DEF Shifted
  <2> QED BY <1>2, <1>3, <1>4, <2>1, <2>2
<1> QED BY <1>2, <1>3, <1>4, <1>5, <1>6, <1>7, <1>8 DEF Shifted, nQ, nOrd, nQ2

(* Sorting the slots of a node's children lists its children. *)
LEMMA SortedSlots ==
  ASSUME TrieInv, SlotsDone, NEW h \in nodes, NEW kids, kids = {datPos[k] : k \in ChildNodes(h)},
         NEW ord, ord = [i \in DOMAIN Sorted(kids) |-> NodeOf(Sorted(kids)[i])]
  PROVE  ListsChildren(ord, h) /\ Sorted(kids) \in Seq(Range(datPos))
<1> DEFINE srt == Sorted(kids)
<1>1. /\ ChildNodes(h) \in SUBSET nodes /\ IsFiniteSet(ChildNodes(h))
      /\ \A k \in ChildNodes(h) : k \in nodes /\ datPos[k] \in kids /\ datPos[k] \in Nat /\ NodeOf(datPos[k]) = k /\ datPos[k] \in Range(datPos)
  BY ChildFacts, NodeOfFacts DEF SlotsDone
<1>2. \A p \in kids : \E k \in ChildNodes(h) : p = datPos[k]
  OBVIOUS
<1>3. kids \in SUBSET Int /\ kids \subseteq Range(datPos)
  BY <1>1, <1>2
<1>4. IsFiniteSet(kids)
  <2> DEFINE f == [k \in ChildNodes(h) |-> datPos[k]]
  <2>1. Range(f) = kids /\ DOMAIN f = ChildNodes(h)
    BY DEF Range
  <2> HIDE DEF f
  <2> QED BY <1>1, <2>1, ImageFinite
<1>5. /\ srt \in Seq(kids) /\ Range(srt) = kids /\ \A i, j \in DOMAIN srt : i # j => srt[i] # srt[j]
  BY <1>3, <1>4, LessSorts
<1>6. ord = [i \in DOMAIN srt |-> NodeOf(srt[i])]
  OBVIOUS
<1> HIDE DEF srt
<1>7. \A i \in DOMAIN srt : srt[i] \in kids
  BY <1>5
<1>8. \A p \in kids : NodeOf(p) \in ChildNodes(h) /\ datPos[NodeOf(p)] = p
  BY <1>1, <1>2
<1>9. DOMAIN ord = DOMAIN srt /\ \A i \in DOMAIN srt : ord[i] = NodeOf(srt[i]) /\ ord[i] \in ChildNodes(h) /\ datPos[ord[i]] = srt[i]
  BY <1>6, <1>7, <1>8
<1>10. ord \in Seq(ChildNodes(h))
  <2>1. Len(srt) \in Nat /\ DOMAIN srt = 1 .. Len(srt)
    BY <1>5
  <2>2. ord \in [1 .. Len(srt) -> ChildNodes(h)]
    BY ONLY <1>6, <1>9, <2>1
  <2> QED BY ONLY <2>1, <2>2
<1>11. ASSUME NEW k \in ChildNodes(h) PROVE k \in Range(ord)
  <2>1. PICK i \in DOMAIN srt : srt[i] = datPos[k]
    BY <1>1, <1>5 DEF Range
  <2>2. i \in DOMAIN ord /\ ord[i] = NodeOf(datPos[k]) /\ NodeOf(datPos[k]) = k
    BY <1>1, <1>9, <2>1
  <2> QED BY ONLY <2>2 DEF Range
<1>12. Range(ord) = ChildNodes(h)
  BY <1>9, <1>11 DEF Range
<1>13. \A i, j \in DOMAIN ord : i # j => ord[i] # ord[j]
  BY ONLY <1>5, <1>9
<1>14. srt \in Seq(Range(datPos))
  BY <1>3, <1>5, SeqMonotonic
<1> QED BY <1>10, <1>12, <1>13, <1>14 DEF ListsChildren, srt

(* The slots found by code are those of the children. *)
LEMMA KidsAreChildren ==
  ASSUME TrieInv, SlotsDone, NEW h \in nodes
  PROVE  {Goto(datPos[h], c) : c \in 0 .. (Len(Alphabet) - 1)} \ {0} = {datPos[k] : k \in ChildNodes(h)}
<1>1. DOMAIN Alphabet = 1 .. Len(Alphabet) /\ Len(Alphabet) \in Nat
  BY AlphabetFacts
<1>2. ASSUME NEW c \in 0 .. (Len(Alphabet) - 1), Goto(datPos[h], c) # 0
      PROVE  \E k \in ChildNodes(h) : Goto(datPos[h], c) = datPos[k]
  <2>1. c + 1 \in DOMAIN Alphabet /\ (c + 1) - 1 = c
    BY <1>1
  <2>2. /\ Goto(datPos[h], (c + 1) - 1) = IF Append(h, Alphabet[c + 1]) \in nodes THEN datPos[Append(h, Alphabet[c + 1])] ELSE 0
    BY <2>1, GotoFacts
  <2>3. Append(h, Alphabet[c + 1]) \in nodes /\ Goto(datPos[h], c) = datPos[Append(h, Alphabet[c + 1])]
    BY <1>2, <2>1, <2>2
  <2>4. Alphabet[c + 1] \in Nat
    BY <2>1, AlphabetFacts, DictFacts
  <2>5. Append(h, Alphabet[c + 1]) \in ChildNodes(h)
    BY <2>3, <2>4, ChildFacts
  <2> QED BY <2>3, <2>5
<1>3. ASSUME NEW k \in ChildNodes(h)
      PROVE  datPos[k] # 0 /\ \E c \in 0 .. (Len(Alphabet) - 1) : Goto(datPos[h], c) = datPos[k]
  <2>1. k \in nodes /\ k = Append(h, Last(k)) /\ Last(k) \in Runes /\ k # Root
    BY ChildFacts, NodeFacts
  <2> DEFINE c == Code(Last(k))
  <2>2. c \in 0 .. (Len(Alphabet) - 1) /\ c + 1 \in DOMAIN Alphabet /\ Alphabet[c + 1] = Last(k)
    BY <2>1, AlphabetFacts
  <2> HIDE DEF c
  <2>3. Goto(datPos[h], (c + 1) - 1) = datPos[k]
    <3>1. Goto(datPos[h], (c + 1) - 1) = IF Append(h, Alphabet[c + 1]) \in nodes THEN datPos[Append(h, Alphabet[c + 1])] ELSE 0
      BY <2>2, GotoFacts
    <3> QED BY <2>1, <2>2, <3>1
  <2>4. (c + 1) - 1 = c
    BY <2>2
  <2>5. datPos[k] # 0
    BY <2>1 DEF SlotsDone, DatRoot
  <2> QED BY <2>2, <2>3, <2>4, <2>5
<1> QED BY <1>2, <1>3

(* The link of a child in the double array. *)
LEMMA DatChildFail ==
  ASSUME BuildInv, phase = "link", preset = "balanced", NEW h \in Settled, h # Root, NEW k \in ChildNodes(h)
  PROVE  FollowFail(fail[datPos[h]], datPos[k] - base[datPos[h]]) = datPos[LongestSuffix(k)]
<1> DEFINE f == LongestSuffix(h)
           ch == Last(k)
           c == Code(ch)
<1>1. TrieInv /\ QueueInv /\ SlotInv /\ LinkInv /\ SlotsDone
  BY SlotsAreDone DEF BuildInv
<1>2. h \in nodes /\ k \in nodes /\ k # Root /\ Front(k) = h /\ ch \in Runes /\ \A u \in nodes : StateOf(u) = datPos[u]
  BY <1>1, SettledFacts, ChildFacts, NodeFacts, StateFacts
<1>3. f \in nodes /\ Len(f) < Len(h)
  BY <1>1, <1>2, LongestSuffixIs
<1>4. f \in Settled
  BY <1>1, <1>3, SettledFacts
<1>5. fail[datPos[h]] = datPos[f]
  <2>1. ~Waits(h, NodeQueue)
    BY DEF Settled
  <2>2. fail[StateOf(h)] = StateOf(LongestSuffix(h))
    BY <1>1, <1>2, <2>1 DEF LinkInv
  <2> QED BY <1>2, <1>3, <2>2
<1>6. c \in 0 .. (Len(Alphabet) - 1) /\ c + 1 \in DOMAIN Alphabet /\ Alphabet[c + 1] = ch /\ (c + 1) - 1 = c
  BY <1>1, <1>2, AlphabetFacts
<1>7. datPos[k] - base[datPos[h]] = c
  <2>1. datPos[h] \in DOMAIN base /\ datPos[k] = base[datPos[h]] + c
    BY <1>1, <1>2 DEF SlotsDone
  <2>2. base[datPos[h]] \in Int /\ c \in Int
    BY <1>1, <1>6, <2>1 DEF SlotsDone
  <2> QED BY <2>1, <2>2
<1> HIDE DEF f, c, ch
<1>8. PICK m \in Settled :
           /\ LongestIn(m, f, {u \in nodes : u = Root \/ Append(u, ch) \in nodes})
           /\ FollowFail(datPos[f], (c + 1) - 1) = datPos[IF Append(m, ch) \in nodes THEN Append(m, ch) ELSE Root]
  BY <1>4, <1>6, DatFollow
<1>9. LongestSuffix(k) = IF Append(m, ch) \in nodes THEN Append(m, ch) ELSE Root
  BY <1>1, <1>2, <1>8, ChildSuffix DEF f, ch
<1> QED BY <1>5, <1>6, <1>7, <1>8, <1>9

(* A node of the double array is linked. *)
LEMMA DatLinkStep ==
  ASSUME BuildInv, DatLink
  PROVE  BuildInv' /\ \E node, kidsOf : Moved(node, kidsOf)
<1> DEFINE s == Head(queue)
           kids == {Goto(s, c) : c \in 0 .. (Len(Alphabet) - 1)} \ {0}
           failOf(p) == FollowFail(fail[s], p - base[s])
           Q == NodeQueue
           h == NodeOf(s)
           ord == [i \in DOMAIN Sorted(kids) |-> NodeOf(Sorted(kids)[i])]
<1>1. TrieInv /\ QueueInv /\ SlotInv /\ LinkInv
  BY DEF BuildInv
<1>2. /\ phase = "link" /\ phase' = "link" /\ preset = "balanced" /\ queue # <<>>
      /\ fail' = [p \in DOMAIN fail |-> IF p \in kids THEN failOf(p) ELSE fail[p]]
      /\ outLink' = [p \in DOMAIN fail |-> IF p \in kids THEN OutLinkOf(failOf(p)) ELSE outLink[p]]
      /\ queue' = Tail(queue) \o Sorted(kids)
      /\ UNCHANGED <<trieVars, datVars, own>>
  BY DEF DatLink, Empty
<1>3. SlotsDone
  BY <1>1, <1>2, SlotsAreDone
<1>4. preset' = preset /\ nodes' = nodes /\ datPos' = datPos
  BY <1>2 DEF trieVars, datVars
<1>5. queue \in Seq(Range(datPos)) /\ Apart(Q) /\ Root \notin Range(Q)
  BY <1>1, <1>2 DEF QueueInv
<1>6. Q = [i \in DOMAIN queue |-> NodeOf(queue[i])]
  BY <1>2 DEF NodeQueue
<1>7. NodeQueue' = [i \in DOMAIN queue' |-> NodeOf(queue'[i])]
  <2>1. NodeQueue' = [i \in DOMAIN queue' |-> NodeOf(queue[i])']
    BY <1>2, <1>4 DEF NodeQueue
  <2>2. ASSUME NEW CONSTANT i PROVE NodeOf(queue[i])' = NodeOf(queue'[i])
    BY <1>4 DEF NodeOf
  <2> QED BY <2>1, <2>2
<1>8. s \in Range(datPos) /\ s = queue[1] /\ 1 \in DOMAIN queue
  BY <1>2, <1>5, HeadTailProperties, EmptySeq
<1>9. h \in nodes /\ datPos[h] = s
  BY <1>1, <1>3, <1>8, NodeOfFacts
<1> HIDE DEF s, h
<1>10. kids = {datPos[k] : k \in ChildNodes(h)}
  BY <1>1, <1>3, <1>9, KidsAreChildren
<1> HIDE DEF kids, failOf
<1>11. ListsChildren(ord, h) /\ Sorted(kids) \in Seq(Range(datPos))
  BY <1>1, <1>3, <1>9, <1>10, SortedSlots
<1>12. queue' \in Seq(Range(datPos)) /\ Shifted(queue, Sorted(kids), queue')
  <2> DEFINE srt == Sorted(kids)
  <2>1. srt \in Seq(Range(datPos)) /\ queue' = Tail(queue) \o srt
    BY <1>2, <1>11
  <2> HIDE DEF srt
  <2>2. queue' \in Seq(Range(datPos)) /\ Shifted(queue, srt, queue')
    BY <1>2, <1>5, <2>1, QueueSeq
  <2> QED BY <2>2 DEF srt
<1>13. \A p \in Range(datPos) : NodeOf(p) \in nodes
  BY <1>1, <1>3, NodeOfFacts
<1>14. NodeQueue' \in Seq(nodes) /\ Shifted(Q, ord, NodeQueue')
  <2> DEFINE srt == Sorted(kids)
             Q2 == NodeQueue'
  <2>1. srt \in Seq(Range(datPos)) /\ ord = NodesOf(srt) /\ Shifted(queue, srt, queue')
    BY <1>11, <1>12 DEF NodesOf
  <2>2. Q2 = NodesOf(queue') /\ Q = NodesOf(queue)
    BY <1>6, <1>7 DEF NodesOf
  <2> HIDE DEF srt, ord, Q, Q2
  <2>3. Q2 \in Seq(nodes) /\ Shifted(Q, ord, Q2)
    BY <1>5, <1>12, <1>13, <2>1, <2>2, ShiftedNodes
  <2> QED BY <2>3 DEF Q2
<1>15. h = NodeQueue[1]
  BY <1>6, <1>8 DEF h
<1>16. h \in Settled /\ h # Root
  <2> DEFINE Q2 == NodeQueue'
  <2>1. Q2 \in Seq(nodes) /\ Shifted(Q, ord, Q2)
    BY <1>14
  <2>2. h = Q[1] /\ 1 \in DOMAIN Q
    BY <1>6, <1>8, <1>15
  <2> HIDE DEF Q2, ord
  <2>3. ~Waits(h, Q)
    <3> HIDE DEF Q
    <3> QED BY <1>1, <1>5, <1>11, <2>1, <2>2, QueueStepped
  <2>4. h \in Range(Q)
    BY <2>2 DEF Range
  <2> QED BY <1>5, <1>9, <2>3, <2>4 DEF Settled
<1>17. DOMAIN fail' = DOMAIN fail /\ DOMAIN outLink' = DOMAIN fail
  BY <1>2
<1>18. ASSUME NEW n \in nodes
       PROVE  /\ fail'[StateOf(n)] = IF n \in ChildNodes(h) THEN StateOf(LongestSuffix(n)) ELSE fail[StateOf(n)]
              /\ outLink'[StateOf(n)] = IF n \in ChildNodes(h) THEN OutLinkOf(StateOf(LongestSuffix(n))) ELSE outLink[StateOf(n)]
  <2>1. \A u \in nodes : StateOf(u) = datPos[u]
    BY <1>1, <1>2, StateFacts
  <2>2. DOMAIN fail = {StateOf(u) : u \in nodes}
    BY <1>1, <1>2 DEF LinkInv
  <2>3. /\ fail'[datPos[n]] = IF datPos[n] \in kids THEN failOf(datPos[n]) ELSE fail[datPos[n]]
        /\ outLink'[datPos[n]] = IF datPos[n] \in kids THEN OutLinkOf(failOf(datPos[n])) ELSE outLink[datPos[n]]
    BY <1>2, <2>1, <2>2
  <2>4. datPos[n] \in kids <=> n \in ChildNodes(h)
    <3>1. ChildNodes(h) \in SUBSET nodes
      BY <1>1, <1>9, ChildFacts
    <3> QED BY <1>3, <1>10, <3>1 DEF SlotsDone
  <2>5. n \in ChildNodes(h) => LongestSuffix(n) \in nodes /\ failOf(datPos[n]) = datPos[LongestSuffix(n)]
    <3>1. n \in ChildNodes(h) => n # Root /\ LongestSuffix(n) \in nodes
      BY <1>1, <1>9, ChildFacts, LongestSuffixIs
    <3>2. n \in ChildNodes(h) => failOf(datPos[n]) = datPos[LongestSuffix(n)]
      BY <1>2, <1>9, <1>16, DatChildFail DEF failOf
    <3> QED BY <3>1, <3>2
  <2> QED BY <2>1, <2>3, <2>4, <2>5
<1> HIDE DEF ord
<1>19. BuildInv'
  BY <1>2, <1>11, <1>12, <1>14, <1>15, <1>17, <1>18, LinkStep
<1>20. Moved(h, ord)
  BY <1>11, <1>14, <1>15, <1>17, <1>18 DEF Moved
<1> QED BY <1>19, <1>20

(* The queue of the root alone. *)
LEMMA RootAlone ==
  ASSUME TrieInv, NEW Q, Q = <<Root>>
  PROVE  /\ Apart(Q) /\ Layered(Q) /\ Q # <<>> /\ Head(Q) = Root /\ Tail(Q) = <<>> /\ Range(Q) = {Root}
         /\ \A n \in nodes : Waits(n, Q) <=> n # Root
<1>1. nodes \in SUBSET Seq(Nat) /\ Root \in nodes /\ \A n \in nodes : n \in Seq(Nat) /\ Len(n) \in Nat
  BY NodeFacts
<1>2. DOMAIN Q = {1} /\ Q[1] = Root /\ Q \in Seq(nodes) /\ Q # <<>> /\ Head(Q) = Root /\ Tail(Q) = <<>>
  <2> DEFINE r == Root
  <2>1. r \in nodes
    BY <1>1
  <2> HIDE DEF r
  <2>2. DOMAIN <<r>> = {1} /\ <<r>>[1] = r /\ <<r>> \in Seq(nodes) /\ <<r>> # <<>> /\ Head(<<r>>) = r /\ Tail(<<r>>) = <<>>
    BY <2>1
  <2> QED BY <2>2 DEF r
<1>3. Apart(Q)
  BY <1>2 DEF Apart
<1>4. ASSUME NEW n \in nodes PROVE Waits(n, Q) <=> n # Root
  <2>1. IsPrefix(Root, n)
    BY <1>1, RootFacts
  <2> QED BY <1>2, <2>1 DEF Waits, IsStrictPrefix
<1>5. Layered(Q)
  <2>1. ASSUME NEW n \in nodes, ~Waits(n, Q) PROVE \A i \in DOMAIN Q : Len(n) <= Len(Q[i]) + 1
    BY <1>2, <1>4, <2>1, RootFacts
  <2> QED BY <1>2, <2>1 DEF Layered
<1>6. Range(Q) = {Root}
  BY <1>2 DEF Range
<1> QED BY <1>2, <1>3, <1>4, <1>5, <1>6

(* The queue of the root's children, where linking starts. *)
LEMMA RootChildren ==
  ASSUME TrieInv, NEW ord, ListsChildren(ord, Root)
  PROVE  /\ Apart(ord) /\ Layered(ord) /\ Root \notin Range(ord)
         /\ \A n \in nodes : Waits(n, ord) <=> n # Root /\ n \notin ChildNodes(Root)
         /\ \A n \in ChildNodes(Root) : n \in nodes /\ n # Root /\ LongestSuffix(n) = Root
<1> DEFINE Q == <<Root>>
<1>0. Root \in nodes
  BY NodeFacts
<1>1. /\ Apart(Q) /\ Layered(Q) /\ Q # <<>> /\ Head(Q) = Root /\ Tail(Q) = <<>> /\ Range(Q) = {Root}
      /\ \A n \in nodes : Waits(n, Q) <=> n # Root
  BY RootAlone
<1>2. Tail(Q) \o ord = ord
  <2>1. ord \in Seq(ChildNodes(Root))
    BY DEF ListsChildren
  <2> QED BY <1>1, <2>1, ConcatEmptySeq
<1> HIDE DEF Q
<1>3. /\ Apart(ord) /\ Range(ord) = (Range(Q) \ {Root}) \cup ChildNodes(Root)
      /\ \A n \in nodes : Waits(n, ord) <=> Waits(n, Q) /\ n \notin ChildNodes(Root)
      /\ Layered(Q) => Layered(ord)
  BY <1>1, <1>2, QueueStep
<1>4. \A n \in ChildNodes(Root) : n \in nodes /\ n # Root /\ Len(n) = Len(Root) + 1
  BY <1>0, ChildFacts
<1>5. ASSUME NEW n \in ChildNodes(Root) PROVE LongestSuffix(n) = Root
  <2>1. nodes \in SUBSET Seq(Nat) /\ n \in Seq(Nat) /\ n \in nodes /\ Len(n) = 1 /\ n # Root
    BY <1>4, NodeFacts, RootFacts
  <2>2. \A u \in nodes \ {n} : IsSuffix(u, n) => Len(u) <= Len(Root)
    <3>1. ASSUME NEW u \in nodes \ {n}, IsSuffix(u, n) PROVE Len(u) <= Len(Root)
      <4>1. Len(u) < Len(n) /\ Len(u) \in Nat
        BY <2>1, <3>1, SuffixBasics
      <4> QED BY <2>1, <4>1, RootFacts
    <3> QED BY <3>1
  <2>3. LongestIn(Root, n, nodes \ {n})
    BY <1>0, <2>1, <2>2, RootFacts DEF LongestIn
  <2> QED BY <2>1, <2>3, LongestSuffixIs
<1> QED BY <1>1, <1>3, <1>4, <1>5

(* Linking starts: the root's children fail to the root. *)
LEMMA FirstLinks ==
  ASSUME TrieInv, todo = {}, UNCHANGED trieVars, phase' = "link", SlotInv',
         NEW ord, ListsChildren(ord, Root), NodeQueue' = ord,
         preset = "balanced" => queue' \in Seq(Range(datPos')),
         DOMAIN fail' = {StateOf(n)' : n \in nodes},
         fail'[StateOf(Root)'] = StateOf(Root)',
         \A n \in nodes : n # Root =>
            fail'[StateOf(n)'] = IF n \in ChildNodes(Root) THEN StateOf(Root)' ELSE IF preset = "balanced" THEN 0 ELSE Root
  PROVE  BuildInv'
<1>1. preset' = preset /\ dict' = dict /\ todo' = todo /\ nodes' = nodes
  BY DEF trieVars
<1>2. TrieInv'
  BY TrieInvKept
<1>3. /\ Apart(ord) /\ Layered(ord) /\ Root \notin Range(ord)
      /\ \A n \in nodes : Waits(n, ord) <=> n # Root /\ n \notin ChildNodes(Root)
      /\ \A n \in ChildNodes(Root) : n \in nodes /\ n # Root /\ LongestSuffix(n) = Root
  BY RootChildren
<1>4. QueueInv'
  <2>1. Apart(NodeQueue)'
    BY <1>1, <1>3 DEF Apart
  <2>2. Layered(NodeQueue)'
    BY <1>1, <1>3 DEF Layered, Waits
  <2> QED BY <1>1, <1>3, <2>1, <2>2 DEF QueueInv
<1>5. \A n : LongestSuffix(n)' = LongestSuffix(n)
  BY <1>1, TrieKept
<1>6. \A n : Waits(n, NodeQueue)' <=> Waits(n, ord)
  BY DEF Waits
<1>7. ASSUME NEW n \in nodes, n # Root
      PROVE  fail'[StateOf(n)'] = IF ~Waits(n, ord) THEN StateOf(LongestSuffix(n))' ELSE IF preset = "balanced" THEN 0 ELSE Root
  <2>1. n \in ChildNodes(Root) => LongestSuffix(n)' = Root
    BY <1>3, <1>5
  <2>2. n \in ChildNodes(Root) => StateOf(LongestSuffix(n))' = StateOf(Root)'
    BY <2>1 DEF StateOf
  <2> QED BY <1>3, <1>7, <2>2
<1>8. LinkInv'
  BY <1>1, <1>6, <1>7 DEF LinkInv
<1> QED BY <1>2, <1>4, <1>8 DEF BuildInv

(* The tries start linking. *)
LEMMA StartLinksStep ==
  ASSUME BuildInv, StartLinks
  PROVE  BuildInv' /\ ListsChildren(NodeQueue', Root)
<1>1. TrieInv /\ SlotInv /\ Root \in nodes
  BY NodeFacts DEF BuildInv
<1>2. /\ phase = "insert" /\ todo = {} /\ preset # "balanced" /\ phase' = "link" /\ fail' = [n \in nodes |-> Root]
      /\ UNCHANGED <<trieVars, datVars>>
      /\ \E ord \in IF preset = "speed" THEN {Sorted(Children(Root))} ELSE Orders(Children(Root)) :
            queue' = [i \in DOMAIN ord |-> <<ord[i]>>]
  BY DEF StartLinks
<1>3. preset' = preset /\ nodes' = nodes
  BY <1>2 DEF trieVars
<1>4. SlotInv'
  BY <1>2, <1>3 DEF SlotInv
<1>5. NodeQueue' = queue'
  BY <1>2, <1>3 DEF NodeQueue
<1>6. \A n : StateOf(n)' = n
  BY <1>2, <1>3 DEF StateOf
<1>7. ListsChildren(queue', Root)
  <2>1. PICK ord \in IF preset = "speed" THEN {Sorted(Children(Root))} ELSE Orders(Children(Root)) :
            queue' = [i \in DOMAIN ord |-> <<ord[i]>>]
    BY <1>2
  <2>2. /\ Children(Root) \in SUBSET Nat /\ IsFiniteSet(Children(Root))
        /\ \A ch \in Children(Root) : Append(Root, ch) \in ChildNodes(Root) /\ Last(Append(Root, ch)) = ch
        /\ \A n \in ChildNodes(Root) : Last(n) \in Children(Root) /\ n = Append(Root, Last(n))
    BY <1>1, ChildFacts
  <2>3. ord \in Seq(Children(Root)) /\ Range(ord) = Children(Root) /\ \A i, j \in DOMAIN ord : i # j => ord[i] # ord[j]
    <3>1. CASE preset = "speed"
      <4>1. ord = Sorted(Children(Root)) /\ Children(Root) \in SUBSET Int
        BY <2>1, <2>2, <3>1
      <4> QED BY <2>2, <4>1, LessSorts
    <3>2. CASE preset # "speed"
      <4>1. ord \in Orders(Children(Root))
        BY <2>1, <3>2
      <4> QED BY <2>2, <4>1, OrdersFacts
    <3> QED BY <3>1, <3>2
  <2>4. \A i \in DOMAIN ord : ord[i] \in Children(Root)
    BY <2>3
  <2>5. \A ch \in Children(Root) : <<ch>> = Append(Root, ch)
    BY <2>2 DEF Root
  <2>6. /\ DOMAIN queue' = DOMAIN ord
        /\ \A i \in DOMAIN ord : queue'[i] = Append(Root, ord[i]) /\ queue'[i] \in ChildNodes(Root) /\ Last(queue'[i]) = ord[i]
    <3>1. DOMAIN queue' = DOMAIN ord /\ \A i \in DOMAIN ord : queue'[i] = <<ord[i]>>
      BY <2>1
    <3>2. ASSUME NEW i \in DOMAIN ord PROVE queue'[i] = Append(Root, ord[i])
      BY <2>4, <2>5, <3>1
    <3> QED BY <2>2, <2>4, <3>1, <3>2
  <2>7. queue' \in Seq(ChildNodes(Root))
    <3>1. Len(ord) \in Nat /\ DOMAIN ord = 1 .. Len(ord)
      BY <2>3
    <3>2. queue' \in [1 .. Len(ord) -> ChildNodes(Root)]
      BY <2>1, <2>6, <3>1
    <3> QED BY <3>1, <3>2
  <2> DEFINE q == queue'
  <2>8. DOMAIN q = DOMAIN ord /\ \A i \in DOMAIN ord : q[i] = Append(Root, ord[i]) /\ q[i] \in ChildNodes(Root) /\ Last(q[i]) = ord[i]
    BY <2>6
  <2> HIDE DEF q
  <2>9. \A i, j \in DOMAIN q : i # j => q[i] # q[j]
    BY ONLY <2>3, <2>8
  <2>10. ASSUME NEW n \in ChildNodes(Root) PROVE n \in Range(q)
    <3>1. PICK i \in DOMAIN ord : ord[i] = Last(n)
      BY <2>2, <2>3 DEF Range
    <3> QED BY <2>2, <2>8, <3>1 DEF Range
  <2>11. Range(q) = ChildNodes(Root)
    BY <2>8, <2>10 DEF Range
  <2>12. q \in Seq(ChildNodes(Root))
    BY <2>7 DEF q
  <2>13. ListsChildren(q, Root)
    BY <2>9, <2>11, <2>12 DEF ListsChildren
  <2> QED BY <2>13 DEF q
<1>8. /\ DOMAIN fail' = {StateOf(n)' : n \in nodes} /\ fail'[StateOf(Root)'] = StateOf(Root)'
      /\ \A n \in nodes : n # Root =>
            fail'[StateOf(n)'] = IF n \in ChildNodes(Root) THEN StateOf(Root)' ELSE IF preset = "balanced" THEN 0 ELSE Root
  BY <1>1, <1>2, <1>6
<1>9. BuildInv'
  BY <1>1, <1>2, <1>4, <1>5, <1>7, <1>8, FirstLinks
<1> QED BY <1>5, <1>7, <1>9

(* The double array starts linking. *)
LEMMA DatRootLinksStep ==
  ASSUME BuildInv, DatRootLinks
  PROVE  BuildInv' /\ ListsChildren(NodeQueue', Root)
<1> DEFINE kids == {p \in DOMAIN own : p > DatRoot /\ At(check, p) = DatRoot}
           ord == [i \in DOMAIN Sorted(kids) |-> NodeOf(Sorted(kids)[i])]
<1>1. TrieInv /\ SlotInv /\ Root \in nodes
  BY NodeFacts DEF BuildInv
<1>2. /\ phase = "place" /\ queue = Empty /\ phase' = "link" /\ preset = "balanced" /\ todo = {}
      /\ queue' = Sorted(kids)
      /\ fail' = [p \in DOMAIN own |-> IF p = DatRoot \/ At(check, p) = DatRoot THEN DatRoot ELSE 0]
      /\ UNCHANGED <<trieVars, datVars, own>>
  BY <1>1 DEF DatRootLinks, TrieInv
<1>3. preset' = preset /\ nodes' = nodes /\ datPos' = datPos
  BY <1>2 DEF trieVars, datVars
<1>4. Placed = nodes
  <2>1. DOMAIN Empty = {}
    BY DEF Empty
  <2> QED BY <1>2, <2>1 DEF Placed, Waits
<1>5. SlotsDone
  BY <1>1, <1>2, <1>4 DEF SlotInv, SlotsDone
<1>6. SlotInv'
  BY <1>1, <1>2, <1>4, SlotInvKept
<1>7. \A n : StateOf(n)' = datPos[n]
  BY <1>2, <1>3 DEF StateOf
<1>8. datPos[Root] = DatRoot /\ \A n \in nodes : datPos[n] \in DOMAIN own /\ datPos[n] \in Nat /\ (n # Root => datPos[n] > DatRoot)
  <2>1. \A n \in nodes : datPos[n] \in Range(datPos)
    BY <1>5 DEF SlotsDone, Range
  <2> QED BY <1>1, <1>5, <2>1 DEF SlotsDone
<1>9. \A p \in DOMAIN own : \E n \in nodes : p = datPos[n]
  BY <1>5 DEF SlotsDone, Range
<1>10. ASSUME NEW n \in nodes PROVE At(check, datPos[n]) = DatRoot <=> n \in ChildNodes(Root)
  <2>1. ChildNodes(Root) = {u \in nodes : u # Root /\ Front(u) = Root}
    BY <1>1, ChildFacts
  <2>2. CASE n = Root
    <3>1. DatRoot \notin DOMAIN check
      <4>1. DOMAIN check = {0} \cup {datPos[u] : u \in nodes \ {Root}}
        BY <1>5 DEF SlotsDone
      <4>2. ASSUME NEW u \in nodes \ {Root} PROVE datPos[u] # DatRoot
        BY <1>8 DEF DatRoot
      <4> QED BY <4>1, <4>2 DEF DatRoot
    <3> QED BY <1>8, <2>1, <2>2, <3>1 DEF At, DatRoot
  <2>3. CASE n # Root
    <3>1. datPos[n] \in DOMAIN check /\ check[datPos[n]] = datPos[Front(n)] /\ Front(n) \in nodes
      BY <1>1, <1>5, <2>3, NodeFacts DEF SlotsDone
    <3>2. datPos[Front(n)] = DatRoot <=> Front(n) = Root
      BY <1>1, <1>5, <1>8, <3>1 DEF SlotsDone
    <3> QED BY <2>1, <2>3, <3>1, <3>2 DEF At
  <2> QED BY <2>2, <2>3
<1>11. \A n \in ChildNodes(Root) : n \in nodes /\ n # Root
  BY <1>1, ChildFacts
<1>12. kids = {datPos[k] : k \in ChildNodes(Root)}
  BY <1>8, <1>9, <1>10, <1>11
<1> HIDE DEF kids
<1>13. ListsChildren(ord, Root) /\ Sorted(kids) \in Seq(Range(datPos))
  BY <1>1, <1>5, <1>12, SortedSlots
<1>14. NodeQueue' = ord
  <2>1. NodeQueue' = [i \in DOMAIN queue' |-> NodeOf(queue[i])']
    BY <1>2, <1>3 DEF NodeQueue
  <2>2. ASSUME NEW CONSTANT i PROVE NodeOf(queue[i])' = NodeOf(queue'[i])
    BY <1>3 DEF NodeOf
  <2> QED BY <1>2, <2>1, <2>2
<1>15. DOMAIN fail' = {datPos[n] : n \in nodes}
  BY <1>2, <1>8, <1>9
<1>16. fail'[datPos[Root]] = datPos[Root]
  BY <1>1, <1>2, <1>8
<1>17. ASSUME NEW n \in nodes, n # Root
       PROVE  fail'[datPos[n]] = IF n \in ChildNodes(Root) THEN datPos[Root] ELSE 0
  <2>1. fail'[datPos[n]] = IF datPos[n] = DatRoot \/ At(check, datPos[n]) = DatRoot THEN DatRoot ELSE 0
    BY <1>2, <1>8
  <2>2. datPos[n] # DatRoot
    BY <1>8, <1>17 DEF DatRoot
  <2> QED BY <1>8, <1>10, <2>1, <2>2
<1>18. queue' \in Seq(Range(datPos'))
  BY <1>2, <1>3, <1>13
<1>19. /\ DOMAIN fail' = {StateOf(n)' : n \in nodes} /\ fail'[StateOf(Root)'] = StateOf(Root)'
       /\ \A n \in nodes : n # Root =>
            fail'[StateOf(n)'] = IF n \in ChildNodes(Root) THEN StateOf(Root)' ELSE IF preset = "balanced" THEN 0 ELSE Root
  BY <1>2, <1>7, <1>15, <1>16, <1>17
<1> HIDE DEF ord
<1>20. BuildInv'
  BY <1>1, <1>2, <1>6, <1>13, <1>14, <1>18, <1>19, FirstLinks
<1> QED BY <1>13, <1>14, <1>20

(* findBase finds a base where the slots of all children are free, past the root. *)
LEMMA FindBaseFacts ==
  ASSUME NEW codes \in SUBSET Nat, codes # {}, DOMAIN check \in SUBSET Nat, IsFiniteSet(DOMAIN check), 0 \in DOMAIN check
  PROVE  /\ FindBase(codes) \in Int
         /\ \A c \in codes : SlotFree(FindBase(codes) + c) /\ FindBase(codes) + c > DatRoot
<1> DEFINE least == CHOOSE c \in codes : \A d \in codes : c <= d
           last == CHOOSE p \in DOMAIN check : \A r \in DOMAIN check : r <= p
           from == (DatRoot + 1) - least
           far == from + last
           b == CHOOSE x \in from .. far : Fits(x, codes) /\ \A l \in from .. (x - 1) : ~Fits(l, codes)
<1>1. least \in codes /\ least \in Nat /\ \A d \in codes : least <= d
  BY LeastNat
<1>2. last \in Nat /\ \A r \in DOMAIN check : r <= last
  BY FiniteGreatest
<1>3. FindBase(codes) = b
  BY DEF FindBase
<1> HIDE DEF least, last
<1>4. from = 2 - least /\ from \in Int /\ far \in Int /\ far = from + last
  BY <1>1, <1>2 DEF DatRoot
<1>5. Fits(far, codes)
  <2>1. ASSUME NEW c \in codes PROVE SlotFree(far + c)
    <3>1. far + c > last /\ far + c > 0 /\ c \in Nat
      BY <1>1, <1>2, <1>4
    <3>2. far + c \notin DOMAIN check
      BY <1>2, <1>4, <3>1
    <3> QED BY <3>1, <3>2 DEF SlotFree, At
  <2> QED BY <2>1 DEF Fits
<1> DEFINE U == {k \in Nat : from + k <= far /\ Fits(from + k, codes)}
<1>6. last \in U
  BY <1>2, <1>4, <1>5
<1>7. PICK x \in U : \A y \in U : x <= y
  <2>1. U \in SUBSET Nat /\ U # {}
    BY <1>6
  <2> HIDE DEF U
  <2> QED BY <2>1, LeastNat
<1> HIDE DEF from, far
<1>8. from + x \in from .. far /\ Fits(from + x, codes)
  BY <1>4, <1>7
<1>9. ASSUME NEW l \in from .. ((from + x) - 1) PROVE ~Fits(l, codes)
  <2>1. l - from \in Nat /\ from + (l - from) = l /\ l <= far /\ l - from < x
    BY <1>4, <1>8
  <2> QED BY <1>7, <2>1
<1>10. b \in from .. far /\ Fits(b, codes)
  <2>1. \E z \in from .. far : Fits(z, codes) /\ \A l \in from .. (z - 1) : ~Fits(l, codes)
    <3>1. \A l \in from .. ((from + x) - 1) : ~Fits(l, codes)
      BY <1>9
    <3>2. from + x \in from .. far
      BY <1>8
    <3> WITNESS from + x \in from .. far
    <3> QED BY <1>8, <3>1
  <2> QED BY <2>1, Zenon
<1> HIDE DEF b
<1>11. ASSUME NEW c \in codes PROVE SlotFree(b + c) /\ b + c > DatRoot
  <2>1. b \in Int /\ b >= from /\ c \in Nat /\ least <= c
    BY <1>1, <1>4, <1>10
  <2>2. b + c > DatRoot
    BY <1>1, <1>4, <2>1 DEF DatRoot
  <2> QED BY <1>10, <2>2 DEF Fits
<1> QED BY <1>3, <1>4, <1>10, <1>11

(* What is below a node that waits waits. *)
LEMMA WaitsBelow ==
  ASSUME TrieInv, NEW Q, Apart(Q), NEW n \in nodes, n # Root, Waits(Front(n), Q)
  PROVE  Waits(n, Q)
<1>1. PICK i \in DOMAIN Q : IsStrictPrefix(Q[i], Front(n))
  BY DEF Waits
<1> DEFINE a == Q[i]
<1>2. /\ a \in Seq(Nat) /\ Front(n) \in Seq(Nat) /\ n \in Seq(Nat) /\ Last(n) \in Nat
      /\ n = Append(Front(n), Last(n)) /\ Len(Front(n)) = Len(n) - 1
  <2>1. a \in nodes
    BY DEF Apart
  <2> QED BY <2>1, NodeFacts, DictFacts
<1>3. IsPrefix(a, Front(n))
  BY <1>1 DEF IsStrictPrefix
<1> HIDE DEF a
<1>4. Len(a) <= Len(Front(n))
  BY <1>2, <1>3, PrefixBasics
<1>5. IsPrefix(a, n)
  <2>1. \A c \in Nat : IsPrefix(a, Append(Front(n), c)) <=> IsPrefix(a, Front(n)) \/ a = Append(Front(n), c)
    BY ONLY <1>2, PrefixBasics
  <2> QED BY <1>2, <1>3, <2>1
<1>6. a # n
  BY <1>2, <1>4
<1> QED BY <1>1, <1>5, <1>6 DEF Waits, IsStrictPrefix, a

\* The state of placing, without its phase: P has slots.
SlotsOf(P) ==
  /\ DOMAIN datPos = P
  /\ \A n \in P : datPos[n] \in Nat /\ (IF n = Root THEN datPos[n] = DatRoot ELSE datPos[n] > DatRoot)
  /\ \A m, n \in P : datPos[m] = datPos[n] => m = n
  /\ DOMAIN own = Range(datPos) /\ DOMAIN depth = Range(datPos)
  /\ \A n \in P : own[datPos[n]] = Assigned(n) /\ depth[datPos[n]] = Len(n)
  /\ DOMAIN check = {0} \cup {datPos[n] : n \in P \ {Root}}
  /\ check[0] = -1
  /\ DOMAIN base \subseteq Range(datPos) /\ \A p \in DOMAIN base : base[p] \in Int
  /\ \A n \in P \ {Root} :
       /\ check[datPos[n]] = datPos[Front(n)]
       /\ datPos[Front(n)] \in DOMAIN base /\ datPos[n] = base[datPos[Front(n)]] + Code(Last(n))

(* findBase gives the children slots that nobody has. *)
LEMMA FreshSlots ==
  ASSUME TrieInv, NEW P, P \in SUBSET nodes, SlotsOf(P), NEW s \in nodes, Children(s) # {},
         NEW b, b = FindBase({Code(ch) : ch \in Children(s)})
  PROVE  /\ b \in Int
         /\ \A n \in ChildNodes(s) :
              /\ b + Code(Last(n)) \in Nat /\ b + Code(Last(n)) > DatRoot
              /\ b + Code(Last(n)) \notin DOMAIN check /\ b + Code(Last(n)) \notin Range(datPos)
         /\ \A m, n \in ChildNodes(s) : b + Code(Last(m)) = b + Code(Last(n)) => m = n
<1> DEFINE codes == {Code(ch) : ch \in Children(s)}
<1>1. \A n \in ChildNodes(s) : n = Append(s, Last(n)) /\ Last(n) \in Children(s)
  BY ChildFacts
<1>2. Children(s) \in SUBSET Runes
  BY DEF Children
<1>3. \A ch \in Runes : Code(ch) \in Nat
  BY AlphabetFacts
<1>4. \A c, d \in Runes : Code(c) = Code(d) => c = d
  BY AlphabetFacts
<1>5. codes \in SUBSET Nat /\ codes # {}
  BY <1>2, <1>3
<1>6. DOMAIN check \in SUBSET Nat /\ 0 \in DOMAIN check
  BY DEF SlotsOf
<1>7. IsFiniteSet(DOMAIN check)
  <2> DEFINE f == [n \in P \ {Root} |-> datPos[n]]
  <2>1. IsFiniteSet(P \ {Root})
    BY NodeFacts, FS_Subset
  <2>2. IsFiniteSet(Range(f))
    BY <2>1, ImageFinite
  <2>3. Range(f) = {datPos[n] : n \in P \ {Root}}
    BY DEF Range
  <2>4. IsFiniteSet({0})
    BY FS_Singleton
  <2>5. DOMAIN check = {0} \cup Range(f)
    BY <2>3 DEF SlotsOf
  <2> HIDE DEF f
  <2> QED BY <2>2, <2>4, <2>5, FS_Union
<1> HIDE DEF codes
<1>8. b \in Int /\ \A c \in codes : SlotFree(b + c) /\ b + c > DatRoot
  BY <1>5, <1>6, <1>7, FindBaseFacts DEF codes
<1>9. ASSUME NEW p \in DOMAIN check PROVE ~SlotFree(p)
  <2>1. CASE p = 0
    BY <2>1 DEF SlotFree
  <2>2. CASE p # 0
    <3>1. PICK n \in P \ {Root} : p = datPos[n]
      BY <1>9, <2>2 DEF SlotsOf
    <3>2. check[p] = datPos[Front(n)] /\ datPos[Front(n)] \in Range(datPos)
      BY <3>1 DEF SlotsOf
    <3>3. PICK u \in P : datPos[Front(n)] = datPos[u]
      BY <3>2 DEF SlotsOf, Range
    <3>4. datPos[u] # 0
      BY <3>3 DEF SlotsOf, DatRoot
    <3> QED BY <1>9, <3>2, <3>3, <3>4 DEF SlotFree, At
  <2> QED BY <2>1, <2>2
<1>10. ASSUME NEW n \in ChildNodes(s)
       PROVE  /\ b + Code(Last(n)) \in Nat /\ b + Code(Last(n)) > DatRoot
              /\ b + Code(Last(n)) \notin DOMAIN check /\ b + Code(Last(n)) \notin Range(datPos)
  <2> DEFINE p == b + Code(Last(n))
  <2>1. Code(Last(n)) \in codes /\ Code(Last(n)) \in Nat
    BY <1>1, <1>2, <1>3 DEF codes
  <2>2. p \in Nat /\ p > DatRoot /\ p # DatRoot /\ SlotFree(p)
    BY <1>8, <2>1 DEF DatRoot
  <2> HIDE DEF p
  <2>3. p \notin DOMAIN check
    BY <1>9, <2>2
  <2>4. p \notin Range(datPos)
    <3>1. ASSUME NEW u \in P, datPos[u] = p PROVE FALSE
      BY <2>2, <2>3, <3>1 DEF SlotsOf
    <3> QED BY <3>1 DEF SlotsOf, Range
  <2> QED BY <2>2, <2>3, <2>4 DEF p
<1>11. ASSUME NEW m \in ChildNodes(s), NEW n \in ChildNodes(s), b + Code(Last(m)) = b + Code(Last(n)) PROVE m = n
  <2>1. Last(m) \in Runes /\ Last(n) \in Runes /\ Code(Last(m)) \in Nat /\ Code(Last(n)) \in Nat
    BY <1>1, <1>2, <1>3
  <2>2. Code(Last(m)) = Code(Last(n))
    BY <1>8, <1>11, <2>1
  <2>3. Last(m) = Last(n)
    BY <1>4, <2>1, <2>2
  <2> QED BY <1>1, <2>3
<1> QED BY <1>8, <1>10, <1>11

(* The children of a placed node get their slots. *)
LEMMA SlotsGrow ==
  ASSUME TrieInv, UNCHANGED trieVars, NEW CONSTANT P, P \in SUBSET nodes, SlotsOf(P), NEW CONSTANT s, s \in P, Children(s) # {},
         NEW CONSTANT b, b = FindBase({Code(ch) : ch \in Children(s)}), NEW CONSTANT K, K = ChildNodes(s), PlaceChildren(s, K, b),
         P \cap K = {}, \A n \in P : n # Root => Front(n) \in P
  PROVE  SlotsOf(P \cup K)'
<1> DEFINE slot(n) == b + Code(Last(n))
           slots == {b + Code(Last(n)) : n \in K}
           P2 == P \cup K
           above == datPos[s]
<1>1. /\ b \in Int
      /\ \A n \in K : slot(n) \in Nat /\ slot(n) > DatRoot /\ slot(n) \notin DOMAIN check /\ slot(n) \notin Range(datPos)
      /\ \A m, n \in K : slot(m) = slot(n) => m = n
  BY FreshSlots
<1>2. /\ base' = [p \in DOMAIN base \cup {above} |-> IF p = above THEN b ELSE base[p]]
      /\ check' = [p \in DOMAIN check \cup slots |-> IF p \in slots THEN above ELSE check[p]]
      /\ depth' = [p \in DOMAIN depth \cup slots |-> IF p \in slots THEN depth[above] + 1 ELSE depth[p]]
      /\ own' = [p \in DOMAIN own \cup slots |->
                   IF p \in slots THEN Assigned(CHOOSE n \in K : b + Code(Last(n)) = p) ELSE own[p]]
      /\ datPos' = [n \in DOMAIN datPos \cup K |-> IF n \in K THEN b + Code(Last(n)) ELSE datPos[n]]
  BY SMT DEF PlaceChildren
<1>3. nodes' = nodes /\ dict' = dict /\ (\A ch : Code(ch)' = Code(ch)) /\ \A n : Assigned(n)' = Assigned(n)
  BY TrieKept DEF trieVars
<1>4. \A n \in K : n \in nodes /\ n # Root /\ Front(n) = s /\ Len(n) = Len(s) + 1
  BY ChildFacts
<1>5. \A n \in P : n # Root => Front(n) # s
  BY ChildFacts
<1>6. /\ DOMAIN datPos = P /\ DOMAIN own = Range(datPos) /\ DOMAIN depth = Range(datPos)
      /\ Range(datPos) = {datPos[n] : n \in P} /\ above \in Range(datPos) /\ above \in Nat
  BY DEF SlotsOf, Range
<1>7. DOMAIN datPos' = P2 /\ (\A n \in P : datPos'[n] = datPos[n]) /\ \A n \in K : datPos'[n] = slot(n)
  BY <1>2, <1>6
<1>8. Range(datPos') = Range(datPos) \cup slots
  BY <1>6, <1>7 DEF Range
<1>9. \A n \in P : datPos[n] \notin slots
  <2>1. \A n \in P : datPos[n] \in Range(datPos)
    BY <1>6
  <2>2. \A p \in slots : p \notin Range(datPos)
    BY <1>1
  <2> QED BY <2>1, <2>2
<1>10. /\ \A n \in P : depth'[datPos[n]] = depth[datPos[n]] /\ own'[datPos[n]] = own[datPos[n]]
       /\ \A n \in K : depth'[slot(n)] = depth[above] + 1
       /\ \A n \in K : check'[slot(n)] = above
  BY <1>2, <1>6, <1>9
<1>11. ASSUME NEW n \in K PROVE own'[slot(n)] = Assigned(n)
  <2>1. own'[slot(n)] = Assigned(CHOOSE m \in K : slot(m) = slot(n))
    BY <1>2
  <2>2. (CHOOSE m \in K : slot(m) = slot(n)) = n
    BY <1>1
  <2> QED BY <2>1, <2>2
<1>12. /\ DOMAIN own' = Range(datPos') /\ DOMAIN depth' = Range(datPos')
       /\ DOMAIN base' = DOMAIN base \cup {above} /\ DOMAIN check' = DOMAIN check \cup slots
  BY <1>2, <1>6, <1>8
<1>13. \A n \in P2 : datPos'[n] \in Nat /\ (IF n = Root THEN datPos'[n] = DatRoot ELSE datPos'[n] > DatRoot)
  <2>1. ASSUME NEW n \in P PROVE datPos'[n] \in Nat /\ (IF n = Root THEN datPos'[n] = DatRoot ELSE datPos'[n] > DatRoot)
    BY <1>7 DEF SlotsOf
  <2>2. ASSUME NEW n \in K PROVE datPos'[n] \in Nat /\ n # Root /\ datPos'[n] > DatRoot
    <3>1. datPos'[n] = slot(n)
      BY <1>7
    <3>2. slot(n) \in Nat /\ slot(n) > DatRoot
      BY <1>1
    <3> HIDE DEF slot
    <3> QED BY <1>4, <3>1, <3>2
  <2> QED BY <2>1, <2>2
<1>14. ASSUME NEW m \in P2, NEW n \in P2, datPos'[m] = datPos'[n] PROVE m = n
  <2>1. CASE m \in P /\ n \in P
    BY <1>7, <1>14, <2>1 DEF SlotsOf
  <2>2. CASE m \in K /\ n \in K
    BY <1>1, <1>7, <1>14, <2>2
  <2>3. CASE m \in P /\ n \in K
    BY <1>7, <1>9, <1>14, <2>3
  <2>4. CASE m \in K /\ n \in P
    BY <1>7, <1>9, <1>14, <2>4
  <2> QED BY <2>1, <2>2, <2>3, <2>4
<1>15. \A n \in P2 : own'[datPos'[n]] = Assigned(n) /\ depth'[datPos'[n]] = Len(n)
  <2>1. ASSUME NEW n \in P PROVE own'[datPos'[n]] = Assigned(n) /\ depth'[datPos'[n]] = Len(n)
    BY <1>7, <1>10 DEF SlotsOf
  <2>2. ASSUME NEW n \in K PROVE own'[datPos'[n]] = Assigned(n) /\ depth'[datPos'[n]] = Len(n)
    <3>1. depth[above] = Len(s)
      BY DEF SlotsOf
    <3>2. datPos'[n] = slot(n) /\ own'[slot(n)] = Assigned(n)
      BY <1>7, <1>11
    <3>3. depth'[slot(n)] = depth[above] + 1
      BY <1>10
    <3> QED BY <1>4, <3>1, <3>2, <3>3
  <2> QED BY <2>1, <2>2
<1>16. DOMAIN check' = {0} \cup {datPos'[n] : n \in P2 \ {Root}}
  <2>1. DOMAIN check = {0} \cup {datPos[n] : n \in P \ {Root}}
    BY DEF SlotsOf
  <2>2. {datPos'[n] : n \in P2 \ {Root}} = {datPos[n] : n \in P \ {Root}} \cup slots
    BY <1>4, <1>7
  <2> QED BY <1>12, <2>1, <2>2
<1>17. check'[0] = -1
  <2>1. 0 \notin slots
    BY <1>1 DEF DatRoot
  <2> QED BY <1>2, <2>1 DEF SlotsOf
<1>18. DOMAIN base' \subseteq Range(datPos') /\ \A p \in DOMAIN base' : base'[p] \in Int
  BY <1>1, <1>2, <1>6, <1>8, <1>12 DEF SlotsOf
<1>19. ASSUME NEW n \in P2 \ {Root}
       PROVE  /\ check'[datPos'[n]] = datPos'[Front(n)]
              /\ datPos'[Front(n)] \in DOMAIN base' /\ datPos'[n] = base'[datPos'[Front(n)]] + Code(Last(n))
  <2>1. CASE n \in P
    <3>1. Front(n) \in P /\ Front(n) # s /\ datPos'[n] = datPos[n] /\ datPos'[Front(n)] = datPos[Front(n)]
      BY <1>5, <1>7, <1>19, <2>1
    <3>2. datPos[Front(n)] # above
      BY <3>1 DEF SlotsOf
    <3>3. /\ check[datPos[n]] = datPos[Front(n)] /\ datPos[n] \in DOMAIN check
          /\ datPos[Front(n)] \in DOMAIN base /\ datPos[n] = base[datPos[Front(n)]] + Code(Last(n))
      BY <1>19, <2>1 DEF SlotsOf
    <3>4. check'[datPos[n]] = check[datPos[n]]
      BY <1>2, <1>9, <2>1, <3>3
    <3>5. base'[datPos[Front(n)]] = base[datPos[Front(n)]]
      BY <1>2, <3>2, <3>3
    <3> QED BY <1>12, <3>1, <3>3, <3>4, <3>5
  <2>2. CASE n \in K
    <3>1. Front(n) = s /\ datPos'[n] = slot(n) /\ datPos'[s] = above /\ above \in DOMAIN base'
      BY <1>4, <1>7, <1>12, <2>2
    <3>2. base'[above] = b
      BY <1>2
    <3> QED BY <1>10, <2>2, <3>1, <3>2
  <2> QED BY <2>1, <2>2
<1> HIDE DEF slot, slots, above
<1>20. \A n \in P2 : Assigned(n)' = Assigned(n)
  BY <1>3
<1> QED BY <1>3, <1>7, <1>12, <1>13, <1>14, <1>15, <1>16, <1>17, <1>18, <1>19 DEF SlotsOf

(* Placing a node keeps the invariant. *)
LEMMA PlaceStep ==
  ASSUME BuildInv, Place
  PROVE  BuildInv'
<1>1. TrieInv /\ QueueInv /\ SlotInv /\ LinkInv
  BY DEF BuildInv
<1>2. phase = "place" /\ preset = "balanced" /\ queue # <<>>
  BY <1>1 DEF Place, TrieInv, Empty
<1>3. UNCHANGED trieVars /\ phase' = "place" /\ nodes' = nodes /\ preset' = preset /\ dict' = dict /\ fail' = fail
  BY <1>2 DEF Place, trieVars
<1>4. PICK P : P = Placed
  OBVIOUS
<1>5. P \in SUBSET nodes /\ (\A n \in nodes : n \in P <=> ~Waits(n, queue)) /\ SlotsOf(P)
  BY <1>1, <1>2, <1>4 DEF SlotInv, SlotsOf, Placed
<1>6. Apart(queue) /\ queue \in Seq(nodes)
  BY <1>1, <1>2 DEF QueueInv, NodeQueue, Apart
<1>7. PICK s : s = Head(queue)
  OBVIOUS
<1>8. s \in nodes
  BY <1>2, <1>6, <1>7, HeadTailProperties
<1>9. PICK K : K = ChildNodes(s)
  OBVIOUS
<1>10. PICK b : b = FindBase({Code(ch) : ch \in Children(s)})
  OBVIOUS
<1>11. IF Children(s) = {} THEN queue' = Tail(queue) /\ UNCHANGED <<datVars, own>> ELSE PlaceChildren(s, K, b)
  BY <1>7, <1>9, <1>10 DEF Place
<1>12. \E ord : ListsChildren(ord, s) /\ queue' = Tail(queue) \o ord
  <2>1. CASE Children(s) = {}
    <3>1. queue' = Tail(queue) /\ ChildNodes(s) = {}
      BY <1>11, <2>1 DEF ChildNodes
    <3>2. Tail(queue) \in Seq(nodes)
      BY <1>2, <1>6, HeadTailProperties
    <3>3. Tail(queue) \o <<>> = Tail(queue)
      BY <3>2, ConcatEmptySeq
    <3>4. ListsChildren(<<>>, s)
      BY <3>1 DEF ListsChildren, Range
    <3> QED BY <3>1, <3>3, <3>4
  <2>2. CASE Children(s) # {}
    <3>1. PICK ord \in Orders(K) : queue' = Tail(queue) \o ord
      BY <1>11, <2>2, SMT DEF PlaceChildren
    <3>2. ListsChildren(ord, s)
      BY <1>1, <1>8, <1>9, <3>1, ChildFacts, OrdersFacts DEF ListsChildren
    <3> QED BY <3>1, <3>2
  <2> QED BY <2>1, <2>2
<1>13. PICK ord : ListsChildren(ord, s) /\ queue' = Tail(queue) \o ord
  BY <1>12
<1>14. /\ Apart(queue') /\ ~Waits(s, queue)
       /\ \A n \in nodes : Waits(n, queue') <=> Waits(n, queue) /\ n \notin ChildNodes(s)
       /\ \A n \in ChildNodes(s) : Waits(n, queue)
  <2>1. ord \in Seq(nodes)
    <3>1. ChildNodes(s) \subseteq nodes
      BY <1>1, <1>8, ChildFacts
    <3> QED BY <1>13, <3>1, SeqMonotonic DEF ListsChildren
  <2>2. s = queue[1] /\ queue' \in Seq(nodes) /\ Shifted(queue, ord, queue')
    BY <1>2, <1>6, <1>7, <1>13, <2>1, QueueSeq
  <2> QED BY <1>1, <1>6, <1>13, <2>2, QueueStepped
<1>15. K \in SUBSET nodes /\ \A n \in K : n \in nodes
  BY <1>1, <1>8, <1>9, ChildFacts
<1>16. P \cap K = {} /\ s \in P
  BY <1>5, <1>8, <1>9, <1>14, <1>15
<1>17. Placed' = P \cup K
  <2>1. Placed' = {n \in nodes : ~Waits(n, queue')}
    BY <1>3 DEF Placed, Waits
  <2> QED BY <1>5, <1>9, <1>14, <1>15, <2>1
<1>18. \A n \in P : n # Root => Front(n) \in P
  <2>1. ASSUME NEW n \in P, n # Root PROVE Front(n) \in P
    <3>1. Front(n) \in nodes /\ n \in nodes
      BY <1>1, <1>5, <2>1, NodeFacts
    <3>2. ~Waits(Front(n), queue)
      BY <1>1, <1>5, <1>6, <2>1, <3>1, WaitsBelow
    <3> QED BY <1>5, <3>1, <3>2
  <2> QED BY <2>1
<1>19. SlotsOf(P \cup K)'
  <2>1. CASE Children(s) = {}
    <3>1. K = {}
      BY <1>9, <2>1 DEF ChildNodes
    <3>2. P \cup K = P /\ UNCHANGED <<datVars, own>>
      BY <1>11, <2>1, <3>1
    <3>3. base' = base /\ check' = check /\ datPos' = datPos /\ depth' = depth /\ own' = own
      BY <3>2 DEF datVars
    <3>4. (\A ch : Code(ch)' = Code(ch)) /\ \A n : Assigned(n)' = Assigned(n)
      BY <1>3, TrieKept
    <3>5. SlotsOf(P)'
      BY <1>5, <3>3, <3>4 DEF SlotsOf
    <3> QED BY <3>1, <3>5
  <2>2. CASE Children(s) # {}
    BY <1>1, <1>3, <1>5, <1>9, <1>10, <1>11, <1>16, <1>18, <2>2, SlotsGrow
  <2> QED BY <2>1, <2>2
<1>20. SlotInv'
  BY <1>17, <1>19 DEF SlotInv, SlotsOf
<1>21. TrieInv'
  BY <1>1, <1>2, <1>3, TrieInvKept DEF TrieInv
<1>22. QueueInv'
  <2>1. NodeQueue' = queue'
    BY <1>3 DEF NodeQueue
  <2>2. Apart(NodeQueue)'
    BY <1>3, <1>14, <2>1 DEF Apart
  <2> QED BY <1>3, <2>2 DEF QueueInv
<1>23. LinkInv'
  BY <1>1, <1>2, <1>3 DEF LinkInv, Empty
<1> QED BY <1>20, <1>21, <1>22, <1>23 DEF BuildInv

(* Placing starts at the root, in its own slot. *)
LEMMA StartPlacingStep ==
  ASSUME BuildInv, StartPlacing
  PROVE  BuildInv'
<1>1. TrieInv /\ LinkInv
  BY DEF BuildInv
<1>2. /\ phase = "insert" /\ todo = {} /\ preset = "balanced" /\ phase' = "place" /\ queue' = <<Root>>
      /\ datPos' = [n \in {Root} |-> DatRoot] /\ depth' = [p \in {DatRoot} |-> 0]
      /\ check' = [p \in {0} |-> -1] /\ base' = Empty /\ own' = [p \in {DatRoot} |-> NoKeyword]
      /\ UNCHANGED trieVars /\ fail' = fail
  BY DEF StartPlacing
<1>3. nodes' = nodes /\ dict' = dict /\ preset' = preset
  BY <1>2 DEF trieVars
<1>4. PICK Q : Q = <<Root>>
  OBVIOUS
<1>5. Apart(Q) /\ \A n \in nodes : Waits(n, Q) <=> n # Root
  BY <1>1, <1>4, RootAlone
<1>6. queue' = Q
  BY <1>2, <1>4
<1>7. Placed' = {Root}
  <2>1. Placed' = {n \in nodes : ~Waits(n, Q)}
    BY <1>2, <1>3, <1>6 DEF Placed, Waits
  <2> QED BY <1>1, <1>5, <2>1, NodeFacts
<1>8. SlotInv'
  <2>1. DOMAIN datPos' = {Root} /\ datPos'[Root] = DatRoot /\ Range(datPos') = {DatRoot}
    BY <1>2 DEF Range
  <2>2. Assigned(Root)' = NoKeyword
    BY DEF Assigned, Root, NoKeyword
  <2>3. DOMAIN base' = {}
    BY <1>2 DEF Empty
  <2>4. own'[DatRoot] = NoKeyword /\ depth'[DatRoot] = 0 /\ DOMAIN own' = {DatRoot} /\ DOMAIN depth' = {DatRoot}
    BY <1>2
  <2>5. DOMAIN check' = {0} /\ check'[0] = -1
    BY <1>2
  <2>6. {datPos'[n] : n \in {Root} \ {Root}} = {}
    OBVIOUS
  <2> QED BY <1>7, <2>1, <2>2, <2>3, <2>4, <2>5, <2>6, RootFacts DEF SlotInv, DatRoot
<1>9. TrieInv'
  BY <1>1, <1>2, TrieInvKept
<1>10. QueueInv'
  <2>1. NodeQueue' = Q
    BY <1>2, <1>6 DEF NodeQueue
  <2>2. Apart(NodeQueue)'
    BY <1>3, <1>5, <2>1 DEF Apart
  <2> QED BY <1>2, <2>2 DEF QueueInv
<1>11. LinkInv'
  BY <1>1, <1>2 DEF LinkInv
<1> QED BY <1>8, <1>9, <1>10, <1>11 DEF BuildInv

(* The trie of one more keyword. *)
LEMMA InsertStep ==
  ASSUME BuildInv, NEW kw, InsertKeyword(kw)
  PROVE  BuildInv'
<1>1. TrieInv /\ QueueInv /\ LinkInv
  BY DEF BuildInv
<1>2. /\ phase = "insert" /\ kw \in todo /\ todo' = todo \ {kw} /\ phase' = phase /\ preset' = preset /\ dict' = dict
      /\ nodes' = (IF kw = Empty THEN nodes ELSE nodes \cup Prefixes(kw)) /\ queue' = queue /\ fail' = fail
  BY DEF InsertKeyword, linkVars
<1>3. kw \in dict /\ kw \in Seq(Nat)
  BY <1>1, <1>2, DictFacts DEF TrieInv
<1>4. kw = Empty => Prefixes(kw) = {Root}
  <2>1. ASSUME kw = Empty PROVE Prefixes(kw) = {Root}
    <3>1. Prefixes(kw) = {p \in Seq(Nat) : IsPrefix(p, kw)}
      BY <1>3, PrefixesMeaning
    <3>2. kw = Root
      BY <2>1 DEF Root, Empty
    <3>3. ASSUME NEW p \in Seq(Nat), IsPrefix(p, kw) PROVE p = Root
      <4>1. Len(p) <= Len(kw)
        BY <1>3, <3>3, PrefixBasics
      <4> QED BY <3>2, <4>1, RootFacts
    <3> QED BY <3>1, <3>2, <3>3, RootFacts
  <2> QED BY <2>1
<1>5. nodes = {Root} \cup UNION {Prefixes(w) : w \in dict \ todo}
  BY <1>1 DEF TrieInv
<1>6. dict \ todo' = (dict \ todo) \cup {kw}
  BY <1>2, <1>3
<1>7. PICK left, rest : left = dict \ todo /\ rest = dict \ todo'
  OBVIOUS
<1> DEFINE old == UNION {Prefixes(w) : w \in left}
           new == UNION {Prefixes(w) : w \in rest}
<1>8. nodes' = {Root} \cup UNION {Prefixes(w) : w \in dict \ todo'}
  <2>1. (\A x : x \in old <=> \E w \in left : x \in Prefixes(w)) /\ (\A x : x \in new <=> \E w \in rest : x \in Prefixes(w))
    OBVIOUS
  <2>2. nodes = {Root} \cup old
    BY <1>5, <1>7
  <2>3. rest = left \cup {kw}
    BY <1>6, <1>7
  <2> HIDE DEF old, new
  <2>4. new = old \cup Prefixes(kw)
    BY <2>1, <2>3
  <2>5. nodes' = {Root} \cup new
    BY <1>2, <1>4, <2>2, <2>4
  <2> QED BY <1>7, <2>5 DEF new
<1>9. TrieInv'
  BY <1>1, <1>2, <1>8 DEF TrieInv
<1>10. QueueInv' /\ SlotInv' /\ LinkInv'
  BY <1>1, <1>2 DEF QueueInv, SlotInv, LinkInv
<1> QED BY <1>9, <1>10 DEF BuildInv

(* An empty queue keeps nobody waiting. *)
LEMMA NobodyWaits ==
  ASSUME queue = Empty
  PROVE  \A n : ~Waits(n, NodeQueue)
<1>1. DOMAIN NodeQueue = {}
  BY DEF NodeQueue, Empty
<1> QED BY <1>1 DEF Waits

(* Once every link is set, the trie, the array and the links stay as they are. *)
LEMMA BuiltStep ==
  ASSUME BuildInv, phase \notin {"insert", "place"}, queue = Empty,
         phase' \in {"rows", "ready", "scan", "done"}, phase' = "rows" => preset = "speed",
         UNCHANGED <<trieVars, datVars, own, fail, queue>>
  PROVE  BuildInv'
<1>1. TrieInv /\ QueueInv /\ SlotInv /\ LinkInv
  BY DEF BuildInv
<1>2. /\ preset' = preset /\ nodes' = nodes /\ dict' = dict /\ datPos' = datPos /\ fail' = fail /\ queue' = Empty
      /\ todo = {} /\ UNCHANGED trieVars /\ UNCHANGED <<trieVars, datVars, own>>
  BY <1>1 DEF trieVars, datVars, TrieInv
<1>3. TrieInv'
  BY <1>1, <1>2, TrieInvKept
<1>4. SlotInv'
  BY <1>1, <1>2, SlotInvKept
<1>5. QueueInv'
  BY <1>2 DEF QueueInv
<1>6. LinkInv'
  <2>1. \A n : StateOf(n)' = StateOf(n)
    BY <1>2 DEF StateOf
  <2>2. \A n : LongestSuffix(n)' = LongestSuffix(n)
    BY <1>2, TrieKept
  <2>3. \A n : ~Waits(n, NodeQueue)
    BY NobodyWaits
  <2>4. \A n : ~Waits(n, NodeQueue)'
    <3>1. NodeQueue' = Empty
      BY <1>2 DEF NodeQueue
    <3> QED BY <3>1 DEF Waits, Empty
  <2>5. /\ DOMAIN fail = {StateOf(n) : n \in nodes} /\ fail[StateOf(Root)] = StateOf(Root)
        /\ \A n \in nodes \ {Root} : fail[StateOf(n)] = StateOf(LongestSuffix(n))
    BY <1>1, <2>3 DEF LinkInv
  <2>6. phase' \notin {"insert", "place"}
    OBVIOUS
  <2> QED BY <1>2, <2>1, <2>2, <2>4, <2>5, <2>6 DEF LinkInv
<1> QED BY <1>3, <1>4, <1>5, <1>6 DEF BuildInv

(* A query leaves what was built alone. *)
LEMMA ScanFrame ==
  ASSUME NEW ch, Scan(ch)
  PROVE  phase = "scan" /\ phase' \in {"scan", "done"} /\ UNCHANGED <<trieVars, queue, order, linkVars, dfa, bloom, datVars>>
<1>1. ASSUME NEW p, NEW q, Scanning(p, q), phase' = phase \/ phase' = "done"
      PROVE  phase = "scan" /\ phase' \in {"scan", "done"} /\ UNCHANGED <<trieVars, queue, order, linkVars, dfa, bloom, datVars>>
  BY <1>1 DEF Scanning
<1>2. ASSUME NEW st, Collect(ch, st) \/ CollectSet(ch, st) \/ Index(ch, st) \/ Emit(ch, st) \/ Found(ch, st)
      PROVE  phase' = phase \/ phase' = "done"
  <2>1. CASE Collect(ch, st)
    BY <2>1, Zenon DEF Collect
  <2>2. CASE CollectSet(ch, st)
    BY <2>2, Zenon DEF CollectSet
  <2>3. CASE Index(ch, st)
    BY <2>3, Zenon DEF Index
  <2>4. CASE Emit(ch, st)
    BY <2>4, Zenon DEF Emit
  <2>5. CASE Found(ch, st)
    BY <2>5, Zenon DEF Found
  <2> QED BY <1>2, <2>1, <2>2, <2>3, <2>4, <2>5
<1>3. \/ \E q : Scanning("memory", q) /\ (Collect(ch, MapStep(ch)) \/ CollectSet(ch, MapStep(ch)) \/ Index(ch, MapStep(ch)) \/ Emit(ch, MapStep(ch)) \/ Found(ch, MapStep(ch)))
      \/ \E q : Scanning("speed", q) /\ (Collect(ch, SpeedStep(ch)) \/ CollectSet(ch, SpeedStep(ch)) \/ Index(ch, SpeedStep(ch)) \/ Emit(ch, SpeedStep(ch)) \/ Found(ch, SpeedStep(ch)))
      \/ \E q : Scanning("balanced", q) /\ (Collect(ch, BalancedStep(ch)) \/ CollectSet(ch, BalancedStep(ch)) \/ Index(ch, BalancedStep(ch)) \/ Emit(ch, BalancedStep(ch)) \/ Found(ch, BalancedStep(ch)))
  BY DEF Scan, MapFind, MapFindSet, MapFindIndex, MapContains, MapMatchString, MapMatchStream,
         SpeedFind, SpeedFindSet, SpeedFindIndex, SpeedContains, SpeedMatchString, SpeedMatchStream,
         BalancedFind, BalancedFindSet, BalancedFindIndex, BalancedContains, BalancedMatchString, BalancedMatchStream
<1> QED BY <1>1, <1>2, <1>3
-----------------------------------------------------------------------------
(* The theorems. *)

(* The first state of a build. *)
LEMMA InitBuild ==
  ASSUME Init
  PROVE  BuildInv
<1>1. nodes = {Root} /\ todo = dict /\ phase = "insert"
  BY DEF Init
<1>2. {Prefixes(kw) : kw \in dict \ todo} = {}
  BY <1>1
<1>3. TrieInv
  BY <1>1, <1>2 DEF Init, TrieInv
<1>4. QueueInv /\ SlotInv /\ LinkInv
  BY DEF Init, QueueInv, SlotInv, LinkInv
<1> QED BY <1>3, <1>4 DEF BuildInv

(* Nothing changes. *)
LEMMA StutterBuild ==
  ASSUME BuildInv, UNCHANGED vars
  PROVE  BuildInv'
<1>1. /\ preset' = preset /\ dict' = dict /\ phase' = phase /\ todo' = todo /\ nodes' = nodes /\ queue' = queue
      /\ fail' = fail /\ own' = own /\ base' = base /\ check' = check /\ datPos' = datPos /\ depth' = depth
  BY DEF vars, trieVars, linkVars, datVars
<1>2. TrieInv /\ QueueInv /\ SlotInv /\ LinkInv
  BY DEF BuildInv
<1>3. TrieInv'
  BY <1>1, <1>2 DEF TrieInv
<1>4. /\ \A ch : Code(ch)' = Code(ch)
      /\ \A n : Assigned(n)' = Assigned(n)
      /\ \A n : LongestSuffix(n)' = LongestSuffix(n)
  BY <1>1, TrieKept
<1>5. NodeQueue' = NodeQueue /\ Placed' = Placed /\ \A n : StateOf(n)' = StateOf(n)
  BY <1>1 DEF NodeQueue, NodeOf, Placed, Waits, StateOf
<1>6. QueueInv'
  <2>1. (Apart(NodeQueue)' <=> Apart(NodeQueue)) /\ (Layered(NodeQueue)' <=> Layered(NodeQueue))
    BY <1>1, <1>5 DEF Apart, Layered, Waits
  <2> QED BY <1>1, <1>2, <1>5, <2>1 DEF QueueInv
<1>7. SlotInv'
  BY <1>1, <1>2, <1>4, <1>5 DEF SlotInv
<1>8. LinkInv'
  <2>1. \A n : Waits(n, NodeQueue)' <=> Waits(n, NodeQueue)
    BY <1>5 DEF Waits
  <2> QED BY <1>1, <1>2, <1>4, <1>5, <2>1 DEF LinkInv
<1> QED BY <1>3, <1>6, <1>7, <1>8 DEF BuildInv

(* Every action keeps the build in step. *)
LEMMA BuildNext ==
  ASSUME BuildInv, [Next]_vars
  PROVE  BuildInv'
<1>1. ASSUME NEW kw \in dict, InsertKeyword(kw) PROVE BuildInv'
  BY <1>1, InsertStep
<1>2. CASE StartLinks
  BY <1>2, StartLinksStep
<1>3. CASE MapLink
  BY <1>3, MapLinkStep
<1>4. CASE MapReady
  BY <1>4, BuiltStep DEF MapReady, linkVars
<1>5. CASE SpeedLink
  BY <1>5, SpeedLinkStep
<1>6. CASE SpeedRootRow
  BY <1>6, BuiltStep DEF SpeedRootRow, linkVars
<1>7. phase \in {"rows", "ready", "scan", "done"} => queue = Empty
  BY DEF BuildInv, QueueInv
<1>8. CASE SpeedRow
  <2>1. phase = "rows" /\ phase' = "rows" /\ preset = "speed" /\ UNCHANGED <<trieVars, datVars, own, fail, queue>>
    BY <1>8 DEF SpeedRow, linkVars
  <2> QED BY <1>7, <2>1, BuiltStep
<1>9. CASE SpeedReady
  BY <1>7, <1>9, BuiltStep DEF SpeedReady, linkVars
<1>10. CASE StartPlacing
  BY <1>10, StartPlacingStep
<1>11. CASE Place
  BY <1>11, PlaceStep
<1>12. CASE DatRootLinks
  BY <1>12, DatRootLinksStep
<1>13. CASE DatLink
  BY <1>13, DatLinkStep
<1>14. CASE BuildBand
  BY <1>14, BuiltStep DEF BuildBand, linkVars
<1>15. ASSUME NEW q, NEW n, Ask(q, n) PROVE BuildInv'
  BY <1>7, <1>15, BuiltStep DEF Ask, linkVars
<1>16. ASSUME NEW ch, Scan(ch) PROVE BuildInv'
  <2>1. phase = "scan" /\ phase' \in {"scan", "done"} /\ UNCHANGED <<trieVars, datVars, own, fail, queue>>
    BY <1>16, ScanFrame DEF linkVars
  <2> QED BY <1>7, <2>1, BuiltStep
<1>17. CASE UNCHANGED vars
  BY <1>17, StutterBuild
<1> QED
  BY <1>1, <1>2, <1>3, <1>4, <1>5, <1>6, <1>8, <1>9, <1>10, <1>11, <1>12, <1>13, <1>14, <1>15, <1>16, <1>17
  DEF Next, Build

(* Building keeps the trie, the queue, the array and the links in step: every
   keyword inserted is a path of the trie, the queue holds the frontier of the
   breadth-first order, every node served has its slots and links, and no slot is
   given twice (buildFromSequence, the two buildFromKeywords, computeFailLinks). *)
THEOREM BuildInvariant == Spec => []BuildInv
<1>1. Init => BuildInv
  BY InitBuild
<1>2. BuildInv /\ [Next]_vars => BuildInv'
  BY BuildNext
<1> QED BY <1>1, <1>2, PTL DEF Spec

(* A failure link is always shallower than its state, and once linked it names
   the longest proper suffix of the state that is a node, in all three engines
   (buildFromSequence in engine_map.go, buildFromKeywords in engine_flat.go,
   computeFailLinks in engine_dat.go). *)
THEOREM FailureLinks == Spec => []FailureLinksRight
<1>1. BuildInv => FailureLinksRight
  <2> SUFFICES ASSUME BuildInv PROVE FailureLinksRight
    OBVIOUS
  <2>1. TrieInv /\ QueueInv /\ SlotInv /\ LinkInv
    BY DEF BuildInv
  <2>2. CASE phase \in {"insert", "place"}
    <3>1. DOMAIN fail = {}
      BY <2>1, <2>2 DEF LinkInv, Empty
    <3> QED BY <2>2, <3>1 DEF FailureLinksRight, Linked
  <2>3. CASE phase \notin {"insert", "place"}
    <3>1. /\ DOMAIN fail = {StateOf(n) : n \in nodes}
          /\ \A n \in nodes \ {Root} :
               fail[StateOf(n)] = IF ~Waits(n, NodeQueue) THEN StateOf(LongestSuffix(n))
                                  ELSE IF preset = "balanced" THEN 0 ELSE Root
      BY <2>1, <2>3 DEF LinkInv
    <3>2. \A n \in nodes : n # Root => LongestSuffix(n) \in nodes /\ Len(LongestSuffix(n)) < Len(n) /\ Len(n) > 0
      BY <2>1, LongestSuffixIs, NodeFacts
    <3>3. Linked => \A n : ~Waits(n, NodeQueue)
      BY <2>1, NobodyWaits DEF Linked, QueueInv
    <3>4. ASSUME preset # "balanced", NEW n \in DOMAIN fail \ {Root}
          PROVE  Len(fail[n]) < Len(n) /\ (Linked => fail[n] = LongestSuffix(n))
      <4>1. n \in nodes /\ n # Root /\ StateOf(n) = n /\ StateOf(LongestSuffix(n)) = LongestSuffix(n)
        BY <2>1, <3>1, <3>4 DEF StateOf
      <4>2. fail[n] = IF ~Waits(n, NodeQueue) THEN LongestSuffix(n) ELSE Root
        BY <3>1, <3>4, <4>1
      <4> QED BY <3>2, <3>3, <4>1, <4>2, RootFacts
    <3>5. ASSUME preset = "balanced", Linked, NEW n \in nodes \ {Root}
          PROVE  fail[datPos[n]] = datPos[LongestSuffix(n)]
      BY <3>1, <3>3, <3>5 DEF StateOf
    <3> QED BY <3>4, <3>5 DEF FailureLinksRight
  <2> QED BY <2>2, <2>3
<1> QED BY <1>1, BuildInvariant, PTL

(* The double array holds the trie: no two nodes share a slot, and a lookup by
   code finds the child that the trie has, and no other (findBase,
   gotoStateByCode). *)
THEOREM DoubleArray == Spec => []DoubleArrayIsTheTrie
<1>1. BuildInv => DoubleArrayIsTheTrie
  <2> SUFFICES ASSUME BuildInv, phase = "link", preset = "balanced"
      PROVE  /\ IsInjective(datPos)
             /\ \A n \in nodes : \A i \in DOMAIN Alphabet :
                  Goto(datPos[n], i - 1) = IF Append(n, Alphabet[i]) \in nodes THEN datPos[Append(n, Alphabet[i])] ELSE 0
    BY DEF DoubleArrayIsTheTrie
  <2>1. TrieInv /\ SlotsDone
    BY SlotsAreDone DEF BuildInv
  <2>2. IsInjective(datPos)
    BY <2>1 DEF SlotsDone, IsInjective
  <2> QED BY <2>1, <2>2, GotoFacts
<1> QED BY <1>1, BuildInvariant, PTL

-----------------------------------------------------------------------------
(* Sequences that list a set in an order. *)

\* R orders S, strictly and totally.
StrictOrder(R, S) ==
    /\ \A m \in S : <<m, m>> \notin R
    /\ \A m, n \in S : m # n => <<m, n>> \in R \/ <<n, m>> \in R
    /\ \A l, m, n \in S : <<l, m>> \in R /\ <<m, n>> \in R => <<l, n>> \in R
\* The sequence q lists S in the order R.
Lists(q, S, R) ==
    /\ q \in Seq(S) /\ Range(q) = S
    /\ \A i, j \in DOMAIN q : i < j => <<q[i], q[j]>> \in R

(* There is one such list. *)
LEMMA ListsAgree ==
  ASSUME NEW S, NEW R, StrictOrder(R, S), NEW p, Lists(p, S, R), NEW q, Lists(q, S, R),
         NEW i \in Nat, i \in DOMAIN p, \A k \in 1 .. (i - 1) : k \in DOMAIN q /\ q[k] = p[k]
  PROVE  i \in DOMAIN q /\ q[i] = p[i]
<1>1. /\ DOMAIN p = 1 .. Len(p) /\ Len(p) \in Nat /\ \A k \in DOMAIN p : p[k] \in S
      /\ DOMAIN q = 1 .. Len(q) /\ Len(q) \in Nat /\ \A k \in DOMAIN q : q[k] \in S
      /\ i \in 1 .. Len(p)
  BY DEF Lists
<1>2. PICK j \in DOMAIN q : q[j] = p[i]
  BY <1>1 DEF Lists, Range
<1>3. j >= i
  <2> SUFFICES ASSUME j < i PROVE FALSE
    BY <1>1
  <2>1. j \in 1 .. (i - 1) /\ j \in DOMAIN p /\ p[j] = p[i]
    BY <1>1, <1>2
  <2>2. <<p[j], p[i]>> \in R
    BY <2>1 DEF Lists
  <2> QED BY <1>1, <2>1, <2>2 DEF StrictOrder
<1>4. i \in DOMAIN q
  BY <1>1, <1>3
<1>5. CASE q[i] = p[i]
  BY <1>4, <1>5
<1>6. CASE q[i] # p[i]
  <2>1. j > i /\ <<q[i], p[i]>> \in R
    <3>1. j > i
      BY <1>1, <1>2, <1>3, <1>6
    <3> QED BY <1>2, <1>4, <3>1 DEF Lists
  <2>2. PICK k \in DOMAIN p : p[k] = q[i]
    BY <1>1, <1>4 DEF Lists, Range
  <2>3. k >= i
    <3> SUFFICES ASSUME k < i PROVE FALSE
      BY <1>1
    <3>1. k \in 1 .. (i - 1) /\ k \in DOMAIN q /\ q[k] = q[i]
      BY <1>1, <2>2
    <3>2. <<q[k], q[i]>> \in R
      BY <1>4, <3>1 DEF Lists
    <3> QED BY <1>1, <1>4, <3>1, <3>2 DEF StrictOrder
  <2>4. k > i
    BY <1>1, <1>6, <2>2, <2>3
  <2>5. <<p[i], q[i]>> \in R
    BY <2>2, <2>4 DEF Lists
  <2>6. <<p[i], p[i]>> \in R
    BY <1>1, <1>4, <2>1, <2>5 DEF StrictOrder
  <2> QED BY <1>1, <2>6 DEF StrictOrder
<1> QED BY <1>5, <1>6

(* A list is a beginning of any other list of the set. *)
LEMMA ListsBegin ==
  ASSUME NEW S, NEW R, StrictOrder(R, S), NEW p, Lists(p, S, R), NEW q, Lists(q, S, R)
  PROVE  \A i \in DOMAIN p : i \in DOMAIN q /\ q[i] = p[i]
<1> DEFINE Bad == {i \in Nat : i \in DOMAIN p /\ ~(i \in DOMAIN q /\ q[i] = p[i])}
<1>1. DOMAIN p = 1 .. Len(p) /\ Len(p) \in Nat
  BY DEF Lists
<1>2. Bad = {}
  <2> SUFFICES ASSUME Bad # {} PROVE FALSE
    OBVIOUS
  <2>1. PICK i \in Bad : \A k \in Bad : i <= k
    <3>1. Bad \in SUBSET Nat
      OBVIOUS
    <3> HIDE DEF Bad
    <3> QED BY <3>1, LeastNat
  <2>2. i \in Nat /\ i \in DOMAIN p /\ ~(i \in DOMAIN q /\ q[i] = p[i])
    BY <2>1
  <2>3. \A k \in 1 .. (i - 1) : k \in DOMAIN q /\ q[k] = p[k]
    <3>1. ASSUME NEW k \in 1 .. (i - 1) PROVE k \in DOMAIN q /\ q[k] = p[k]
      <4>1. k \in Nat /\ k < i /\ k \in DOMAIN p
        BY <1>1, <2>2
      <4>2. k \notin Bad
        BY <2>1, <2>2, <4>1
      <4> QED BY <4>1, <4>2
    <3> QED BY <3>1
  <2> HIDE DEF Bad
  <2> QED BY <2>2, <2>3, ListsAgree
<1> QED BY <1>1, <1>2

(* There is one list of a set in an order. *)
LEMMA ListsUnique ==
  ASSUME NEW S, NEW R, StrictOrder(R, S), NEW p, Lists(p, S, R), NEW q, Lists(q, S, R)
  PROVE  p = q
<1>1. /\ p \in Seq(S) /\ q \in Seq(S) /\ DOMAIN p = 1 .. Len(p) /\ Len(p) \in Nat
      /\ DOMAIN q = 1 .. Len(q) /\ Len(q) \in Nat
  BY DEF Lists
<1>2. \A i \in DOMAIN p : i \in DOMAIN q /\ q[i] = p[i]
  BY ListsBegin
<1>3. \A i \in DOMAIN q : i \in DOMAIN p /\ p[i] = q[i]
  BY ListsBegin
<1> QED BY <1>1, <1>2, <1>3

(* Two lists one after the other. *)
LEMMA ListsJoin ==
  ASSUME NEW R, NEW S, NEW p, Lists(p, S, R), NEW T, NEW q, Lists(q, T, R),
         \A s \in S, t \in T : <<s, t>> \in R
  PROVE  Lists(p \o q, S \cup T, R)
<1> DEFINE c == p \o q
           U == S \cup T
<1>1. p \in Seq(S) /\ q \in Seq(T) /\ Range(p) = S /\ Range(q) = T
  BY DEF Lists
<1>2. p \in Seq(U) /\ q \in Seq(U)
  <2>1. S \subseteq U /\ T \subseteq U
    OBVIOUS
  <2> QED BY <1>1, <2>1, SeqMonotonic
<1> HIDE DEF U
<1>3. /\ c \in Seq(U) /\ Len(c) = Len(p) + Len(q) /\ Len(p) \in Nat /\ Len(q) \in Nat
      /\ \A i \in 1 .. (Len(p) + Len(q)) : c[i] = IF i <= Len(p) THEN p[i] ELSE q[i - Len(p)]
  BY <1>2, ConcatProperties
<1>4. DOMAIN c = 1 .. (Len(p) + Len(q)) /\ DOMAIN p = 1 .. Len(p) /\ DOMAIN q = 1 .. Len(q)
  BY <1>2, <1>3
<1> HIDE DEF c
<1>5. ASSUME NEW i \in DOMAIN c, NEW j \in DOMAIN c, i < j PROVE <<c[i], c[j]>> \in R
  <2>1. CASE j <= Len(p)
    <3>1. i \in DOMAIN p /\ j \in DOMAIN p /\ c[i] = p[i] /\ c[j] = p[j]
      BY <1>3, <1>4, <1>5, <2>1
    <3> QED BY <1>5, <3>1 DEF Lists
  <2>2. CASE i > Len(p)
    <3>1. i - Len(p) \in DOMAIN q /\ j - Len(p) \in DOMAIN q /\ c[i] = q[i - Len(p)] /\ c[j] = q[j - Len(p)]
          /\ i - Len(p) < j - Len(p)
      BY <1>3, <1>4, <1>5, <2>2
    <3> QED BY <3>1 DEF Lists
  <2>3. CASE i <= Len(p) /\ j > Len(p)
    <3>1. i \in DOMAIN p /\ j - Len(p) \in DOMAIN q /\ c[i] = p[i] /\ c[j] = q[j - Len(p)]
      BY <1>3, <1>4, <1>5, <2>3
    <3>2. c[i] \in S /\ c[j] \in T
      BY <1>1, <3>1
    <3> QED BY <3>2
  <2> QED BY <1>3, <1>4, <2>1, <2>2, <2>3
<1>6. Range(c) = U
  <2>1. ASSUME NEW u \in S PROVE \E i \in DOMAIN c : c[i] = u
    <3>1. PICK i \in DOMAIN p : p[i] = u
      BY <1>1 DEF Range
    <3>2. i \in DOMAIN c /\ c[i] = u
      BY <1>3, <1>4, <3>1
    <3> QED BY <3>2
  <2>2. ASSUME NEW u \in T PROVE \E i \in DOMAIN c : c[i] = u
    <3>1. PICK i \in DOMAIN q : q[i] = u
      BY <1>1 DEF Range
    <3>2. i + Len(p) \in DOMAIN c /\ c[i + Len(p)] = u
      BY <1>3, <1>4, <3>1
    <3> QED BY <3>2
  <2>3. \A i \in DOMAIN c : c[i] \in U
    BY <1>3
  <2> QED BY <2>1, <2>2, <2>3 DEF Range, U
<1> QED BY <1>3, <1>5, <1>6 DEF Lists, U, c

(* The empty list and the list of one element. *)
LEMMA ListsSmall ==
  /\ \A R : Lists(<<>>, {}, R)
  /\ \A R, x : Lists(<<x>>, {x}, R)
<1>1. ASSUME NEW R PROVE Lists(<<>>, {}, R)
  BY DEF Lists, Range
<1>2. ASSUME NEW R, NEW x PROVE Lists(<<x>>, {x}, R)
  <2>1. <<x>> \in Seq({x}) /\ DOMAIN <<x>> = {1} /\ <<x>>[1] = x
    OBVIOUS
  <2> QED BY <2>1 DEF Lists, Range
<1> QED BY <1>1, <1>2

\* A set in an order, each element at its rank: what sorting gives.
ByRank(S, R) == [i \in 1 .. Cardinality(S) |-> CHOOSE m \in S : Cardinality({n \in S : <<n, m>> \in R}) = i - 1]

(* Sorting by ranks lists the set. *)
LEMMA RanksList ==
  ASSUME NEW S, IsFiniteSet(S), NEW R, StrictOrder(R, S)
  PROVE  Lists(ByRank(S, R), S, R)
<1> DEFINE Before(m) == {n \in S : <<n, m>> \in R}
           Rank(m) == Cardinality(Before(m))
           c == Cardinality(S)
           f == ByRank(S, R)
<1>1. c \in Nat
  BY FS_CardinalityType
<1>2. /\ \A m \in S : Rank(m) \in 0 .. (c - 1)
      /\ \A i \in 1 .. c : \E m \in S : Rank(m) = i - 1
      /\ \A m, n \in S : Rank(m) = Rank(n) => m = n
  BY Places DEF StrictOrder
<1>3. f = [i \in 1 .. c |-> CHOOSE m \in S : Rank(m) = i - 1]
  BY DEF ByRank
<1>4. ASSUME NEW m \in S, NEW n \in S, <<m, n>> \in R PROVE Rank(m) < Rank(n)
  <2>1. Before(m) \subseteq Before(n)
    BY <1>4 DEF StrictOrder
  <2>2. m \in Before(n) /\ m \notin Before(m)
    BY <1>4 DEF StrictOrder
  <2>3. IsFiniteSet(Before(n))
    <3>1. Before(n) \subseteq S
      OBVIOUS
    <3> QED BY <3>1, FS_Subset
  <2> HIDE DEF Before
  <2>4. Cardinality(Before(m)) <= Cardinality(Before(n)) /\ (Cardinality(Before(n)) = Cardinality(Before(m)) => Before(n) = Before(m))
    BY <2>1, <2>3, FS_Subset
  <2>5. Rank(m) \in Nat /\ Rank(n) \in Nat
    BY <1>1, <1>2
  <2> QED BY <2>2, <2>4, <2>5
<1> HIDE DEF Rank, c, f
<1>5. \A i \in 1 .. c : f[i] \in S /\ Rank(f[i]) = i - 1
  BY <1>2, <1>3
<1>6. f \in Seq(S) /\ DOMAIN f = 1 .. c
  BY <1>1, <1>3, <1>5
<1>7. ASSUME NEW m \in S PROVE \E i \in DOMAIN f : f[i] = m
  <2>1. Rank(m) + 1 \in 1 .. c
    BY <1>1, <1>2
  <2>2. Rank(f[Rank(m) + 1]) = Rank(m) /\ f[Rank(m) + 1] \in S
    BY <1>1, <1>2, <1>5, <2>1
  <2> QED BY <1>2, <1>6, <2>1, <2>2
<1>8. ASSUME NEW i \in DOMAIN f, NEW j \in DOMAIN f, i < j PROVE <<f[i], f[j]>> \in R
  <2>1. f[i] \in S /\ f[j] \in S /\ Rank(f[i]) = i - 1 /\ Rank(f[j]) = j - 1 /\ i \in Nat /\ j \in Nat
    BY <1>1, <1>5, <1>6
  <2>2. f[i] # f[j]
    BY <1>8, <2>1
  <2>3. ~ <<f[j], f[i]>> \in R
    <3> SUFFICES ASSUME <<f[j], f[i]>> \in R PROVE FALSE
      OBVIOUS
    <3>1. Rank(f[j]) < Rank(f[i])
      BY <1>4, <2>1
    <3> QED BY <1>8, <2>1, <3>1
  <2> QED BY <2>1, <2>2, <2>3 DEF StrictOrder
<1>9. Range(f) = S
  BY <1>5, <1>6, <1>7 DEF Range
<1> QED BY <1>6, <1>8, <1>9 DEF Lists, f

\* The order of numbers, of keywords by length, and of matches in a scan.
Numbers == {p \in Int \X Int : p[1] < p[2]}
Lengths == {p \in Seq(Nat) \X Seq(Nat) : Len(p[1]) > Len(p[2])}
Spans == Seq(Nat) \X Nat \X Nat
ScanPairs == {p \in Spans \X Spans : ScanOrder(p[1], p[2])}

(* Sorting numbers lists them. *)
LEMMA SortedLists ==
  ASSUME NEW S \in SUBSET Int, IsFiniteSet(S)
  PROVE  Lists(Sorted(S), S, Numbers) /\ StrictOrder(Numbers, S)
<1>1. \A m, n \in S : <<m, n>> \in Numbers <=> m < n
  BY DEF Numbers
<1>2. StrictOrder(Numbers, S)
  BY <1>1 DEF StrictOrder
<1>3. Sorted(S) = ByRank(S, Numbers)
  <2>1. ASSUME NEW m \in S PROVE {n \in S : n < m} = {n \in S : <<n, m>> \in Numbers}
    BY <1>1
  <2> DEFINE a(i) == CHOOSE m \in S : Cardinality({n \in S : n < m}) = i - 1
             b(i) == CHOOSE m \in S : Cardinality({n \in S : <<n, m>> \in Numbers}) = i - 1
  <2>2. Sorted(S) = [i \in 1 .. Cardinality(S) |-> a(i)] /\ ByRank(S, Numbers) = [i \in 1 .. Cardinality(S) |-> b(i)]
    BY DEF Sorted, InOrder, Less, ByRank
  <2>3. \A i \in 1 .. Cardinality(S) : a(i) = b(i)
    BY <2>1
  <2> HIDE DEF a, b
  <2> QED BY <2>2, <2>3
<1> QED BY <1>2, <1>3, RanksList

\* A word ends at a place of a text.
EndsAt(kw, e, t) == Len(kw) <= e /\ \A i \in 1 .. Len(kw) : kw[i] = t[e - Len(kw) + i]

(* A piece of a text, rune by rune. *)
LEMMA PieceMeaning ==
  ASSUME NEW kw \in Seq(Nat), NEW t \in Seq(Nat), NEW e \in 1 .. Len(t)
  PROVE  /\ Span(kw, e) \in Spans /\ Span(kw, e)[1] = SubSeq(t, Span(kw, e)[2] + 1, Span(kw, e)[3]) <=> EndsAt(kw, e, t)
         /\ Span(kw, e)[1] = kw /\ Span(kw, e)[2] = e - Len(kw) /\ Span(kw, e)[3] = e
<1> DEFINE b == e - Len(kw)
           v == SubSeq(t, b + 1, e)
<1>1. /\ Span(kw, e) = <<kw, b, e>> /\ Span(kw, e)[1] = kw /\ Span(kw, e)[2] = b /\ Span(kw, e)[3] = e
      /\ b \in Int /\ Len(kw) \in Nat /\ e \in Nat /\ e <= Len(t) /\ Len(t) \in Nat
  BY DEF Span
<1>2. Span(kw, e) \in Spans <=> b \in Nat
  BY <1>1 DEF Spans
<1>3. ASSUME b \in Nat PROVE kw = v <=> EndsAt(kw, e, t)
  <2>1. \A i \in (b + 1) .. e : t[i] \in Nat
    BY <1>1, <1>3
  <2>2. v \in Seq(Nat) /\ Len(v) = (IF b + 1 <= e THEN e - (b + 1) + 1 ELSE 0) /\ \A i \in 1 .. (e - (b + 1) + 1) : v[i] = t[(b + 1) + i - 1]
    <3>1. b + 1 \in Int /\ e \in Int
      BY <1>1
    <3> HIDE DEF b
    <3> QED BY <2>1, <3>1, SubSeqProperties
  <2>3. Len(v) = Len(kw) /\ \A i \in 1 .. Len(kw) : v[i] = t[b + i]
    BY <1>1, <1>3, <2>2
  <2> HIDE DEF v
  <2>4. kw = v <=> \A i \in 1 .. Len(kw) : kw[i] = v[i]
    BY <2>2, <2>3, SeqEqual
  <2>5. Len(kw) <= e
    BY <1>1, <1>3
  <2> QED BY <2>3, <2>4, <2>5 DEF EndsAt
<1>4. EndsAt(kw, e, t) => b \in Nat
  BY <1>1 DEF EndsAt
<1> QED BY <1>1, <1>2, <1>3, <1>4

\* The matches of the keywords of d in a text t, and a set of matches in scan order.
MatchesIn(d, t) ==
    {Span(kw, e) : kw \in d \ {Empty}, e \in DOMAIN t} \cap {m \in Spans : m[1] = SubSeq(t, m[2] + 1, m[3])}
InScanOrder(S) == InOrder(S, ScanOrder)

(* What a match is. *)
LEMMA MatchMeaning ==
  ASSUME NEW d \in SUBSET Seq(Nat), NEW t \in Seq(Nat)
  PROVE  /\ \A m : m \in MatchesIn(d, t) <=> \E kw \in d \ {Empty}, e \in 1 .. Len(t) : m = Span(kw, e) /\ EndsAt(kw, e, t)
         /\ \A m \in MatchesIn(d, t) : m \in Spans
<1>1. DOMAIN t = 1 .. Len(t)
  OBVIOUS
<1>2. MatchesIn(d, t) = {Span(kw, e) : kw \in d \ {Empty}, e \in DOMAIN t} \cap {m \in Spans : m[1] = SubSeq(t, m[2] + 1, m[3])}
  BY DEF MatchesIn
<1>3. ASSUME NEW kw \in d \ {Empty}, NEW e \in 1 .. Len(t)
      PROVE  Span(kw, e) \in MatchesIn(d, t) <=> EndsAt(kw, e, t)
  <2>1. kw \in Seq(Nat)
    OBVIOUS
  <2>2. Span(kw, e) \in MatchesIn(d, t) <=> Span(kw, e) \in Spans /\ Span(kw, e)[1] = SubSeq(t, Span(kw, e)[2] + 1, Span(kw, e)[3])
    BY <1>1, <1>2
  <2> QED BY <2>1, <2>2, PieceMeaning
<1>4. ASSUME NEW m \in MatchesIn(d, t) PROVE \E kw \in d \ {Empty}, e \in 1 .. Len(t) : m = Span(kw, e)
  BY <1>1, <1>2
<1>5. \A m \in MatchesIn(d, t) : m \in Spans
  BY <1>2
<1>6. ASSUME NEW m
      PROVE  m \in MatchesIn(d, t) <=> \E kw \in d \ {Empty}, e \in 1 .. Len(t) : m = Span(kw, e) /\ EndsAt(kw, e, t)
  BY <1>3, <1>4
<1> QED BY <1>5, <1>6

(* The matches of a text are finitely many, and in order. *)
LEMMA OccurrencesListed ==
  ASSUME NEW d \in SUBSET Seq(Nat), IsFiniteSet(d), NEW t \in Seq(Nat)
  PROVE  Lists(InScanOrder(MatchesIn(d, t)), MatchesIn(d, t), ScanPairs) /\ StrictOrder(ScanPairs, MatchesIn(d, t))
<1> DEFINE M == MatchesIn(d, t)
<1>1. \A m \in M : \E kw \in d \ {Empty}, e \in 1 .. Len(t) : m = Span(kw, e) /\ EndsAt(kw, e, t) /\ m \in Spans
  BY MatchMeaning
<1> HIDE DEF M
<1>2. \A m, n \in M : <<m, n>> \in ScanPairs <=> ScanOrder(m, n)
  BY <1>1 DEF ScanPairs
<1>3. \A m \in M : m[2] \in Nat /\ m[3] \in Nat
  BY <1>1 DEF Spans
<1>4. d \in SUBSET Seq(Nat) /\ IsFiniteSet(d)
  OBVIOUS
<1>5. ASSUME NEW m \in M, NEW n \in M, m[2] = n[2], m[3] = n[3] PROVE m = n
  <2>1. PICK k \in d \ {Empty}, e \in 1 .. Len(t) : m = Span(k, e) /\ EndsAt(k, e, t)
    BY <1>1
  <2>2. PICK l \in d \ {Empty}, f \in 1 .. Len(t) : n = Span(l, f) /\ EndsAt(l, f, t)
    BY <1>1
  <2>3. k \in Seq(Nat) /\ l \in Seq(Nat) /\ Len(k) \in Nat /\ Len(l) \in Nat /\ e \in Nat /\ f \in Nat
    BY <1>4
  <2>4. m[2] = e - Len(k) /\ m[3] = e /\ n[2] = f - Len(l) /\ n[3] = f
    BY <2>1, <2>2 DEF Span
  <2>5. e = f /\ Len(k) = Len(l)
    <3>1. e = f /\ e - Len(k) = f - Len(l)
      BY <1>5, <2>4, Zenon
    <3> QED BY ONLY <2>3, <3>1
  <2>6. \A i \in 1 .. Len(k) : k[i] = l[i]
    BY <2>1, <2>2, <2>5 DEF EndsAt
  <2>7. k = l
    BY <2>3, <2>5, <2>6, SeqEqual
  <2> QED BY <2>1, <2>2, <2>5, <2>7
<1>6. StrictOrder(ScanPairs, M)
  <2>1. \A m \in M : ~ScanOrder(m, m)
    BY <1>3 DEF ScanOrder
  <2>2. \A m, n \in M : m # n => ScanOrder(m, n) \/ ScanOrder(n, m)
    BY <1>3, <1>5 DEF ScanOrder
  <2>3. \A k, m, n \in M : ScanOrder(k, m) /\ ScanOrder(m, n) => ScanOrder(k, n)
    BY <1>3 DEF ScanOrder
  <2> QED BY <1>2, <2>1, <2>2, <2>3 DEF StrictOrder
<1>7. IsFiniteSet(M)
  <2> DEFINE D == d \X (1 .. Len(t))
             f == [x \in D |-> Span(x[1], x[2])]
  <2>1. IsFiniteSet(D)
    <3>1. IsFiniteSet(1 .. Len(t))
      BY FS_Interval
    <3> QED BY <1>4, <3>1, FS_Product
  <2>2. IsFiniteSet(Range(f))
    BY <2>1, ImageFinite
  <2>3. M \subseteq Range(f)
    <3>1. ASSUME NEW m \in M PROVE m \in Range(f)
      <4>1. PICK kw \in d \ {Empty}, e \in 1 .. Len(t) : m = Span(kw, e)
        BY <1>1
      <4>2. <<kw, e>> \in D /\ f[<<kw, e>>] = m
        BY <4>1
      <4> QED BY <4>2 DEF Range
    <3> QED BY <3>1
  <2> QED BY <2>2, <2>3, FS_Subset
<1>8. InScanOrder(M) = ByRank(M, ScanPairs)
  <2>1. ASSUME NEW m \in M PROVE {n \in M : ScanOrder(n, m)} = {n \in M : <<n, m>> \in ScanPairs}
    BY <1>2
  <2> DEFINE a(i) == CHOOSE m \in M : Cardinality({n \in M : ScanOrder(n, m)}) = i - 1
             b(i) == CHOOSE m \in M : Cardinality({n \in M : <<n, m>> \in ScanPairs}) = i - 1
             c == Cardinality(M)
  <2>2. InScanOrder(M) = [i \in 1 .. c |-> a(i)] /\ ByRank(M, ScanPairs) = [i \in 1 .. c |-> b(i)]
    BY DEF InScanOrder, InOrder, ByRank
  <2>3. \A i \in 1 .. c : a(i) = b(i)
    BY <2>1
  <2> HIDE DEF a, b, c
  <2> QED BY <2>2, <2>3
<1>9. Lists(InScanOrder(M), M, ScanPairs)
  BY <1>6, <1>7, <1>8, RanksList
<1> QED BY <1>6, <1>9 DEF M

-----------------------------------------------------------------------------
(* Where the automaton is after a word, and the keywords the word ends with. *)

\* The nodes with a child for a rune, and the root.
Down(ch) == {u \in nodes : u = Root \/ Append(u, ch) \in nodes}

(* A word has a longest suffix in every set of words that has the empty one. *)
LEMMA LongestExists ==
  ASSUME NEW T \in SUBSET Seq(Nat), Root \in T, NEW w \in Seq(Nat)
  PROVE  \E u \in T : LongestIn(u, w, T)
<1> DEFINE K == {k \in Nat : \E u \in T : IsSuffix(u, w) /\ k = Len(u)}
<1>1. \A u \in T : u \in Seq(Nat) /\ Len(u) \in Nat
  OBVIOUS
<1>2. \A u \in T : IsSuffix(u, w) => Len(u) <= Len(w)
  BY <1>1, SuffixBasics
<1>3. 0 \in K
  BY RootFacts
<1>4. \A k \in K : k <= Len(w)
  BY <1>2
<1>5. PICK x \in K : \A y \in K : y <= x
  <2>1. K \in SUBSET Nat /\ K # {} /\ Len(w) \in Nat
    BY <1>3
  <2> HIDE DEF K
  <2> QED BY <1>4, <2>1, GreatestNat
<1>6. PICK u \in T : IsSuffix(u, w) /\ x = Len(u)
  OBVIOUS
<1>7. \A v \in T : IsSuffix(v, w) => Len(v) \in K
  BY <1>1
<1>8. LongestIn(u, w, T)
  BY <1>5, <1>6, <1>7 DEF LongestIn
<1> QED BY <1>8

(* The longest suffix of a word that is a node. *)
LEMMA LongestFacts ==
  ASSUME TrieInv, NEW w \in Seq(Nat)
  PROVE  /\ LongestIn(Longest(w), w, nodes) /\ Longest(w) \in nodes
         /\ \A m : LongestIn(m, w, nodes) => Longest(w) = m
         /\ w \in nodes => Longest(w) = w
<1>1. nodes \in SUBSET Seq(Nat) /\ Root \in nodes
  BY NodeFacts
<1>2. \A f : LongestIn(f, w, nodes) <=> (f \in nodes /\ IsSuffix(f, w) /\ \A u \in nodes : IsSuffix(u, w) => Len(u) <= Len(f))
  BY DEF LongestIn
<1>3. \E f \in nodes : IsSuffix(f, w) /\ \A u \in nodes : IsSuffix(u, w) => Len(u) <= Len(f)
  BY <1>1, <1>2, LongestExists
<1>4. Longest(w) \in nodes /\ IsSuffix(Longest(w), w) /\ \A u \in nodes : IsSuffix(u, w) => Len(u) <= Len(Longest(w))
  BY <1>3, Zenon DEF Longest
<1>5. LongestIn(Longest(w), w, nodes)
  BY <1>2, <1>4
<1>6. \A m : LongestIn(m, w, nodes) => Longest(w) = m
  BY <1>1, <1>5, LongestUnique
<1>7. w \in nodes => Longest(w) = w
  BY <1>1, <1>5, LongestSelf
<1> QED BY <1>4, <1>5, <1>6, <1>7

(* One rune more. *)
LEMMA StepLongest ==
  ASSUME TrieInv, NEW w \in Seq(Nat), NEW ch \in Nat, NEW f, LongestIn(f, Longest(w), Down(ch))
  PROVE  Longest(Append(w, ch)) = IF Append(f, ch) \in nodes THEN Append(f, ch) ELSE Root
<1> DEFINE r == IF Append(f, ch) \in nodes THEN Append(f, ch) ELSE Root
           m == Longest(w)
<1>1. nodes \in SUBSET Seq(Nat) /\ Root \in nodes /\ \A g \in nodes : g # Root => Front(g) \in nodes
  BY NodeFacts
<1>2. LongestIn(m, w, nodes)
  BY LongestFacts
<1>3. f \in nodes /\ LongestIn(f, m, {u \in nodes : u = Root \/ Append(u, ch) \in nodes})
  BY DEF LongestIn, Down
<1>4. Append(w, ch) \in Seq(Nat)
  BY LastRune
<1> HIDE DEF m
<1>5. LongestIn(r, Append(w, ch), nodes)
  <2>1. \A u \in nodes : Append(u, ch) \in nodes => Append(u, ch) \in nodes
    OBVIOUS
  <2>2. \A g \in nodes : g # Root /\ Last(g) = ch => Front(g) \in nodes
    BY <1>1
  <2>3. nodes \in SUBSET nodes
    OBVIOUS
  <2> QED BY <1>1, <1>2, <1>3, <2>1, <2>2, <2>3, NextLongest
<1> HIDE DEF r
<1> QED BY <1>4, <1>5, LongestFacts DEF r

(* The automaton needs no more of the text than its state. *)
LEMMA StateIsEnough ==
  ASSUME TrieInv, NEW w \in Seq(Nat), NEW ch \in Nat
  PROVE  Longest(Append(w, ch)) = Longest(Append(Longest(w), ch))
<1>1. nodes \in SUBSET Seq(Nat) /\ Root \in nodes /\ Longest(w) \in nodes /\ Longest(w) \in Seq(Nat)
  BY NodeFacts, LongestFacts
<1>2. Longest(Longest(w)) = Longest(w)
  BY <1>1, LongestFacts
<1>3. Down(ch) \in SUBSET Seq(Nat) /\ Root \in Down(ch)
  BY <1>1 DEF Down
<1>4. PICK f : LongestIn(f, Longest(w), Down(ch))
  BY <1>1, <1>3, LongestExists
<1>5. Longest(Append(w, ch)) = IF Append(f, ch) \in nodes THEN Append(f, ch) ELSE Root
  BY <1>4, StepLongest
<1>6. Longest(Append(Longest(w), ch)) = IF Append(f, ch) \in nodes THEN Append(f, ch) ELSE Root
  BY <1>1, <1>2, <1>4, StepLongest
<1> QED BY <1>5, <1>6

(* A rune outside the alphabet leads to the root, and so does one that starts no
   keyword from the root. *)
LEMMA Outside ==
  ASSUME TrieInv, NEW w \in Seq(Nat), NEW ch \in Nat,
         ch \notin Runes \/ (Longest(w) = Root /\ Append(Root, ch) \notin nodes)
  PROVE  Longest(Append(w, ch)) = Root
<1>1. nodes \in SUBSET Seq(Nat) /\ Root \in nodes /\ Longest(w) \in nodes /\ Longest(w) \in Seq(Nat)
  BY NodeFacts, LongestFacts
<1>2. Down(ch) \in SUBSET Seq(Nat) /\ Root \in Down(ch)
  BY <1>1 DEF Down
<1>3. PICK f \in Down(ch) : LongestIn(f, Longest(w), Down(ch))
  BY <1>1, <1>2, LongestExists
<1>4. f \in nodes /\ f \in Seq(Nat)
  BY <1>1, <1>3 DEF Down
<1>5. Append(f, ch) \notin nodes
  <2>1. CASE ch \notin Runes
    <3>1. Append(f, ch) # Root /\ Last(Append(f, ch)) = ch
      BY <1>4, LastRune DEF Root
    <3> QED BY <2>1, <3>1, NodeFacts
  <2>2. CASE Longest(w) = Root /\ Append(Root, ch) \notin nodes
    <3>1. IsSuffix(f, Root)
      BY <1>3, <2>2 DEF LongestIn
    <3>2. Len(f) <= Len(Root)
      BY <1>4, <3>1, SuffixBasics, RootFacts
    <3>3. f = Root
      BY <1>4, <3>2, RootFacts
    <3> QED BY <2>2, <3>3
  <2> QED BY <2>1, <2>2
<1> QED BY <1>3, <1>5, StepLongest

(* The keywords that a word ends with are told apart by their length. *)
LEMMA EndingFacts ==
  ASSUME TrieInv, NEW w \in Seq(Nat)
  PROVE  /\ \A k \in Ending(w) : k \in dict /\ k \in Seq(Nat) /\ k # Root /\ IsSuffix(k, w) /\ Len(k) <= Len(w) /\ (k # w => Len(k) < Len(w))
         /\ IsFiniteSet(Ending(w)) /\ StrictOrder(Lengths, Ending(w))
         /\ todo = {} => Ending(Longest(w)) = Ending(w) /\ \A k \in Ending(w) : k \in nodes
<1>1. dict \in SUBSET Seq(Nat) /\ IsFiniteSet(dict)
  BY DictFacts
<1>2. \A k : k \in Ending(w) <=> k \in dict /\ k # Root /\ IsSuffix(k, w)
  BY DEF Ending, Root, Empty
<1>3. \A k \in Ending(w) : k \in dict /\ k \in Seq(Nat) /\ k # Root /\ IsSuffix(k, w) /\ Len(k) <= Len(w) /\ (k # w => Len(k) < Len(w))
  BY <1>1, <1>2, SuffixBasics
<1>4. IsFiniteSet(Ending(w))
  <2>1. Ending(w) \subseteq dict
    BY <1>3
  <2> QED BY <1>1, <2>1, FS_Subset
<1>5. \A k, l \in Ending(w) : <<k, l>> \in Lengths <=> Len(k) > Len(l)
  BY <1>3 DEF Lengths
<1>6. \A k \in Ending(w) : Len(k) \in Nat
  BY <1>3
<1>7. ASSUME NEW k \in Ending(w), NEW l \in Ending(w), Len(k) = Len(l) PROVE k = l
  <2>1. k \in Seq(Nat) /\ l \in Seq(Nat) /\ IsSuffix(k, w) /\ IsSuffix(l, w)
    BY <1>3
  <2>2. IsSuffix(k, l)
    BY <1>6, <1>7, <2>1, SuffixNested
  <2> QED BY <1>6, <1>7, <2>1, <2>2, SuffixBasics
<1>8. StrictOrder(Lengths, Ending(w))
  BY <1>5, <1>6, <1>7 DEF StrictOrder
<1>9. ASSUME todo = {} PROVE Ending(Longest(w)) = Ending(w) /\ \A k \in Ending(w) : k \in nodes
  <2> DEFINE m == Longest(w)
  <2>1. m \in nodes /\ m \in Seq(Nat) /\ IsSuffix(m, w) /\ \A u \in nodes : IsSuffix(u, w) => Len(u) <= Len(m)
    BY LongestFacts, NodeFacts DEF LongestIn
  <2> HIDE DEF m
  <2>2. \A k \in Ending(w) : k \in nodes
    BY <1>3, <1>9, NodeFacts
  <2>3. \A k : k \in Ending(m) <=> k \in dict /\ k # Root /\ IsSuffix(k, m)
    BY DEF Ending, Root, Empty
  <2>4. ASSUME NEW k \in Ending(w) PROVE k \in Ending(m)
    <3>1. k \in nodes /\ k \in Seq(Nat) /\ k \in dict /\ k # Root /\ IsSuffix(k, w)
      BY <1>3, <2>2
    <3>2. Len(k) <= Len(m)
      BY <2>1, <3>1
    <3>3. IsSuffix(k, m)
      BY <2>1, <3>1, <3>2, SuffixNested
    <3> QED BY <2>3, <3>1, <3>3
  <2>5. ASSUME NEW k \in Ending(m) PROVE k \in Ending(w)
    <3>1. k \in Seq(Nat) /\ k \in dict /\ k # Root /\ IsSuffix(k, m)
      BY <1>1, <2>3
    <3>2. IsSuffix(k, w)
      BY <2>1, <3>1, SuffixOfSuffix
    <3> QED BY <1>2, <3>1, <3>2
  <2> QED BY <2>2, <2>4, <2>5 DEF m
<1> QED BY <1>3, <1>4, <1>8, <1>9

(* What is left of a chain after its longest keyword. *)
LEMMA EndingTail ==
  ASSUME TrieInv, NEW w \in Seq(Nat), NEW m \in Seq(Nat), m # w, IsSuffix(m, w),
         \A k \in Ending(w) \ {w} : Len(k) <= Len(m)
  PROVE  Ending(m) = Ending(w) \ {w}
<1>1. \A k : k \in Ending(m) <=> k \in dict /\ k # Root /\ IsSuffix(k, m)
  BY DEF Ending, Root, Empty
<1>2. \A k : k \in Ending(w) <=> k \in dict /\ k # Root /\ IsSuffix(k, w)
  BY DEF Ending, Root, Empty
<1>3. Len(m) < Len(w) /\ Len(m) \in Nat /\ Len(w) \in Nat
  BY SuffixBasics
<1>4. \A k \in dict : k \in Seq(Nat)
  BY DictFacts
<1>5. ASSUME NEW k \in Ending(m) PROVE k \in Ending(w) /\ k # w
  <2>1. k \in dict /\ k # Root /\ k \in Seq(Nat) /\ IsSuffix(k, m)
    BY <1>1, <1>4
  <2>2. IsSuffix(k, w) /\ Len(k) <= Len(m)
    BY <2>1, SuffixOfSuffix, SuffixBasics
  <2> QED BY <1>2, <1>3, <2>1, <2>2
<1>6. ASSUME NEW k \in Ending(w) \ {w} PROVE k \in Ending(m)
  <2>1. k \in dict /\ k # Root /\ k \in Seq(Nat) /\ IsSuffix(k, w) /\ Len(k) <= Len(m)
    BY <1>2, <1>4
  <2>2. IsSuffix(k, m)
    BY <2>1, SuffixNested
  <2> QED BY <1>1, <2>1, <2>2
<1> QED BY <1>5, <1>6

-----------------------------------------------------------------------------
(* Output links. *)

\* o is the output link that a linked node should have.
OutRight(n, o) ==
    \/ Ending(n) \ {n} = {} /\ o = OutNone
    \/ \E kw \in Ending(n) \ {n} : o = StateOf(kw) /\ \A k \in Ending(n) \ {n} : Len(k) <= Len(kw)

(* The invariant of the output links, by node. *)
LEMMA OutMeaning ==
  ASSUME phase \notin {"insert", "place"}
  PROVE  OutInv <=> /\ DOMAIN own = {StateOf(n) : n \in nodes} /\ DOMAIN outLink = DOMAIN own
                    /\ \A n \in nodes : own[StateOf(n)] = Assigned(n)
                    /\ \A n \in nodes : IF Waits(n, NodeQueue) THEN outLink[StateOf(n)] = OutNone ELSE OutRight(n, outLink[StateOf(n)])
<1>1. ASSUME NEW n \in nodes
      PROVE  (LET shorter == Ending(n) \ {n}
              IN  IF Waits(n, NodeQueue) \/ shorter = {} THEN outLink[StateOf(n)] = OutNone
                  ELSE \E kw \in shorter : /\ outLink[StateOf(n)] = StateOf(kw)
                                           /\ \A k \in shorter : Len(k) <= Len(kw))
             <=> IF Waits(n, NodeQueue) THEN outLink[StateOf(n)] = OutNone ELSE OutRight(n, outLink[StateOf(n)])
  <2> DEFINE E == Ending(n) \ {n}
             o == outLink[StateOf(n)]
             R == \E kw \in E : o = StateOf(kw) /\ \A k \in E : Len(k) <= Len(kw)
  <2>1. OutRight(n, o) <=> (E = {} /\ o = OutNone) \/ R
    BY DEF OutRight
  <2>2. E = {} => ~R
    OBVIOUS
  <2> HIDE DEF R
  <2>3. (IF Waits(n, NodeQueue) \/ E = {} THEN o = OutNone ELSE R) <=> (IF Waits(n, NodeQueue) THEN o = OutNone ELSE OutRight(n, o))
    BY <2>1, <2>2
  <2> QED BY <2>3 DEF R
<1> QED BY <1>1, Zenon DEF OutInv

(* The longest proper suffix of a node that is a node keeps all its keywords but itself. *)
LEMMA EndingSuffix ==
  ASSUME TrieInv, todo = {}, NEW n \in nodes, n # Root
  PROVE  Ending(LongestSuffix(n)) = Ending(n) \ {n}
<1> DEFINE f == LongestSuffix(n)
<1>1. nodes \in SUBSET Seq(Nat)
  BY NodeFacts
<1>2. f \in nodes /\ f # n /\ LongestIn(f, n, nodes \ {n})
  BY LongestSuffixIs
<1> HIDE DEF f
<1>3. f \in Seq(Nat) /\ n \in Seq(Nat) /\ IsSuffix(f, n)
  BY <1>1, <1>2 DEF LongestIn
<1>4. \A k \in Ending(n) : k \in nodes /\ IsSuffix(k, n)
  BY <1>3, EndingFacts
<1>5. \A k \in Ending(n) \ {n} : Len(k) <= Len(f)
  BY <1>2, <1>4 DEF LongestIn
<1> QED BY <1>2, <1>3, <1>5, EndingTail DEF f

(* The output link of a node comes from its failure link. *)
LEMMA OutLinkRight ==
  ASSUME BuildInv, OutInv, phase \notin {"insert", "place"}, NEW n \in nodes, n # Root, ~Waits(LongestSuffix(n), NodeQueue)
  PROVE  OutRight(n, OutLinkOf(StateOf(LongestSuffix(n))))
<1> DEFINE f == LongestSuffix(n)
<1>1. TrieInv /\ SlotInv /\ todo = {}
  BY DEF BuildInv, TrieInv
<1>2. f \in nodes /\ f \in Seq(Nat)
  BY <1>1, LongestSuffixIs, NodeFacts
<1>3. Ending(f) = Ending(n) \ {n}
  BY <1>1, EndingSuffix
<1>4. own[StateOf(f)] = Assigned(f) /\ OutRight(f, outLink[StateOf(f)])
  BY <1>2, OutMeaning
<1> HIDE DEF f
<1>5. \A k : k \in Ending(f) <=> k \in dict /\ k # Root /\ IsSuffix(k, f)
  BY DEF Ending, Root, Empty
<1>6. CASE f \in dict /\ f # Root
  <2>1. own[StateOf(f)] # NoKeyword
    BY <1>4, <1>6 DEF Assigned, NoKeyword, Root
  <2>2. OutLinkOf(StateOf(f)) = StateOf(f)
    BY <2>1 DEF OutLinkOf
  <2>3. f \in Ending(f)
    BY <1>2, <1>5, <1>6, SuffixBasics
  <2>4. \A k \in Ending(f) : Len(k) <= Len(f)
    BY <1>1, <1>2, EndingFacts
  <2>5. OutRight(n, StateOf(f))
    BY <1>3, <2>3, <2>4 DEF OutRight
  <2> QED BY <2>2, <2>5 DEF f
<1>7. CASE ~(f \in dict /\ f # Root)
  <2>1. own[StateOf(f)] = NoKeyword
    BY <1>4, <1>7 DEF Assigned, NoKeyword, Root
  <2>2. OutLinkOf(StateOf(f)) = outLink[StateOf(f)]
    BY <2>1 DEF OutLinkOf
  <2>3. Ending(f) \ {f} = Ending(n) \ {n}
    BY <1>3, <1>5, <1>7
  <2>4. OutRight(n, outLink[StateOf(f)])
    BY <1>4, <2>3, Zenon DEF OutRight
  <2> QED BY <2>2, <2>4 DEF f
<1> QED BY <1>6, <1>7

(* The reference does not change while the trie does not. *)
LEMMA WordsKept ==
  ASSUME UNCHANGED <<dict, nodes, preset, datPos>>
  PROVE  /\ \A w : Ending(w)' = Ending(w) /\ Longest(w)' = Longest(w) /\ StateOf(w)' = StateOf(w)
<1>1. dict' = dict /\ nodes' = nodes /\ preset' = preset /\ datPos' = datPos
  OBVIOUS
<1>2. \A w : Ending(w)' = Ending(w) /\ Longest(w)' = Longest(w) /\ StateOf(w)' = StateOf(w)
  BY <1>1 DEF Ending, Longest, StateOf
<1> QED BY <1>2

(* What a step has to set so that the output links are right. *)
LEMMA OutMade ==
  ASSUME phase' \notin {"insert", "place"}, UNCHANGED <<dict, nodes, preset, datPos>>,
         DOMAIN own' = {StateOf(n) : n \in nodes}, DOMAIN outLink' = DOMAIN own',
         \A n \in nodes : own'[StateOf(n)] = Assigned(n),
         \A n \in nodes : IF Waits(n, NodeQueue') THEN outLink'[StateOf(n)] = OutNone ELSE OutRight(n, outLink'[StateOf(n)])
  PROVE  OutInv'
<1>1. /\ \A n : StateOf(n)' = StateOf(n) /\ Ending(n)' = Ending(n) /\ Assigned(n)' = Assigned(n) /\ nodes' = nodes
      /\ \A n : Waits(n, NodeQueue)' <=> Waits(n, NodeQueue')
  BY WordsKept, TrieKept DEF Waits
<1>2. ASSUME NEW CONSTANT n, n \in nodes
      PROVE  (LET shorter == Ending(n) \ {n}
              IN  IF Waits(n, NodeQueue) \/ shorter = {} THEN outLink[StateOf(n)] = OutNone
                  ELSE \E kw \in shorter : /\ outLink[StateOf(n)] = StateOf(kw)
                                           /\ \A k \in shorter : Len(k) <= Len(kw))'
  <2> DEFINE E == Ending(n) \ {n}
             o == outLink'[StateOf(n)]
             R == \E kw \in E : o = StateOf(kw) /\ \A k \in E : Len(k) <= Len(kw)
  <2>1. IF Waits(n, NodeQueue') THEN o = OutNone ELSE OutRight(n, o)
    BY <1>2
  <2>2. OutRight(n, o) <=> (E = {} /\ o = OutNone) \/ R
    BY DEF OutRight
  <2>3. E = {} => ~R
    OBVIOUS
  <2> HIDE DEF R
  <2>4. IF Waits(n, NodeQueue') \/ E = {} THEN o = OutNone ELSE R
    BY <2>1, <2>2, <2>3
  <2>5. IF Waits(n, NodeQueue') \/ E = {} THEN o = OutNone ELSE \E kw \in E : o = StateOf(kw) /\ \A k \in E : Len(k) <= Len(kw)
    BY <2>4 DEF R
  <2> QED BY <1>1, <2>5
<1>3. DOMAIN own' = {StateOf(n)' : n \in nodes'}
  BY <1>1
<1>4. \A n \in nodes' : own'[StateOf(n)'] = Assigned(n)'
  BY <1>1
<1> QED BY <1>1, <1>2, <1>3, <1>4, Zenon DEF OutInv

(* A node is linked: its children get their output links. *)
LEMMA LinkOut ==
  ASSUME BuildInv, OutInv, phase = "link", phase' = "link", UNCHANGED <<trieVars, datVars, own>>, NEW s, NEW ord, Moved(s, ord)
  PROVE  OutInv'
<1> DEFINE Q == NodeQueue
           Q2 == NodeQueue'
<1>1. TrieInv /\ QueueInv /\ SlotInv /\ LinkInv
  BY DEF BuildInv
<1>2. Apart(Q) /\ Layered(Q)
  BY <1>1 DEF QueueInv
<1>3. preset' = preset /\ dict' = dict /\ nodes' = nodes /\ datPos' = datPos /\ own' = own
  BY DEF trieVars, datVars
<1>4. /\ s = Q[1] /\ ListsChildren(ord, s) /\ Q2 \in Seq(nodes) /\ Shifted(Q, ord, Q2)
      /\ DOMAIN outLink' = DOMAIN fail
      /\ \A n \in nodes :
           outLink'[StateOf(n)] = IF n \in ChildNodes(s) THEN OutLinkOf(StateOf(LongestSuffix(n))) ELSE outLink[StateOf(n)]
  BY DEF Moved
<1> HIDE DEF Q, Q2
<1>5. /\ s \in nodes
      /\ \A n \in nodes : Waits(n, Q2) <=> Waits(n, Q) /\ n \notin ChildNodes(s)
      /\ \A n \in nodes : Len(n) <= Len(s) => ~Waits(n, Q)
  BY <1>1, <1>2, <1>4, QueueStepped
<1>6. ASSUME NEW n \in ChildNodes(s) PROVE n \in nodes /\ OutRight(n, OutLinkOf(StateOf(LongestSuffix(n))))
  <2>1. n \in nodes /\ n # Root /\ Len(n) = Len(s) + 1
    BY <1>1, <1>5, ChildFacts
  <2>2. LongestSuffix(n) \in nodes /\ Len(LongestSuffix(n)) < Len(n)
    BY <1>1, <2>1, LongestSuffixIs
  <2>3. Len(LongestSuffix(n)) \in Nat /\ Len(s) \in Nat
    BY <1>1, <1>5, <2>2, NodeFacts
  <2>4. ~Waits(LongestSuffix(n), NodeQueue)
    BY <1>5, <2>1, <2>2, <2>3 DEF Q
  <2> QED BY <2>1, <2>4, OutLinkRight
<1>7. /\ DOMAIN own = {StateOf(n) : n \in nodes} /\ \A n \in nodes : own[StateOf(n)] = Assigned(n)
      /\ \A n \in nodes : IF Waits(n, Q) THEN outLink[StateOf(n)] = OutNone ELSE OutRight(n, outLink[StateOf(n)])
  BY OutMeaning DEF Q
<1>8. DOMAIN fail = {StateOf(n) : n \in nodes}
  BY <1>1 DEF LinkInv
<1>9. \A n \in nodes : IF Waits(n, Q2) THEN outLink'[StateOf(n)] = OutNone ELSE OutRight(n, outLink'[StateOf(n)])
  BY <1>4, <1>5, <1>6, <1>7
<1> QED BY <1>3, <1>4, <1>7, <1>8, <1>9, OutMade DEF Q2

(* Linking starts: a root's child ends with no keyword but itself. *)
LEMMA FirstOut ==
  ASSUME TrieInv, todo = {}, phase' = "link", UNCHANGED <<dict, nodes, preset, datPos>>, ListsChildren(NodeQueue', Root),
         DOMAIN own' = {StateOf(n) : n \in nodes}, DOMAIN outLink' = DOMAIN own',
         \A n \in nodes : own'[StateOf(n)] = Assigned(n),
         \A n \in nodes : outLink'[StateOf(n)] = OutNone
  PROVE  OutInv'
<1> DEFINE Q2 == NodeQueue'
<1>1. nodes \in SUBSET Seq(Nat) /\ Root \in nodes
  BY NodeFacts
<1>2. Ending(Root) = {}
  <2>1. ASSUME NEW k \in Ending(Root) PROVE FALSE
    <3>1. k \in Seq(Nat) /\ k # Root /\ Len(k) <= Len(Root)
      BY <1>1, <2>1, EndingFacts
    <3> QED BY <3>1, RootFacts
  <2> QED BY <2>1
<1>3. ListsChildren(Q2, Root)
  OBVIOUS
<1> HIDE DEF Q2
<1>4. /\ \A n \in nodes : Waits(n, Q2) <=> n # Root /\ n \notin ChildNodes(Root)
      /\ \A n \in ChildNodes(Root) : n \in nodes /\ n # Root /\ LongestSuffix(n) = Root
  BY <1>3, RootChildren
<1>5. \A n \in ChildNodes(Root) : Ending(n) \ {n} = {}
  BY <1>2, <1>4, EndingSuffix
<1>6. \A n \in nodes : ~Waits(n, Q2) => OutRight(n, outLink'[StateOf(n)])
  BY <1>2, <1>4, <1>5 DEF OutRight
<1> QED BY <1>6, OutMade DEF Q2

(* The output links of every step that sets them. *)
LEMMA OutSteps ==
  ASSUME BuildInv, OutInv, StartLinks \/ DatRootLinks \/ MapLink \/ SpeedLink \/ DatLink
  PROVE  OutInv'
<1>1. TrieInv /\ QueueInv /\ SlotInv /\ LinkInv /\ Root \in nodes
  BY NodeFacts DEF BuildInv
<1>2. CASE StartLinks
  <2>1. /\ phase' = "link" /\ todo = {} /\ preset # "balanced" /\ UNCHANGED <<trieVars, datVars>>
        /\ own' = [n \in nodes |-> Assigned(n)] /\ outLink' = [n \in nodes |-> OutNone]
    BY <1>2 DEF StartLinks
  <2>2. UNCHANGED <<dict, nodes, preset, datPos>> /\ \A n : StateOf(n) = n
    BY <2>1 DEF trieVars, datVars, StateOf
  <2>3. ListsChildren(NodeQueue', Root)
    BY <1>2, StartLinksStep
  <2>4. DOMAIN own' = {StateOf(n) : n \in nodes} /\ DOMAIN outLink' = DOMAIN own'
    BY <2>1, <2>2
  <2>5. \A n \in nodes : own'[StateOf(n)] = Assigned(n) /\ outLink'[StateOf(n)] = OutNone
    BY <2>1, <2>2
  <2> QED BY <1>1, <2>1, <2>2, <2>3, <2>4, <2>5, FirstOut
<1>3. CASE DatRootLinks
  <2>1. /\ phase = "place" /\ phase' = "link" /\ todo = {} /\ preset = "balanced" /\ UNCHANGED <<trieVars, datVars>> /\ queue = Empty
        /\ own' = own /\ outLink' = [p \in DOMAIN own |-> OutNone]
    BY <1>1, <1>3 DEF DatRootLinks, TrieInv
  <2>2. UNCHANGED <<dict, nodes, preset, datPos>> /\ \A n : StateOf(n) = datPos[n]
    BY <2>1 DEF trieVars, datVars, StateOf
  <2>3. ListsChildren(NodeQueue', Root)
    BY <1>3, DatRootLinksStep
  <2>4. Placed = nodes
    <3>1. DOMAIN Empty = {}
      BY DEF Empty
    <3> QED BY <2>1, <3>1 DEF Placed, Waits
  <2>5. DOMAIN datPos = nodes /\ DOMAIN own = Range(datPos) /\ \A n \in nodes : own[datPos[n]] = Assigned(n)
    BY <1>1, <2>1, <2>4 DEF SlotInv
  <2>6. DOMAIN own' = {StateOf(n) : n \in nodes}
    BY <2>1, <2>2, <2>5 DEF Range
  <2>7. DOMAIN outLink' = DOMAIN own'
    BY <2>1
  <2>8. \A n \in nodes : own'[StateOf(n)] = Assigned(n) /\ outLink'[StateOf(n)] = OutNone
    BY <2>1, <2>2, <2>5, <2>6
  <2> QED BY <1>1, <2>1, <2>2, <2>3, <2>6, <2>7, <2>8, FirstOut
<1>4. CASE MapLink
  <2>1. phase = "link" /\ phase' = "link" /\ UNCHANGED <<trieVars, datVars, own>>
    BY <1>4 DEF MapLink, LinkChildren
  <2> QED BY <1>4, <2>1, MapLinkStep, LinkOut
<1>5. CASE SpeedLink
  <2>1. phase = "link" /\ phase' = "link" /\ UNCHANGED <<trieVars, datVars, own>>
    BY <1>5 DEF SpeedLink, LinkChildren
  <2> QED BY <1>5, <2>1, SpeedLinkStep, LinkOut
<1>6. CASE DatLink
  <2>1. phase = "link" /\ phase' = "link" /\ UNCHANGED <<trieVars, datVars, own>>
    BY <1>6 DEF DatLink
  <2> QED BY <1>6, <2>1, DatLinkStep, LinkOut
<1> QED BY <1>2, <1>3, <1>4, <1>5, <1>6

(* Once every link is set, the output links stay as they are. *)
LEMMA OutKept ==
  ASSUME BuildInv, OutInv, phase \notin {"insert", "place"}, phase' \notin {"insert", "place"},
         UNCHANGED <<trieVars, datVars, own, outLink>>, NodeQueue' = NodeQueue
  PROVE  OutInv'
<1>1. UNCHANGED <<dict, nodes, preset, datPos>> /\ own' = own /\ outLink' = outLink
  BY DEF trieVars, datVars
<1>2. /\ DOMAIN own = {StateOf(n) : n \in nodes} /\ DOMAIN outLink = DOMAIN own
      /\ \A n \in nodes : own[StateOf(n)] = Assigned(n)
      /\ \A n \in nodes : IF Waits(n, NodeQueue) THEN outLink[StateOf(n)] = OutNone ELSE OutRight(n, outLink[StateOf(n)])
  BY OutMeaning
<1> QED BY <1>1, <1>2, OutMade

-----------------------------------------------------------------------------
(* Output chains. *)

\* The outputs, once every node is linked.
OutDone ==
    /\ DOMAIN own = {StateOf(n) : n \in nodes} /\ DOMAIN outLink = DOMAIN own
    /\ \A n \in nodes : own[StateOf(n)] = Assigned(n)
    /\ \A n \in nodes : OutRight(n, outLink[StateOf(n)])
\* The keyword of a state alone, and the chains that output links make.
OwnPart(o) == IF o = NoKeyword THEN Empty ELSE <<o>>
ChainOver(D, o, l) == CHOOSE f : f = [r \in D |-> OwnPart(o[r]) \o (IF l[r] = OutNone THEN Empty ELSE f[l[r]])]

(* Every node is linked when none waits. *)
LEMMA OutIsDone ==
  ASSUME OutInv, phase \notin {"insert", "place"}, Settled = nodes
  PROVE  OutDone
<1>1. \A n \in nodes : ~Waits(n, NodeQueue)
  BY DEF Settled
<1> QED BY <1>1, OutMeaning DEF OutDone

(* The keyword and the output link of a state, by the keywords its node ends with. *)
LEMMA OutFacts ==
  ASSUME BuildInv, phase \notin {"insert", "place"}, OutDone, NEW n \in nodes
  PROVE  /\ IF n \in Ending(n) THEN own[StateOf(n)] = n /\ own[StateOf(n)] # NoKeyword ELSE own[StateOf(n)] = NoKeyword
         /\ IF Ending(n) \ {n} = {} THEN outLink[StateOf(n)] = OutNone
            ELSE /\ outLink[StateOf(n)] # OutNone
                 /\ \E m \in nodes : outLink[StateOf(n)] = StateOf(m) /\ Len(m) < Len(n) /\ Ending(m) = Ending(n) \ {n}
         /\ HasOutput(StateOf(n)) <=> Ending(n) # {}
<1>1. TrieInv /\ SlotInv /\ todo = {}
  BY DEF BuildInv, TrieInv
<1>2. nodes \in SUBSET Seq(Nat) /\ n \in Seq(Nat)
  BY <1>1, NodeFacts
<1>3. \A k : k \in Ending(n) <=> k \in dict /\ k # Root /\ IsSuffix(k, n)
  BY DEF Ending, Root, Empty
<1>4. n \in Ending(n) <=> n \in dict /\ n # Root
  BY <1>2, <1>3, SuffixBasics
<1>5. own[StateOf(n)] = Assigned(n)
  BY DEF OutDone
<1>6. IF n \in Ending(n) THEN own[StateOf(n)] = n /\ own[StateOf(n)] # NoKeyword ELSE own[StateOf(n)] = NoKeyword
  BY <1>4, <1>5 DEF Assigned, NoKeyword, Root
<1>7. \A k \in Ending(n) : k \in nodes /\ k \in Seq(Nat) /\ IsSuffix(k, n) /\ (k # n => Len(k) < Len(n))
  BY <1>1, <1>2, EndingFacts
<1>8. \A m \in nodes : StateOf(m) # OutNone
  <2>1. CASE preset = "balanced"
    BY <1>1, <2>1, StateFacts, EngineConstants
  <2>2. CASE preset # "balanced"
    BY <1>1, <1>2, <2>2, StateFacts, EngineConstants
  <2> QED BY <2>1, <2>2
<1>9. OutRight(n, outLink[StateOf(n)])
  BY DEF OutDone
<1>10. CASE Ending(n) \ {n} = {}
  <2>1. outLink[StateOf(n)] = OutNone
    BY <1>9, <1>10 DEF OutRight
  <2> QED BY <1>6, <1>10, <2>1 DEF HasOutput
<1>11. CASE Ending(n) \ {n} # {}
  <2>1. PICK m \in Ending(n) \ {n} : outLink[StateOf(n)] = StateOf(m) /\ \A k \in Ending(n) \ {n} : Len(k) <= Len(m)
    BY <1>9, <1>11 DEF OutRight
  <2>2. m \in nodes /\ m \in Seq(Nat) /\ IsSuffix(m, n) /\ Len(m) < Len(n) /\ m # n
    BY <1>7, <2>1
  <2>3. Ending(m) = Ending(n) \ {n}
    BY <1>1, <1>2, <2>1, <2>2, EndingTail
  <2>4. outLink[StateOf(n)] # OutNone
    BY <1>8, <2>1, <2>2
  <2> QED BY <1>6, <1>11, <2>1, <2>2, <2>3, <2>4 DEF HasOutput
<1> QED BY <1>10, <1>11

(* The keyword of a node, and then the keywords of its output link. *)
LEMMA ChainPart ==
  ASSUME BuildInv, phase \notin {"insert", "place"}, OutDone, NEW n \in nodes, NEW t, Lists(t, Ending(n) \ {n}, Lengths)
  PROVE  Lists(OwnPart(own[StateOf(n)]) \o t, Ending(n), Lengths)
<1> DEFINE p == OwnPart(own[StateOf(n)])
           E == Ending(n) \cap {n}
           T == Ending(n) \ {n}
<1>1. TrieInv
  BY DEF BuildInv
<1>2. n \in Seq(Nat)
  BY <1>1, NodeFacts
<1>3. Lists(p, E, Lengths)
  <2>1. CASE n \in Ending(n)
    <3>1. p = <<n>> /\ E = {n}
      BY <2>1, OutFacts DEF OwnPart
    <3>2. Lists(<<n>>, {n}, Lengths)
      BY ListsSmall
    <3> HIDE DEF p, E
    <3> QED BY <3>1, <3>2, Zenon
  <2>2. CASE n \notin Ending(n)
    <3>1. p = Empty /\ E = {}
      BY <2>2, OutFacts DEF OwnPart
    <3>2. Lists(Empty, {}, Lengths)
      BY ListsSmall DEF Empty
    <3> HIDE DEF p, E
    <3> QED BY <3>1, <3>2, Zenon
  <2> QED BY <2>1, <2>2
<1>4. ASSUME NEW s \in E, NEW k \in T PROVE <<s, k>> \in Lengths
  <2>1. s = n /\ k \in Seq(Nat) /\ Len(k) < Len(n)
    BY <1>1, <1>2, <1>4, EndingFacts
  <2> QED BY <1>2, <2>1 DEF Lengths
<1>5. Ending(n) = E \cup T
  OBVIOUS
<1>6. Lists(t, T, Lengths)
  OBVIOUS
<1> HIDE DEF p, E, T
<1>7. Lists(p \o t, E \cup T, Lengths)
  BY <1>3, <1>4, <1>6, ListsJoin
<1> QED BY <1>5, <1>7 DEF p

(* The chain of a state lists the keywords its node ends with, longest first. *)
LEMMA ChainListed ==
  ASSUME BuildInv, phase \notin {"insert", "place"}, OutDone, NEW n0 \in nodes
  PROVE  Lists(Chain(StateOf(n0)), Ending(n0), Lengths)
<1> DEFINE D == DOMAIN own
           name(r) == CHOOSE n \in nodes : StateOf(n) = r
           list(r) == ByRank(Ending(name(r)), Lengths)
           g == [r \in D |-> list(r)]
           w == ChainOver(D, own, outLink)
           rest(f, r) == IF outLink[r] = OutNone THEN Empty ELSE f[outLink[r]]
<1>1. TrieInv /\ SlotInv
  BY DEF BuildInv
<1>2. nodes \in SUBSET Seq(Nat) /\ \A n \in nodes : n \in Seq(Nat) /\ Len(n) \in Nat
  BY <1>1, NodeFacts
<1>3. D = {StateOf(n) : n \in nodes}
  BY DEF OutDone
<1>4. \A n \in nodes : StateOf(n) \in D /\ name(StateOf(n)) = n
  BY <1>1, <1>3, StateFacts
<1>5. \A r \in D : \E n \in nodes : r = StateOf(n)
  BY <1>3
<1>6. \A n \in nodes : Lists(ByRank(Ending(n), Lengths), Ending(n), Lengths) /\ StrictOrder(Lengths, Ending(n))
  BY <1>1, <1>2, EndingFacts, RanksList
<1> HIDE DEF D, name
<1>7. \A n \in nodes : g[StateOf(n)] = ByRank(Ending(n), Lengths)
  BY <1>4
<1>8. ASSUME NEW f, NEW n \in nodes,
             \A m \in nodes : Len(m) < Len(n) => Lists(f[StateOf(m)], Ending(m), Lengths)
      PROVE  Lists(OwnPart(own[StateOf(n)]) \o rest(f, StateOf(n)), Ending(n), Lengths)
  <2> DEFINE t == rest(f, StateOf(n))
  <2>1. Lists(t, Ending(n) \ {n}, Lengths)
    <3>1. CASE Ending(n) \ {n} = {}
      <4>1. t = Empty
        BY <3>1, OutFacts
      <4>2. Lists(Empty, {}, Lengths)
        BY ListsSmall DEF Empty
      <4> HIDE DEF t
      <4> QED BY <3>1, <4>1, <4>2, Zenon
    <3>2. CASE Ending(n) \ {n} # {}
      <4>1. PICK m \in nodes : outLink[StateOf(n)] = StateOf(m) /\ Len(m) < Len(n) /\ Ending(m) = Ending(n) \ {n}
        BY <3>2, OutFacts
      <4>2. outLink[StateOf(n)] # OutNone
        BY <3>2, OutFacts
      <4>3. t = f[StateOf(m)]
        BY <4>1, <4>2
      <4>4. Lists(f[StateOf(m)], Ending(m), Lengths)
        BY <1>8, <4>1
      <4> HIDE DEF t
      <4> QED BY <4>1, <4>3, <4>4
    <3> QED BY <3>1, <3>2
  <2> HIDE DEF t
  <2>2. Lists(OwnPart(own[StateOf(n)]) \o t, Ending(n), Lengths)
    BY <2>1, ChainPart
  <2> QED BY <2>2 DEF t
<1>9. g = [r \in D |-> OwnPart(own[r]) \o rest(g, r)]
  <2>1. ASSUME NEW r \in D PROVE g[r] = OwnPart(own[r]) \o rest(g, r)
    <3>1. PICK n \in nodes : r = StateOf(n)
      BY <1>5
    <3>2. \A m \in nodes : Lists(g[StateOf(m)], Ending(m), Lengths)
      BY <1>6, <1>7
    <3> HIDE DEF g
    <3>3. Lists(OwnPart(own[StateOf(n)]) \o rest(g, StateOf(n)), Ending(n), Lengths)
      <4> HIDE DEF rest
      <4> QED BY <1>8, <3>2
    <3>4. g[StateOf(n)] = OwnPart(own[StateOf(n)]) \o rest(g, StateOf(n))
      <4> HIDE DEF rest
      <4> QED BY <1>6, <3>2, <3>3, ListsUnique
    <3> QED BY <3>1, <3>4
  <2>2. DOMAIN g = D /\ g = [r \in D |-> g[r]]
    <3> HIDE DEF list
    <3> QED OBVIOUS
  <2> HIDE DEF g, rest
  <2> QED BY <2>1, <2>2
<1>10. w = [r \in D |-> OwnPart(own[r]) \o rest(w, r)]
  <2> HIDE DEF g
  <2>1. \E f : f = [r \in D |-> OwnPart(own[r]) \o (IF outLink[r] = OutNone THEN Empty ELSE f[outLink[r]])]
    BY <1>9
  <2> QED BY <2>1, Zenon DEF ChainOver
<1>11. Chain(StateOf(n0)) = w[StateOf(n0)]
  BY Zenon DEF Chain, ChainOver, OwnPart, D
<1> HIDE DEF w, g
<1>12. \A n \in nodes : w[StateOf(n)] = OwnPart(own[StateOf(n)]) \o rest(w, StateOf(n))
  BY <1>4, <1>10
<1> HIDE DEF rest
<1> DEFINE Good(n) == Lists(w[StateOf(n)], Ending(n), Lengths)
           S == {k \in Nat : \A n \in nodes : Len(n) < k => Good(n)}
<1>13. 0 \in S
  <2>1. \A n \in nodes : ~(Len(n) < 0)
    BY <1>2
  <2> QED BY <2>1
<1>14. ASSUME NEW k \in Nat, k \in S PROVE k + 1 \in S
  <2>1. ASSUME NEW n \in nodes, Len(n) < k + 1 PROVE Good(n)
    <3>1. \A m \in nodes : Len(m) < Len(n) => Good(m)
      BY <1>2, <1>14, <2>1
    <3>2. Lists(OwnPart(own[StateOf(n)]) \o rest(w, StateOf(n)), Ending(n), Lengths)
      BY <1>8, <3>1
    <3> QED BY <1>12, <3>2
  <2> HIDE DEF Good
  <2> QED BY <2>1
<1> HIDE DEF Good
<1>15. Nat \subseteq S
  <2> HIDE DEF S
  <2> QED BY <1>13, <1>14, SetInduction
<1>16. Good(n0)
  <2>1. Len(n0) + 1 \in S /\ Len(n0) < Len(n0) + 1
    BY <1>2, <1>15
  <2> QED BY <2>1
<1> QED BY <1>11, <1>16 DEF Good

-----------------------------------------------------------------------------
(* The rows of the DFA. *)

(* A state without a child for a rune goes where its failure link goes. *)
LEMMA StepByLink ==
  ASSUME TrieInv, NEW s \in nodes, s # Root, NEW ch \in Nat, Append(s, ch) \notin nodes
  PROVE  Longest(Append(s, ch)) = Longest(Append(LongestSuffix(s), ch))
<1> DEFINE f == LongestSuffix(s)
<1>1. nodes \in SUBSET Seq(Nat) /\ Root \in nodes /\ s \in Seq(Nat)
  BY NodeFacts
<1>2. f \in nodes /\ f \in Seq(Nat) /\ LongestIn(f, s, nodes \ {s})
  BY <1>1, LongestSuffixIs
<1>3. Longest(f) = f /\ Longest(s) = s
  BY <1>1, <1>2, LongestFacts
<1>4. Down(ch) \in SUBSET nodes /\ Down(ch) \in SUBSET Seq(Nat) /\ Root \in Down(ch) /\ s \notin Down(ch)
  BY <1>1 DEF Down
<1> HIDE DEF f
<1>5. PICK g \in Down(ch) : LongestIn(g, f, Down(ch))
  BY <1>2, <1>4, LongestExists
<1>6. LongestIn(g, s, Down(ch))
  BY <1>1, <1>2, <1>4, <1>5, LongestOfLongest
<1>7. Longest(Append(f, ch)) = IF Append(g, ch) \in nodes THEN Append(g, ch) ELSE Root
  BY <1>2, <1>3, <1>5, StepLongest
<1>8. Longest(Append(s, ch)) = IF Append(g, ch) \in nodes THEN Append(g, ch) ELSE Root
  BY <1>1, <1>3, <1>6, StepLongest
<1> QED BY <1>7, <1>8 DEF f

\* The row of a node, when it is right.
RowRight(n, row) ==
    /\ DOMAIN row = DOMAIN Alphabet
    /\ \A i \in DOMAIN Alphabet : row[i] = Packed(StateOf(Longest(Append(n, Alphabet[i]))))

(* What a step has to set so that the rows are right. *)
LEMMA RowsMade ==
  ASSUME UNCHANGED <<trieVars, datVars, linkVars>>, StateOf(Root) \in DOMAIN dfa',
         \A n \in nodes : StateOf(n) \in DOMAIN dfa' => RowRight(n, dfa'[StateOf(n)])
  PROVE  RowInv'
<1>1. UNCHANGED <<dict, nodes, preset, datPos, own, outLink>> /\ nodes' = nodes
  BY DEF trieVars, datVars, linkVars
<1>2. \A w : Longest(w)' = Longest(w) /\ StateOf(w)' = StateOf(w)
  BY <1>1, WordsKept
<1>3. Alphabet' = Alphabet
  BY <1>1, TrieKept
<1>4. \A s : Packed(s)' = Packed(s)
  BY <1>1 DEF Packed, HasOutput
<1>5. ASSUME NEW n \in nodes, StateOf(n) \in DOMAIN dfa'
      PROVE  /\ DOMAIN dfa'[StateOf(n)] = DOMAIN Alphabet
             /\ \A i \in DOMAIN Alphabet : dfa'[StateOf(n)][i] = Packed(StateOf(Longest(Append(n, Alphabet[i]))))
  BY <1>5 DEF RowRight
<1>6. ASSUME NEW CONSTANT n, n \in nodes, StateOf(n) \in DOMAIN dfa', NEW CONSTANT i, i \in DOMAIN Alphabet
      PROVE  dfa'[StateOf(n)] [i] = Packed(StateOf(Longest(Append(n, Alphabet[i]))))'
  <2>1. PICK c : c = Alphabet[i]
    OBVIOUS
  <2>2. PICK l : l = Longest(Append(n, c))
    OBVIOUS
  <2>3. PICK t : t = StateOf(l)
    OBVIOUS
  <2>4. dfa'[StateOf(n)][i] = Packed(t)
    BY <1>5, <1>6, <2>1, <2>2, <2>3
  <2>5. Alphabet'[i] = c /\ Longest(Append(n, c))' = l /\ StateOf(l)' = t /\ Packed(t)' = Packed(t)
    BY <1>2, <1>3, <1>4, <2>1, <2>2, <2>3
  <2>6. Longest(Append(n, Alphabet[i]))' = l
    BY <2>5
  <2>7. StateOf(Longest(Append(n, Alphabet[i])))' = t
    BY <2>5, <2>6
  <2>8. Packed(StateOf(Longest(Append(n, Alphabet[i]))))' = Packed(t)
    BY <2>5, <2>7
  <2> QED BY <2>4, <2>8
<1> QED BY <1>1, <1>2, <1>3, <1>5, <1>6 DEF RowInv

(* A query leaves the rows alone. *)
LEMMA RowsKept ==
  ASSUME RowInv, preset # "memory", phase \in {"rows", "ready", "scan", "done"},
         UNCHANGED <<trieVars, datVars, linkVars, dfa>>
  PROVE  RowInv'
<1>1. /\ StateOf(Root) \in DOMAIN dfa
      /\ \A n \in nodes : StateOf(n) \in DOMAIN dfa => RowRight(n, dfa[StateOf(n)])
  BY DEF RowInv, RowRight
<1> QED BY <1>1, RowsMade

(* The root's row. *)
LEMMA RootRow ==
  ASSUME BuildInv, SpeedRootRow
  PROVE  RowInv'
<1>1. TrieInv /\ preset # "balanced"
  BY DEF BuildInv, SpeedRootRow
<1>2. /\ UNCHANGED <<trieVars, datVars, linkVars>>
      /\ dfa' = [n \in {Root} |-> [i \in DOMAIN Alphabet |-> Packed(IF <<Alphabet[i]>> \in nodes THEN <<Alphabet[i]>> ELSE Root)]]
  BY DEF SpeedRootRow
<1>3. \A n : StateOf(n) = n
  BY <1>1 DEF StateOf
<1>4. nodes \in SUBSET Seq(Nat) /\ Root \in nodes /\ Root \in Seq(Nat) /\ Runes \in SUBSET Nat
  BY <1>1, NodeFacts, DictFacts
<1>5. ASSUME NEW i \in DOMAIN Alphabet
      PROVE  Longest(Append(Root, Alphabet[i])) = IF <<Alphabet[i]>> \in nodes THEN <<Alphabet[i]>> ELSE Root
  <2>1. Alphabet[i] \in Nat
    BY <1>1, <1>4, AlphabetFacts
  <2>2. <<Alphabet[i]>> = Append(Root, Alphabet[i])
    BY DEF Root
  <2>3. Longest(Root) = Root
    BY <1>1, <1>4, LongestFacts
  <2>4. CASE Append(Root, Alphabet[i]) \in nodes
    <3>1. Append(Root, Alphabet[i]) \in Seq(Nat)
      BY <1>4, <2>4
    <3> QED BY <1>1, <2>2, <2>4, <3>1, LongestFacts
  <2>5. CASE Append(Root, Alphabet[i]) \notin nodes
    BY <1>1, <1>4, <2>1, <2>2, <2>3, <2>5, Outside
  <2> QED BY <2>4, <2>5
<1>6. DOMAIN dfa' = {Root} /\ dfa'[Root] = [i \in DOMAIN Alphabet |-> Packed(IF <<Alphabet[i]>> \in nodes THEN <<Alphabet[i]>> ELSE Root)]
  BY <1>2
<1>7. RowRight(Root, dfa'[Root])
  BY <1>3, <1>5, <1>6 DEF RowRight
<1> QED BY <1>2, <1>3, <1>6, <1>7, RowsMade

(* A row of the flat trie: the row of the failure link is there before it. *)
LEMMA NextRow ==
  ASSUME BuildInv, OrderInv, RowInv, SpeedRow
  PROVE  RowInv'
<1> DEFINE s == Head(order)
           f == LongestSuffix(s)
           entry(i) == IF Append(s, Alphabet[i]) \in nodes THEN Packed(Append(s, Alphabet[i])) ELSE RowEntry(fail[s], i)
<1>1. TrieInv /\ QueueInv /\ SlotInv /\ LinkInv
  BY DEF BuildInv
<1>2. /\ UNCHANGED <<trieVars, datVars, linkVars>> /\ preset = "speed" /\ phase = "rows" /\ order # <<>>
      /\ dfa' = [n \in DOMAIN dfa \cup {s} |-> IF n = s THEN [i \in DOMAIN Alphabet |-> entry(i)] ELSE dfa[n]]
  BY DEF SpeedRow, Empty
<1>3. \A n : StateOf(n) = n
  BY <1>2 DEF StateOf
<1>4. /\ order \in Seq(nodes \ {Root}) /\ \A i, j \in DOMAIN order : i < j => Len(order[i]) <= Len(order[j])
      /\ nodes = DOMAIN dfa \cup Range(order)
  BY <1>2 DEF OrderInv
<1>5. s \in nodes /\ s # Root /\ s = order[1] /\ DOMAIN order = 1 .. Len(order) /\ Len(order) \in Nat /\ 1 \in DOMAIN order
  <2>1. order \in Seq(nodes \ {Root}) /\ order # <<>>
    BY <1>2, <1>4
  <2>2. DOMAIN order = 1 .. Len(order) /\ Len(order) \in Nat
    BY <2>1
  <2>3. Head(order) = order[1] /\ Len(order) # 0
    BY ONLY <2>1
  <2>4. 1 \in DOMAIN order
    BY <2>2, <2>3
  <2>5. order[1] \in nodes \ {Root}
    BY <2>1, <2>4
  <2> QED BY <2>2, <2>3, <2>4, <2>5
<1> HIDE DEF s
<1>6. nodes \in SUBSET Seq(Nat) /\ Runes \in SUBSET Nat
  BY <1>1, NodeFacts, DictFacts
<1>7. f \in nodes /\ Len(f) < Len(s) /\ Len(f) \in Nat /\ Len(s) \in Nat
  <2>1. f \in nodes /\ Len(f) < Len(s)
    BY <1>1, <1>5, LongestSuffixIs
  <2> QED BY <1>5, <1>6, <2>1
<1>8. fail[s] = f
  <2>1. queue = Empty
    BY <1>1, <1>2 DEF QueueInv
  <2>2. ~Waits(s, NodeQueue)
    BY <2>1, NobodyWaits
  <2>3. fail[StateOf(s)] = StateOf(LongestSuffix(s))
    BY <1>1, <1>2, <1>5, <2>2 DEF LinkInv
  <2> QED BY <1>3, <2>3
<1> HIDE DEF f
<1>9. f \in DOMAIN dfa
  <2> SUFFICES ASSUME f \notin DOMAIN dfa PROVE FALSE
    OBVIOUS
  <2>1. PICK j \in DOMAIN order : order[j] = f
    BY <1>4, <1>7 DEF Range
  <2>2. j = 1 \/ 1 < j
    BY <1>5
  <2>3. Len(s) <= Len(f)
    BY <1>4, <1>5, <1>7, <2>1, <2>2
  <2> QED BY <1>7, <2>3
<1>10. \A n \in nodes : n \in DOMAIN dfa => RowRight(n, dfa[n])
  BY <1>2, <1>3 DEF RowInv, RowRight
<1>11. Root \in DOMAIN dfa
  BY <1>2, <1>3 DEF RowInv
<1>12. ASSUME NEW i \in DOMAIN Alphabet PROVE entry(i) = Packed(Longest(Append(s, Alphabet[i])))
  <2>1. Alphabet[i] \in Nat
    BY <1>1, <1>6, AlphabetFacts
  <2>2. CASE Append(s, Alphabet[i]) \in nodes
    <3>1. Append(s, Alphabet[i]) \in Seq(Nat)
      BY <1>6, <2>2
    <3>2. Longest(Append(s, Alphabet[i])) = Append(s, Alphabet[i])
      BY <1>1, <2>2, <3>1, LongestFacts
    <3> QED BY <2>2, <3>2
  <2>3. CASE Append(s, Alphabet[i]) \notin nodes
    <3>1. Longest(Append(s, Alphabet[i])) = Longest(Append(f, Alphabet[i]))
      BY <1>1, <1>5, <2>1, <2>3, StepByLink DEF f
    <3>2. dfa[f][i] = Packed(Longest(Append(f, Alphabet[i])))
      BY <1>3, <1>7, <1>9, <1>10 DEF RowRight
    <3>3. entry(i) = dfa[f][i]
      BY <1>8, <1>9, <2>3 DEF RowEntry
    <3> QED BY <3>1, <3>2, <3>3
  <2> QED BY <2>2, <2>3
<1> HIDE DEF entry
<1>13. DOMAIN dfa' = DOMAIN dfa \cup {s} /\ \A n \in DOMAIN dfa' : dfa'[n] = IF n = s THEN [i \in DOMAIN Alphabet |-> entry(i)] ELSE dfa[n]
  BY <1>2
<1>14. dfa'[s] = [i \in DOMAIN Alphabet |-> entry(i)]
  BY <1>13
<1>15. RowRight(s, dfa'[s])
  BY <1>3, <1>12, <1>14 DEF RowRight
<1>16. \A n \in nodes : n \in DOMAIN dfa' => RowRight(n, dfa'[n])
  BY <1>10, <1>13, <1>15
<1> QED BY <1>2, <1>3, <1>11, <1>13, <1>16, RowsMade

(* followFailByCode leads where the automaton should be. *)
LEMMA FollowRight ==
  ASSUME BuildInv, phase \notin {"insert", "place"}, preset = "balanced", NEW n \in Settled, NEW i \in DOMAIN Alphabet
  PROVE  FollowFail(datPos[n], i - 1) = StateOf(Longest(Append(n, Alphabet[i])))
<1> DEFINE ch == Alphabet[i]
<1>1. TrieInv /\ QueueInv /\ SlotInv
  BY DEF BuildInv
<1>2. nodes \in SUBSET Seq(Nat) /\ Root \in nodes /\ Runes \in SUBSET Nat /\ Settled \in SUBSET nodes
  BY <1>1, NodeFacts, DictFacts, SettledFacts
<1>3. ch \in Nat
  BY <1>1, <1>2, AlphabetFacts
<1>4. n \in nodes /\ n \in Seq(Nat)
  BY <1>2
<1> HIDE DEF ch
<1>5. PICK m \in Settled :
       /\ LongestIn(m, n, {u \in nodes : u = Root \/ Append(u, ch) \in nodes})
       /\ FollowFail(datPos[n], i - 1) = datPos[IF Append(m, ch) \in nodes THEN Append(m, ch) ELSE Root]
  BY DatFollow DEF ch
<1>6. Longest(n) = n
  BY <1>1, <1>4, LongestFacts
<1>7. LongestIn(m, Longest(n), Down(ch))
  BY <1>5, <1>6 DEF Down
<1>8. Longest(Append(n, ch)) = IF Append(m, ch) \in nodes THEN Append(m, ch) ELSE Root
  BY <1>1, <1>3, <1>4, <1>7, StepLongest
<1>9. Longest(Append(n, ch)) \in nodes
  BY <1>2, <1>8
<1>10. StateOf(Longest(Append(n, ch))) = datPos[Longest(Append(n, ch))]
  BY <1>1, <1>9, StateFacts
<1>11. FollowFail(datPos[n], i - 1) = StateOf(Longest(Append(n, ch)))
  BY <1>5, <1>8, <1>10, Zenon
<1> QED BY <1>11 DEF ch

(* The band of the double array. *)
LEMMA BandRows ==
  ASSUME BuildInv, BuildBand
  PROVE  RowInv'
<1> DEFINE B == {q \in DatRoot .. (DatSize - 1) : InBand(q)}
<1>1. TrieInv /\ QueueInv /\ SlotInv /\ LinkInv
  BY DEF BuildInv
<1>2. /\ UNCHANGED <<trieVars, datVars, linkVars>> /\ preset = "balanced" /\ phase = "link" /\ queue = Empty
      /\ dfa' = [p \in B |-> [i \in DOMAIN Alphabet |-> Packed(FollowFail(p, i - 1))]]
  BY DEF BuildBand
<1>3. SlotsDone
  BY <1>1, <1>2, SlotsAreDone
<1>4. \A n \in nodes : StateOf(n) = datPos[n]
  BY <1>1, <1>2, StateFacts
<1>5. nodes \in SUBSET Seq(Nat) /\ Root \in nodes /\ Root \in Seq(Nat) /\ Runes \in SUBSET Nat
  BY <1>1, NodeFacts, DictFacts
<1>6. Settled = nodes
  BY <1>2, NobodyWaits DEF Settled
<1>7. datPos[Root] \in B
  <2>1. datPos[Root] = DatRoot /\ DatSize \in Nat /\ DatRoot < DatSize
    BY <1>1, <1>3, <1>5, DatSizeFacts DEF SlotsDone
  <2>2. DatRoot \in DatRoot .. (DatSize - 1)
    BY <2>1 DEF DatRoot
  <2>3. depth[DatRoot] = 0 /\ DatRoot \in DOMAIN depth
    <3>1. Placed = nodes
      BY <1>2 DEF Placed
    <3>2. depth[datPos[Root]] = Len(Root) /\ DOMAIN depth = Range(datPos) /\ DOMAIN datPos = nodes
      BY <1>1, <1>2, <1>5, <3>1 DEF SlotInv
    <3> QED BY <1>5, <2>1, <3>2, RootFacts DEF Range
  <2>4. InBand(DatRoot)
    BY <2>3, EngineConstants DEF InBand, At
  <2> QED BY <2>1, <2>2, <2>4
<1> HIDE DEF B
<1>8. DOMAIN dfa' = B /\ \A p \in B : dfa'[p] = [i \in DOMAIN Alphabet |-> Packed(FollowFail(p, i - 1))]
  BY <1>2
<1>9. ASSUME NEW n \in nodes, datPos[n] \in B PROVE RowRight(n, dfa'[datPos[n]])
  <2>1. \A i \in DOMAIN Alphabet : FollowFail(datPos[n], i - 1) = StateOf(Longest(Append(n, Alphabet[i])))
    BY <1>2, <1>6, FollowRight
  <2>2. dfa'[datPos[n]] = [i \in DOMAIN Alphabet |-> Packed(FollowFail(datPos[n], i - 1))]
    BY <1>8, <1>9
  <2> QED BY <2>1, <2>2 DEF RowRight
<1> QED BY <1>2, <1>4, <1>5, <1>7, <1>8, <1>9, RowsMade

(* The flat trie starts linking: nothing is served yet. *)
LEMMA FirstOrder ==
  ASSUME BuildInv, OrderInv, StartLinks
  PROVE  OrderInv'
<1>1. TrieInv /\ Root \in nodes
  BY NodeFacts DEF BuildInv
<1>2. phase = "insert" /\ phase' = "link" /\ preset # "balanced" /\ UNCHANGED <<trieVars, order>>
  BY DEF StartLinks
<1>3. order' = Empty /\ nodes' = nodes /\ preset' = preset
  BY <1>2 DEF OrderInv, trieVars
<1>4. NodeQueue' = queue'
  BY <1>2, <1>3 DEF NodeQueue
<1> DEFINE Q2 == queue'
<1>5. ListsChildren(Q2, Root)
  BY <1>4, StartLinksStep
<1> HIDE DEF Q2
<1>6. Range(Q2) = ChildNodes(Root) /\ \A n \in nodes : Waits(n, Q2) <=> n # Root /\ n \notin ChildNodes(Root)
  BY <1>1, <1>5, RootChildren DEF ListsChildren
<1>7. \A n \in nodes \ {Root} : n \in Range(Q2) \/ Waits(n, Q2)
  BY <1>6
<1>8. \A n \in nodes \ {Root} : n \in Range(queue)' \/ Waits(n, queue)'
  BY <1>7 DEF Q2, Waits, Range
<1>9. DOMAIN order' = {} /\ order' \in Seq(nodes \ {Root})
  BY <1>3 DEF Empty
<1> QED BY <1>2, <1>3, <1>8, <1>9 DEF OrderInv

(* A node of the flat trie is served: none in the order is deeper than one in the queue. *)
LEMMA ServedOrder ==
  ASSUME BuildInv, OrderInv, SpeedLink
  PROVE  OrderInv'
<1> DEFINE Q == queue
           Q2 == queue'
           o == order
           o2 == order'
<1>1. TrieInv /\ QueueInv
  BY DEF BuildInv
<1>2. /\ phase = "link" /\ phase' = "link" /\ preset = "speed" /\ preset' = "speed" /\ nodes' = nodes /\ order' = Append(order, Head(queue))
      /\ queue # <<>>
  BY DEF SpeedLink, LinkChildren, trieVars, Served, Empty
<1>3. NodeQueue = Q /\ NodeQueue' = Q2
  BY <1>2 DEF NodeQueue
<1>4. PICK s, ord : Moved(s, ord)
  BY SpeedLinkStep
<1>5. s = Q[1] /\ ListsChildren(ord, s) /\ Q2 \in Seq(nodes) /\ Shifted(Q, ord, Q2)
  BY <1>3, <1>4 DEF Moved
<1>6. Apart(Q) /\ Layered(Q) /\ Root \notin Range(Q)
  BY <1>1, <1>2, <1>3 DEF QueueInv
<1>7. /\ o \in Seq(nodes \ {Root}) /\ \A i, j \in DOMAIN o : i < j => Len(o[i]) <= Len(o[j])
      /\ \A n \in nodes \ {Root} : n \in Range(o) \/ n \in Range(Q) \/ Waits(n, Q)
      /\ \A i \in DOMAIN o, j \in DOMAIN Q : Len(o[i]) <= Len(Q[j])
  BY <1>2 DEF OrderInv
<1>8. o2 = Append(o, s)
  <2>1. Head(queue) = queue[1]
    <3>1. queue \in Seq(nodes) /\ queue # <<>>
      BY <1>2, <1>6 DEF Apart
    <3> QED BY ONLY <3>1
  <2> QED BY <1>2, <1>5, <2>1
<1> HIDE DEF Q, Q2, o, o2
<1>9. /\ s \in nodes /\ Range(Q2) = (Range(Q) \ {s}) \cup ChildNodes(s)
      /\ \A n \in nodes : Waits(n, Q2) <=> Waits(n, Q) /\ n \notin ChildNodes(s)
  BY <1>1, <1>5, <1>6, QueueStepped
<1>10. 1 \in DOMAIN Q /\ DOMAIN Q = 1 .. Len(Q) /\ Len(Q) \in Nat /\ Q \in Seq(nodes)
  BY <1>5, <1>6 DEF Shifted, Apart
<1>11. s # Root
  BY <1>5, <1>6, <1>10 DEF Range
<1>12. nodes \in SUBSET Seq(Nat)
  BY <1>1, NodeFacts
<1>13. o2 \in Seq(nodes \ {Root}) /\ DOMAIN o2 = 1 .. (Len(o) + 1) /\ DOMAIN o = 1 .. Len(o) /\ Len(o) \in Nat
       /\ o2[Len(o) + 1] = s /\ \A i \in 1 .. Len(o) : o2[i] = o[i]
  <2>1. s \in nodes \ {Root}
    BY <1>9, <1>11
  <2> QED BY <1>7, <1>8, <2>1
<1>14. \A i \in DOMAIN o2 : Len(o2[i]) \in Nat /\ Len(o2[i]) <= Len(s)
  <2>1. ASSUME NEW i \in 1 .. Len(o) PROVE Len(o[i]) \in Nat /\ Len(o[i]) <= Len(s)
    <3>1. i \in DOMAIN o /\ o[i] \in nodes
      BY <1>7, <1>13
    <3>2. Len(o[i]) <= Len(Q[1])
      BY <1>7, <1>10, <3>1
    <3> QED BY <1>5, <1>12, <3>1, <3>2
  <2>2. Len(s) \in Nat
    BY <1>9, <1>12
  <2> QED BY <1>13, <2>1, <2>2
<1>15. \A i, j \in DOMAIN o2 : i < j => Len(o2[i]) <= Len(o2[j])
  <2>1. ASSUME NEW i \in DOMAIN o2, NEW j \in DOMAIN o2, i < j PROVE Len(o2[i]) <= Len(o2[j])
    <3>1. CASE j = Len(o) + 1
      BY <1>13, <1>14, <3>1
    <3>2. CASE j # Len(o) + 1
      <4>1. i \in 1 .. Len(o) /\ j \in 1 .. Len(o)
        BY <1>13, <2>1, <3>2
      <4> QED BY <1>7, <1>13, <2>1, <4>1
    <3> QED BY <3>1, <3>2
  <2> QED BY <2>1
<1>16. ASSUME NEW n \in nodes \ {Root} PROVE n \in Range(o2) \/ n \in Range(Q2) \/ Waits(n, Q2)
  <2>1. n \in Range(o) => n \in Range(o2)
    BY <1>13 DEF Range
  <2>2. s \in Range(o2)
    BY <1>13 DEF Range
  <2> QED BY <1>7, <1>9, <2>1, <2>2
<1>17. ASSUME NEW j \in DOMAIN Q2 PROVE Len(Q2[j]) \in Nat /\ Len(s) <= Len(Q2[j])
  <2>1. Len(s) \in Nat /\ \A i \in DOMAIN Q : Q[i] \in nodes /\ Len(Q[i]) \in Nat
    BY <1>9, <1>10, <1>12
  <2>2. Q2[j] \in Range(Q) \/ Q2[j] \in ChildNodes(s)
    BY <1>9 DEF Range
  <2>3. CASE Q2[j] \in Range(Q)
    <3>1. PICK i \in DOMAIN Q : Q[i] = Q2[j]
      BY <2>3 DEF Range
    <3>2. i = 1 \/ 1 < i
      BY <1>10
    <3>3. Len(Q[1]) <= Len(Q[i])
      BY <1>6, <1>10, <2>1, <3>2 DEF Layered
    <3> QED BY <1>5, <2>1, <3>1, <3>3
  <2>4. CASE Q2[j] \in ChildNodes(s)
    <3>1. Len(Q2[j]) = Len(s) + 1
      BY <1>1, <1>9, <2>4, ChildFacts
    <3> QED BY <2>1, <3>1
  <2> QED BY <2>2, <2>3, <2>4
<1>18. \A i \in DOMAIN o2, j \in DOMAIN Q2 : Len(o2[i]) <= Len(Q2[j])
  <2>1. ASSUME NEW i \in DOMAIN o2, NEW j \in DOMAIN Q2 PROVE Len(o2[i]) <= Len(Q2[j])
    <3>1. Len(s) \in Nat
      BY <1>9, <1>12
    <3> QED BY <1>14, <1>17, <3>1
  <2> QED BY <2>1
<1>19. \A n \in nodes \ {Root} : n \in Range(order)' \/ n \in Range(queue)' \/ Waits(n, queue)'
  BY <1>16 DEF o2, Q2, Waits, Range
<1>20. \A i \in DOMAIN order', j \in DOMAIN queue' : Len(order'[i]) <= Len(queue'[j])
  BY <1>18 DEF o2, Q2
<1>21. order' \in Seq(nodes \ {Root}) /\ \A i, j \in DOMAIN order' : i < j => Len(order'[i]) <= Len(order'[j])
  BY <1>13, <1>15 DEF o2
<1> QED BY <1>2, <1>19, <1>20, <1>21 DEF OrderInv

(* The rows are filled in that order. *)
LEMMA RowsOrder ==
  ASSUME BuildInv, OrderInv, SpeedRootRow \/ SpeedRow \/ SpeedReady
  PROVE  OrderInv'
<1>1. TrieInv /\ Root \in nodes
  BY NodeFacts DEF BuildInv
<1>2. CASE SpeedRootRow
  <2>1. phase = "link" /\ phase' = "rows" /\ preset = "speed" /\ preset' = "speed" /\ nodes' = nodes /\ order' = order
        /\ queue = Empty /\ DOMAIN dfa' = {Root}
    BY <1>2 DEF SpeedRootRow, trieVars
  <2>2. /\ order \in Seq(nodes \ {Root}) /\ \A i, j \in DOMAIN order : i < j => Len(order[i]) <= Len(order[j])
        /\ \A n \in nodes \ {Root} : n \in Range(order) \/ n \in Range(queue) \/ Waits(n, queue)
    BY <2>1 DEF OrderInv
  <2>3. DOMAIN queue = {}
    BY <2>1 DEF Empty
  <2>4. \A n \in nodes \ {Root} : n \in Range(order)
    BY <2>2, <2>3 DEF Range, Waits
  <2>5. \A n \in Range(order) : n \in nodes
    BY <2>2 DEF Range
  <2>6. nodes = DOMAIN dfa' \cup Range(order)
    BY <1>1, <2>1, <2>4, <2>5
  <2> QED BY <2>1, <2>2, <2>6 DEF OrderInv
<1>3. CASE SpeedRow
  <2> DEFINE o2 == order'
             s == Head(order)
  <2>1. phase = "rows" /\ phase' = "rows" /\ preset = "speed" /\ preset' = "speed" /\ nodes' = nodes /\ order' = Tail(order)
        /\ order # <<>> /\ DOMAIN dfa' = DOMAIN dfa \cup {s}
    BY <1>3 DEF SpeedRow, trieVars, Empty
  <2>2. /\ order \in Seq(nodes \ {Root}) /\ \A i, j \in DOMAIN order : i < j => Len(order[i]) <= Len(order[j])
        /\ nodes = DOMAIN dfa \cup Range(order)
    BY <2>1 DEF OrderInv
  <2>3. /\ s = order[1] /\ o2 \in Seq(nodes \ {Root}) /\ DOMAIN order = 1 .. Len(order) /\ Len(order) \in Nat /\ Len(order) > 0
        /\ Len(o2) = Len(order) - 1 /\ \A i \in 1 .. (Len(order) - 1) : o2[i] = order[i + 1]
    <3>1. order \in Seq(nodes \ {Root}) /\ order # <<>> /\ o2 = Tail(order)
      BY <2>1, <2>2
    <3> HIDE DEF o2
    <3> QED BY ONLY <3>1
  <2> HIDE DEF s, o2
  <2>4. DOMAIN o2 = 1 .. (Len(order) - 1)
    BY <2>3
  <2>5. \A i, j \in DOMAIN o2 : i < j => Len(o2[i]) <= Len(o2[j])
    <3>1. ASSUME NEW i \in DOMAIN o2, NEW j \in DOMAIN o2, i < j PROVE Len(o2[i]) <= Len(o2[j])
      <4>1. i + 1 \in DOMAIN order /\ j + 1 \in DOMAIN order /\ i + 1 < j + 1 /\ o2[i] = order[i + 1] /\ o2[j] = order[j + 1]
        BY <2>3, <2>4, <3>1
      <4> QED BY <2>2, <4>1
    <3> QED BY <3>1
  <2>6. Range(order) = {s} \cup Range(o2)
    <3>1. ASSUME NEW i \in DOMAIN order PROVE order[i] = s \/ order[i] \in Range(o2)
      <4>1. CASE i = 1
        BY <2>3, <4>1
      <4>2. CASE i # 1
        <5>1. i - 1 \in DOMAIN o2 /\ o2[i - 1] = order[i]
          BY <2>3, <2>4, <4>2
        <5> QED BY <5>1 DEF Range
      <4> QED BY <4>1, <4>2
    <3>2. ASSUME NEW i \in DOMAIN o2 PROVE o2[i] \in Range(order)
      <4>1. i + 1 \in DOMAIN order /\ o2[i] = order[i + 1]
        BY <2>3, <2>4
      <4> QED BY <4>1 DEF Range
    <3>3. s \in Range(order)
      BY <2>3 DEF Range
    <3> QED BY <3>1, <3>2, <3>3 DEF Range
  <2>7. nodes = DOMAIN dfa' \cup Range(order)'
    BY <2>1, <2>2, <2>6 DEF o2, Range
  <2>8. order' \in Seq(nodes \ {Root}) /\ \A i, j \in DOMAIN order' : i < j => Len(order'[i]) <= Len(order'[j])
    BY <2>3, <2>5 DEF o2
  <2> QED BY <2>1, <2>7, <2>8 DEF OrderInv
<1>4. CASE SpeedReady
  <2>1. phase = "rows" /\ phase' = "ready" /\ preset = "speed" /\ preset' = "speed" /\ nodes' = nodes /\ order = Empty /\ dfa' = dfa
    BY <1>4 DEF SpeedReady, trieVars
  <2>2. Range(order) = {}
    BY <2>1 DEF Range, Empty
  <2>3. nodes = DOMAIN dfa
    BY <2>1, <2>2 DEF OrderInv
  <2> QED BY <2>1, <2>3 DEF OrderInv
<1> QED BY <1>2, <1>3, <1>4

-----------------------------------------------------------------------------
(* The steps of a scan. *)

\* Everything but what the query has collected, while a scan goes on.
Ongoing == BuildInv /\ OutInv /\ OrderInv /\ RowInv /\ ScanInv /\ phase = "scan"
\* A step leads where the automaton should be after w, and says whether there is output.
StepRight(st, w) == st[1] = StateOf(Longest(w)) /\ (~st[2] => Ending(w) = {})

(* A scan that goes on. *)
LEMMA OngoingFacts ==
  ASSUME Ongoing
  PROVE  /\ BuildInv /\ TrieInv /\ QueueInv /\ SlotInv /\ LinkInv /\ todo = {} /\ phase = "scan" /\ phase \notin {"insert", "place"}
         /\ Settled = nodes /\ OutDone /\ text \in Seq(Nat) /\ state = StateOf(Longest(text))
         /\ nodes \in SUBSET Seq(Nat) /\ Root \in nodes /\ Runes \in SUBSET Nat /\ Ending(Root) = {}
         /\ Longest(text) \in nodes /\ Longest(text) \in Seq(Nat)
<1>1. BuildInv /\ TrieInv /\ QueueInv /\ SlotInv /\ LinkInv /\ todo = {} /\ phase = "scan" /\ phase \notin {"insert", "place"}
  BY DEF Ongoing, BuildInv, TrieInv
<1>2. Settled = nodes
  BY <1>1, SettledFacts
<1>3. OutDone
  BY <1>1, <1>2, OutIsDone DEF Ongoing
<1>4. text \in Seq(Nat) /\ state = StateOf(Longest(text))
  BY <1>1 DEF Ongoing, ScanInv
<1>5. nodes \in SUBSET Seq(Nat) /\ Root \in nodes /\ Runes \in SUBSET Nat
  BY <1>1, NodeFacts, DictFacts
<1>6. Longest(text) \in nodes /\ Longest(text) \in Seq(Nat)
  BY <1>1, <1>4, <1>5, LongestFacts
<1>7. Ending(Root) = {}
  <2>1. ASSUME NEW k \in Ending(Root) PROVE FALSE
    <3>1. k \in Seq(Nat) /\ k # Root /\ Len(k) <= Len(Root)
      BY <1>1, <1>5, <2>1, EndingFacts
    <3> QED BY <3>1, RootFacts
  <2> QED BY <2>1
<1> QED BY <1>1, <1>2, <1>3, <1>4, <1>5, <1>6, <1>7

(* A rune that leads to the root has no output. *)
LEMMA StepToRoot ==
  ASSUME Ongoing, NEW w \in Seq(Nat), Longest(w) = Root
  PROVE  StepRight(<<StateOf(Root), FALSE>>, w)
<1>1. TrieInv /\ todo = {} /\ Ending(Root) = {}
  BY OngoingFacts
<1>2. Ending(w) = {}
  BY <1>1, EndingFacts
<1> QED BY <1>2 DEF StepRight

(* A packed entry says whether there is output. *)
LEMMA StepPacked ==
  ASSUME Ongoing, NEW w \in Seq(Nat), NEW s, s = StateOf(Longest(w))
  PROVE  StepRight(Packed(s), w)
<1>1. TrieInv /\ todo = {} /\ BuildInv /\ phase \notin {"insert", "place"} /\ OutDone
  BY OngoingFacts
<1>2. Longest(w) \in nodes /\ Ending(Longest(w)) = Ending(w)
  BY <1>1, LongestFacts, EndingFacts
<1>3. HasOutput(s) <=> Ending(w) # {}
  BY <1>1, <1>2, OutFacts
<1>4. Packed(s)[1] = s /\ Packed(s)[2] = HasOutput(s)
  BY DEF Packed
<1> QED BY <1>3, <1>4 DEF StepRight

(* The root filter lets every first rune pass. *)
LEMMA FilterPasses ==
  ASSUME TrieInv, NEW ch \in Nat, Append(Root, ch) \in nodes
  PROVE  ch \in FirstRunes
<1> DEFINE n == Append(Root, ch)
<1>1. n \in Seq(Nat) /\ n # Root /\ Len(n) = 1 /\ n[1] = ch
  BY LastRune, RootFacts DEF Root
<1> HIDE DEF n
<1>2. n \in UNION {Prefixes(kw) : kw \in dict \ todo}
  BY <1>1 DEF TrieInv, n
<1>3. PICK kw \in dict : n \in Prefixes(kw)
  BY <1>2
<1>4. kw \in Seq(Nat)
  BY DictFacts
<1>5. IsPrefix(n, kw)
  BY <1>3, <1>4, PrefixesMeaning
<1>6. 1 <= Len(kw) /\ kw[1] = ch
  <2>1. Len(n) <= Len(kw) /\ \A i \in 1 .. Len(n) : n[i] = kw[i]
    BY <1>1, <1>4, <1>5, PrefixMeaning
  <2>2. 1 \in 1 .. Len(n)
    BY <1>1
  <2> QED BY <1>1, <2>1, <2>2
<1>7. kw # Empty
  BY <1>4, <1>6 DEF Empty
<1>8. Head(kw) = ch
  BY <1>4, <1>6
<1> QED BY <1>7, <1>8 DEF FirstRunes

(* A step of the map trie. *)
LEMMA MapStepRight ==
  ASSUME Ongoing, preset = "memory", NEW ch \in Nat
  PROVE  StepRight(MapStep(ch), Append(text, ch))
<1> DEFINE w == Append(text, ch)
           m == Longest(text)
<1>1. /\ BuildInv /\ TrieInv /\ QueueInv /\ SlotInv /\ LinkInv /\ phase \notin {"insert", "place"} /\ phase = "scan"
      /\ Settled = nodes /\ text \in Seq(Nat) /\ state = StateOf(m) /\ nodes \in SUBSET Seq(Nat) /\ Root \in nodes /\ m \in nodes /\ m \in Seq(Nat)
  BY OngoingFacts
<1>2. w \in Seq(Nat)
  BY <1>1, LastRune
<1>3. \A n : StateOf(n) = n
  BY DEF StateOf
<1> HIDE DEF w, m
<1>4. CASE SkipAtRoot(ch)
  <2>1. m = Root /\ ch \notin bloom
    BY <1>1, <1>3, <1>4 DEF SkipAtRoot
  <2>2. FirstRunes \subseteq bloom
    BY <1>1 DEF Ongoing, ScanInv
  <2>3. Append(Root, ch) \notin nodes
    BY <1>1, <2>1, <2>2, FilterPasses
  <2>4. Longest(w) = Root
    BY <1>1, <2>1, <2>3, Outside DEF w, m
  <2>5. MapStep(ch) = <<StateOf(Root), FALSE>>
    BY <1>1, <1>3, <1>4, <2>1 DEF MapStep
  <2> QED BY <1>2, <2>4, <2>5, StepToRoot DEF w
<1>5. CASE ~SkipAtRoot(ch)
  <2>1. MapStep(ch) = <<MapGoto(state, ch), TRUE>>
    BY <1>5 DEF MapStep
  <2> DEFINE stops == {n \in nodes : n = Root \/ Append(n, ch) \in nodes}
  <2>2. StateOf(Root) \in stops /\ {u \in nodes : StateOf(u) \in stops} = Down(ch)
    BY <1>1, <1>3 DEF Down
  <2>3. FailWalk(state, ch) = Walk(stops, StateOf(m))
    BY <1>1 DEF FailWalk
  <2> HIDE DEF stops
  <2>4. PICK f \in Settled : Walk(stops, StateOf(m)) = StateOf(f) /\ LongestIn(f, m, {u \in nodes : StateOf(u) \in stops})
    BY <1>1, <2>2, WalkFacts
  <2>5. FailWalk(state, ch) = f /\ LongestIn(f, m, Down(ch))
    BY <1>3, <2>2, <2>3, <2>4
  <2>6. Longest(w) = IF Append(f, ch) \in nodes THEN Append(f, ch) ELSE Root
    BY <1>1, <2>5, StepLongest DEF w, m
  <2>7. MapGoto(state, ch) = Longest(w)
    BY <2>5, <2>6 DEF MapGoto
  <2> QED BY <1>3, <2>1, <2>7 DEF StepRight, w
<1> QED BY <1>4, <1>5

(* A step of the flat trie. *)
LEMMA SpeedStepRight ==
  ASSUME Ongoing, preset = "speed", NEW ch \in Nat
  PROVE  StepRight(SpeedStep(ch), Append(text, ch))
<1> DEFINE w == Append(text, ch)
           m == Longest(text)
           i == Code(ch) + 1
<1>1. /\ TrieInv /\ phase = "scan" /\ text \in Seq(Nat) /\ state = StateOf(m) /\ m \in nodes /\ m \in Seq(Nat)
  BY OngoingFacts
<1>2. w \in Seq(Nat)
  BY <1>1, LastRune
<1>3. \A n : StateOf(n) = n
  BY DEF StateOf
<1> HIDE DEF w, m
<1>4. CASE ch \notin Runes
  <2>1. Code(ch) = -1
    BY <1>1, <1>4, AlphabetFacts
  <2>2. Longest(w) = Root
    BY <1>1, <1>4, Outside DEF w
  <2>3. SpeedStep(ch) = <<StateOf(Root), FALSE>>
    BY <1>3, <2>1 DEF SpeedStep
  <2> QED BY <1>2, <2>2, <2>3, StepToRoot DEF w
<1>5. CASE ch \in Runes
  <2>1. Code(ch) # -1 /\ i \in DOMAIN Alphabet /\ Alphabet[i] = ch
    BY <1>1, <1>5, AlphabetFacts
  <2>2. SpeedStep(ch) = dfa[m][i]
    BY <1>1, <1>3, <2>1 DEF SpeedStep
  <2> HIDE DEF i
  <2>3. m \in DOMAIN dfa
    BY <1>1 DEF Ongoing, OrderInv
  <2>4. dfa[m][i] = Packed(StateOf(Longest(Append(m, ch))))
    BY <1>1, <1>3, <2>1, <2>3 DEF Ongoing, RowInv
  <2>5. Longest(Append(m, ch)) = Longest(w)
    BY <1>1, StateIsEnough DEF w, m
  <2> QED BY <1>2, <2>2, <2>4, <2>5, StepPacked DEF w
<1> QED BY <1>4, <1>5

(* A step of the double array, in the band and below it. *)
LEMMA BalancedStepRight ==
  ASSUME Ongoing, preset = "balanced", NEW ch \in Nat
  PROVE  StepRight(BalancedStep(ch), Append(text, ch))
<1> DEFINE w == Append(text, ch)
           m == Longest(text)
           c == Code(ch)
           i == c + 1
<1>1. /\ BuildInv /\ TrieInv /\ SlotInv /\ phase = "scan" /\ phase \notin {"insert", "place"} /\ text \in Seq(Nat) /\ state = StateOf(m)
      /\ m \in nodes /\ m \in Seq(Nat) /\ Settled = nodes /\ Root \in nodes
  BY OngoingFacts
<1>2. w \in Seq(Nat)
  BY <1>1, LastRune
<1>3. SlotsDone /\ \A n \in nodes : StateOf(n) = datPos[n]
  BY <1>1, SlotsAreDone, StateFacts
<1>4. StateOf(Root) = DatRoot
  BY <1>1, <1>3 DEF SlotsDone
<1>5. Longest(Append(m, ch)) = Longest(w)
  BY <1>1, StateIsEnough
<1> HIDE DEF w, m
<1>6. CASE ch \notin Runes
  <2>1. Code(ch) = -1
    BY <1>1, <1>6, AlphabetFacts
  <2>2. Longest(w) = Root
    BY <1>1, <1>6, Outside DEF w
  <2>3. BalancedStep(ch) = <<StateOf(Root), FALSE>>
    BY <1>4, <2>1 DEF BalancedStep
  <2> QED BY <1>2, <2>2, <2>3, StepToRoot DEF w
<1>7. CASE ch \in Runes
  <2>1. c # -1 /\ i \in DOMAIN Alphabet /\ Alphabet[i] = ch /\ i - 1 = c
    BY <1>1, <1>7, AlphabetFacts
  <2>2. BalancedStep(ch) = BandedStep(c)
    BY <2>1 DEF BalancedStep
  <2> HIDE DEF c
  <2>3. CASE state \in DOMAIN dfa
    <3>1. BandedStep(c) = dfa[state][i]
      BY <2>3 DEF BandedStep
    <3> HIDE DEF i
    <3>2. dfa[state][i] = Packed(StateOf(Longest(Append(m, ch))))
      BY <1>1, <2>1, <2>3 DEF Ongoing, RowInv
    <3> QED BY <1>2, <1>5, <2>2, <3>1, <3>2, StepPacked DEF w
  <2>4. CASE state \notin DOMAIN dfa
    <3> DEFINE s == IF Goto(state, c) # 0 THEN Goto(state, c) ELSE FollowFail(state, c)
    <3>1. BandedStep(c) = Packed(s)
      BY <2>4 DEF BandedStep
    <3>2. /\ Goto(datPos[m], i - 1) = IF Append(m, Alphabet[i]) \in nodes THEN datPos[Append(m, Alphabet[i])] ELSE 0
          /\ Goto(datPos[m], i - 1) # 0 <=> Append(m, Alphabet[i]) \in nodes
      BY <1>1, <1>3, <2>1, GotoFacts
    <3>3. FollowFail(datPos[m], i - 1) = StateOf(Longest(Append(m, Alphabet[i])))
      BY <1>1, <2>1, FollowRight
    <3>4. state = datPos[m]
      BY <1>1, <1>3
    <3> HIDE DEF i
    <3>5. s = StateOf(Longest(w))
      <4>1. CASE Append(m, ch) \in nodes
        <5>1. s = datPos[Append(m, ch)]
          BY <2>1, <3>2, <3>4, <4>1
        <5>2. Append(m, ch) \in Seq(Nat)
          BY <1>1, LastRune
        <5>3. Longest(Append(m, ch)) = Append(m, ch)
          BY <1>1, <4>1, <5>2, LongestFacts
        <5> QED BY <1>3, <1>5, <4>1, <5>1, <5>3
      <4>2. CASE Append(m, ch) \notin nodes
        BY <1>5, <2>1, <3>2, <3>3, <3>4, <4>2
      <4> QED BY <4>1, <4>2
    <3> HIDE DEF s
    <3> QED BY <1>2, <2>2, <3>1, <3>5, StepPacked DEF w
  <2> QED BY <2>3, <2>4
<1> QED BY <1>6, <1>7

(* What a right step puts out. *)
LEMMA StepOutput ==
  ASSUME Ongoing, NEW w \in Seq(Nat), NEW st, StepRight(st, w)
  PROVE  /\ Lists(Output(st), Ending(w), Lengths)
         /\ st[2] /\ HasOutput(st[1]) <=> Ending(w) # {}
         /\ st[2] => Output(st) = Chain(st[1])
<1>1. BuildInv /\ TrieInv /\ todo = {} /\ phase \notin {"insert", "place"} /\ OutDone
  BY OngoingFacts
<1>2. Longest(w) \in nodes /\ Ending(Longest(w)) = Ending(w) /\ st[1] = StateOf(Longest(w))
  BY <1>1, LongestFacts, EndingFacts DEF StepRight
<1>3. Lists(Chain(st[1]), Ending(w), Lengths)
  BY <1>1, <1>2, ChainListed
<1>4. HasOutput(st[1]) <=> Ending(w) # {}
  BY <1>1, <1>2, OutFacts
<1>5. CASE st[2]
  <2>1. Output(st) = Chain(st[1])
    BY <1>5 DEF Output
  <2> QED BY <1>3, <1>4, <1>5, <2>1
<1>6. CASE ~st[2]
  <2>1. Output(st) = Empty /\ Ending(w) = {}
    BY <1>6 DEF Output, StepRight
  <2>2. Lists(Empty, {}, Lengths)
    BY ListsSmall DEF Empty
  <2>3. Lists(Output(st), Ending(w), Lengths)
    BY <2>1, <2>2, Zenon
  <2> QED BY <1>6, <2>1, <2>3
<1> QED BY <1>5, <1>6

-----------------------------------------------------------------------------
(* What one rune adds to the matches. *)

\* The keywords of d that a word ends with, and the matches of a list of them.
EndingIn(d, w) == {kw \in d \ {Empty} : IsSuffix(kw, w)}
SpansOf(c, e) == [i \in DOMAIN c |-> Span(c[i], e)]
SpanSet(E, e) == {Span(kw, e) : kw \in E}
\* A text with one rune more.
Longer(t, ch, w) == t \in Seq(Nat) /\ ch \in Nat /\ w = Append(t, ch)

(* A rune adds the matches that end at it. *)
LEMMA MatchesGrow ==
  ASSUME NEW d \in SUBSET Seq(Nat), NEW t, NEW ch, NEW w, Longer(t, ch, w)
  PROVE  /\ MatchesIn(d, w) = MatchesIn(d, t) \cup SpanSet(EndingIn(d, w), Len(w))
         /\ \A m \in MatchesIn(d, t) : m \in Spans /\ m[3] < Len(w) /\ m[2] + Len(m[1]) = m[3] /\ m[1] \in d
         /\ \A k \in EndingIn(d, w) : k \in d /\ k \in Seq(Nat) /\ Span(k, Len(w)) \in Spans /\ Span(k, Len(w))[1] = k
              /\ Span(k, Len(w))[2] = Len(w) - Len(k) /\ Span(k, Len(w))[3] = Len(w)
         /\ w \in Seq(Nat) /\ Len(w) \in Nat
<1>1. w \in Seq(Nat) /\ Len(w) = Len(t) + 1 /\ Len(t) \in Nat /\ Len(w) \in Nat /\ (\A i \in 1 .. Len(t) : w[i] = t[i]) /\ t \in Seq(Nat)
  BY LastRune DEF Longer
<1>2. \A kw \in d : kw \in Seq(Nat) /\ Len(kw) \in Nat
  OBVIOUS
<1>3. /\ \A m : m \in MatchesIn(d, t) <=> \E kw \in d \ {Empty}, e \in 1 .. Len(t) : m = Span(kw, e) /\ EndsAt(kw, e, t)
      /\ \A m \in MatchesIn(d, t) : m \in Spans
  BY <1>1, MatchMeaning
<1>4. /\ \A m : m \in MatchesIn(d, w) <=> \E kw \in d \ {Empty}, e \in 1 .. Len(w) : m = Span(kw, e) /\ EndsAt(kw, e, w)
      /\ \A m \in MatchesIn(d, w) : m \in Spans
  BY <1>1, MatchMeaning
<1>5. ASSUME NEW kw \in d, NEW e \in 1 .. Len(t) PROVE EndsAt(kw, e, w) <=> EndsAt(kw, e, t)
  <2>1. ASSUME Len(kw) <= e, NEW i \in 1 .. Len(kw) PROVE w[e - Len(kw) + i] = t[e - Len(kw) + i]
    <3>1. e - Len(kw) + i \in 1 .. Len(t)
      BY <1>1, <1>2, <2>1
    <3> QED BY <1>1, <3>1
  <2> QED BY <2>1 DEF EndsAt
<1>6. ASSUME NEW kw \in d PROVE EndsAt(kw, Len(w), w) <=> IsSuffix(kw, w)
  BY <1>1, <1>2, SuffixMeaning DEF EndsAt
<1>7. \A kw : kw \in EndingIn(d, w) <=> kw \in d \ {Empty} /\ IsSuffix(kw, w)
  BY DEF EndingIn
<1>8. ASSUME NEW m PROVE m \in MatchesIn(d, w) <=> m \in MatchesIn(d, t) \/ \E kw \in EndingIn(d, w) : m = Span(kw, Len(w))
  <2>1. ASSUME m \in MatchesIn(d, w) PROVE m \in MatchesIn(d, t) \/ \E kw \in EndingIn(d, w) : m = Span(kw, Len(w))
    <3>1. PICK kw \in d \ {Empty}, e \in 1 .. Len(w) : m = Span(kw, e) /\ EndsAt(kw, e, w)
      BY <1>4, <2>1
    <3>2. CASE e = Len(w)
      BY <1>6, <1>7, <3>1, <3>2
    <3>3. CASE e # Len(w)
      <4>1. e \in 1 .. Len(t)
        BY <1>1, <3>3
      <4> QED BY <1>3, <1>5, <3>1, <4>1
    <3> QED BY <3>2, <3>3
  <2>2. ASSUME m \in MatchesIn(d, t) PROVE m \in MatchesIn(d, w)
    <3>1. PICK kw \in d \ {Empty}, e \in 1 .. Len(t) : m = Span(kw, e) /\ EndsAt(kw, e, t)
      BY <1>3, <2>2
    <3>2. e \in 1 .. Len(w) /\ EndsAt(kw, e, w)
      BY <1>1, <1>5, <3>1
    <3> QED BY <1>4, <3>1, <3>2
  <2>3. ASSUME NEW kw \in EndingIn(d, w), m = Span(kw, Len(w)) PROVE m \in MatchesIn(d, w)
    <3>1. kw \in d \ {Empty} /\ EndsAt(kw, Len(w), w) /\ Len(w) \in 1 .. Len(w)
      BY <1>1, <1>6, <1>7
    <3> QED BY <1>4, <2>3, <3>1
  <2> QED BY <2>1, <2>2, <2>3
<1>9. MatchesIn(d, w) = MatchesIn(d, t) \cup SpanSet(EndingIn(d, w), Len(w))
  BY <1>8 DEF SpanSet
<1>10. ASSUME NEW m \in MatchesIn(d, t) PROVE m \in Spans /\ m[3] < Len(w) /\ m[2] + Len(m[1]) = m[3] /\ m[1] \in d
  <2>1. PICK kw \in d \ {Empty}, e \in 1 .. Len(t) : m = Span(kw, e)
    BY <1>3
  <2>2. m[1] = kw /\ m[2] = e - Len(kw) /\ m[3] = e
    BY <2>1 DEF Span
  <2> QED BY <1>1, <1>2, <1>3, <2>1, <2>2
<1>11. ASSUME NEW k \in EndingIn(d, w)
       PROVE  k \in d /\ k \in Seq(Nat) /\ Span(k, Len(w)) \in Spans /\ Span(k, Len(w))[1] = k
              /\ Span(k, Len(w))[2] = Len(w) - Len(k) /\ Span(k, Len(w))[3] = Len(w)
  <2>1. k \in d /\ k \in Seq(Nat) /\ Span(k, Len(w)) \in Spans
    BY <1>4, <1>7, <1>8
  <2> QED BY <2>1 DEF Span
<1> QED BY <1>1, <1>9, <1>10, <1>11

(* In scan order the new matches come last, the longest first. *)
LEMMA OccurrencesGrow ==
  ASSUME NEW d \in SUBSET Seq(Nat), IsFiniteSet(d), NEW t, NEW ch, NEW w, Longer(t, ch, w),
         NEW c, Lists(c, EndingIn(d, w), Lengths)
  PROVE  /\ InScanOrder(MatchesIn(d, w)) = InScanOrder(MatchesIn(d, t)) \o SpansOf(c, Len(w))
         /\ InScanOrder(MatchesIn(d, t)) \in Seq(Spans) /\ Range(InScanOrder(MatchesIn(d, t))) = MatchesIn(d, t)
         /\ c \in Seq(Seq(Nat)) /\ Range(c) = EndingIn(d, w) /\ \A i, j \in DOMAIN c : i # j => c[i] # c[j]
         /\ SpansOf(c, Len(w)) \in Seq(Spans) /\ Len(SpansOf(c, Len(w))) = Len(c) /\ \A i \in DOMAIN c : SpansOf(c, Len(w))[i] = Span(c[i], Len(w))
<1> DEFINE E == EndingIn(d, w)
           M == MatchesIn(d, t)
           N == SpanSet(E, Len(w))
           s == SpansOf(c, Len(w))
           old == InScanOrder(M)
           all == InScanOrder(MatchesIn(d, w))
<1>1. /\ MatchesIn(d, w) = M \cup N
      /\ \A m \in M : m \in Spans /\ m[3] < Len(w)
      /\ \A k \in E : k \in Seq(Nat) /\ Span(k, Len(w)) \in Spans /\ Span(k, Len(w))[1] = k /\ Span(k, Len(w))[2] = Len(w) - Len(k) /\ Span(k, Len(w))[3] = Len(w)
      /\ w \in Seq(Nat) /\ Len(w) \in Nat
  <2>1. MatchesIn(d, w) = M \cup N
    BY MatchesGrow
  <2>2. \A m \in M : m \in Spans /\ m[3] < Len(w)
    BY MatchesGrow
  <2>3. w \in Seq(Nat) /\ Len(w) \in Nat
    BY MatchesGrow
  <2>4. ASSUME NEW k \in EndingIn(d, w)
        PROVE  k \in Seq(Nat) /\ Span(k, Len(w)) \in Spans /\ Span(k, Len(w))[1] = k /\ Span(k, Len(w))[2] = Len(w) - Len(k) /\ Span(k, Len(w))[3] = Len(w)
    <3>1. k \in Seq(Nat) /\ Span(k, Len(w)) \in Spans
      BY MatchesGrow
    <3>2. Span(k, Len(w))[1] = k
      BY DEF Span
    <3>3. Span(k, Len(w))[2] = Len(w) - Len(k)
      BY DEF Span
    <3>4. Span(k, Len(w))[3] = Len(w)
      BY DEF Span
    <3> QED BY <3>1, <3>2, <3>3, <3>4, Zenon
  <2> QED BY <2>1, <2>2, <2>3, <2>4
<1>2. Lists(old, M, ScanPairs)
  BY OccurrencesListed DEF Longer
<1>3. Lists(all, M \cup N, ScanPairs) /\ StrictOrder(ScanPairs, M \cup N)
  BY <1>1, OccurrencesListed
<1>4. c \in Seq(E) /\ Range(c) = E /\ (\A i, j \in DOMAIN c : i < j => <<c[i], c[j]>> \in Lengths)
  BY DEF Lists
<1>5. DOMAIN c = 1 .. Len(c) /\ Len(c) \in Nat /\ \A i \in DOMAIN c : c[i] \in E
  BY <1>4
<1>6. DOMAIN s = DOMAIN c /\ \A i \in DOMAIN c : s[i] = Span(c[i], Len(w))
  BY DEF SpansOf
<1>7. \A k \in E : Span(k, Len(w)) \in N
  BY DEF SpanSet
<1>8. \A m \in N : \E k \in E : m = Span(k, Len(w))
  BY DEF SpanSet
<1>9. s \in Seq(N)
  <2>1. s = [i \in 1 .. Len(c) |-> Span(c[i], Len(w))]
    BY <1>5 DEF SpansOf
  <2> HIDE DEF N, E
  <2> QED BY <1>5, <1>7, <2>1
<1> HIDE DEF E, M, N, s, old, all
<1>10. \A i, j \in DOMAIN c : i # j => c[i] # c[j]
  <2>1. ASSUME NEW i \in DOMAIN c, NEW j \in DOMAIN c, i < j PROVE c[i] # c[j]
    <3>1. <<c[i], c[j]>> \in Lengths /\ c[i] \in Seq(Nat)
      BY <1>1, <1>4, <1>5, <2>1
    <3>2. Len(c[i]) > Len(c[j])
      BY <3>1 DEF Lengths
    <3>3. Len(c[i]) \in Nat
      BY <3>1
    <3> QED BY <3>2, <3>3
  <2> QED BY <1>5, <2>1
<1>11. Range(s) = N
  <2>1. ASSUME NEW m \in N PROVE m \in Range(s)
    <3>1. PICK k \in E : m = Span(k, Len(w))
      BY <1>8
    <3>2. PICK i \in DOMAIN c : c[i] = k
      BY <1>4 DEF Range
    <3> QED BY <1>6, <3>1, <3>2 DEF Range
  <2>2. ASSUME NEW i \in DOMAIN s PROVE s[i] \in N
    BY <1>5, <1>6, <1>7
  <2> QED BY <2>1, <2>2 DEF Range
<1>12. ASSUME NEW i \in DOMAIN s, NEW j \in DOMAIN s, i < j PROVE <<s[i], s[j]>> \in ScanPairs
  <2>1. c[i] \in E /\ c[j] \in E /\ s[i] = Span(c[i], Len(w)) /\ s[j] = Span(c[j], Len(w)) /\ <<c[i], c[j]>> \in Lengths
    BY <1>4, <1>5, <1>6, <1>12
  <2>2. Len(c[i]) > Len(c[j])
    BY <2>1 DEF Lengths
  <2>3. c[i] \in Seq(Nat) /\ c[j] \in Seq(Nat) /\ s[i] \in Spans /\ s[j] \in Spans /\ s[i][2] = Len(w) - Len(c[i]) /\ s[j][2] = Len(w) - Len(c[j])
        /\ s[i][3] = s[j][3]
    <3>1. c[i] \in Seq(Nat) /\ c[j] \in Seq(Nat) /\ s[i] \in Spans /\ s[j] \in Spans
      BY <1>1, <2>1
    <3>2. s[i][2] = Len(w) - Len(c[i]) /\ s[i][3] = Len(w)
      BY <1>1, <2>1, Zenon
    <3>3. s[j][2] = Len(w) - Len(c[j]) /\ s[j][3] = Len(w)
      BY <1>1, <2>1, Zenon
    <3> QED BY <3>1, <3>2, <3>3, Zenon
  <2>4. s[i][2] < s[j][2]
    <3>1. Len(c[i]) \in Nat /\ Len(c[j]) \in Nat
      BY <2>3
    <3>2. Len(w) - Len(c[i]) < Len(w) - Len(c[j])
      BY ONLY <1>1, <2>2, <3>1
    <3> QED BY <2>3, <3>2, Zenon
  <2>5. ScanOrder(s[i], s[j])
    BY <2>3, <2>4 DEF ScanOrder
  <2> QED BY <2>3, <2>5 DEF ScanPairs
<1>13. Lists(s, N, ScanPairs)
  BY <1>9, <1>11, <1>12 DEF Lists
<1>14. ASSUME NEW m \in M, NEW n \in N PROVE <<m, n>> \in ScanPairs
  <2>1. m \in Spans /\ n \in Spans /\ m[3] < n[3]
    BY <1>1, <1>8
  <2>2. ScanOrder(m, n)
    BY <2>1 DEF ScanOrder
  <2> QED BY <2>1, <2>2 DEF ScanPairs
<1>15. Lists(old \o s, M \cup N, ScanPairs)
  BY <1>2, <1>13, <1>14, ListsJoin
<1>16. all = old \o s
  BY <1>3, <1>15, ListsUnique
<1>17. old \in Seq(Spans) /\ Range(old) = M
  <2>1. old \in Seq(M) /\ Range(old) = M
    BY <1>2 DEF Lists
  <2>2. M \subseteq Spans
    BY <1>1
  <2> QED BY <2>1, <2>2, SeqMonotonic
<1>18. c \in Seq(Seq(Nat))
  <2>1. E \subseteq Seq(Nat)
    BY <1>1
  <2> QED BY <1>4, <2>1, SeqMonotonic
<1>19. s \in Seq(Spans) /\ Len(s) = Len(c)
  <2>1. N \subseteq Spans
    BY <1>1, <1>8
  <2>2. s \in Seq(Spans)
    BY <1>9, <2>1, SeqMonotonic
  <2> QED BY <1>5, <1>6, <2>2
<1> QED BY <1>4, <1>6, <1>10, <1>16, <1>17, <1>18, <1>19 DEF all, old, s, E, M

-----------------------------------------------------------------------------
(* What one rune adds to each kind of answer. *)

(* The places of a sequence, sorted. *)
LEMMA SortedPlaces ==
  ASSUME NEW n \in Nat, NEW P \in SUBSET (1 .. n)
  PROVE  /\ Lists(Sorted(P), P, Numbers) /\ StrictOrder(Numbers, P) /\ IsFiniteSet(P)
         /\ Sorted(P) \in Seq(P) /\ Range(Sorted(P)) = P /\ DOMAIN Sorted(P) = 1 .. Len(Sorted(P)) /\ Len(Sorted(P)) \in Nat
         /\ \A k \in DOMAIN Sorted(P) : Sorted(P)[k] \in P
<1>1. IsFiniteSet(1 .. n)
  BY FS_Interval
<1>2. IsFiniteSet(P) /\ P \in SUBSET Int
  <2>1. P \in SUBSET Int
    OBVIOUS
  <2>2. IsFiniteSet(P)
    BY <1>1, FS_Subset
  <2> QED BY <2>1, <2>2
<1>3. Lists(Sorted(P), P, Numbers) /\ StrictOrder(Numbers, P)
  BY <1>2, SortedLists
<1>4. Sorted(P) \in Seq(P) /\ Range(Sorted(P)) = P
  BY <1>3 DEF Lists
<1>5. DOMAIN Sorted(P) = 1 .. Len(Sorted(P)) /\ Len(Sorted(P)) \in Nat /\ \A k \in DOMAIN Sorted(P) : Sorted(P)[k] \in P
  BY <1>4
<1> QED BY <1>2, <1>3, <1>4, <1>5

(* What is picked from a sequence. *)
LEMMA PickedFacts ==
  ASSUME NEW S, NEW q \in Seq(S), NEW P \in SUBSET (1 .. Len(q))
  PROVE  /\ Picked(q, P) \in Seq(S) /\ DOMAIN Picked(q, P) = DOMAIN Sorted(P) /\ Len(Picked(q, P)) = Len(Sorted(P))
         /\ \A k \in DOMAIN Sorted(P) : Picked(q, P)[k] = q[Sorted(P)[k]]
         /\ \A x : x \in Range(Picked(q, P)) <=> \E i \in P : x = q[i]
<1> DEFINE so == Sorted(P)
           pk == Picked(q, P)
<1>1. so \in Seq(P) /\ Range(so) = P /\ DOMAIN so = 1 .. Len(so) /\ Len(so) \in Nat /\ \A k \in DOMAIN so : so[k] \in P
  <2>1. Len(q) \in Nat
    OBVIOUS
  <2> QED BY <2>1, SortedPlaces
<1>2. pk = [k \in 1 .. Len(so) |-> q[so[k]]]
  BY <1>1 DEF Picked
<1> HIDE DEF so, pk
<1>3. ASSUME NEW k \in 1 .. Len(so) PROVE q[so[k]] \in S
  <2>1. so[k] \in 1 .. Len(q)
    BY <1>1
  <2> HIDE DEF so
  <2> QED BY <2>1
<1>4. pk \in Seq(S) /\ DOMAIN pk = DOMAIN so /\ Len(pk) = Len(so) /\ \A k \in DOMAIN so : pk[k] = q[so[k]]
  BY <1>1, <1>2, <1>3
<1>5. ASSUME NEW x PROVE x \in Range(pk) <=> \E i \in P : x = q[i]
  <2>1. ASSUME x \in Range(pk) PROVE \E i \in P : x = q[i]
    <3>1. PICK k \in DOMAIN pk : pk[k] = x
      BY <2>1 DEF Range
    <3> QED BY <1>1, <1>4, <3>1
  <2>2. ASSUME NEW i \in P, x = q[i] PROVE x \in Range(pk)
    <3>1. PICK k \in DOMAIN so : so[k] = i
      BY <1>1 DEF Range
    <3> QED BY <1>4, <2>2, <3>1 DEF Range
  <2> QED BY <2>1, <2>2
<1> QED BY <1>4, <1>5 DEF so, pk

\* The places of a sequence when n elements come before it.
PlacesAfter(n, R) == {n + i : i \in R}
JoinedPlaces(P, n, R) == P \cup PlacesAfter(n, R)
\* Two sequences and places of each.
TwoParts(S, a, P, c, R) == a \in Seq(S) /\ c \in Seq(S) /\ P \in SUBSET (1 .. Len(a)) /\ R \in SUBSET (1 .. Len(c))

(* Sorting places of two sequences, one after the other. *)
LEMMA SortedJoin ==
  ASSUME NEW n \in Nat, NEW m \in Nat, NEW P \in SUBSET (1 .. n), NEW R \in SUBSET (1 .. m)
  PROVE  /\ DOMAIN Sorted(P \cup PlacesAfter(n, R)) = 1 .. (Len(Sorted(P)) + Len(Sorted(R)))
         /\ \A k \in DOMAIN Sorted(P) : Sorted(P \cup PlacesAfter(n, R))[k] = Sorted(P)[k]
         /\ \A k \in DOMAIN Sorted(R) : Sorted(P \cup PlacesAfter(n, R))[Len(Sorted(P)) + k] = n + Sorted(R)[k]
<1> DEFINE sp == Sorted(P)
           sr == Sorted(R)
           T == PlacesAfter(n, R)
           sh == [k \in 1 .. Len(sr) |-> n + sr[k]]
           so == Sorted(P \cup T)
<1>1. Lists(sp, P, Numbers) /\ IsFiniteSet(P) /\ sp \in Seq(P) /\ DOMAIN sp = 1 .. Len(sp) /\ Len(sp) \in Nat
  BY SortedPlaces
<1>2. Lists(sr, R, Numbers) /\ IsFiniteSet(R) /\ sr \in Seq(R) /\ DOMAIN sr = 1 .. Len(sr) /\ Len(sr) \in Nat /\ Range(sr) = R
      /\ \A k \in DOMAIN sr : sr[k] \in R
  BY SortedPlaces
<1>3. T \in SUBSET ((n + 1) .. (n + m)) /\ T \in SUBSET (1 .. (n + m)) /\ P \in SUBSET (1 .. (n + m))
  BY DEF PlacesAfter
<1>4. \A x : x \in T <=> \E i \in R : x = n + i
  BY DEF PlacesAfter
<1> HIDE DEF sp, sr, T
<1>5. \A k \in 1 .. Len(sr) : n + sr[k] \in T
  BY <1>2, <1>4
<1>6. sh \in Seq(T) /\ DOMAIN sh = 1 .. Len(sr) /\ (\A k \in 1 .. Len(sr) : sh[k] = n + sr[k])
  BY <1>2, <1>5
<1> HIDE DEF sh
<1>7. Range(sh) = T
  <2>1. ASSUME NEW x \in T PROVE \E k \in DOMAIN sh : sh[k] = x
    <3>1. PICK i \in R : x = n + i
      BY <1>4
    <3>2. PICK k \in DOMAIN sr : sr[k] = i
      BY <1>2 DEF Range
    <3> QED BY <1>2, <1>6, <3>1, <3>2
  <2> QED BY <1>5, <1>6, <2>1 DEF Range
<1>8. ASSUME NEW i \in DOMAIN sh, NEW j \in DOMAIN sh, i < j PROVE <<sh[i], sh[j]>> \in Numbers
  <2>1. <<sr[i], sr[j]>> \in Numbers
    BY <1>2, <1>6, <1>8 DEF Lists
  <2>2. sr[i] < sr[j] /\ sr[i] \in Nat /\ sr[j] \in Nat /\ sh[i] = n + sr[i] /\ sh[j] = n + sr[j]
    BY <1>2, <1>6, <2>1 DEF Numbers
  <2> QED BY <2>2 DEF Numbers
<1>9. Lists(sh, T, Numbers)
  BY <1>6, <1>7, <1>8 DEF Lists
<1>10. \A x \in P, y \in T : <<x, y>> \in Numbers
  BY <1>3 DEF Numbers
<1>11. Lists(sp \o sh, P \cup T, Numbers)
  BY <1>1, <1>9, <1>10, ListsJoin
<1>12. Lists(so, P \cup T, Numbers) /\ StrictOrder(Numbers, P \cup T)
  <2>1. (P \cup T) \in SUBSET (1 .. (n + m)) /\ n + m \in Nat
    BY <1>3
  <2> QED BY <2>1, SortedPlaces
<1>13. so = sp \o sh
  BY <1>11, <1>12, ListsUnique
<1> HIDE DEF so
<1>14. Len(sh) = Len(sr)
  BY <1>2, <1>6
<1>15. sp \in Seq(Int) /\ sh \in Seq(Int)
  <2>1. P \subseteq Int /\ T \subseteq Int
    BY <1>3
  <2> QED BY <1>1, <1>6, <2>1, SeqMonotonic
<1>16. /\ so \in Seq(Int) /\ Len(so) = Len(sp) + Len(sr)
       /\ \A i \in 1 .. (Len(sp) + Len(sr)) : so[i] = IF i <= Len(sp) THEN sp[i] ELSE sh[i - Len(sp)]
  <2>1. /\ sp \o sh \in Seq(Int) /\ Len(sp \o sh) = Len(sp) + Len(sh)
        /\ \A i \in 1 .. (Len(sp) + Len(sh)) : (sp \o sh)[i] = IF i <= Len(sp) THEN sp[i] ELSE sh[i - Len(sp)]
    BY <1>15, ConcatProperties
  <2> QED BY <1>13, <1>14, <2>1
<1>17. DOMAIN so = 1 .. (Len(sp) + Len(sr))
  BY <1>16
<1>18. \A k \in DOMAIN sp : so[k] = sp[k]
  BY <1>1, <1>2, <1>16
<1>19. ASSUME NEW k \in DOMAIN sr PROVE so[Len(sp) + k] = n + sr[k]
  <2>1. Len(sp) + k \in 1 .. (Len(sp) + Len(sr)) /\ ~(Len(sp) + k <= Len(sp)) /\ Len(sp) + k - Len(sp) = k
    BY <1>1, <1>2
  <2> QED BY <1>2, <1>6, <1>16, <2>1
<1> QED BY <1>17, <1>18, <1>19 DEF so, sp, sr, T

(* Picking from two sequences, one after the other. *)
LEMMA PickedJoin ==
  ASSUME NEW S, NEW a, NEW c, NEW P, NEW R, TwoParts(S, a, P, c, R)
  PROVE  Picked(a \o c, JoinedPlaces(P, Len(a), R)) = Picked(a, P) \o Picked(c, R)
<1> DEFINE sp == Sorted(P)
           sr == Sorted(R)
           Q == P \cup PlacesAfter(Len(a), R)
           so == Sorted(Q)
           ac == a \o c
           x == Picked(a, P)
           y == Picked(c, R)
           z == Picked(ac, Q)
<1> SUFFICES ASSUME a \in Seq(S), c \in Seq(S), P \in SUBSET (1 .. Len(a)), R \in SUBSET (1 .. Len(c))
             PROVE  Picked(a \o c, JoinedPlaces(P, Len(a), R)) = Picked(a, P) \o Picked(c, R)
  BY DEF TwoParts
<1>0. Len(a) \in Nat /\ Len(c) \in Nat
  OBVIOUS
<1>1. sp \in Seq(P) /\ DOMAIN sp = 1 .. Len(sp) /\ Len(sp) \in Nat /\ \A k \in DOMAIN sp : sp[k] \in P
  BY <1>0, SortedPlaces
<1>2. sr \in Seq(R) /\ DOMAIN sr = 1 .. Len(sr) /\ Len(sr) \in Nat /\ \A k \in DOMAIN sr : sr[k] \in R
  BY <1>0, SortedPlaces
<1>3. /\ DOMAIN so = 1 .. (Len(sp) + Len(sr))
      /\ \A k \in DOMAIN sp : so[k] = sp[k]
      /\ \A k \in DOMAIN sr : so[Len(sp) + k] = Len(a) + sr[k]
  BY <1>0, SortedJoin
<1>4. /\ ac \in Seq(S) /\ Len(ac) = Len(a) + Len(c) /\ Len(a) \in Nat /\ Len(c) \in Nat
      /\ \A i \in 1 .. (Len(a) + Len(c)) : ac[i] = IF i <= Len(a) THEN a[i] ELSE c[i - Len(a)]
  BY ConcatProperties
<1>5. Q \in SUBSET (1 .. Len(ac))
  <2>1. \A i \in R : Len(a) + i \in 1 .. Len(ac)
    BY <1>4
  <2>2. \A i \in P : i \in 1 .. Len(ac)
    BY <1>4
  <2> HIDE DEF ac
  <2> QED BY <2>1, <2>2 DEF PlacesAfter
<1>6. x \in Seq(S) /\ Len(x) = Len(sp) /\ \A k \in DOMAIN sp : x[k] = a[sp[k]]
  BY PickedFacts
<1>7. y \in Seq(S) /\ Len(y) = Len(sr) /\ \A k \in DOMAIN sr : y[k] = c[sr[k]]
  BY PickedFacts
<1> HIDE DEF ac, Q, sp, sr
<1>8. z \in Seq(S) /\ DOMAIN z = DOMAIN so /\ \A k \in DOMAIN so : z[k] = ac[so[k]]
  BY <1>4, <1>5, PickedFacts
<1> HIDE DEF x, y, z, so
<1>9. /\ x \o y \in Seq(S) /\ Len(x \o y) = Len(sp) + Len(sr)
      /\ \A i \in 1 .. (Len(sp) + Len(sr)) : (x \o y)[i] = IF i <= Len(sp) THEN x[i] ELSE y[i - Len(sp)]
  <2>1. /\ x \o y \in Seq(S) /\ Len(x \o y) = Len(x) + Len(y)
        /\ \A i \in 1 .. (Len(x) + Len(y)) : (x \o y)[i] = IF i <= Len(x) THEN x[i] ELSE y[i - Len(x)]
    BY <1>6, <1>7, ConcatProperties
  <2> QED BY <1>6, <1>7, <2>1
<1>10. Len(z) = Len(sp) + Len(sr)
  BY <1>1, <1>2, <1>3, <1>8
<1>11. ASSUME NEW i \in 1 .. (Len(sp) + Len(sr)) PROVE z[i] = (x \o y)[i]
  <2>1. CASE i <= Len(sp)
    <3>1. i \in DOMAIN sp /\ so[i] = sp[i] /\ sp[i] \in 1 .. Len(a)
      <4>1. i \in DOMAIN sp
        BY <1>1, <1>2, <2>1
      <4>2. sp[i] \in P
        BY <1>1, <4>1
      <4> QED BY <1>3, <4>1, <4>2
    <3>2. sp[i] \in 1 .. (Len(a) + Len(c)) /\ sp[i] <= Len(a)
      BY <1>4, <3>1
    <3>3. z[i] = a[sp[i]]
      BY <1>3, <1>4, <1>8, <3>1, <3>2
    <3>4. (x \o y)[i] = a[sp[i]]
      BY <1>6, <1>9, <2>1, <3>1
    <3> QED BY <3>3, <3>4
  <2>2. CASE ~(i <= Len(sp))
    <3>1. PICK k \in DOMAIN sr : i = Len(sp) + k /\ k = i - Len(sp)
      BY <1>1, <1>2, <2>2
    <3>2. so[i] = Len(a) + sr[k] /\ sr[k] \in 1 .. Len(c)
      BY <1>2, <1>3, <3>1
    <3>3. so[i] \in 1 .. (Len(a) + Len(c)) /\ ~(so[i] <= Len(a)) /\ so[i] - Len(a) = sr[k]
      BY <1>4, <3>2
    <3>4. z[i] = c[sr[k]]
      BY <1>3, <1>4, <1>8, <3>3
    <3>5. (x \o y)[i] = c[sr[k]]
      BY <1>7, <1>9, <2>2, <3>1
    <3> QED BY <3>4, <3>5
  <2> QED BY <2>1, <2>2
<1>12. z = x \o y
  <2>1. z \in Seq(S) /\ x \o y \in Seq(S) /\ Len(z) = Len(x \o y)
    BY <1>8, <1>9, <1>10
  <2> QED BY <1>9, <1>11, <2>1, SeqEqual
<1> QED BY <1>12 DEF JoinedPlaces, x, y, z, ac, Q

(* The keywords of a list of matches. *)
LEMMA KeywordsFacts ==
  ASSUME NEW q \in Seq(Spans)
  PROVE  Keywords(q) \in Seq(Seq(Nat)) /\ Len(Keywords(q)) = Len(q) /\ \A i \in 1 .. Len(q) : Keywords(q)[i] = q[i][1]
<1>1. Keywords(q) = [i \in 1 .. Len(q) |-> q[i][1]] /\ Len(q) \in Nat
  BY DEF Keywords
<1>2. \A i \in 1 .. Len(q) : q[i][1] \in Seq(Nat)
  <2>1. \A i \in 1 .. Len(q) : q[i] \in Spans
    OBVIOUS
  <2> QED BY <2>1 DEF Spans
<1> QED BY <1>1, <1>2

\* The keywords found in a text, in scan order.
KeywordsIn(d, t) == Keywords(InScanOrder(MatchesIn(d, t)))

(* A rune adds the keywords that end at it. *)
LEMMA KeywordsGrow ==
  ASSUME NEW d \in SUBSET Seq(Nat), IsFiniteSet(d), NEW t, NEW ch, NEW w, Longer(t, ch, w),
         NEW c, Lists(c, EndingIn(d, w), Lengths)
  PROVE  /\ KeywordsIn(d, w) = KeywordsIn(d, t) \o c
         /\ KeywordsIn(d, t) \in Seq(Seq(Nat)) /\ c \in Seq(Seq(Nat)) /\ \A i, j \in DOMAIN c : i # j => c[i] # c[j]
<1> DEFINE old == InScanOrder(MatchesIn(d, t))
           all == InScanOrder(MatchesIn(d, w))
           s == SpansOf(c, Len(w))
           ko == Keywords(old)
           ka == Keywords(all)
<1>1. /\ all = old \o s /\ old \in Seq(Spans) /\ c \in Seq(Seq(Nat)) /\ s \in Seq(Spans) /\ Len(s) = Len(c)
      /\ \A i, j \in DOMAIN c : i # j => c[i] # c[j]
  BY OccurrencesGrow
<1>2. ASSUME NEW i \in 1 .. Len(c) PROVE s[i][1] = c[i]
  <2>1. i \in DOMAIN c
    BY <1>1
  <2>2. s[i] = Span(c[i], Len(w))
    BY <2>1 DEF SpansOf
  <2> QED BY <2>2 DEF Span
<1> HIDE DEF old, all, s
<1>3. /\ all \in Seq(Spans) /\ Len(all) = Len(old) + Len(s) /\ Len(old) \in Nat /\ Len(s) \in Nat
      /\ \A i \in 1 .. (Len(old) + Len(s)) : all[i] = IF i <= Len(old) THEN old[i] ELSE s[i - Len(old)]
  <2>1. /\ old \o s \in Seq(Spans) /\ Len(old \o s) = Len(old) + Len(s) /\ Len(old) \in Nat /\ Len(s) \in Nat
        /\ \A i \in 1 .. (Len(old) + Len(s)) : (old \o s)[i] = IF i <= Len(old) THEN old[i] ELSE s[i - Len(old)]
    <3>1. old \in Seq(Spans) /\ s \in Seq(Spans)
      BY <1>1
    <3> QED BY ONLY <3>1, ConcatProperties
  <2> QED BY <1>1, <2>1
<1>4. ko \in Seq(Seq(Nat)) /\ Len(ko) = Len(old) /\ \A i \in 1 .. Len(old) : ko[i] = old[i][1]
  BY <1>1, KeywordsFacts
<1>5. ka \in Seq(Seq(Nat)) /\ Len(ka) = Len(all) /\ \A i \in 1 .. Len(all) : ka[i] = all[i][1]
  BY <1>3, KeywordsFacts
<1> HIDE DEF ko, ka
<1>6. /\ ko \o c \in Seq(Seq(Nat)) /\ Len(ko \o c) = Len(ko) + Len(c)
      /\ \A i \in 1 .. (Len(ko) + Len(c)) : (ko \o c)[i] = IF i <= Len(ko) THEN ko[i] ELSE c[i - Len(ko)]
  BY <1>1, <1>4, ConcatProperties
<1>7. ASSUME NEW i \in 1 .. Len(ka) PROVE ka[i] = (ko \o c)[i]
  <2>0. i \in 1 .. (Len(old) + Len(s)) /\ i \in 1 .. (Len(ko) + Len(c))
    BY <1>1, <1>3, <1>4, <1>5
  <2>1. CASE i <= Len(old)
    <3>1. i \in 1 .. Len(old)
      BY <2>0, <2>1, <1>3
    <3>2. all[i] = old[i]
      BY <1>3, <2>0, <2>1
    <3>3. (ko \o c)[i] = ko[i]
      BY <1>4, <1>6, <2>0, <2>1
    <3> QED BY <1>4, <1>5, <3>1, <3>2, <3>3
  <2>2. CASE ~(i <= Len(old))
    <3>1. i - Len(old) \in 1 .. Len(c)
      BY <1>1, <1>3, <2>0, <2>2
    <3>2. all[i] = s[i - Len(old)]
      BY <1>3, <2>0, <2>2
    <3>3. (ko \o c)[i] = c[i - Len(old)]
      BY <1>4, <1>6, <2>0, <2>2
    <3>4. s[i - Len(old)][1] = c[i - Len(old)]
      BY <1>2, <3>1
    <3> QED BY <1>5, <3>2, <3>3, <3>4
  <2> QED BY <2>1, <2>2
<1>8. Len(ka) = Len(ko \o c)
  BY <1>1, <1>3, <1>4, <1>5, <1>6
<1>9. ka = ko \o c
  BY <1>5, <1>6, <1>7, <1>8, SeqEqual
<1> QED BY <1>1, <1>4, <1>9 DEF KeywordsIn, ko, ka, old, all

\* The first place of each element, and the places of what a sequence does not have.
FirstPlaces(q) == {i \in DOMAIN q : \A j \in 1 .. (i - 1) : q[j] # q[i]}
NewPlaces(c, a) == {i \in DOMAIN c : c[i] \notin Range(a)}

(* Taking the first of each loses nothing. *)
LEMMA FirstRange ==
  ASSUME NEW S, NEW q \in Seq(S)
  PROVE  Range(FirstOfEach(q)) = Range(q) /\ FirstOfEach(q) \in Seq(S)
<1> DEFINE P == FirstPlaces(q)
<1>1. P \in SUBSET (1 .. Len(q)) /\ DOMAIN q = 1 .. Len(q) /\ Len(q) \in Nat
  BY DEF FirstPlaces
<1>2. FirstOfEach(q) = Picked(q, P)
  BY DEF FirstOfEach, FirstPlaces
<1>3. \A i : i \in P <=> i \in DOMAIN q /\ \A j \in 1 .. (i - 1) : q[j] # q[i]
  BY DEF FirstPlaces
<1> HIDE DEF P
<1>4. Picked(q, P) \in Seq(S) /\ \A x : x \in Range(Picked(q, P)) <=> \E i \in P : x = q[i]
  BY <1>1, PickedFacts
<1>5. ASSUME NEW x \in Range(q) PROVE \E i \in P : x = q[i]
  <2> DEFINE B == {i \in Nat : i \in DOMAIN q /\ q[i] = x}
  <2>1. B # {}
    <3>1. PICK i \in DOMAIN q : q[i] = x
      BY DEF Range
    <3> QED BY <1>1, <3>1
  <2>2. PICK i \in B : \A k \in B : i <= k
    <3>1. B \in SUBSET Nat
      OBVIOUS
    <3> HIDE DEF B
    <3> QED BY <2>1, <3>1, LeastNat
  <2>3. i \in Nat /\ i \in DOMAIN q /\ q[i] = x
    BY <2>2
  <2>4. ASSUME NEW j \in 1 .. (i - 1) PROVE q[j] # q[i]
    <3>1. j \in Nat /\ j < i /\ j \in DOMAIN q
      BY <1>1, <2>3
    <3>2. j \notin B
      BY <2>2, <2>3, <3>1
    <3> QED BY <2>3, <3>1, <3>2
  <2>5. i \in P
    BY <1>3, <2>3, <2>4
  <2> HIDE DEF B
  <2> QED BY <2>3, <2>5
<1>6. ASSUME NEW i \in P PROVE q[i] \in Range(q)
  BY <1>1 DEF Range
<1>7. Range(Picked(q, P)) = Range(q)
  <2>1. ASSUME NEW x PROVE x \in Range(Picked(q, P)) <=> x \in Range(q)
    BY <1>4, <1>5, <1>6, Zenon
  <2> QED BY <2>1, Zenon
<1> QED BY <1>2, <1>4, <1>7, Zenon

(* The first of each of two sequences, one after the other. *)
LEMMA FirstJoin ==
  ASSUME NEW S, NEW a \in Seq(S), NEW c \in Seq(S), \A i, j \in DOMAIN c : i # j => c[i] # c[j]
  PROVE  FirstOfEach(a \o c) = FirstOfEach(a) \o Picked(c, NewPlaces(c, FirstOfEach(a)))
<1> DEFINE ac == a \o c
           n == Len(a)
           P == FirstPlaces(a)
           N == NewPlaces(c, FirstOfEach(a))
           Q == FirstPlaces(ac)
<1>1. /\ ac \in Seq(S) /\ Len(ac) = Len(a) + Len(c) /\ Len(a) \in Nat /\ Len(c) \in Nat
      /\ \A i \in 1 .. (Len(a) + Len(c)) : ac[i] = IF i <= Len(a) THEN a[i] ELSE c[i - Len(a)]
  BY ConcatProperties
<1>2. DOMAIN a = 1 .. n /\ DOMAIN c = 1 .. Len(c)
  OBVIOUS
<1> HIDE DEF ac
<1>3. DOMAIN ac = 1 .. (n + Len(c))
  BY <1>1
<1>4. \A i : i \in P <=> i \in 1 .. n /\ \A j \in 1 .. (i - 1) : a[j] # a[i]
  BY <1>2 DEF FirstPlaces
<1>5. \A i : i \in N <=> i \in 1 .. Len(c) /\ c[i] \notin Range(a)
  <2>1. Range(FirstOfEach(a)) = Range(a)
    BY FirstRange
  <2> QED BY <1>2, <2>1 DEF NewPlaces
<1>6. \A i : i \in Q <=> i \in 1 .. (n + Len(c)) /\ \A j \in 1 .. (i - 1) : ac[j] # ac[i]
  BY <1>3 DEF FirstPlaces
<1>7. P \in SUBSET (1 .. n) /\ N \in SUBSET (1 .. Len(c))
  BY <1>4, <1>5
<1>8. FirstOfEach(a) = Picked(a, P) /\ FirstOfEach(ac) = Picked(ac, Q)
  BY DEF FirstOfEach, FirstPlaces
<1> HIDE DEF P, N, Q
<1>9. ASSUME NEW i \in 1 .. n PROVE i \in Q <=> i \in P
  <2>1. \A j \in 1 .. i : j \in 1 .. (n + Len(c)) /\ j <= n /\ ac[j] = a[j]
    BY <1>1
  <2>2. i \in 1 .. i /\ (\A j \in 1 .. (i - 1) : j \in 1 .. i) /\ i \in 1 .. (n + Len(c))
    BY <1>1
  <2> QED BY <1>4, <1>6, <2>1, <2>2
<1>10. ASSUME NEW i \in 1 .. Len(c) PROVE n + i \in Q <=> i \in N
  <2>1. n + i \in 1 .. (n + Len(c)) /\ ac[n + i] = c[i]
    <3>1. n + i \in 1 .. (n + Len(c)) /\ ~(n + i <= n) /\ n + i - n = i
      BY <1>1
    <3> QED BY <1>1, <3>1
  <2>2. ASSUME n + i \in Q PROVE c[i] \notin Range(a)
    <3> SUFFICES ASSUME NEW j \in 1 .. n, a[j] = c[i] PROVE FALSE
      BY <1>2 DEF Range
    <3>1. j \in 1 .. ((n + i) - 1) /\ ac[j] = a[j]
      BY <1>1
    <3> QED BY <1>6, <2>1, <2>2, <3>1
  <2>3. ASSUME c[i] \notin Range(a), NEW j \in 1 .. ((n + i) - 1) PROVE ac[j] # c[i]
    <3>1. CASE j <= n
      <4>1. j \in 1 .. n /\ ac[j] = a[j]
        BY <1>1, <3>1
      <4> QED BY <1>2, <2>3, <4>1 DEF Range
    <3>2. CASE ~(j <= n)
      <4>1. j - n \in 1 .. Len(c) /\ j - n # i /\ ac[j] = c[j - n]
        BY <1>1, <3>2
      <4> QED BY <1>2, <4>1
    <3> QED BY <3>1, <3>2
  <2> QED BY <1>5, <1>6, <2>1, <2>2, <2>3
<1>11. Q = P \cup PlacesAfter(n, N)
  <2>1. \A x : x \in PlacesAfter(n, N) <=> \E i \in N : x = n + i
    BY DEF PlacesAfter
  <2>2. ASSUME NEW x \in Q PROVE x \in P \/ \E i \in N : x = n + i
    <3>1. x \in 1 .. (n + Len(c))
      BY <1>6
    <3>2. CASE x <= n
      <4>1. x \in 1 .. n
        BY <1>1, <3>1, <3>2
      <4> QED BY <1>9, <4>1
    <3>3. CASE ~(x <= n)
      <4>1. PICK i \in 1 .. Len(c) : x = n + i
        <5>1. x - n \in 1 .. Len(c) /\ x = n + (x - n)
          BY <1>1, <3>1, <3>3
        <5> QED BY <5>1
      <4> QED BY <1>10, <4>1
    <3> QED BY <3>2, <3>3
  <2>3. ASSUME NEW x \in P PROVE x \in Q
    BY <1>7, <1>9
  <2>4. ASSUME NEW i \in N PROVE n + i \in Q
    BY <1>7, <1>10
  <2> QED BY <2>1, <2>2, <2>3, <2>4
<1>12. Picked(ac, P \cup PlacesAfter(n, N)) = Picked(a, P) \o Picked(c, N)
  <2>1. TwoParts(S, a, P, c, N)
    BY <1>7 DEF TwoParts
  <2>2. Picked(a \o c, JoinedPlaces(P, Len(a), N)) = Picked(a, P) \o Picked(c, N)
    BY <2>1, PickedJoin
  <2> QED BY <2>2 DEF ac, JoinedPlaces
<1> QED BY <1>8, <1>11, <1>12 DEF ac, N

(* What two sequences hold, one after the other. *)
LEMMA RangeJoin ==
  ASSUME NEW S, NEW a \in Seq(S), NEW c \in Seq(S)
  PROVE  Range(a \o c) = Range(a) \cup Range(c)
<1> DEFINE ac == a \o c
<1>1. /\ ac \in Seq(S) /\ Len(ac) = Len(a) + Len(c) /\ Len(a) \in Nat /\ Len(c) \in Nat
      /\ \A i \in 1 .. (Len(a) + Len(c)) : ac[i] = IF i <= Len(a) THEN a[i] ELSE c[i - Len(a)]
  BY ConcatProperties
<1>2. DOMAIN a = 1 .. Len(a) /\ DOMAIN c = 1 .. Len(c)
  OBVIOUS
<1> HIDE DEF ac
<1>3. DOMAIN ac = 1 .. (Len(a) + Len(c))
  BY <1>1
<1>4. ASSUME NEW i \in DOMAIN ac PROVE ac[i] \in Range(a) \/ ac[i] \in Range(c)
  <2>1. CASE i <= Len(a)
    <3>1. i \in DOMAIN a /\ ac[i] = a[i]
      BY <1>1, <1>2, <1>3, <2>1
    <3> QED BY <3>1 DEF Range
  <2>2. CASE ~(i <= Len(a))
    <3>1. i - Len(a) \in DOMAIN c /\ ac[i] = c[i - Len(a)]
      BY <1>1, <1>2, <1>3, <2>2
    <3> QED BY <3>1 DEF Range
  <2> QED BY <2>1, <2>2
<1>5. ASSUME NEW i \in DOMAIN a PROVE a[i] \in Range(ac)
  <2>1. i \in DOMAIN ac /\ ac[i] = a[i]
    BY <1>1, <1>2, <1>3
  <2> QED BY <2>1 DEF Range
<1>6. ASSUME NEW i \in DOMAIN c PROVE c[i] \in Range(ac)
  <2>1. Len(a) + i \in DOMAIN ac /\ ac[Len(a) + i] = c[i]
    <3>1. Len(a) + i \in 1 .. (Len(a) + Len(c)) /\ ~(Len(a) + i <= Len(a)) /\ Len(a) + i - Len(a) = i
      BY <1>1, <1>2
    <3> QED BY <1>1, <1>3, <3>1
  <2> QED BY <2>1 DEF Range
<1>7. \A x : (x \in Range(ac) <=> \E i \in DOMAIN ac : ac[i] = x) /\ (x \in Range(a) <=> \E i \in DOMAIN a : a[i] = x)
             /\ (x \in Range(c) <=> \E i \in DOMAIN c : c[i] = x)
  BY DEF Range
<1>8. ASSUME NEW x PROVE x \in Range(ac) <=> x \in Range(a) \/ x \in Range(c)
  BY <1>4, <1>5, <1>6, <1>7, Zenon
<1>9. Range(ac) = Range(a) \cup Range(c)
  BY <1>8, Zenon
<1> QED BY <1>9 DEF ac

\* Where a keyword starts in a text, and the index of all that are in it.
StartSet(d, t, kw) == {m[2] : m \in {n \in MatchesIn(d, t) : n[1] = kw}}
IndexIn(d, t) == [kw \in Range(KeywordsIn(d, t)) |-> Sorted(StartSet(d, t, kw))]
\* One rune's work on an index.
Indexed(a, c, e) ==
    [kw \in DOMAIN a \cup Range(c) |->
        (IF kw \in DOMAIN a THEN a[kw] ELSE Empty) \o (IF kw \in Range(c) THEN <<Span(kw, e)[2]>> ELSE Empty)]

(* The starts of a keyword, before the rune and with it. *)
LEMMA StartsGrow ==
  ASSUME NEW d \in SUBSET Seq(Nat), NEW t, NEW ch, NEW w, Longer(t, ch, w), NEW kw
  PROVE  /\ StartSet(d, t, kw) \in SUBSET Int /\ IsFiniteSet(StartSet(d, t, kw))
         /\ kw \notin EndingIn(d, w) => StartSet(d, w, kw) = StartSet(d, t, kw)
         /\ kw \in EndingIn(d, w) => Lists(Sorted(StartSet(d, t, kw)) \o <<Span(kw, Len(w))[2]>>, StartSet(d, w, kw), Numbers)
                                     /\ StrictOrder(Numbers, StartSet(d, w, kw)) /\ Lists(Sorted(StartSet(d, w, kw)), StartSet(d, w, kw), Numbers)
<1> DEFINE M == MatchesIn(d, t)
           W == MatchesIn(d, w)
           E == EndingIn(d, w)
           A == StartSet(d, t, kw)
           B == StartSet(d, w, kw)
           x == Span(kw, Len(w))[2]
<1>1. W = M \cup SpanSet(E, Len(w))
  BY MatchesGrow
<1>2. \A m \in M : m \in Spans /\ m[3] < Len(w) /\ m[2] + Len(m[1]) = m[3] /\ m[1] \in d
  BY MatchesGrow
<1>3. Len(w) \in Nat
  BY MatchesGrow
<1>4. \A m : m \in SpanSet(E, Len(w)) <=> \E k \in E : m = Span(k, Len(w))
  BY DEF SpanSet
<1>5. \A k : Span(k, Len(w))[1] = k /\ Span(k, Len(w))[2] = Len(w) - Len(k)
  BY DEF Span
<1>6. \A y : y \in A <=> \E m \in M : m[1] = kw /\ y = m[2]
  BY DEF StartSet
<1>7. \A y : y \in B <=> \E m \in W : m[1] = kw /\ y = m[2]
  BY DEF StartSet
<1>8. \A k \in E : k \in Seq(Nat)
  BY DEF EndingIn
<1> HIDE DEF M, W, E, A, B
<1>9. ASSUME NEW y PROVE y \in B <=> y \in A \/ (kw \in E /\ y = x)
  <2>1. ASSUME y \in B PROVE y \in A \/ (kw \in E /\ y = x)
    <3>1. PICK m \in W : m[1] = kw /\ y = m[2]
      BY <1>7, <2>1
    <3>2. CASE m \in M
      BY <1>6, <3>1, <3>2
    <3>3. CASE m \notin M
      <4>1. PICK k \in E : m = Span(k, Len(w))
        BY <1>1, <1>4, <3>3
      <4>2. k = kw
        BY <1>5, <3>1, <4>1, Zenon
      <4> QED BY <3>1, <4>1, <4>2, Zenon
    <3> QED BY <3>2, <3>3
  <2>2. ASSUME y \in A PROVE y \in B
    BY <1>1, <1>6, <1>7, <2>2
  <2>3. ASSUME kw \in E, y = x PROVE y \in B
    <3>1. Span(kw, Len(w)) \in W
      BY <1>1, <1>4, <2>3
    <3> QED BY <1>5, <1>7, <2>3, <3>1, Zenon
  <2> QED BY <2>1, <2>2, <2>3
<1>10. ASSUME NEW y \in A PROVE y \in 0 .. Len(w) /\ (kw \in E => y < x)
  <2>1. PICK m \in M : m[1] = kw /\ y = m[2]
    BY <1>6
  <2>2. m \in Spans /\ m[3] < Len(w) /\ m[2] + Len(m[1]) = m[3]
    BY <1>2
  <2>3. m[2] \in Nat /\ m[3] \in Nat /\ m[1] \in Seq(Nat)
    BY <2>2 DEF Spans
  <2>4. Len(kw) \in Nat /\ y \in Nat /\ y + Len(kw) < Len(w)
    BY <2>1, <2>2, <2>3
  <2>5. x = Len(w) - Len(kw)
    BY <1>5
  <2> HIDE DEF x
  <2> QED BY ONLY <1>3, <2>4, <2>5
<1>11. A \in SUBSET Int /\ IsFiniteSet(A)
  <2>1. IsFiniteSet(0 .. Len(w))
    BY <1>3, FS_Interval
  <2>2. A \subseteq 0 .. Len(w)
    BY <1>10
  <2>3. IsFiniteSet(A)
    BY <2>1, <2>2, FS_Subset
  <2>4. A \in SUBSET Int
    BY <2>2
  <2> QED BY <2>3, <2>4
<1>12. ASSUME kw \notin E PROVE B = A
  BY <1>9, <1>12, Zenon
<1>13. ASSUME kw \in E
       PROVE  Lists(Sorted(A) \o <<x>>, B, Numbers) /\ StrictOrder(Numbers, B) /\ Lists(Sorted(B), B, Numbers)
  <2>1. x \in Int
    <3>1. x = Len(w) - Len(kw)
      BY <1>5
    <3>2. Len(kw) \in Nat
      BY <1>8, <1>13
    <3> QED BY <1>3, <3>1, <3>2
  <2> HIDE DEF x
  <2>2. Lists(Sorted(A), A, Numbers)
    BY <1>11, SortedLists
  <2>3. Lists(<<x>>, {x}, Numbers)
    BY ListsSmall
  <2>4. \A s \in A, u \in {x} : <<s, u>> \in Numbers
    BY <1>10, <1>11, <1>13, <2>1 DEF Numbers
  <2>5. Lists(Sorted(A) \o <<x>>, A \cup {x}, Numbers)
    BY <2>2, <2>3, <2>4, ListsJoin
  <2>6. B = A \cup {x}
    BY <1>9, <1>13, Zenon
  <2>7. B \in SUBSET Int
    BY <1>11, <2>1, <2>6
  <2>8. IsFiniteSet(B)
    BY <1>11, <2>6, FS_AddElement
  <2>9. StrictOrder(Numbers, B) /\ Lists(Sorted(B), B, Numbers)
    BY <2>7, <2>8, SortedLists
  <2> QED BY <2>5, <2>6, <2>9, Zenon
<1> QED BY <1>11, <1>12, <1>13 DEF A, B, E

(* Nothing, sorted. *)
LEMMA SortedNone ==
  Sorted({}) = Empty
<1>1. Lists(Sorted({}), {}, Numbers)
  <2>1. {} \in SUBSET Int /\ IsFiniteSet({})
    BY FS_EmptySet
  <2> QED BY <2>1, SortedLists
<1>2. Sorted({}) \in Seq({})
  BY <1>1 DEF Lists
<1>3. \A q \in Seq({}) : q = <<>>
  <2>1. ASSUME NEW q \in Seq({}) PROVE q = <<>>
    <3>1. Len(q) = 0
      <4> SUFFICES ASSUME Len(q) # 0 PROVE FALSE
        OBVIOUS
      <4>1. 1 \in DOMAIN q
        OBVIOUS
      <4> QED BY <4>1
    <3> QED BY <3>1, EmptySeq
  <2> QED BY <2>1
<1> QED BY <1>2, <1>3 DEF Empty

(* A rune adds its starts to the index. *)
LEMMA IndexGrow ==
  ASSUME NEW d \in SUBSET Seq(Nat), IsFiniteSet(d), NEW t, NEW ch, NEW w, Longer(t, ch, w),
         NEW c, Lists(c, EndingIn(d, w), Lengths)
  PROVE  IndexIn(d, w) = Indexed(IndexIn(d, t), c, Len(w))
<1> DEFINE E == EndingIn(d, w)
           K == KeywordsIn(d, t)
           old == InScanOrder(MatchesIn(d, t))
           a == IndexIn(d, t)
           g(kw) == (IF kw \in DOMAIN a THEN a[kw] ELSE Empty) \o (IF kw \in Range(c) THEN <<Span(kw, Len(w))[2]>> ELSE Empty)
<1>1. KeywordsIn(d, w) = K \o c /\ K \in Seq(Seq(Nat)) /\ c \in Seq(Seq(Nat)) /\ Range(c) = E
  <2>1. Range(c) = E
    BY DEF Lists
  <2> QED BY <2>1, KeywordsGrow
<1>2. Range(KeywordsIn(d, w)) = Range(K) \cup E
  BY <1>1, RangeJoin
<1>3. old \in Seq(Spans) /\ Range(old) = MatchesIn(d, t)
  BY OccurrencesGrow
<1>4. DOMAIN a = Range(K) /\ \A kw \in Range(K) : a[kw] = Sorted(StartSet(d, t, kw))
  BY DEF IndexIn
<1>5. ASSUME NEW kw, kw \notin Range(K) PROVE StartSet(d, t, kw) = {}
  <2> SUFFICES ASSUME NEW m \in MatchesIn(d, t), m[1] = kw PROVE FALSE
    BY DEF StartSet
  <2>1. PICK i \in DOMAIN old : old[i] = m
    BY <1>3 DEF Range
  <2>2. K[i] = kw /\ i \in DOMAIN K
    <3>1. Len(K) = Len(old) /\ \A j \in 1 .. Len(old) : K[j] = old[j][1]
      BY <1>3, KeywordsFacts DEF KeywordsIn
    <3>2. i \in 1 .. Len(old)
      BY <1>3, <2>1
    <3>3. K[i] = old[i][1]
      BY <3>1, <3>2
    <3>4. DOMAIN K = 1 .. Len(K)
      BY <1>1
    <3> QED BY <2>1, <3>1, <3>2, <3>3, <3>4
  <2> QED BY <1>5, <2>2 DEF Range
<1>6. Sorted({}) = Empty
  BY SortedNone
<1>7. ASSUME NEW kw PROVE (IF kw \in DOMAIN a THEN a[kw] ELSE Empty) = Sorted(StartSet(d, t, kw))
  <2>1. CASE kw \in Range(K)
    BY <1>4, <2>1, Zenon
  <2>2. CASE kw \notin Range(K)
    <3>1. StartSet(d, t, kw) = {}
      BY <1>5, <2>2
    <3> QED BY <1>4, <1>6, <2>2, <3>1, Zenon
  <2> QED BY <2>1, <2>2
<1> HIDE DEF a, old, K
<1>8. ASSUME NEW kw PROVE Sorted(StartSet(d, w, kw)) = g(kw)
  <2> DEFINE A == Sorted(StartSet(d, t, kw))
  <2>1. CASE kw \in E
    <3>1. Lists(A \o <<Span(kw, Len(w))[2]>>, StartSet(d, w, kw), Numbers)
          /\ StrictOrder(Numbers, StartSet(d, w, kw)) /\ Lists(Sorted(StartSet(d, w, kw)), StartSet(d, w, kw), Numbers)
      BY <2>1, StartsGrow
    <3>2. Sorted(StartSet(d, w, kw)) = A \o <<Span(kw, Len(w))[2]>>
      <4> DEFINE r == A \o <<Span(kw, Len(w))[2]>>
                 B == StartSet(d, w, kw)
      <4>1. Lists(r, B, Numbers) /\ StrictOrder(Numbers, B) /\ Lists(Sorted(B), B, Numbers)
        BY <3>1
      <4> HIDE DEF r, B
      <4>2. Sorted(B) = r
        BY <4>1, ListsUnique
      <4> QED BY <4>2 DEF r, B
    <3>3. (IF kw \in Range(c) THEN <<Span(kw, Len(w))[2]>> ELSE Empty) = <<Span(kw, Len(w))[2]>>
      BY <1>1, <2>1, Zenon
    <3> QED BY <1>7, <3>2, <3>3, Zenon
  <2>2. CASE kw \notin E
    <3>1. StartSet(d, w, kw) = StartSet(d, t, kw) /\ StartSet(d, t, kw) \in SUBSET Int /\ IsFiniteSet(StartSet(d, t, kw))
      BY <2>2, StartsGrow
    <3>2. (IF kw \in Range(c) THEN <<Span(kw, Len(w))[2]>> ELSE Empty) = Empty
      BY <1>1, <2>2, Zenon
    <3>3. A \in Seq(StartSet(d, t, kw))
      BY <3>1, SortedLists DEF Lists
    <3> HIDE DEF A
    <3>4. A \o Empty = A
      BY <3>3, ConcatEmptySeq DEF Empty
    <3>5. g(kw) = A \o Empty
      BY <1>7, <3>2, Zenon DEF A
    <3> QED BY <3>1, <3>4, <3>5 DEF A
  <2> QED BY <2>1, <2>2
<1>9. IndexIn(d, w) = [kw \in Range(K) \cup E |-> Sorted(StartSet(d, w, kw))]
  BY <1>2 DEF IndexIn
<1>10. Indexed(a, c, Len(w)) = [kw \in Range(K) \cup E |-> g(kw)]
  BY <1>1, <1>4 DEF Indexed
<1> HIDE DEF g
<1>11. IndexIn(d, w) = Indexed(a, c, Len(w))
  BY <1>8, <1>9, <1>10
<1> QED BY <1>11 DEF a

-----------------------------------------------------------------------------
(* Each query's step. *)

\* What a query has to answer for a text, and what holds of a match scan that goes on.
UpTo(l, q) == SubSeq(q, 1, IF l = 0 \/ l > Len(q) THEN Len(q) ELSE l)
AnswerOf(q, l, a, d, t) ==
    /\ q = "find" => a = KeywordsIn(d, t)
    /\ q = "findSet" => a = FirstOfEach(KeywordsIn(d, t))
    /\ q = "findIndex" => a = IndexIn(d, t)
    /\ q = "contains" => (a # Empty <=> InScanOrder(MatchesIn(d, t)) # Empty)
    /\ q \in {"matchString", "matchStream"} => a = UpTo(l, InScanOrder(MatchesIn(d, t)))
GoesOn(q, l, d, t) ==
    /\ q = "contains" => InScanOrder(MatchesIn(d, t)) = Empty
    /\ q \in {"matchString", "matchStream"} => l = 0 \/ Len(InScanOrder(MatchesIn(d, t))) < l
SeenCollected == \A s \in seenStates : s \in DOMAIN own /\ Range(Chain(s)) \subseteq Range(answer)

(* The invariant of a query in these words. *)
LEMMA AnswerMeaning ==
  AnswerInv <=> /\ phase \in {"scan", "done"} => AnswerOf(query, limit, answer, dict, text)
                /\ phase = "scan" => GoesOn(query, limit, dict, text) /\ (query = "findSet" => SeenCollected)
<1>1. Matches = MatchesIn(dict, text) /\ Occurrences = InScanOrder(MatchesIn(dict, text))
  BY DEF Matches, Occurrences, MatchesIn, InScanOrder, Spans
<1>2. Keywords(Occurrences) = KeywordsIn(dict, text)
  BY <1>1 DEF KeywordsIn
<1>3. [kw \in Range(Keywords(Occurrences)) |-> Sorted({m[2] : m \in {n \in Matches : n[1] = kw}})] = IndexIn(dict, text)
  BY <1>1, <1>2 DEF IndexIn, StartSet
<1>4. SubSeq(Occurrences, 1, IF limit = 0 \/ limit > Len(Occurrences) THEN Len(Occurrences) ELSE limit) = UpTo(limit, Occurrences)
  BY DEF UpTo
<1>5. AnswerRight <=> (phase \in {"scan", "done"} => AnswerOf(query, limit, answer, dict, text))
  BY <1>1, <1>2, <1>3, <1>4, Zenon DEF AnswerRight, AnswerOf
<1> QED BY <1>1, <1>5, Zenon DEF AnswerInv, GoesOn, SeenCollected

(* The same after a step. *)
LEMMA AnswerMade ==
  ASSUME phase' \in {"scan", "done"} => AnswerOf(query', limit', answer', dict', text'),
         phase' = "scan" => GoesOn(query', limit', dict', text') /\ (query' = "findSet" => SeenCollected')
  PROVE  AnswerInv'
<1>1. Matches' = MatchesIn(dict', text') /\ Occurrences' = InScanOrder(MatchesIn(dict', text'))
  BY DEF Matches, Occurrences, MatchesIn, InScanOrder, Spans
<1>2. Keywords(Occurrences)' = KeywordsIn(dict', text')
  BY <1>1 DEF KeywordsIn
<1>3. [kw \in Range(Keywords(Occurrences)) |-> Sorted({m[2] : m \in {n \in Matches : n[1] = kw}})]' = IndexIn(dict', text')
  BY <1>1, <1>2 DEF IndexIn, StartSet
<1>4. SubSeq(Occurrences, 1, IF limit = 0 \/ limit > Len(Occurrences) THEN Len(Occurrences) ELSE limit)' = UpTo(limit', Occurrences')
  BY DEF UpTo
<1>5. AnswerRight'
  BY <1>1, <1>2, <1>3, <1>4, Zenon DEF AnswerRight, AnswerOf
<1> QED BY <1>1, <1>5, Zenon DEF AnswerInv, GoesOn, SeenCollected

\* A step of a scan: it leads where it should, and leaves what was built alone.
ScanStep(ch, st) ==
    /\ Ongoing /\ AnswerInv /\ ch \in Nat /\ StepRight(st, Append(text, ch)) /\ Advance(ch, st)
    /\ UNCHANGED <<dict, query, limit, own, outLink>>

(* What the queries share. *)
LEMMA ScanStepFacts ==
  ASSUME NEW ch, NEW st, ScanStep(ch, st)
  PROVE  /\ dict \in SUBSET Seq(Nat) /\ IsFiniteSet(dict) /\ dict' = dict /\ query' = query /\ limit' = limit
         /\ Longer(text, ch, text') /\ text' \in Seq(Nat) /\ Lists(Output(st), EndingIn(dict, text'), Lengths)
         /\ (st[2] /\ HasOutput(st[1]) <=> EndingIn(dict, text') # {})
         /\ (st[2] => Output(st) = Chain(st[1])) /\ st[1] \in DOMAIN own
         /\ AnswerOf(query, limit, answer, dict, text) /\ GoesOn(query, limit, dict, text)
         /\ (query = "findSet" => SeenCollected) /\ limit \in Nat
<1> DEFINE w == Append(text, ch)
<1>1. Ongoing /\ AnswerInv /\ ch \in Nat /\ StepRight(st, w) /\ text' = w /\ dict' = dict /\ query' = query /\ limit' = limit
  BY DEF ScanStep, Advance
<1>2. TrieInv /\ phase = "scan" /\ text \in Seq(Nat) /\ BuildInv /\ OutDone /\ todo = {}
  BY <1>1, OngoingFacts
<1>3. dict \in SUBSET Seq(Nat) /\ IsFiniteSet(dict)
  BY <1>2, DictFacts
<1>4. w \in Seq(Nat) /\ Longer(text, ch, w)
  BY <1>1, <1>2, LastRune DEF Longer
<1>5. Ending(w) = EndingIn(dict, w)
  BY DEF Ending, EndingIn
<1> HIDE DEF w
<1>6. /\ Lists(Output(st), Ending(w), Lengths)
      /\ (st[2] /\ HasOutput(st[1]) <=> Ending(w) # {})
      /\ (st[2] => Output(st) = Chain(st[1]))
  BY <1>1, <1>4, StepOutput
<1>7. st[1] \in DOMAIN own
  <2>1. Longest(w) \in nodes
    BY <1>2, <1>4, LongestFacts
  <2>2. DOMAIN own = {StateOf(n) : n \in nodes}
    BY <1>1, <1>2 DEF Ongoing, OutInv
  <2>3. st[1] = StateOf(Longest(w))
    BY <1>1 DEF StepRight
  <2> QED BY <2>1, <2>2, <2>3
<1>8. AnswerOf(query, limit, answer, dict, text) /\ GoesOn(query, limit, dict, text) /\ (query = "findSet" => SeenCollected)
  BY <1>1, <1>2, AnswerMeaning
<1>9. limit \in Nat
  BY <1>1, <1>2 DEF Ongoing, ScanInv
<1> QED BY <1>1, <1>3, <1>4, <1>5, <1>6, <1>7, <1>8, <1>9, Zenon

(* What a step adds to the keywords and the matches. *)
LEMMA ScanGrow ==
  ASSUME NEW ch, NEW st, ScanStep(ch, st)
  PROVE  /\ KeywordsIn(dict, text') = KeywordsIn(dict, text) \o Output(st)
         /\ KeywordsIn(dict, text) \in Seq(Seq(Nat)) /\ Output(st) \in Seq(Seq(Nat)) /\ Range(Output(st)) = EndingIn(dict, text')
         /\ \A i, j \in DOMAIN Output(st) : i # j => Output(st)[i] # Output(st)[j]
         /\ InScanOrder(MatchesIn(dict, text')) = InScanOrder(MatchesIn(dict, text)) \o SpansOf(Output(st), Len(text'))
         /\ InScanOrder(MatchesIn(dict, text)) \in Seq(Spans) /\ SpansOf(Output(st), Len(text')) \in Seq(Spans)
         /\ Len(SpansOf(Output(st), Len(text'))) = Len(Output(st))
<1>1. PICK c, d, t, w : c = Output(st) /\ d = dict /\ t = text /\ w = text'
  OBVIOUS
<1>2. d \in SUBSET Seq(Nat) /\ IsFiniteSet(d) /\ Longer(t, ch, w) /\ Lists(c, EndingIn(d, w), Lengths)
  BY <1>1, ScanStepFacts
<1>3. /\ KeywordsIn(d, w) = KeywordsIn(d, t) \o c
      /\ KeywordsIn(d, t) \in Seq(Seq(Nat)) /\ c \in Seq(Seq(Nat)) /\ \A i, j \in DOMAIN c : i # j => c[i] # c[j]
  BY ONLY <1>2, KeywordsGrow
<1>4. /\ InScanOrder(MatchesIn(d, w)) = InScanOrder(MatchesIn(d, t)) \o SpansOf(c, Len(w))
      /\ InScanOrder(MatchesIn(d, t)) \in Seq(Spans) /\ Range(c) = EndingIn(d, w)
      /\ SpansOf(c, Len(w)) \in Seq(Spans) /\ Len(SpansOf(c, Len(w))) = Len(c)
  BY ONLY <1>2, OccurrencesGrow
<1> QED BY <1>1, <1>3, <1>4, Zenon

(* Find: one entry per occurrence. *)
LEMMA FindStep ==
  ASSUME NEW ch, NEW st, ScanStep(ch, st), query = "find", Collect(ch, st)
  PROVE  AnswerInv'
<1>1. /\ dict \in SUBSET Seq(Nat) /\ IsFiniteSet(dict) /\ dict' = dict /\ query' = "find"
      /\ Longer(text, ch, text') /\ Lists(Output(st), EndingIn(dict, text'), Lengths)
      /\ AnswerOf(query, limit, answer, dict, text)
  BY ScanStepFacts
<1>2. KeywordsIn(dict, text') = KeywordsIn(dict, text) \o Output(st)
  BY ScanGrow
<1>3. answer = KeywordsIn(dict, text) /\ answer' = answer \o Output(st)
  BY <1>1, Zenon DEF AnswerOf, Collect
<1>4. answer' = KeywordsIn(dict', text')
  BY <1>1, <1>2, <1>3
<1>5. AnswerOf(query', limit', answer', dict', text') /\ GoesOn(query', limit', dict', text')
  BY <1>1, <1>4 DEF AnswerOf, GoesOn
<1>6. query' # "findSet"
  BY <1>1
<1> QED BY <1>5, <1>6, AnswerMade

(* FindIndex: the starts of each keyword. *)
LEMMA FindIndexStep ==
  ASSUME NEW ch, NEW st, ScanStep(ch, st), query = "findIndex", Index(ch, st)
  PROVE  AnswerInv'
<1>1. /\ dict \in SUBSET Seq(Nat) /\ IsFiniteSet(dict) /\ dict' = dict /\ query' = "findIndex"
      /\ Longer(text, ch, text') /\ Lists(Output(st), EndingIn(dict, text'), Lengths)
      /\ AnswerOf(query, limit, answer, dict, text)
  BY ScanStepFacts
<1>2. IndexIn(dict, text') = Indexed(IndexIn(dict, text), Output(st), Len(text'))
  BY <1>1, IndexGrow
<1>3. answer = IndexIn(dict, text)
  BY <1>1, Zenon DEF AnswerOf
<1>4. answer' = Indexed(answer, Output(st), Len(text'))
  BY DEF Index, Indexed
<1>5. answer' = IndexIn(dict', text')
  BY <1>1, <1>2, <1>3, <1>4
<1>6. AnswerOf(query', limit', answer', dict', text') /\ GoesOn(query', limit', dict', text')
  BY <1>1, <1>5 DEF AnswerOf, GoesOn
<1>7. query' # "findSet"
  BY <1>1
<1> QED BY <1>6, <1>7, AnswerMade

(* Contains: it goes on as long as nothing is found. *)
LEMMA ContainsStep ==
  ASSUME NEW ch, NEW st, ScanStep(ch, st), query = "contains", Found(ch, st)
  PROVE  AnswerInv'
<1> DEFINE c == Output(st)
           s == SpansOf(c, Len(text'))
           old == InScanOrder(MatchesIn(dict, text))
           all == InScanOrder(MatchesIn(dict, text'))
           hit == st[2] /\ HasOutput(st[1])
<1>1. /\ dict' = dict /\ query' = "contains" /\ (hit <=> EndingIn(dict, text') # {}) /\ GoesOn(query, limit, dict, text)
  BY ScanStepFacts
<1>2. all = old \o s /\ old \in Seq(Spans) /\ s \in Seq(Spans) /\ Len(s) = Len(c) /\ Range(c) = EndingIn(dict, text') /\ c \in Seq(Seq(Nat))
  BY ScanGrow
<1>3. old = Empty
  BY <1>1 DEF GoesOn
<1>4. (hit /\ answer' = <<TRUE>> /\ phase' = "done") \/ (~hit /\ answer' = Empty)
  BY DEF Found
<1> HIDE DEF c, s, old, all, hit
<1>5. all = s
  <2>1. all = <<>> \o s /\ s \in Seq(Spans)
    BY <1>2, <1>3 DEF Empty
  <2> QED BY ONLY <2>1, ConcatEmptySeq
<1>6. hit <=> all # Empty
  <2>1. DOMAIN c = 1 .. Len(c) /\ Len(c) \in Nat
    BY <1>2
  <2>2. Range(c) # {} <=> DOMAIN c # {}
    BY DEF Range
  <2>3. DOMAIN c # {} <=> Len(c) # 0
    BY <2>1
  <2>4. Len(s) = 0 <=> s = <<>>
    BY <1>2, EmptySeq
  <2> QED BY <1>1, <1>2, <1>5, <2>2, <2>3, <2>4, Zenon DEF Empty
<1>7. answer' # Empty <=> all # Empty
  <2>1. <<TRUE>> # Empty
    BY DEF Empty
  <2> QED BY <1>4, <1>6, <2>1
<1>8. phase' = "scan" => all = Empty
  BY <1>4, <1>6
<1>9. AnswerOf(query', limit', answer', dict', text')
  BY <1>1, <1>7 DEF AnswerOf, all
<1>10. phase' = "scan" => GoesOn(query', limit', dict', text')
  BY <1>1, <1>8 DEF GoesOn, all
<1>11. query' # "findSet"
  BY <1>1
<1> QED BY <1>9, <1>10, <1>11, AnswerMade

(* MatchString and MatchStream: the matches up to the limit. *)
LEMMA EmitStep ==
  ASSUME NEW ch, NEW st, ScanStep(ch, st), query \in {"matchString", "matchStream"}, Emit(ch, st)
  PROVE  AnswerInv'
<1> DEFINE c == Output(st)
           s == SpansOf(c, Len(text'))
           old == InScanOrder(MatchesIn(dict, text))
           all == InScanOrder(MatchesIn(dict, text'))
<1>1. /\ dict' = dict /\ query' = query /\ limit' = limit /\ limit \in Nat
      /\ AnswerOf(query, limit, answer, dict, text) /\ GoesOn(query, limit, dict, text)
  BY ScanStepFacts
<1>2. all = old \o s /\ old \in Seq(Spans) /\ s \in Seq(Spans)
  BY ScanGrow
<1>3. answer = UpTo(limit, old) /\ (limit = 0 \/ Len(old) < limit)
  BY <1>1 DEF AnswerOf, GoesOn
<1>4. s = [i \in DOMAIN Output(st) |-> Span(Output(st)[i], Len(text'))]
  BY DEF SpansOf
<1>5. phase = "scan"
  BY OngoingFacts DEF ScanStep
<1>6. LET a == answer \o s
      IN  /\ answer' = IF limit # 0 /\ Len(a) >= limit THEN SubSeq(a, 1, limit) ELSE a
          /\ phase' = IF limit # 0 /\ Len(a) >= limit THEN "done" ELSE phase
  BY <1>4, Zenon DEF Emit
<1> HIDE DEF c, s, old, all
<1>7. old \in Seq(Spans) /\ Len(old) \in Nat
  BY <1>2
<1>8. answer = old
  <2>1. UpTo(limit, old) = SubSeq(old, 1, Len(old))
    <3>1. limit = 0 \/ limit > Len(old)
      BY <1>1, <1>3, <1>7
    <3> QED BY <3>1, Zenon DEF UpTo
  <2>2. SubSeq(old, 1, Len(old)) = old
    BY ONLY <1>7, SubSeqFull
  <2> QED BY <1>3, <2>1, <2>2
<1>9. all \in Seq(Spans) /\ Len(all) \in Nat
  <2>1. old \o s \in Seq(Spans)
    BY <1>2, ConcatProperties
  <2> QED BY <1>2, <2>1
<1>10. /\ answer' = IF limit # 0 /\ Len(all) >= limit THEN SubSeq(all, 1, limit) ELSE all
       /\ phase' = IF limit # 0 /\ Len(all) >= limit THEN "done" ELSE phase
  BY <1>2, <1>6, <1>8, Zenon
<1>11. answer' = UpTo(limit, all) /\ (phase' = "scan" => limit = 0 \/ Len(all) < limit)
  <2>1. CASE limit # 0 /\ Len(all) >= limit
    <3>1. ~(limit = 0 \/ limit > Len(all))
      BY <1>1, <1>9, <2>1
    <3>2. UpTo(limit, all) = SubSeq(all, 1, limit)
      BY <3>1, Zenon DEF UpTo
    <3>3. answer' = SubSeq(all, 1, limit) /\ phase' = "done"
      BY <1>10, <2>1, Zenon
    <3> QED BY <3>2, <3>3
  <2>2. CASE ~(limit # 0 /\ Len(all) >= limit)
    <3>1. limit = 0 \/ (limit > Len(all) /\ Len(all) < limit)
      BY <1>1, <1>9, <2>2
    <3>2. UpTo(limit, all) = SubSeq(all, 1, Len(all))
      BY <3>1, Zenon DEF UpTo
    <3>3. SubSeq(all, 1, Len(all)) = all
      BY ONLY <1>9, SubSeqFull
    <3>4. answer' = all
      BY <1>10, <2>2, Zenon
    <3> QED BY <3>1, <3>2, <3>3, <3>4
  <2> QED BY <2>1, <2>2
<1>12. AnswerOf(query', limit', answer', dict', text')
  BY <1>1, <1>11 DEF AnswerOf, all
<1>13. phase' = "scan" => GoesOn(query', limit', dict', text')
  BY <1>1, <1>11 DEF GoesOn, all
<1>14. query' # "findSet"
  BY <1>1
<1> QED BY <1>12, <1>13, <1>14, AnswerMade

(* FindSet: each keyword once, where it is first found. *)
LEMMA FindSetStep ==
  ASSUME NEW ch, NEW st, ScanStep(ch, st), query = "findSet", CollectSet(ch, st)
  PROVE  AnswerInv'
<1> DEFINE c == Output(st)
           K == KeywordsIn(dict, text)
           K2 == KeywordsIn(dict, text')
           N == NewPlaces(c, answer)
           fresh == st[2] /\ HasOutput(st[1]) /\ st[1] \notin seenStates
<1>1. /\ dict' = dict /\ query' = "findSet" /\ (st[2] /\ HasOutput(st[1]) <=> EndingIn(dict, text') # {})
      /\ (st[2] => c = Chain(st[1])) /\ st[1] \in DOMAIN own
      /\ AnswerOf(query, limit, answer, dict, text) /\ SeenCollected
  BY ScanStepFacts
<1>2. K2 = K \o c /\ K \in Seq(Seq(Nat)) /\ c \in Seq(Seq(Nat)) /\ Range(c) = EndingIn(dict, text')
      /\ \A i, j \in DOMAIN c : i # j => c[i] # c[j]
  BY ScanGrow
<1>3. answer = FirstOfEach(K)
  BY <1>1 DEF AnswerOf
<1>4. /\ seenStates' = IF fresh THEN seenStates \cup {st[1]} ELSE seenStates
      /\ answer' = IF fresh THEN answer \o Picked(c, N) ELSE answer
  BY Zenon DEF CollectSet, Unseen, NewPlaces
<1>5. DOMAIN own' = DOMAIN own /\ \A s : Chain(s)' = Chain(s)
  <2>1. own' = own /\ outLink' = outLink
    BY DEF ScanStep
  <2> QED BY <2>1 DEF Chain
<1>6. DOMAIN c = 1 .. Len(c) /\ Len(c) \in Nat
  BY <1>2
<1>7. \A i : i \in N <=> i \in DOMAIN c /\ c[i] \notin Range(answer)
  BY DEF NewPlaces
<1>8. \A x : x \in Range(c) <=> \E i \in DOMAIN c : c[i] = x
  BY DEF Range
<1>9. \A s \in seenStates : s \in DOMAIN own /\ Range(Chain(s)) \subseteq Range(answer)
  BY <1>1 DEF SeenCollected
<1> HIDE DEF c, K, K2, N, fresh
<1>10. FirstOfEach(K2) = answer \o Picked(c, N)
  <2>1. FirstOfEach(K \o c) = FirstOfEach(K) \o Picked(c, NewPlaces(c, FirstOfEach(K)))
    BY <1>2, FirstJoin
  <2> QED BY <1>2, <1>3, <2>1 DEF N
<1>11. Range(answer) = Range(K) /\ answer \in Seq(Seq(Nat)) /\ Range(FirstOfEach(K2)) = Range(K) \cup Range(c)
  <2>1. Range(FirstOfEach(K)) = Range(K) /\ FirstOfEach(K) \in Seq(Seq(Nat))
    BY <1>2, FirstRange
  <2>2. K \o c \in Seq(Seq(Nat))
    BY <1>2, ConcatProperties
  <2>3. K2 \in Seq(Seq(Nat))
    BY <1>2, <2>2
  <2>4. Range(FirstOfEach(K2)) = Range(K2)
    BY <2>3, FirstRange
  <2>5. Range(K \o c) = Range(K) \cup Range(c)
    BY <1>2, RangeJoin
  <2> QED BY <1>2, <1>3, <2>1, <2>4, <2>5
<1>12. ASSUME Range(c) \subseteq Range(answer) PROVE FirstOfEach(K2) = answer
  <2>1. N = {}
    BY <1>7, <1>8, <1>12
  <2>2. {} \in SUBSET (1 .. Len(c))
    OBVIOUS
  <2>3. Picked(c, {}) \in Seq(Seq(Nat)) /\ Len(Picked(c, {})) = Len(Sorted({}))
    BY <1>2, <2>2, PickedFacts
  <2>4. Len(Sorted({})) = 0
    BY SortedNone DEF Empty
  <2>5. Picked(c, {}) = <<>>
    BY <2>3, <2>4, EmptySeq
  <2>6. answer \o <<>> = answer
    BY <1>11, ConcatEmptySeq
  <2> QED BY <1>10, <2>1, <2>5, <2>6, Zenon
<1>13. answer' = FirstOfEach(K2) /\ SeenCollected'
  <2>1. CASE fresh
    <3>1. seenStates' = seenStates \cup {st[1]} /\ answer' = answer \o Picked(c, N)
      BY <1>4, <2>1, Zenon
    <3>2. answer' = FirstOfEach(K2)
      BY <1>10, <3>1, Zenon
    <3>3. Range(answer') = Range(answer) \cup Range(c)
      BY <1>11, <3>2
    <3>4. c = Chain(st[1])
      BY <1>1, <2>1 DEF fresh
    <3>5. ASSUME NEW s \in seenStates' PROVE s \in DOMAIN own /\ Range(Chain(s)) \subseteq Range(answer')
      <4>1. CASE s \in seenStates
        BY <1>9, <3>3, <4>1
      <4>2. CASE s = st[1]
        BY <1>1, <3>3, <3>4, <4>2
      <4> QED BY <3>1, <4>1, <4>2
    <3>6. SeenCollected'
      BY <1>5, <3>5, Zenon DEF SeenCollected
    <3> QED BY <3>2, <3>6
  <2>2. CASE ~fresh
    <3>1. seenStates' = seenStates /\ answer' = answer
      BY <1>4, <2>2, Zenon
    <3>2. Range(c) \subseteq Range(answer)
      <4>1. CASE ~(st[2] /\ HasOutput(st[1]))
        BY <1>1, <1>2, <4>1
      <4>2. CASE st[2] /\ st[1] \in seenStates
        BY <1>1, <1>9, <4>2
      <4> QED BY <2>2, <4>1, <4>2 DEF fresh
    <3>3. answer' = FirstOfEach(K2)
      BY <1>12, <3>1, <3>2
    <3>4. ASSUME NEW s \in seenStates' PROVE s \in DOMAIN own /\ Range(Chain(s)) \subseteq Range(answer')
      BY <1>9, <3>1
    <3>5. SeenCollected'
      BY <1>5, <3>4, Zenon DEF SeenCollected
    <3> QED BY <3>3, <3>5
  <2> QED BY <2>1, <2>2
<1>14. AnswerOf(query', limit', answer', dict', text') /\ GoesOn(query', limit', dict', text')
  BY <1>1, <1>13 DEF AnswerOf, GoesOn, K2
<1> QED BY <1>13, <1>14, AnswerMade

(* Before the first rune there is nothing to answer. *)
LEMMA NothingYet ==
  ASSUME NEW d \in SUBSET Seq(Nat), IsFiniteSet(d), NEW l \in Nat, NEW q
  PROVE  AnswerOf(q, l, Empty, d, Empty) /\ GoesOn(q, l, d, Empty)
<1> DEFINE M == MatchesIn(d, Empty)
           all == InScanOrder(M)
           K == KeywordsIn(d, Empty)
<1>1. Empty \in Seq(Nat) /\ Len(Empty) = 0 /\ DOMAIN Empty = {}
  BY DEF Empty
<1>2. \A S : \A s \in Seq(S) : Range(s) = {} => s = Empty
  <2>1. ASSUME NEW S, NEW s \in Seq(S), Range(s) = {} PROVE s = <<>>
    <3>1. Len(s) = 0
      <4> SUFFICES ASSUME Len(s) # 0 PROVE FALSE
        OBVIOUS
      <4>1. 1 \in DOMAIN s
        OBVIOUS
      <4> QED BY <2>1, <4>1 DEF Range
    <3> QED BY <3>1, EmptySeq
  <2> QED BY <2>1 DEF Empty
<1>3. M = {}
  <2>1. \A m : m \in M <=> \E kw \in d \ {Empty}, e \in 1 .. Len(Empty) : m = Span(kw, e) /\ EndsAt(kw, e, Empty)
    BY <1>1, MatchMeaning
  <2>2. 1 .. Len(Empty) = {}
    BY <1>1
  <2>3. \A m : m \notin M
    BY <2>1, <2>2, Zenon
  <2> HIDE DEF M
  <2> QED BY <2>3
<1>4. all \in Seq(M) /\ Range(all) = M
  BY <1>1, OccurrencesListed DEF Lists
<1> HIDE DEF M
<1>5. all = Empty
  BY <1>2, <1>3, <1>4
<1>6. K = Empty
  <2>1. Empty \in Seq(Spans)
    BY DEF Empty
  <2>2. Keywords(Empty) \in Seq(Seq(Nat)) /\ Len(Keywords(Empty)) = Len(Empty)
    BY <2>1, KeywordsFacts
  <2>3. Keywords(Empty) = <<>>
    BY <1>1, <2>2, EmptySeq
  <2> QED BY <1>5, <2>3 DEF KeywordsIn, Empty, all, M
<1> HIDE DEF all, K
<1>7. FirstOfEach(K) = Empty
  <2>1. K \in Seq(Seq(Nat)) /\ Range(K) = {}
    BY <1>6 DEF Empty, Range
  <2>2. Range(FirstOfEach(K)) = Range(K) /\ FirstOfEach(K) \in Seq(Seq(Nat))
    BY <2>1, FirstRange
  <2> QED BY <1>2, <2>1, <2>2
<1>8. IndexIn(d, Empty) = Empty
  <2>1. Range(K) = {}
    BY <1>6 DEF Empty, Range
  <2>2. IndexIn(d, Empty) = [kw \in {} |-> Sorted(StartSet(d, Empty, kw))]
    BY <2>1 DEF IndexIn, K
  <2>3. [kw \in {} |-> Sorted(StartSet(d, Empty, kw))] = <<>>
    OBVIOUS
  <2> QED BY <2>2, <2>3 DEF Empty
<1>9. UpTo(l, all) = Empty
  <2>1. l = 0 \/ l > Len(all)
    BY <1>1, <1>5
  <2>2. UpTo(l, all) = SubSeq(all, 1, Len(all))
    BY <2>1, Zenon DEF UpTo
  <2>3. SubSeq(all, 1, Len(all)) = all
    BY <1>1, <1>5, SubSeqFull
  <2> QED BY <1>5, <2>2, <2>3
<1>10. l = 0 \/ Len(all) < l
  BY <1>1, <1>5
<1> QED BY <1>5, <1>6, <1>7, <1>8, <1>9, <1>10, Zenon DEF AnswerOf, GoesOn, all, K, M

-----------------------------------------------------------------------------
(* The invariant of a query, action by action. *)

(* Nothing is asked while the engine is built. *)
LEMMA NotAsked ==
  ASSUME ScanInv, phase \notin {"scan", "done"}, phase' \notin {"scan", "done"}, UNCHANGED queryVars,
         preset' = "memory" /\ phase' = "ready" => FirstRunes' \subseteq bloom'
  PROVE  ScanInv' /\ AnswerInv'
<1>1. text = Empty /\ answer = Empty /\ seenStates = {}
  BY DEF ScanInv
<1>2. text' = Empty /\ answer' = Empty /\ seenStates' = {}
  BY <1>1 DEF queryVars
<1>3. ScanInv'
  BY <1>2 DEF ScanInv
<1>4. AnswerInv'
  BY AnswerMade
<1> QED BY <1>3, <1>4

(* The rows and the outputs stay when the links do. *)
LEMMA LinkedKept ==
  ASSUME BuildInv, OutInv, phase \notin {"insert", "place"}, phase' \notin {"insert", "place"},
         phase = "link" => preset # "balanced" \/ queue = Empty, phase' = "link" => preset # "balanced" \/ queue = Empty,
         UNCHANGED <<trieVars, queue, linkVars, datVars>>
  PROVE  OutInv'
<1>1. preset' = preset /\ queue' = queue /\ UNCHANGED <<trieVars, datVars, own, outLink>>
  BY DEF trieVars, linkVars
<1>2. NodeQueue' = NodeQueue
  <2>1. CASE preset # "balanced"
    BY <1>1, <2>1 DEF NodeQueue
  <2>2. CASE queue = Empty
    <3>1. DOMAIN queue = {}
      BY <2>2 DEF Empty
    <3>2. [i \in DOMAIN queue |-> NodeOf(queue[i])] = <<>>
      BY <3>1
    <3>3. [i \in DOMAIN queue' |-> NodeOf(queue[i])'] = <<>>
      BY <1>1, <3>1
    <3>4. NodeQueue = <<>>
      BY <2>2, <3>2 DEF NodeQueue, Empty
    <3>5. NodeQueue' = <<>>
      BY <1>1, <2>2, <3>3 DEF NodeQueue, Empty
    <3> QED BY <3>4, <3>5
  <2>3. CASE phase # "link" /\ phase' # "link"
    BY <1>1, <2>3 DEF NodeQueue
  <2> QED BY <2>1, <2>2, <2>3
<1> QED BY <1>1, <1>2, OutKept

(* A built engine serves without a change. *)
LEMMA ServingKept ==
  ASSUME BuildInv, OutInv, OrderInv, RowInv, phase \in {"ready", "scan", "done"}, phase' \in {"ready", "scan", "done"},
         UNCHANGED <<trieVars, queue, order, linkVars, dfa, datVars>>
  PROVE  OutInv' /\ OrderInv' /\ RowInv'
<1>1. preset' = preset /\ nodes' = nodes /\ dfa' = dfa /\ UNCHANGED <<trieVars, queue, linkVars, datVars>> /\ UNCHANGED <<trieVars, datVars, linkVars, dfa>>
  BY DEF trieVars
<1>2. OutInv'
  BY <1>1, LinkedKept
<1>3. OrderInv'
  BY <1>1 DEF OrderInv
<1>4. RowInv'
  <2>1. CASE preset = "memory"
    BY <1>1, <2>1 DEF RowInv
  <2>2. CASE preset # "memory"
    BY <1>1, <2>2, RowsKept
  <2> QED BY <2>1, <2>2
<1> QED BY <1>2, <1>3, <1>4

(* Where a query starts. *)
LEMMA AskStep ==
  ASSUME BuildInv, OutInv, OrderInv, RowInv, ScanInv, NEW q \in Queries, NEW n \in Limits, Ask(q, n)
  PROVE  OutInv' /\ OrderInv' /\ RowInv' /\ ScanInv' /\ AnswerInv'
<1>1. /\ phase = "ready" /\ phase' = "scan" /\ query' = q /\ limit' = n /\ text' = text /\ answer' = answer /\ seenStates' = seenStates
      /\ UNCHANGED <<trieVars, queue, order, linkVars, dfa, datVars>> /\ bloom' = bloom
      /\ state' = IF preset = "balanced" THEN DatRoot ELSE Root
  BY DEF Ask
<1>2. OutInv' /\ OrderInv' /\ RowInv'
  BY <1>1, ServingKept
<1>3. text = Empty /\ answer = Empty /\ seenStates = {} /\ (preset = "memory" => FirstRunes \subseteq bloom)
  BY <1>1 DEF ScanInv
<1>4. TrieInv /\ SlotInv /\ Root \in nodes /\ dict \in SUBSET Seq(Nat) /\ IsFiniteSet(dict)
  BY NodeFacts, DictFacts DEF BuildInv
<1>5. n \in Nat
  BY EngineConstants
<1>6. dict' = dict /\ nodes' = nodes /\ preset' = preset /\ datPos' = datPos
  BY <1>1 DEF trieVars, datVars
<1>7. text' = Root /\ Root \in Seq(Nat)
  BY <1>1, <1>3 DEF Root, Empty
<1>8. Longest(text)' = Root
  <2>1. Longest(Root) = Root
    BY <1>4, <1>7, LongestFacts
  <2>2. Longest(text)' = Longest(Root)
    BY <1>6, <1>7 DEF Longest
  <2> QED BY <2>1, <2>2
<1>9. preset = "balanced" => datPos[Root] = DatRoot
  <2> SUFFICES ASSUME preset = "balanced" PROVE datPos[Root] = DatRoot
    OBVIOUS
  <2>1. Root \in Placed
    BY <1>1, <1>4 DEF Placed
  <2> QED BY <1>1, <1>4, <2>1 DEF SlotInv
<1>10. StateOf(Longest(text))' = state'
  BY <1>1, <1>6, <1>8, <1>9 DEF StateOf
<1>11. FirstRunes' = FirstRunes
  BY <1>6 DEF FirstRunes
<1>12. ScanInv'
  BY <1>1, <1>3, <1>5, <1>6, <1>7, <1>10, <1>11 DEF ScanInv
<1>13. AnswerOf(q, n, Empty, dict, Empty) /\ GoesOn(q, n, dict, Empty)
  BY <1>4, <1>5, NothingYet
<1>14. AnswerOf(query', limit', answer', dict', text') /\ GoesOn(query', limit', dict', text')
  BY <1>1, <1>3, <1>6, <1>13
<1>15. SeenCollected'
  BY <1>1, <1>3 DEF SeenCollected
<1>16. AnswerInv'
  BY <1>14, <1>15, AnswerMade
<1> QED BY <1>2, <1>12, <1>16

(* A scan is a right step and one query's work on it. *)
LEMMA ScanKinds ==
  ASSUME Ongoing, NEW ch \in Nat, Scan(ch)
  PROVE  /\ UNCHANGED <<query, limit>>
         /\ \E st : /\ StepRight(st, Append(text, ch)) /\ Advance(ch, st)
                    /\ \/ query = "find" /\ Collect(ch, st)
                       \/ query = "findSet" /\ CollectSet(ch, st)
                       \/ query = "findIndex" /\ Index(ch, st)
                       \/ query = "contains" /\ Found(ch, st)
                       \/ query \in {"matchString", "matchStream"} /\ Emit(ch, st)
<1> DEFINE Does(st) == \/ query = "find" /\ Collect(ch, st)
                       \/ query = "findSet" /\ CollectSet(ch, st)
                       \/ query = "findIndex" /\ Index(ch, st)
                       \/ query = "contains" /\ Found(ch, st)
                       \/ query \in {"matchString", "matchStream"} /\ Emit(ch, st)
<1>1. \A p, q : Scanning(p, q) => preset = p /\ query = q /\ UNCHANGED <<query, limit>>
  BY DEF Scanning
<1>2. ASSUME NEW st, Does(st) PROVE Advance(ch, st)
  <2>1. CASE Collect(ch, st)
    BY <2>1, Zenon DEF Collect
  <2>2. CASE CollectSet(ch, st)
    BY <2>2, Zenon DEF CollectSet
  <2>3. CASE Index(ch, st)
    BY <2>3, Zenon DEF Index
  <2>4. CASE Emit(ch, st)
    BY <2>4, Zenon DEF Emit
  <2>5. CASE Found(ch, st)
    BY <2>5, Zenon DEF Found
  <2> QED BY <1>2, <2>1, <2>2, <2>3, <2>4, <2>5
<1>3. CASE MapFind(ch) \/ MapFindSet(ch) \/ MapFindIndex(ch) \/ MapContains(ch) \/ MapMatchString(ch) \/ MapMatchStream(ch)
  <2>1. preset = "memory" /\ UNCHANGED <<query, limit>> /\ Does(MapStep(ch))
    BY <1>1, <1>3 DEF MapFind, MapFindSet, MapFindIndex, MapContains, MapMatchString, MapMatchStream
  <2>2. StepRight(MapStep(ch), Append(text, ch))
    BY <2>1, MapStepRight
  <2> HIDE DEF Does
  <2>3. Advance(ch, MapStep(ch))
    BY <1>2, <2>1
  <2> QED BY <2>1, <2>2, <2>3, Zenon DEF Does
<1>4. CASE SpeedFind(ch) \/ SpeedFindSet(ch) \/ SpeedFindIndex(ch) \/ SpeedContains(ch) \/ SpeedMatchString(ch) \/ SpeedMatchStream(ch)
  <2>1. preset = "speed" /\ UNCHANGED <<query, limit>> /\ Does(SpeedStep(ch))
    BY <1>1, <1>4 DEF SpeedFind, SpeedFindSet, SpeedFindIndex, SpeedContains, SpeedMatchString, SpeedMatchStream
  <2>2. StepRight(SpeedStep(ch), Append(text, ch))
    BY <2>1, SpeedStepRight
  <2> HIDE DEF Does
  <2>3. Advance(ch, SpeedStep(ch))
    BY <1>2, <2>1
  <2> QED BY <2>1, <2>2, <2>3, Zenon DEF Does
<1>5. CASE BalancedFind(ch) \/ BalancedFindSet(ch) \/ BalancedFindIndex(ch) \/ BalancedContains(ch) \/ BalancedMatchString(ch) \/ BalancedMatchStream(ch)
  <2>1. preset = "balanced" /\ UNCHANGED <<query, limit>> /\ Does(BalancedStep(ch))
    BY <1>1, <1>5 DEF BalancedFind, BalancedFindSet, BalancedFindIndex, BalancedContains, BalancedMatchString, BalancedMatchStream
  <2>2. StepRight(BalancedStep(ch), Append(text, ch))
    BY <2>1, BalancedStepRight
  <2> HIDE DEF Does
  <2>3. Advance(ch, BalancedStep(ch))
    BY <1>2, <2>1
  <2> QED BY <2>1, <2>2, <2>3, Zenon DEF Does
<1> QED BY <1>3, <1>4, <1>5 DEF Scan

(* A rune keeps the cursor and the answer right. *)
LEMMA ScanningStep ==
  ASSUME BuildInv, OutInv, OrderInv, RowInv, ScanInv, AnswerInv, NEW ch \in TextRunes, Scan(ch)
  PROVE  OutInv' /\ OrderInv' /\ RowInv' /\ ScanInv' /\ AnswerInv'
<1>1. phase = "scan" /\ phase' \in {"scan", "done"} /\ UNCHANGED <<trieVars, queue, order, linkVars, dfa, bloom, datVars>>
  BY ScanFrame
<1>2. OutInv' /\ OrderInv' /\ RowInv'
  BY <1>1, ServingKept
<1>3. Ongoing /\ ch \in Nat
  BY <1>1, EngineConstants DEF Ongoing
<1>4. UNCHANGED <<query, limit>>
  BY <1>3, ScanKinds
<1>5. PICK st : /\ StepRight(st, Append(text, ch)) /\ Advance(ch, st)
                /\ \/ query = "find" /\ Collect(ch, st)
                   \/ query = "findSet" /\ CollectSet(ch, st)
                   \/ query = "findIndex" /\ Index(ch, st)
                   \/ query = "contains" /\ Found(ch, st)
                   \/ query \in {"matchString", "matchStream"} /\ Emit(ch, st)
  BY <1>3, ScanKinds
<1>6. dict' = dict /\ nodes' = nodes /\ preset' = preset /\ datPos' = datPos /\ own' = own /\ outLink' = outLink /\ bloom' = bloom
  BY <1>1 DEF trieVars, datVars, linkVars
<1>7. ScanStep(ch, st)
  BY <1>3, <1>4, <1>5, <1>6 DEF ScanStep
<1>8. AnswerInv'
  BY <1>5, <1>7, FindStep, FindSetStep, FindIndexStep, ContainsStep, EmitStep
<1>9. ScanInv'
  <2>1. text' \in Seq(Nat)
    BY <1>7, ScanStepFacts
  <2>2. text' = Append(text, ch) /\ state' = StateOf(Longest(Append(text, ch)))
    BY <1>5 DEF Advance, StepRight
  <2>3. Longest(text)' = Longest(Append(text, ch))
    BY <1>6, <2>2 DEF Longest
  <2>4. StateOf(Longest(text))' = StateOf(Longest(Append(text, ch)))
    BY <1>6, <2>3 DEF StateOf
  <2>5. FirstRunes' = FirstRunes
    BY <1>6 DEF FirstRunes
  <2>6. query' \in Queries /\ limit' \in Nat /\ (preset = "memory" => FirstRunes \subseteq bloom)
    BY <1>1, <1>4 DEF ScanInv
  <2> QED BY <1>1, <1>6, <2>1, <2>2, <2>4, <2>5, <2>6 DEF ScanInv
<1> QED BY <1>2, <1>8, <1>9

(* Nothing changes. *)
LEMMA StutterQuery ==
  ASSUME BuildInv, OutInv, OrderInv, RowInv, ScanInv, AnswerInv, UNCHANGED vars
  PROVE  OutInv' /\ OrderInv' /\ RowInv' /\ ScanInv' /\ AnswerInv'
<1>1. /\ preset' = preset /\ dict' = dict /\ nodes' = nodes /\ phase' = phase /\ queue' = queue /\ order' = order /\ dfa' = dfa
      /\ bloom' = bloom /\ datPos' = datPos /\ own' = own /\ outLink' = outLink /\ query' = query /\ limit' = limit /\ state' = state
      /\ text' = text /\ answer' = answer /\ seenStates' = seenStates
      /\ UNCHANGED <<trieVars, datVars, own, outLink>> /\ UNCHANGED <<trieVars, datVars, linkVars, dfa>>
  BY DEF vars, trieVars, linkVars, datVars, queryVars
<1>2. OutInv'
  <2>1. CASE phase \in {"insert", "place"}
    BY <1>1, <2>1 DEF OutInv
  <2>2. CASE phase \notin {"insert", "place"}
    <3>1. NodeQueue' = NodeQueue
      BY <1>1 DEF NodeQueue, NodeOf
    <3> QED BY <1>1, <2>2, <3>1, OutKept
  <2> QED BY <2>1, <2>2
<1>3. OrderInv'
  BY <1>1 DEF OrderInv, Waits
<1>4. RowInv'
  <2>1. CASE preset # "memory" /\ phase \in {"rows", "ready", "scan", "done"}
    BY <1>1, <2>1, RowsKept
  <2>2. CASE ~(preset # "memory" /\ phase \in {"rows", "ready", "scan", "done"})
    BY <1>1, <2>2 DEF RowInv
  <2> QED BY <2>1, <2>2
<1>5. ScanInv'
  <2>1. FirstRunes' = FirstRunes
    BY <1>1 DEF FirstRunes
  <2>2. StateOf(Longest(text))' = StateOf(Longest(text))
    BY <1>1 DEF StateOf, Longest
  <2> QED BY <1>1, <2>1, <2>2 DEF ScanInv
<1>6. AnswerInv'
  <2>1. /\ phase \in {"scan", "done"} => AnswerOf(query, limit, answer, dict, text)
        /\ phase = "scan" => GoesOn(query, limit, dict, text) /\ (query = "findSet" => SeenCollected)
    BY AnswerMeaning
  <2>2. SeenCollected' <=> SeenCollected
    <3>1. \A s : Chain(s)' = Chain(s)
      BY <1>1 DEF Chain
    <3> QED BY <1>1, <3>1 DEF SeenCollected
  <2>3. phase' \in {"scan", "done"} => AnswerOf(query', limit', answer', dict', text')
    BY <1>1, <2>1
  <2>4. phase' = "scan" => GoesOn(query', limit', dict', text') /\ (query' = "findSet" => SeenCollected')
    BY <1>1, <2>1, <2>2
  <2> QED BY <2>3, <2>4, AnswerMade
<1> QED BY <1>2, <1>3, <1>4, <1>5, <1>6

(* Building keeps the outputs, the rows and the order of the rows right. *)
LEMMA BuildingStep ==
  ASSUME BuildInv, OutInv, OrderInv, RowInv, ScanInv, Build
  PROVE  OutInv' /\ OrderInv' /\ RowInv' /\ ScanInv' /\ AnswerInv'
<1>1. TrieInv
  BY DEF BuildInv
<1>2. ASSUME NEW kw \in dict, InsertKeyword(kw) PROVE OutInv' /\ OrderInv' /\ RowInv' /\ ScanInv' /\ AnswerInv'
  <2>1. phase = "insert" /\ phase' = "insert" /\ order' = order /\ UNCHANGED queryVars
    BY <1>2 DEF InsertKeyword
  <2>2. OutInv' /\ RowInv'
    BY <2>1 DEF OutInv, RowInv
  <2>3. OrderInv'
    BY <2>1 DEF OrderInv
  <2>4. ScanInv' /\ AnswerInv'
    BY <2>1, NotAsked
  <2> QED BY <2>2, <2>3, <2>4
<1>3. CASE StartLinks
  <2>1. phase = "insert" /\ phase' = "link" /\ UNCHANGED queryVars
    BY <1>3 DEF StartLinks
  <2>2. RowInv'
    BY <2>1 DEF RowInv
  <2>3. ScanInv' /\ AnswerInv'
    BY <2>1, NotAsked
  <2> QED BY <1>3, <2>2, <2>3, OutSteps, FirstOrder
<1>4. CASE MapLink
  <2>1. phase = "link" /\ phase' = "link" /\ preset' = "memory" /\ UNCHANGED queryVars
    BY <1>4 DEF MapLink, LinkChildren, trieVars
  <2>2. RowInv' /\ OrderInv'
    BY <2>1 DEF RowInv, OrderInv
  <2>3. ScanInv' /\ AnswerInv'
    BY <2>1, NotAsked
  <2> QED BY <1>4, <2>2, <2>3, OutSteps
<1>5. CASE MapReady
  <2>1. /\ phase = "link" /\ phase' = "ready" /\ preset = "memory" /\ preset' = "memory" /\ dict' = dict /\ UNCHANGED queryVars
        /\ UNCHANGED <<trieVars, queue, linkVars, datVars>>
    BY <1>5 DEF MapReady, trieVars
  <2>2. RowInv' /\ OrderInv'
    BY <2>1 DEF RowInv, OrderInv
  <2>3. OutInv'
    BY <2>1, LinkedKept
  <2>4. FirstRunes \subseteq bloom'
    BY <1>5 DEF MapReady
  <2>5. FirstRunes' = FirstRunes
    BY <2>1 DEF FirstRunes
  <2>6. ScanInv' /\ AnswerInv'
    BY <2>1, <2>4, <2>5, NotAsked
  <2> QED BY <2>2, <2>3, <2>6
<1>6. CASE SpeedLink
  <2>1. phase = "link" /\ phase' = "link" /\ UNCHANGED queryVars
    BY <1>6 DEF SpeedLink, LinkChildren
  <2>2. RowInv'
    BY <2>1 DEF RowInv
  <2>3. ScanInv' /\ AnswerInv'
    BY <2>1, NotAsked
  <2> QED BY <1>6, <2>2, <2>3, OutSteps, ServedOrder
<1>7. CASE SpeedRootRow
  <2>1. phase = "link" /\ phase' = "rows" /\ preset = "speed" /\ UNCHANGED queryVars /\ UNCHANGED <<trieVars, queue, linkVars, datVars>>
    BY <1>7 DEF SpeedRootRow
  <2>2. OutInv'
    BY <2>1, LinkedKept
  <2>3. ScanInv' /\ AnswerInv'
    BY <2>1, NotAsked
  <2> QED BY <1>7, <2>2, <2>3, RowsOrder, RootRow
<1>8. CASE SpeedRow
  <2>1. phase = "rows" /\ phase' = "rows" /\ preset = "speed" /\ UNCHANGED queryVars /\ UNCHANGED <<trieVars, queue, linkVars, datVars>>
    BY <1>8 DEF SpeedRow
  <2>2. OutInv'
    BY <2>1, LinkedKept
  <2>3. ScanInv' /\ AnswerInv'
    BY <2>1, NotAsked
  <2> QED BY <1>8, <2>2, <2>3, RowsOrder, NextRow
<1>9. CASE SpeedReady
  <2>1. /\ phase = "rows" /\ phase' = "ready" /\ preset = "speed" /\ preset' = "speed" /\ UNCHANGED queryVars
        /\ UNCHANGED <<trieVars, queue, linkVars, datVars>> /\ UNCHANGED <<trieVars, datVars, linkVars, dfa>>
    BY <1>9 DEF SpeedReady, trieVars
  <2>2. OutInv'
    BY <2>1, LinkedKept
  <2>3. ScanInv' /\ AnswerInv'
    BY <2>1, NotAsked
  <2>4. RowInv'
    BY <2>1, RowsKept
  <2> QED BY <1>9, <2>2, <2>3, <2>4, RowsOrder
<1>10. CASE StartPlacing
  <2>1. phase = "insert" /\ phase' = "place" /\ preset' = "balanced" /\ UNCHANGED queryVars
    BY <1>10 DEF StartPlacing, trieVars
  <2>2. OutInv' /\ RowInv' /\ OrderInv'
    BY <2>1 DEF OutInv, RowInv, OrderInv
  <2>3. ScanInv' /\ AnswerInv'
    BY <2>1, NotAsked
  <2> QED BY <2>2, <2>3
<1>11. CASE Place
  <2>1. phase = "place" /\ phase' = "place" /\ preset' = "balanced" /\ UNCHANGED queryVars
    <3>1. phase = "place" /\ phase' = phase /\ preset' = preset /\ UNCHANGED queryVars
      BY <1>11, Zenon DEF Place, trieVars
    <3> QED BY <1>1, <3>1 DEF TrieInv
  <2>2. OutInv' /\ RowInv' /\ OrderInv'
    BY <2>1 DEF OutInv, RowInv, OrderInv
  <2>3. ScanInv' /\ AnswerInv'
    BY <2>1, NotAsked
  <2> QED BY <2>2, <2>3
<1>12. CASE DatRootLinks
  <2>1. phase = "place" /\ phase' = "link" /\ preset' = "balanced" /\ UNCHANGED queryVars
    BY <1>1, <1>12 DEF DatRootLinks, trieVars, TrieInv
  <2>2. RowInv' /\ OrderInv'
    BY <2>1 DEF RowInv, OrderInv
  <2>3. ScanInv' /\ AnswerInv'
    BY <2>1, NotAsked
  <2> QED BY <1>12, <2>2, <2>3, OutSteps
<1>13. CASE DatLink
  <2>1. phase = "link" /\ phase' = "link" /\ preset' = "balanced" /\ UNCHANGED queryVars
    BY <1>13 DEF DatLink, trieVars
  <2>2. RowInv' /\ OrderInv'
    BY <2>1 DEF RowInv, OrderInv
  <2>3. ScanInv' /\ AnswerInv'
    BY <2>1, NotAsked
  <2> QED BY <1>13, <2>2, <2>3, OutSteps
<1>14. CASE BuildBand
  <2>1. /\ phase = "link" /\ phase' = "ready" /\ preset = "balanced" /\ preset' = "balanced" /\ queue = Empty /\ UNCHANGED queryVars
        /\ UNCHANGED <<trieVars, queue, linkVars, datVars>>
    BY <1>14 DEF BuildBand, trieVars
  <2>2. OutInv'
    BY <2>1, LinkedKept
  <2>3. OrderInv'
    BY <2>1 DEF OrderInv
  <2>4. ScanInv' /\ AnswerInv'
    BY <2>1, NotAsked
  <2> QED BY <1>14, <2>2, <2>3, <2>4, BandRows
<1> QED BY <1>2, <1>3, <1>4, <1>5, <1>6, <1>7, <1>8, <1>9, <1>10, <1>11, <1>12, <1>13, <1>14 DEF Build

(* An engine that is built and asked stays right: its output chains list the
   keywords a state ends with, its DFA rows lead where the failure links would, and
   the cursor is the longest suffix of what was read that is a node
   (buildFromKeywords, buildDFABand, followFailByCode, step, appendChain). *)
THEOREM EngineInvariant == Spec => []EngineInv
<1>1. Init => EngineInv
  <2> SUFFICES ASSUME Init PROVE EngineInv
    OBVIOUS
  <2>1. BuildInv
    BY InitBuild
  <2>2. phase = "insert" /\ order = Empty /\ text = Empty /\ answer = Empty /\ seenStates = {}
    BY DEF Init
  <2>3. OutInv /\ OrderInv /\ RowInv /\ ScanInv
    BY <2>2 DEF OutInv, OrderInv, RowInv, ScanInv
  <2>4. AnswerInv
    BY <2>2, AnswerMeaning
  <2> QED BY <2>1, <2>3, <2>4 DEF EngineInv
<1>2. EngineInv /\ [Next]_vars => EngineInv'
  <2> SUFFICES ASSUME EngineInv, [Next]_vars PROVE EngineInv'
    OBVIOUS
  <2>1. BuildInv /\ OutInv /\ OrderInv /\ RowInv /\ ScanInv /\ AnswerInv
    BY DEF EngineInv
  <2>2. BuildInv'
    BY <2>1, BuildNext
  <2>3. CASE Build
    BY <2>1, <2>2, <2>3, BuildingStep DEF EngineInv
  <2>4. ASSUME NEW q \in Queries, NEW n \in Limits, Ask(q, n) PROVE EngineInv'
    BY <2>1, <2>2, <2>4, AskStep DEF EngineInv
  <2>5. ASSUME NEW ch \in TextRunes, Scan(ch) PROVE EngineInv'
    BY <2>1, <2>2, <2>5, ScanningStep DEF EngineInv
  <2>6. CASE UNCHANGED vars
    BY <2>1, <2>2, <2>6, StutterQuery DEF EngineInv
  <2> QED BY <2>3, <2>4, <2>5, <2>6 DEF Next
<1> QED BY <1>1, <1>2, PTL DEF Spec

(* After every rune each engine has collected what the naive search of the text so
   far finds, in scan order: Find one entry per occurrence, FindSet each keyword
   once, FindIndex the starts of each keyword, Contains whether there is any,
   MatchString and MatchStream the spans up to the caller's limit (find, findSet,
   findIndex, contains, matchString and matchStream of the three engines, and the
   chains of engine_output.go). *)
THEOREM Answers == Spec => []AnswerRight
<1>1. EngineInv => AnswerRight
  BY DEF EngineInv, AnswerInv
<1> QED BY <1>1, EngineInvariant, PTL
=============================================================================
