-------------------------- MODULE TextSearchProofs --------------------------
(***************************************************************************)
(* Proofs about TextSearch, for any dictionaries, texts, options and       *)
(* number of workers. The inductive invariant is SearchInv; after the      *)
(* facts about occurrences, keyword lengths and byte offsets there is one  *)
(* group of lemmas for each part of it.                                    *)
(***************************************************************************)
EXTENDS TextSearch, SearchOrderProofs, SequenceTheorems

(* The call does not change while it runs. *)
Call == shards \in Engines /\ text \in Texts /\ opts \in Scans \cup Splits
Occ == Occurrences(Normal(text))

-----------------------------------------------------------------------------
(* What the options are. *)
LEMMA ScanOptions ==
  ASSUME opts \in Scans
  PROVE  /\ opts.call \in {"scan", "replace", "mask", "findMatches"}
         /\ opts.longest \in BOOLEAN /\ opts.word \in BOOLEAN
         /\ opts.matches \in Nat /\ opts.candidates \in Nat /\ opts.input \in Nat
         /\ opts.output \in Nat /\ opts.size \in Nat
         /\ opts.call = "mask" => opts.size > 0
         /\ opts.call \in {"replace", "mask"} => opts.longest
         /\ opts \notin Splits
<1>1. opts \in ScanType
  BY SearchAssumption
<1>2. ASSUME opts \in Splits PROVE FALSE
  <2>1. opts \in SplitType
    BY <1>2, SearchAssumption
  <2>2. opts.call \in {"find", "index"} /\ opts.call \in {"scan", "replace", "mask", "findMatches"}
    BY <1>1, <2>1 DEF SplitType, ScanType
  <2> QED BY <2>2
<1> QED BY <1>1, <1>2, SearchAssumption DEF ScanType

(* What the options of a parallel call are. *)
LEMMA SplitOptions ==
  ASSUME opts \in Splits
  PROVE  /\ opts.call \in {"find", "index"} /\ opts.auto \in BOOLEAN
         /\ opts.chunk \in Nat \ {0} /\ opts.overlap \in Nat
         /\ opts \notin Scans
<1>1. opts \in SplitType
  BY SearchAssumption
<1>2. opts \notin Scans
  BY ScanOptions
<1> QED BY <1>1, <1>2 DEF SplitType

(* The text that is searched has a rune for each rune of the text. *)
LEMMA NormalType ==
  ASSUME NEW t \in Seq(Rune)
  PROVE  /\ Normal(t) \in Seq(Rune) /\ Len(Normal(t)) = Len(t) /\ DOMAIN Normal(t) = 1 .. Len(t)
         /\ \A i \in 1 .. Len(t) : Normal(t)[i] \in Rune
<1>1. \A i \in 1 .. Len(t) : t[i] \in Rune /\ Fold[t[i]] \in Rune
  BY SearchAssumption
<1>2. Normal(t) \in [1 .. Len(t) -> Rune]
  BY <1>1 DEF Normal
<1> QED BY <1>2

(* The text and the text that is searched. *)
LEMMA TextType ==
  ASSUME Call
  PROVE  /\ text \in Seq(Rune) /\ Len(text) \in Nat
         /\ Normal(text) \in Seq(Rune) /\ Len(Normal(text)) = Len(text)
BY NormalType, SearchAssumption DEF Call

-----------------------------------------------------------------------------
(* The keywords of a loaded engine. *)
LEMMA ShardType ==
  ASSUME Call
  PROVE  /\ shards \in Seq(SUBSET Seq(Rune)) /\ DOMAIN shards = 1 .. Len(shards) /\ Len(shards) \in Nat
         /\ \A i \in DOMAIN shards : shards[i] \subseteq Seq(Rune) /\ IsFiniteSet(shards[i])
         /\ \A i, j \in DOMAIN shards : i # j => shards[i] \cap shards[j] = {}
<1>1. /\ shards \in Seq(SUBSET Seq(Rune))
      /\ \A i \in DOMAIN shards : IsFiniteSet(shards[i])
      /\ \A i, j \in DOMAIN shards : i # j => shards[i] \cap shards[j] = {}
  BY SearchAssumption DEF Call
<1> QED BY <1>1

(* A keyword is in one of the shards. *)
LEMMA DictionaryMeaning ==
  ASSUME NEW kw
  PROVE  kw \in Dictionary <=> \E i \in DOMAIN shards : kw \in shards[i]
BY DEF Dictionary, Range

(* There are finitely many keywords. *)
LEMMA DictionaryFinite ==
  ASSUME Call
  PROVE  IsFiniteSet(Dictionary) /\ Dictionary \subseteq Seq(Rune)
<1> DEFINE n == Len(shards)
<1>1. n \in Nat /\ DOMAIN shards = 1 .. n
  BY ShardType
<1>2. IsFiniteSet(1 .. n)
  BY <1>1, FS_Interval
<1>3. shards \in Surjection(1 .. n, Range(shards))
  BY <1>1, ShardType DEF Surjection, Range
<1>4. IsFiniteSet(Range(shards))
  BY <1>2, <1>3, FS_Surjection
<1>5. \A D \in Range(shards) : IsFiniteSet(D) /\ D \subseteq Seq(Rune)
  BY ShardType DEF Range
<1>6. IsFiniteSet(UNION Range(shards))
  BY <1>4, <1>5, FS_UNION
<1> QED BY <1>5, <1>6 DEF Dictionary

(* MaxKeywordRunes bounds the length of every keyword. *)
LEMMA LongestType ==
  ASSUME Call
  PROVE  Longest \in Nat /\ \A kw \in Dictionary : Len(kw) <= Longest
<1> DEFINE L == {Len(kw) : kw \in Dictionary}
           lengths == {0} \cup {Len(kw) : kw \in UNION Range(shards)}
           f == [kw \in Dictionary |-> Len(kw)]
<1>1. f \in Surjection(Dictionary, L)
  BY DEF Surjection
<1>2. IsFiniteSet(L)
  <2> HIDE DEF L, f
  <2> QED BY <1>1, DictionaryFinite, FS_Surjection
<1>3. L \subseteq Nat
  BY DictionaryFinite
<1>4. lengths = L \cup {0}
  BY DEF Dictionary
<1>5. lengths \subseteq Nat /\ lengths # {} /\ IsFiniteSet(lengths)
  <2> HIDE DEF L, lengths
  <2> QED BY <1>2, <1>3, <1>4, FS_AddElement
<1>6. \E x \in lengths : \A y \in lengths : y <= x
  <2> HIDE DEF lengths
  <2> QED BY <1>5, FiniteGreatest
<1>7. Longest \in lengths /\ \A k \in lengths : k <= Longest
  <2>1. Longest = CHOOSE n \in lengths : \A k \in lengths : k <= n
    BY DEF Longest
  <2> HIDE DEF lengths
  <2> QED BY <1>6, <2>1
<1>8. \A kw \in Dictionary : Len(kw) \in lengths
  BY <1>4
<1> HIDE DEF lengths
<1> QED BY <1>5, <1>7, <1>8

-----------------------------------------------------------------------------
(* An occurrence is no longer than the longest keyword. *)
LEMMA OccurrenceType ==
  ASSUME Call, NEW t \in Seq(Rune), NEW m \in Occurrences(t)
  PROVE  /\ m \in Span /\ m = <<m[1], m[2]>> /\ m[1] \in Nat /\ m[2] \in Nat
         /\ m[1] < m[2] /\ m[2] <= Len(t) /\ m[2] - m[1] <= Longest
<1>1. /\ m \in (0 .. Len(t)) \X (0 .. Len(t)) /\ m[1] < m[2] /\ SubSeq(t, m[1] + 1, m[2]) \in Dictionary
  BY DEF Occurrences
<1>2. /\ m = <<m[1], m[2]>> /\ m[1] \in Nat /\ m[2] \in Nat /\ m[2] <= Len(t) /\ m \in Span
  BY <1>1 DEF Span
<1>3. Len(SubSeq(t, m[1] + 1, m[2])) = m[2] - m[1]
  <2>1. \A i \in (m[1] + 1) .. m[2] : t[i] \in Rune
    BY <1>2
  <2>2. Len(SubSeq(t, m[1] + 1, m[2])) = IF m[1] + 1 <= m[2] THEN m[2] - (m[1] + 1) + 1 ELSE 0
    BY <1>2, <2>1, SubSeqProperties
  <2> QED BY <1>1, <1>2, <2>2
<1>4. m[2] - m[1] <= Longest
  BY <1>1, <1>3, LongestType
<1> QED BY <1>1, <1>2, <1>4

(* A text has finitely many occurrences. *)
LEMMA OccurrencesFinite ==
  ASSUME Call, NEW t \in Seq(Rune)
  PROVE  IsFiniteSet(Occurrences(t))
<1> DEFINE I == 0 .. Len(t)
<1>1. IsFiniteSet(I)
  BY FS_Interval
<1>2. IsFiniteSet(I \X I)
  <2> HIDE DEF I
  <2> QED BY <1>1, FS_Product
<1>3. Occurrences(t) \in SUBSET (I \X I)
  BY DEF Occurrences
<1> HIDE DEF I
<1> QED BY <1>2, <1>3, FS_Subset

(* The output chains after e runes are the occurrences that end there, and *)
(* each is in the chain of one shard.                                      *)
LEMMA ChainMeaning ==
  ASSUME Call, NEW t \in Seq(Rune), NEW e \in 1 .. Len(t), NEW m
  PROVE  (\E i \in DOMAIN shards : m \in ChainAt(shards[i], t, e)) <=> m \in Occurrences(t) /\ m[2] = e
<1>1. ASSUME NEW i \in DOMAIN shards, m \in ChainAt(shards[i], t, e) PROVE m \in Occurrences(t) /\ m[2] = e
  <2>1. PICK s \in 0 .. (e - 1) : m = <<s, e>> /\ SubSeq(t, s + 1, e) \in shards[i]
    BY <1>1 DEF ChainAt
  <2>2. SubSeq(t, s + 1, e) \in Dictionary
    BY <2>1, DictionaryMeaning
  <2>3. s \in 0 .. Len(t) /\ e \in 0 .. Len(t) /\ s < e
    OBVIOUS
  <2> QED BY <2>1, <2>2, <2>3 DEF Occurrences
<1>2. ASSUME m \in Occurrences(t), m[2] = e PROVE \E i \in DOMAIN shards : m \in ChainAt(shards[i], t, e)
  <2>1. m = <<m[1], e>> /\ m[1] \in 0 .. (e - 1)
    BY <1>2, OccurrenceType
  <2>2. SubSeq(t, m[1] + 1, e) \in Dictionary
    BY <1>2 DEF Occurrences
  <2>3. PICK i \in DOMAIN shards : SubSeq(t, m[1] + 1, e) \in shards[i]
    BY <2>2, DictionaryMeaning
  <2>4. m \in ChainAt(shards[i], t, e)
    BY <2>1, <2>3 DEF ChainAt
  <2> QED BY <2>4
<1> QED BY <1>1, <1>2

(* A match is in the chain of one shard only: the dictionaries are disjoint. *)
LEMMA ChainsDisjoint ==
  ASSUME Call, NEW t, NEW e \in Nat, NEW i \in DOMAIN shards, NEW j \in DOMAIN shards,
         NEW m \in ChainAt(shards[i], t, e), m \in ChainAt(shards[j], t, e)
  PROVE  i = j
<1>1. PICK s \in 0 .. (e - 1) : m = <<s, e>> /\ SubSeq(t, s + 1, e) \in shards[i]
  BY DEF ChainAt
<1>2. PICK r \in 0 .. (e - 1) : m = <<r, e>> /\ SubSeq(t, r + 1, e) \in shards[j]
  BY DEF ChainAt
<1>3. s = r
  BY <1>1, <1>2
<1> QED BY <1>1, <1>2, <1>3, ShardType

(* What an output chain holds. *)
LEMMA ChainSpan ==
  ASSUME NEW D, NEW t, NEW e \in Nat
  PROVE  \A m \in ChainAt(D, t, e) : m \in Span /\ m = <<m[1], e>> /\ m[1] \in Nat /\ m[1] < e /\ m[2] = e
BY DEF ChainAt, Span

(* matchString of the composite reports the occurrences. *)
LEMMA MatchStringRight ==
  ASSUME Call, NEW t \in Seq(Rune)
  PROVE  MatchString(t) = Occurrences(t)
<1>1. ASSUME NEW m \in MatchString(t) PROVE m \in Occurrences(t)
  <2>1. PICK i \in DOMAIN shards, e \in DOMAIN t : m \in ChainAt(shards[i], t, e)
    BY <1>1 DEF MatchString
  <2>2. e \in 1 .. Len(t)
    OBVIOUS
  <2> QED BY <2>1, <2>2, ChainMeaning
<1>2. ASSUME NEW m \in Occurrences(t) PROVE m \in MatchString(t)
  <2>1. m[2] \in 1 .. Len(t) /\ m[2] \in DOMAIN t
    BY <1>2, OccurrenceType
  <2>2. \E i \in DOMAIN shards : m \in ChainAt(shards[i], t, m[2])
    BY <1>2, <2>1, ChainMeaning
  <2> QED BY <2>1, <2>2 DEF MatchString
<1> QED BY <1>1, <1>2

(* The matches that are asked for are occurrences. *)
LEMMA EligibleType ==
  ASSUME Call
  PROVE  /\ Eligible \subseteq Occ
         /\ \A m \in Occ : /\ m \in Span /\ m = <<m[1], m[2]>> /\ m[1] \in Nat /\ m[2] \in Nat
                           /\ m[1] < m[2] /\ m[2] <= Len(text) /\ m[2] - m[1] <= Longest
         /\ IsFiniteSet(Occ)
<1>1. Eligible \subseteq Occ
  BY DEF Eligible, Occ
<1>2. Len(Normal(text)) = Len(text) /\ Normal(text) \in Seq(Rune)
  BY TextType
<1> QED BY <1>1, <1>2, OccurrenceType, OccurrencesFinite DEF Occ

-----------------------------------------------------------------------------
USE DEF callVars, streamVars, resultVars, rewriteVars, chunkVars

(* What depends on the call alone stays the same in every step. *)
LEMMA CallFixed ==
  ASSUME UNCHANGED callVars
  PROVE  /\ (Call <=> Call') /\ Occ' = Occ /\ Eligible' = Eligible /\ Longest' = Longest
         /\ Normal(text)' = Normal(text)
         /\ \A a, b : Bytes(a, b)' = Bytes(a, b)
         /\ \A m : Piece(m)' = Piece(m)
         /\ \A S : Selection(S)' = Selection(S)
         /\ Chosen' = Chosen
<1>1. Call <=> Call'
  BY DEF Call
<1>2. Normal(text)' = Normal(text)
  BY DEF Normal
<1>3. Dictionary' = Dictionary /\ Longest' = Longest
  BY DEF Dictionary, Longest
<1>4. Occ' = Occ
  BY <1>2, <1>3 DEF Occ, Occurrences
<1>5. Eligible' = Eligible
  BY <1>2, <1>4 DEF Occ, Eligible
<1>6. \A a, b : Bytes(a, b)' = Bytes(a, b)
  BY DEF Bytes, Offsets
<1>7. \A m : Piece(m)' = Piece(m)
  BY DEF Piece
<1>8. \A S : Selection(S)' = Selection(S)
  BY <1>5 DEF Selection
<1>9. Chosen' = Chosen
  BY <1>5, <1>8 DEF Chosen
<1> QED BY <1>1, <1>2, <1>3, <1>4, <1>5, <1>6, <1>7, <1>8, <1>9

(* A step leaves the call alone. *)
LEMMA StepKeepsCall ==
  ASSUME [Next]_vars
  PROVE  UNCHANGED callVars
<1>1. CASE Scanning
  BY <1>1 DEF Scanning, StartScan, Flush, ReadRune, Emit, EmitDone, Drain, ScanEnds
<1>2. CASE Rewriting
  BY <1>2 DEF Rewriting, Measure, Measured, Write, Written
<1>3. CASE Matching
  BY <1>3 DEF Matching, StartMatches, KeepMatch, MatchesEnd
<1>4. CASE Splitting
  BY <1>4 DEF Splitting, StartSplit, SplitChunk, SplitAutoChunk, SplitAutoEnds, ChunkStarts, ChunkEnds,
              ChunkCanceled, Merge
<1>5. CASE UNCHANGED vars
  BY <1>5 DEF vars
<1> QED BY <1>1, <1>2, <1>3, <1>4, <1>5 DEF Next

(* The match that is emitted next is the longest of those that wait. *)
LEMMA NextMatch ==
  ASSUME Call, TypeOK, Waiting # {}
  PROVE  LET m == Longer(chain[NextShard])
         IN  /\ NextShard \in DOMAIN shards /\ m \in chain[NextShard]
             /\ \A j \in DOMAIN shards : \A n \in chain[j] : m[1] <= n[1]
<1>1. ASSUME NEW i \in Waiting
      PROVE  /\ Longer(chain[i]) \in chain[i] /\ \A n \in chain[i] : Longer(chain[i])[1] <= n[1]
             /\ Longer(chain[i])[1] \in Nat
  <2> DEFINE T == {m[1] : m \in chain[i]}
  <2>1. chain[i] \subseteq Span /\ chain[i] # {} /\ \A m \in chain[i] : m[1] \in Nat
    BY DEF TypeOK, Waiting, Span
  <2>2. T \subseteq Nat /\ T # {}
    BY <2>1
  <2>3. PICK x \in T : \A y \in T : x <= y
    <3> HIDE DEF T
    <3> QED BY <2>2, LeastNat
  <2>4. \E m \in chain[i] : \A n \in chain[i] : m[1] <= n[1]
    BY <2>3
  <2> HIDE DEF T
  <2> QED BY <2>1, <2>4 DEF Longer
<1> DEFINE First(i) == Longer(chain[i])[1]
           U == {First(i) : i \in Waiting}
<1>2. U \subseteq Nat /\ U # {}
  BY <1>1
<1>3. PICK x \in U : \A y \in U : x <= y
  <2> HIDE DEF U
  <2> QED BY <1>2, LeastNat
<1>4. \E i \in Waiting : \A j \in Waiting : First(i) <= First(j)
  <2> HIDE DEF First
  <2> QED BY <1>3
<1>5. NextShard \in Waiting /\ \A j \in Waiting : First(NextShard) <= First(j)
  <2>1. NextShard = CHOOSE i \in Waiting : \A j \in Waiting : First(i) <= First(j)
    BY DEF NextShard
  <2> HIDE DEF First
  <2> QED BY <1>4, <2>1
<1>6. NextShard \in DOMAIN shards
  BY <1>5 DEF Waiting
<1>7. ASSUME NEW j \in DOMAIN shards, NEW n \in chain[j] PROVE First(NextShard) <= n[1]
  <2>1. j \in Waiting
    BY DEF Waiting
  <2>2. n[1] \in Nat /\ First(j) <= n[1] /\ First(NextShard) <= First(j) /\ First(j) \in Nat /\ First(NextShard) \in Nat
    <3>1. chain[j] \subseteq Span
      BY DEF TypeOK
    <3> QED BY <1>1, <1>5, <2>1, <3>1 DEF Span
  <2> HIDE DEF First
  <2> QED BY <2>2
<1> QED BY <1>1, <1>5, <1>6, <1>7

(* The byte offsets of the runes of the text do not decrease. *)
LEMMA OffsetsRight ==
  ASSUME Call
  PROVE  /\ \A a \in 0 .. Len(text) : Offsets(text)[a] \in Int
         /\ \A a, b \in 0 .. Len(text) : a <= b => Offsets(text)[a] <= Offsets(text)[b]
<1> DEFINE w == [i \in DOMAIN text |-> Width[text[i]]]
<1>1. text \in Seq(Rune) /\ \A i \in 1 .. Len(text) : Width[text[i]] \in Nat
  BY TextType, SearchAssumption
<1>2. w \in [1 .. Len(text) -> Nat]
  BY <1>1
<1>3. w \in Seq(Nat) /\ Len(w) = Len(text) /\ \A i \in 1 .. Len(w) : w[i] \in Nat
  BY <1>1, <1>2
<1>4. Offsets(text) = Partial(w)
  BY DEF Offsets
<1> HIDE DEF w
<1>5. \A a, b \in 0 .. Len(w) : a <= b => Partial(w)[a] <= Partial(w)[b]
  BY <1>3, PartialNondecreasing
<1>6. Partial(w) \in [0 .. Len(w) -> Int]
  BY <1>3, PartialSums
<1> QED BY <1>3, <1>4, <1>5, <1>6

(* The bytes between two places add up. *)
LEMMA BytesRight ==
  ASSUME Call
  PROVE  /\ \A a, b \in 0 .. Len(text) : Bytes(a, b) \in Int
         /\ \A a, b \in 0 .. Len(text) : a <= b => Bytes(a, b) >= 0
         /\ \A a, b, c \in 0 .. Len(text) : Bytes(a, b) + Bytes(b, c) = Bytes(a, c)
         /\ \A a \in 0 .. Len(text) : Bytes(a, a) = 0
<1> DEFINE o == Offsets(text)
<1>1. \A a \in 0 .. Len(text) : o[a] \in Int
  BY OffsetsRight
<1>2. \A a, b \in 0 .. Len(text) : a <= b => o[a] <= o[b]
  BY OffsetsRight
<1>3. \A a, b : Bytes(a, b) = o[b] - o[a]
  BY DEF Bytes
<1> HIDE DEF o
<1> QED BY <1>1, <1>2, <1>3

-----------------------------------------------------------------------------
(* Sorting matches by end and start gives each once, in order. *)
LEMMA ScanOrderSorts ==
  ASSUME NEW S \in SUBSET Span, IsFiniteSet(S)
  PROVE  LET f == InOrder(S, ScanOrder)
         IN  /\ f \in Seq(S) /\ DOMAIN f = 1 .. Cardinality(S) /\ Range(f) = S /\ IsInjective(f)
<1> DEFINE R == {p \in S \X S : ScanOrder(p[1], p[2])}
           Rank(m) == Cardinality({n \in S : ScanOrder(n, m)})
           c == Cardinality(S)
           f == [i \in 1 .. c |-> CHOOSE m \in S : Rank(m) = i - 1]
<1>1. \A m, n \in S : <<m, n>> \in R <=> ScanOrder(m, n)
  OBVIOUS
<1>2. \A m \in S : m = <<m[1], m[2]>> /\ m[1] \in Nat /\ m[2] \in Nat
  BY DEF Span
<1>3. /\ \A m \in S : <<m, m>> \notin R
      /\ \A m, n \in S : m # n => <<m, n>> \in R \/ <<n, m>> \in R
      /\ \A k, m, n \in S : <<k, m>> \in R /\ <<m, n>> \in R => <<k, n>> \in R
  <2> HIDE DEF R
  <2> QED BY <1>1, <1>2 DEF ScanOrder
<1>4. c \in Nat
  BY FS_CardinalityType
<1>5. \A m \in S : Rank(m) = Cardinality({n \in S : <<n, m>> \in R})
  <2> TAKE m \in S
  <2>1. {n \in S : ScanOrder(n, m)} = {n \in S : <<n, m>> \in R}
    BY <1>1
  <2> QED BY <2>1
<1>6. /\ \A m \in S : Rank(m) \in 0 .. (c - 1)
      /\ \A i \in 1 .. c : \E m \in S : Rank(m) = i - 1
      /\ \A m, n \in S : Rank(m) = Rank(n) => m = n
  <2> DEFINE Rank2(m) == Cardinality({n \in S : <<n, m>> \in R})
  <2>1. /\ \A m \in S : Rank2(m) \in 0 .. (c - 1)
        /\ \A i \in 1 .. c : \E m \in S : Rank2(m) = i - 1
        /\ \A m, n \in S : Rank2(m) = Rank2(n) => m = n
    <3> HIDE DEF R
    <3> QED BY <1>3, Places
  <2>2. \A m \in S : Rank(m) = Rank2(m)
    BY <1>5
  <2> HIDE DEF Rank, Rank2
  <2> QED BY <2>1, <2>2
<1>7. InOrder(S, ScanOrder) = f
  BY DEF InOrder
<1> HIDE DEF Rank, R, c
<1>8. \A i \in 1 .. c : f[i] \in S /\ Rank(f[i]) = i - 1
  BY <1>6
<1>9. DOMAIN f = 1 .. c /\ f \in [1 .. c -> S]
  BY <1>8
<1> HIDE DEF f
<1>10. IsInjective(f)
  BY <1>4, <1>8, <1>9 DEF IsInjective
<1>11. ASSUME NEW m \in S PROVE m \in Range(f)
  <2>1. Rank(m) + 1 \in 1 .. c
    BY <1>4, <1>6
  <2>2. Rank(f[Rank(m) + 1]) = Rank(m) /\ f[Rank(m) + 1] \in S
    BY <1>4, <1>6, <1>8, <2>1
  <2> QED BY <1>6, <1>9, <2>1, <2>2 DEF Range
<1>12. Range(f) = S
  BY <1>9, <1>11 DEF Range
<1>13. f \in Seq(S)
  BY <1>4, <1>9
<1> QED BY <1>7, <1>9, <1>10, <1>12, <1>13 DEF c

(* So does sorting positions by chunk and place. *)
LEMMA EarlierSorts ==
  ASSUME NEW S \in SUBSET Span, IsFiniteSet(S)
  PROVE  LET f == InOrder(S, Earlier)
         IN  /\ f \in Seq(S) /\ DOMAIN f = 1 .. Cardinality(S) /\ Range(f) = S /\ IsInjective(f)
<1> DEFINE R == {p \in S \X S : Earlier(p[1], p[2])}
           Rank(m) == Cardinality({n \in S : Earlier(n, m)})
           c == Cardinality(S)
           f == [i \in 1 .. c |-> CHOOSE m \in S : Rank(m) = i - 1]
<1>1. \A m, n \in S : <<m, n>> \in R <=> Earlier(m, n)
  OBVIOUS
<1>2. \A m \in S : m = <<m[1], m[2]>> /\ m[1] \in Nat /\ m[2] \in Nat
  BY DEF Span
<1>3. /\ \A m \in S : <<m, m>> \notin R
      /\ \A m, n \in S : m # n => <<m, n>> \in R \/ <<n, m>> \in R
      /\ \A k, m, n \in S : <<k, m>> \in R /\ <<m, n>> \in R => <<k, n>> \in R
  <2> HIDE DEF R
  <2> QED BY <1>1, <1>2 DEF Earlier
<1>4. c \in Nat
  BY FS_CardinalityType
<1>5. \A m \in S : Rank(m) = Cardinality({n \in S : <<n, m>> \in R})
  <2> TAKE m \in S
  <2>1. {n \in S : Earlier(n, m)} = {n \in S : <<n, m>> \in R}
    BY <1>1
  <2> QED BY <2>1
<1>6. /\ \A m \in S : Rank(m) \in 0 .. (c - 1)
      /\ \A i \in 1 .. c : \E m \in S : Rank(m) = i - 1
      /\ \A m, n \in S : Rank(m) = Rank(n) => m = n
  <2> DEFINE Rank2(m) == Cardinality({n \in S : <<n, m>> \in R})
  <2>1. /\ \A m \in S : Rank2(m) \in 0 .. (c - 1)
        /\ \A i \in 1 .. c : \E m \in S : Rank2(m) = i - 1
        /\ \A m, n \in S : Rank2(m) = Rank2(n) => m = n
    <3> HIDE DEF R
    <3> QED BY <1>3, Places
  <2>2. \A m \in S : Rank(m) = Rank2(m)
    BY <1>5
  <2> HIDE DEF Rank, Rank2
  <2> QED BY <2>1, <2>2
<1>7. InOrder(S, Earlier) = f
  BY DEF InOrder
<1> HIDE DEF Rank, R, c
<1>8. \A i \in 1 .. c : f[i] \in S /\ Rank(f[i]) = i - 1
  BY <1>6
<1>9. DOMAIN f = 1 .. c /\ f \in [1 .. c -> S]
  BY <1>8
<1> HIDE DEF f
<1>10. IsInjective(f)
  BY <1>4, <1>8, <1>9 DEF IsInjective
<1>11. ASSUME NEW m \in S PROVE m \in Range(f)
  <2>1. Rank(m) + 1 \in 1 .. c
    BY <1>4, <1>6
  <2>2. Rank(f[Rank(m) + 1]) = Rank(m) /\ f[Rank(m) + 1] \in S
    BY <1>4, <1>6, <1>8, <2>1
  <2> QED BY <1>6, <1>9, <2>1, <2>2 DEF Range
<1>12. Range(f) = S
  BY <1>9, <1>11 DEF Range
<1>13. f \in Seq(S)
  BY <1>4, <1>9
<1> QED BY <1>7, <1>9, <1>10, <1>12, <1>13 DEF c

-----------------------------------------------------------------------------
(* FindMatches takes the first match that is left. *)
LEMMA EarliestRight ==
  ASSUME Call, rest \subseteq Eligible, rest # {}, opts \in Scans
  PROVE  /\ Earliest \in rest
         /\ opts.longest => \A n \in rest \ {Earliest} : LeftmostFirst(Earliest, n)
         /\ ~opts.longest => \A n \in rest \ {Earliest} : ScanOrder(Earliest, n)
<1>1. \A m \in rest : m = <<m[1], m[2]>> /\ m[1] \in Nat /\ m[2] \in Nat /\ m[2] <= Len(text)
  BY EligibleType
<1> DEFINE B(m, n) == IF opts.longest THEN LeftmostFirst(m, n) ELSE ScanOrder(m, n)
<1>2. \E m \in rest : \A n \in rest \ {m} : B(m, n)
  <2>1. CASE opts.longest
    <3> DEFINE T == {m[1] : m \in rest}
    <3>1. PICK x \in T : \A y \in T : x <= y
      <4>1. T \subseteq Nat /\ T # {}
        BY <1>1
      <4> HIDE DEF T
      <4> QED BY <4>1, LeastNat
    <3> DEFINE U == {m[2] : m \in {n \in rest : n[1] = x}}
    <3>2. PICK z \in U : \A y \in U : y <= z
      <4>1. U \subseteq Nat /\ U # {} /\ Len(text) \in Nat /\ \A y \in U : y <= Len(text)
        BY <1>1, <3>1, TextType
      <4> HIDE DEF U, T
      <4> QED BY <4>1, GreatestNat
    <3>3. PICK m \in rest : m[1] = x /\ m[2] = z
      BY <3>2
    <3>4. ASSUME NEW n \in rest, n # m PROVE LeftmostFirst(m, n)
      <4>1. x <= n[1]
        BY <3>1
      <4>2. n[1] = x => n[2] <= z
        BY <3>2
      <4> HIDE DEF T, U
      <4> QED BY <1>1, <3>3, <3>4, <4>1, <4>2 DEF LeftmostFirst
    <3> QED BY <2>1, <3>4
  <2>2. CASE ~opts.longest
    <3> DEFINE T == {m[2] : m \in rest}
    <3>1. PICK x \in T : \A y \in T : x <= y
      <4>1. T \subseteq Nat /\ T # {}
        BY <1>1
      <4> HIDE DEF T
      <4> QED BY <4>1, LeastNat
    <3> DEFINE U == {m[1] : m \in {n \in rest : n[2] = x}}
    <3>2. PICK z \in U : \A y \in U : z <= y
      <4>1. U \subseteq Nat /\ U # {}
        BY <1>1, <3>1
      <4> HIDE DEF U, T
      <4> QED BY <4>1, LeastNat
    <3>3. PICK m \in rest : m[2] = x /\ m[1] = z
      BY <3>2
    <3>4. ASSUME NEW n \in rest, n # m PROVE ScanOrder(m, n)
      <4>1. x <= n[2]
        BY <3>1
      <4>2. n[2] = x => z <= n[1]
        BY <3>2
      <4> HIDE DEF T, U
      <4> QED BY <1>1, <3>3, <3>4, <4>1, <4>2 DEF ScanOrder
    <3> QED BY <2>2, <3>4
  <2> QED BY <2>1, <2>2
<1>3. Earliest = CHOOSE m \in rest : \A n \in rest \ {m} : B(m, n)
  BY DEF Earliest
<1>4. Earliest \in rest /\ \A n \in rest \ {Earliest} : B(Earliest, n)
  <2> HIDE DEF B
  <2> QED BY <1>2, <1>3
<1> QED BY <1>4

(* The first pending start. *)
LEMMA NextStartRight ==
  ASSUME TypeOK, DOMAIN best # {}
  PROVE  NextStart \in DOMAIN best /\ NextStart \in Nat /\ \A s \in DOMAIN best : NextStart <= s
<1>1. DOMAIN best \subseteq Nat
  BY DEF TypeOK
<1>2. \E s \in DOMAIN best : \A r \in DOMAIN best : s <= r
  BY <1>1, LeastNat
<1> QED BY <1>1, <1>2 DEF NextStart

(* What a chunk reports: the occurrences in it that it owns. *)
LEMMA ScannedRight ==
  ASSUME Call, NEW c \in Nat \X Nat \X Nat, c[2] <= Len(text)
  PROVE  LET own == {m \in Occurrences(Normal(SubSeq(text, c[1] + 1, c[2]))) : m[1] < c[3]}
         IN  /\ Scanned(c) \in Seq(Span) /\ Range(Scanned(c)) = own /\ IsFiniteSet(DOMAIN Scanned(c))
             /\ DOMAIN Scanned(c) \subseteq 1 .. Cardinality((0 .. Len(text)) \X (0 .. Len(text)))
<1> DEFINE t == SubSeq(text, c[1] + 1, c[2])
           own == {m \in Occurrences(Normal(t)) : m[1] < c[3]}
           k == Cardinality(own)
<1>1. c[1] \in Nat /\ c[2] \in Nat /\ c[3] \in Nat
  OBVIOUS
<1>2. t \in Seq(Rune)
  <2>1. \A i \in (c[1] + 1) .. c[2] : text[i] \in Rune
    BY <1>1, TextType
  <2> QED BY <1>1, <2>1, SubSeqProperties
<1> HIDE DEF t
<1>3. Normal(t) \in Seq(Rune)
  BY <1>2, NormalType
<1>4. MatchString(Normal(t)) = Occurrences(Normal(t))
  BY <1>3, MatchStringRight
<1>5. own \in SUBSET Span
  BY <1>3, OccurrenceType
<1>6. IsFiniteSet(own)
  <2>1. own \in SUBSET Occurrences(Normal(t))
    OBVIOUS
  <2> HIDE DEF own
  <2> QED BY <1>3, <2>1, OccurrencesFinite, FS_Subset
<1>7. Scanned(c) = InOrder(own, ScanOrder)
  BY <1>4 DEF Scanned, t
<1> HIDE DEF own
<1>8. Scanned(c) \in Seq(own) /\ Range(Scanned(c)) = own /\ DOMAIN Scanned(c) = 1 .. k
  BY <1>5, <1>6, <1>7, ScanOrderSorts
<1>9. k \in Nat
  BY <1>6, FS_CardinalityType
<1> HIDE DEF k
<1>10. IsFiniteSet(1 .. k)
  BY <1>9, FS_Interval
<1>11. Scanned(c) \in Seq(Span)
  BY <1>5, <1>8, SeqMonotonic
<1>12. k <= Cardinality((0 .. Len(text)) \X (0 .. Len(text))) /\ Cardinality((0 .. Len(text)) \X (0 .. Len(text))) \in Nat
  <2>1. Len(t) \in Nat /\ Len(t) <= Len(text) /\ Len(text) \in Nat
    <3>1. Len(t) = IF c[1] + 1 <= c[2] THEN c[2] - (c[1] + 1) + 1 ELSE 0
      <4>1. \A i \in (c[1] + 1) .. c[2] : text[i] \in Rune
        BY <1>1, TextType
      <4> QED BY <1>1, <4>1, SubSeqProperties DEF t
    <3>2. Len(text) \in Nat
      BY TextType
    <3> QED BY <1>1, <3>1, <3>2
  <2>2. Len(Normal(t)) = Len(t)
    BY <1>2, NormalType
  <2>3. \A m \in own : m \in (0 .. Len(t)) \X (0 .. Len(t))
    BY <2>2 DEF own, Occurrences
  <2>4. 0 .. Len(t) \subseteq 0 .. Len(text)
    BY <2>1
  <2>5. own \subseteq (0 .. Len(text)) \X (0 .. Len(text))
    BY <2>3, <2>4
  <2>6. IsFiniteSet((0 .. Len(text)) \X (0 .. Len(text)))
    <3>1. IsFiniteSet(0 .. Len(text))
      BY <2>1, FS_Interval
    <3> QED BY <3>1, FS_Product
  <2>7. Cardinality((0 .. Len(text)) \X (0 .. Len(text))) \in Nat
    BY <2>6, FS_CardinalityType
  <2> QED BY <2>5, <2>6, <2>7, FS_Subset DEF k
<1>13. DOMAIN Scanned(c) \subseteq 1 .. Cardinality((0 .. Len(text)) \X (0 .. Len(text)))
  <2>1. PICK n \in Nat : n = Cardinality((0 .. Len(text)) \X (0 .. Len(text)))
    BY <1>12
  <2> QED BY <1>8, <1>9, <1>12, <2>1
<1> QED BY <1>8, <1>9, <1>10, <1>11, <1>13 DEF own, t

-----------------------------------------------------------------------------
(* Type correctness. *)

(* The initial state has values of the right kind. *)
LEMMA TypeInit == Init => TypeOK
<1> SUFFICES ASSUME Init PROVE TypeOK
  OBVIOUS
<1>1. chain \in [DOMAIN shards -> SUBSET Span]
  BY DEF Init
<1>2. <<>> \in Seq(Span) /\ <<>> \in Seq(PieceType) /\ <<>> \in Seq(Nat \X Nat \X Nat) /\ <<>> \in Seq(Seq(Span))
  BY EmptySeq
<1>3. DOMAIN best = {} /\ found = <<>> /\ output = <<>> /\ chunks = <<>> /\ perChunk = <<>>
  BY DEF Init
<1>4. /\ found \in Seq(Span) /\ output \in Seq(PieceType) /\ chunks \in Seq(Nat \X Nat \X Nat)
      /\ perChunk \in Seq(Seq(Span)) /\ Len(perChunk) = Len(chunks)
  BY <1>2, <1>3
<1>5. /\ consumed = 0 /\ candidates = 0 /\ windowEnd = 0 /\ rest = {} /\ cursor = 0 /\ rendered = 0 /\ total = 0
      /\ truncated = FALSE /\ pc = "start" /\ outcome = "none"
      /\ shards \in Engines /\ text \in Texts /\ opts \in Scans \cup Splits
  BY DEF Init
<1>6. truncated \in BOOLEAN /\ rest \subseteq Span
  BY <1>5
<1>7. DOMAIN best \subseteq Nat /\ \A s \in DOMAIN best : best[s] \in Nat
  BY <1>3
<1>8. consumed \in Nat /\ candidates \in Nat /\ windowEnd \in Nat /\ cursor \in Nat /\ rendered \in Nat /\ total \in Int
  BY <1>5
<1> QED BY <1>1, <1>4, <1>5, <1>6, <1>7, <1>8 DEF TypeOK

(* A match that is selected is a span. *)
LEMMA SelectType ==
  ASSUME found \in Seq(Span), truncated \in BOOLEAN, NEW m \in Span, NEW p, Select(m, p)
  PROVE  found' \in Seq(Span) /\ truncated' \in BOOLEAN /\ pc' \in {p, "ended"}
<1>1. Append(found, m) \in Seq(Span)
  BY AppendProperties
<1>2. CASE Len(found) = opts.matches
  BY <1>2 DEF Select
<1>3. CASE Len(found) # opts.matches
  BY <1>1, <1>3 DEF Select
<1> QED BY <1>2, <1>3

(* The steps of a scan keep the types. *)
LEMMA TypeScanning ==
  ASSUME SearchInv, Scanning
  PROVE  TypeOK'
<1> USE DEF SearchInv
<1>0. UNCHANGED callVars /\ Call
  BY DEF TypeOK, Call, Scanning, StartScan, Flush, ReadRune, Emit, EmitDone, Drain, ScanEnds
<1>1. CASE StartScan
  BY <1>1 DEF TypeOK, StartScan, Done
<1>2. CASE Flush
  <2>1. opts \in Scans /\ found \in Seq(Span) /\ truncated \in BOOLEAN
    BY <1>2 DEF Flush, CallInv, TypeOK
  <2>2. NextStart \in DOMAIN best /\ NextStart \in Nat
    BY <1>2, NextStartRight DEF Flush, Ripe
  <2> DEFINE m == <<NextStart, best[NextStart]>>
  <2>3. m \in Span /\ m[1] \in Nat /\ m[2] \in Nat
    BY <2>2 DEF TypeOK, Span
  <2>4. found' \in Seq(Span) /\ truncated' \in BOOLEAN /\ pc' \in {pc, "ended"} /\ windowEnd' \in Nat
    <3>1. CASE m[1] < windowEnd
      BY <1>2, <2>1, <3>1 DEF Flush, TypeOK
    <3>2. CASE ~(m[1] < windowEnd)
      <4>1. Select(m, pc)
        BY <1>2, <3>2 DEF Flush
      <4>2. windowEnd' \in Nat
        BY <1>2, <3>2, <2>3 DEF Flush, TypeOK
      <4> HIDE DEF m
      <4> QED BY <2>1, <2>3, <4>1, <4>2, SelectType
    <3> QED BY <3>1, <3>2
  <2>5. DOMAIN best' \subseteq DOMAIN best /\ \A s \in DOMAIN best' : best'[s] = best[s]
    BY <1>2 DEF Flush
  <2> QED BY <1>2, <2>1, <2>4, <2>5 DEF Flush, TypeOK
<1>3. CASE ReadRune
  <2>1. consumed' = consumed + 1 /\ consumed + 1 \in Nat
    BY <1>3 DEF ReadRune, TypeOK
  <2>2. \A i \in DOMAIN shards : ChainAt(shards[i], Normal(text), consumed + 1) \subseteq Span
    BY <2>1, ChainSpan
  <2>3. chain' \in [DOMAIN shards -> SUBSET Span]
    BY <1>3, <2>2 DEF ReadRune
  <2> QED BY <1>3, <2>1, <2>3 DEF ReadRune, TypeOK
<1>4. CASE Emit
  <2> DEFINE m == Longer(chain[NextShard])
  <2>1. NextShard \in DOMAIN shards /\ m \in chain[NextShard]
    BY <1>0, <1>4, NextMatch DEF Emit
  <2>2. m \in Span /\ m[1] \in Nat /\ m[2] \in Nat
    BY <2>1 DEF TypeOK, Span
  <2>3. chain' \in [DOMAIN shards -> SUBSET Span]
    BY <1>4, <2>1 DEF Emit, TypeOK
  <2>4. opts \in Scans /\ found \in Seq(Span) /\ truncated \in BOOLEAN
    BY <1>4 DEF Emit, CallInv, TypeOK
  <2>5. DOMAIN best \subseteq Nat /\ \A s \in DOMAIN best : best[s] \in Nat
    BY DEF TypeOK
  <2>6. /\ found' \in Seq(Span) /\ truncated' \in BOOLEAN /\ pc' \in {"emit", "ended", "done"}
        /\ outcome' \in {outcome, "work"}
        /\ DOMAIN best' \subseteq Nat /\ \A s \in DOMAIN best' : best'[s] \in Nat
    <3>1. CASE Done("work") /\ UNCHANGED <<best, resultVars>>
      BY <2>4, <2>5, <3>1 DEF Done
    <3>2. CASE UNCHANGED <<best, resultVars, pc, outcome>>
      BY <1>4, <2>4, <2>5, <3>2 DEF Emit
    <3>3. CASE AddCandidate(m) /\ UNCHANGED <<resultVars, pc, outcome>>
      <4> HIDE DEF m
      <4>1. DOMAIN best' \subseteq Nat /\ \A s \in DOMAIN best' : best'[s] \in Nat
        BY <2>2, <2>5, <3>3 DEF AddCandidate
      <4> QED BY <1>4, <2>4, <3>3, <4>1 DEF Emit
    <3>4. CASE Select(m, pc) /\ UNCHANGED <<best, outcome>>
      <4> HIDE DEF m
      <4> QED BY <1>4, <2>2, <2>4, <2>5, <3>4, SelectType DEF Emit
    <3> QED BY <1>4, <3>1, <3>2, <3>3, <3>4 DEF Emit
  <2>7. candidates' \in Nat
    BY <1>4 DEF Emit, TypeOK
  <2> HIDE DEF m
  <2> QED BY <1>4, <2>3, <2>6, <2>7 DEF Emit, TypeOK
<1>5. CASE EmitDone
  BY <1>5 DEF TypeOK, EmitDone
<1>6. CASE Drain
  BY <1>6 DEF TypeOK, Drain
<1>7. CASE ScanEnds
  BY <1>7 DEF TypeOK, ScanEnds, Done
<1> QED BY <1>1, <1>2, <1>3, <1>4, <1>5, <1>6, <1>7 DEF Scanning

(* Where a rewrite is: its next match lies past the cursor. *)
LEMMA RewritePlace ==
  ASSUME SearchInv, pc \in {"size", "write"}
  PROVE  /\ opts \in Scans /\ found \in Seq(Span) /\ Len(found) \in Nat /\ rendered \in 0 .. Len(found)
         /\ opts.longest /\ opts.call \in {"replace", "mask"} /\ ~truncated /\ Call
         /\ cursor \in 0 .. Len(text)
         /\ \A i \in 1 .. Len(found) : /\ found[i] \in Eligible /\ found[i] \in Span /\ found[i] = <<found[i][1], found[i][2]>>
                                       /\ found[i][1] \in 0 .. Len(text) /\ found[i][2] \in 0 .. Len(text)
                                       /\ found[i][1] < found[i][2]
         /\ \A i, j \in 1 .. Len(found) : i < j => found[i][2] <= found[j][1]
         /\ rendered < Len(found) => cursor <= found[rendered + 1][1]
<1> USE DEF SearchInv
<1>1. opts \in Scans /\ opts.call \in {"replace", "mask"} /\ Call /\ ~truncated
  BY DEF CallInv, TypeOK, Call
<1>2. opts.longest
  BY <1>1, ScanOptions
<1>3. found \in Seq(Span) /\ Len(found) \in Nat /\ DOMAIN found = 1 .. Len(found)
  BY <1>1 DEF TypeOK
<1>4. rendered \in 0 .. Len(found) /\ cursor = IF rendered = 0 THEN 0 ELSE found[rendered][2]
  BY <1>3 DEF RewriteInv, TypeOK
<1>5. ASSUME NEW i \in 1 .. Len(found)
      PROVE  /\ found[i] \in Eligible /\ found[i] \in Span /\ found[i] = <<found[i][1], found[i][2]>>
             /\ found[i][1] \in 0 .. Len(text) /\ found[i][2] \in 0 .. Len(text)
             /\ found[i][1] < found[i][2]
  <2>1. found[i] \in Eligible
    BY <1>1, <1>3 DEF DisjointInv, Range
  <2> QED BY <1>1, <2>1, EligibleType, TextType
<1>6. \A i, j \in 1 .. Len(found) : i < j => found[i][2] <= found[j][1]
  BY <1>1, <1>2, <1>3 DEF DisjointInv
<1>7. Len(text) \in Nat
  BY <1>1, TextType
<1>8. cursor \in 0 .. Len(text)
  BY <1>4, <1>5, <1>7
<1>9. rendered < Len(found) => cursor <= found[rendered + 1][1]
  <2> HAVE rendered < Len(found)
  <2>1. rendered + 1 \in 1 .. Len(found)
    BY <1>3, <1>4
  <2>2. CASE rendered = 0
    BY <1>4, <1>5, <2>1, <2>2
  <2>3. CASE rendered # 0
    BY <1>3, <1>4, <1>6, <2>1, <2>3
  <2> QED BY <2>2, <2>3
<1> QED BY <1>1, <1>2, <1>3, <1>4, <1>5, <1>6, <1>8, <1>9

(* What stands for a match has a size. *)
LEMMA PieceSize ==
  ASSUME opts \in Scans, NEW m, m[1] \in Nat, m[2] \in Nat, m[1] < m[2]
  PROVE  Piece(m) \in Nat
<1>1. opts.size \in Nat /\ m[2] - m[1] \in Nat
  BY ScanOptions
<1>2. \A a, b \in Nat : a * b \in Nat
  OBVIOUS
<1> QED BY <1>1, <1>2 DEF Piece

(* The steps of a rewrite keep the types. *)
LEMMA TypeRewriting ==
  ASSUME SearchInv, Rewriting
  PROVE  TypeOK'
<1> USE DEF SearchInv
<1>0. /\ pc \in {"size", "write"}
      /\ UNCHANGED <<callVars, streamVars, best, windowEnd, rest, resultVars, chunkVars>>
  BY DEF Rewriting, Measure, Measured, Write, Written
<1> DEFINE m == found[rendered + 1]
<1>1. ASSUME rendered < Len(found)
      PROVE  m \in Span /\ m[1] \in 0 .. Len(text) /\ m[2] \in 0 .. Len(text) /\ Piece(m) \in Int /\ m[2] \in Nat /\ m[1] \in Nat
  <2>1. rendered + 1 \in 1 .. Len(found) /\ Len(text) \in Nat
    BY <1>0, <1>1, RewritePlace, TextType
  <2>2. m \in Span /\ m[1] \in 0 .. Len(text) /\ m[2] \in 0 .. Len(text) /\ m[1] < m[2]
    BY <1>0, <2>1, RewritePlace
  <2> QED BY <1>0, <2>1, <2>2, RewritePlace, PieceSize
<1> HIDE DEF m
<1>2. Call /\ cursor \in 0 .. Len(text) /\ 0 \in 0 .. Len(text) /\ Len(text) \in 0 .. Len(text)
  BY <1>0, RewritePlace, TextType
<1>3. CASE Measure
  <2>1. CASE pc' = "done" /\ outcome' = "output" /\ UNCHANGED <<total, rendered, cursor>>
    BY <1>0, <1>3, <2>1 DEF Measure, TypeOK
  <2>2. CASE /\ total' = total + Bytes(cursor, m[1]) + Piece(m)
             /\ rendered' = rendered + 1 /\ cursor' = m[2] /\ UNCHANGED <<pc, outcome>>
    <3>1. m[1] \in 0 .. Len(text) /\ m[2] \in Nat /\ Piece(m) \in Int
      BY <1>1, <1>3 DEF Measure
    <3>2. Bytes(cursor, m[1]) \in Int
      BY <1>2, <3>1, BytesRight
    <3>3. total' \in Int /\ rendered' \in Nat /\ cursor' \in Nat
      BY <2>2, <3>1, <3>2 DEF TypeOK
    <3> QED BY <1>0, <1>3, <2>2, <3>3 DEF Measure, TypeOK
  <2> QED BY <1>3, <2>1, <2>2 DEF Measure, Done, m
<1>4. CASE Measured
  <2>1. Bytes(cursor, Len(text)) \in Int
    BY <1>2, BytesRight
  <2>2. total' \in Int /\ rendered' \in Nat /\ cursor' \in Nat
    BY <1>4, <2>1 DEF Measured, TypeOK
  <2> QED BY <1>0, <1>4, <2>2 DEF Measured, TypeOK, Done
<1>5. CASE Write
  <2>1. m[1] \in Nat /\ m[2] \in Nat /\ cursor \in Nat /\ m \in Span
    BY <1>1, <1>5 DEF Write, TypeOK
  <2>2. Copied(cursor, m[1]) \in PieceType /\ Changed(m) \in PieceType
    BY <2>1 DEF Copied, Changed, PieceType
  <2>3. <<Copied(cursor, m[1]), Changed(m)>> \in Seq(PieceType)
    BY <2>2
  <2>4. output' = output \o <<Copied(cursor, m[1]), Changed(m)>> /\ rendered' = rendered + 1 /\ cursor' = m[2]
    BY <1>5 DEF Write, m
  <2>5. output' \in Seq(PieceType)
    BY <2>3, <2>4, ConcatProperties DEF TypeOK
  <2>6. rendered' \in Nat /\ cursor' \in Nat
    BY <2>1, <2>4 DEF TypeOK
  <2> QED BY <1>0, <1>5, <2>5, <2>6 DEF Write, TypeOK
<1>6. CASE Written
  <2>1. Copied(cursor, Len(text)) \in PieceType
    BY <1>2 DEF Copied, PieceType, TypeOK
  <2>2. output' \in Seq(PieceType)
    BY <1>6, <2>1, AppendProperties DEF Written, TypeOK
  <2> QED BY <1>0, <1>6, <2>2 DEF Written, TypeOK, Done
<1> QED BY <1>3, <1>4, <1>5, <1>6 DEF Rewriting

(* The steps of FindMatches keep the types. *)
LEMMA TypeMatching ==
  ASSUME SearchInv, Matching
  PROVE  TypeOK'
<1> USE DEF SearchInv
<1>0. Call
  BY DEF TypeOK, Call
<1>1. CASE StartMatches
  <2>1. MatchString(Normal(text)) = Occ
    BY <1>0, TextType, MatchStringRight DEF Occ
  <2>2. rest' \subseteq Span
    BY <1>0, <1>1, <2>1, EligibleType DEF StartMatches
  <2> QED BY <1>1, <2>2 DEF StartMatches, TypeOK
<1>2. CASE KeepMatch
  <2>1. opts \in Scans /\ rest \subseteq Eligible /\ rest # {}
    BY <1>2 DEF KeepMatch, CallInv, SelectInv
  <2>2. Earliest \in rest
    BY <1>0, <2>1, EarliestRight
  <2>3. Earliest \in Span /\ Earliest[2] \in Nat
    BY <2>2 DEF TypeOK, Span
  <2>4. found \in Seq(Span) /\ Append(found, Earliest) \in Seq(Span)
    BY <2>1, <2>3, AppendProperties DEF TypeOK
  <2>5. found' \in Seq(Span) /\ windowEnd' \in Nat
    BY <1>2, <2>3, <2>4 DEF KeepMatch, TypeOK
  <2> QED BY <1>2, <2>5 DEF KeepMatch, TypeOK
<1>3. CASE MatchesEnd
  BY <1>3 DEF MatchesEnd, TypeOK, Done
<1> QED BY <1>1, <1>2, <1>3 DEF Matching

-----------------------------------------------------------------------------
(* A chunk that is cut at a boundary is neither empty nor longer. *)
LEMMA CutRight ==
  ASSUME NEW start \in Nat, NEW end \in Nat, start < end
  PROVE  CutAt(start, end) \in Nat /\ start < CutAt(start, end) /\ CutAt(start, end) <= end
<1> DEFINE back == {i \in 1 .. end : i > end - opts.chunk \div 2 /\ IsBoundary(i)}
           b == FindBoundary(end)
<1>1. back \subseteq Nat /\ \A i \in back : i <= end
  OBVIOUS
<1>2. b = IF back = {} THEN end ELSE CHOOSE i \in back : \A j \in back : j <= i
  BY DEF FindBoundary
<1> HIDE DEF back
<1>3. b \in Nat /\ b <= end
  <2>1. CASE back = {}
    BY <1>2, <2>1
  <2>2. CASE back # {}
    <3>1. \E i \in back : \A j \in back : j <= i
      BY <1>1, <2>2, GreatestNat
    <3> QED BY <1>1, <1>2, <2>2, <3>1
  <2> QED BY <2>1, <2>2
<1>4. CutAt(start, end) = IF b <= start THEN end ELSE b
  BY DEF CutAt
<1> HIDE DEF b
<1> QED BY <1>3, <1>4

(* The chunk that SplitChunk adds. *)
LEMMA SplitChunkRight ==
  ASSUME SearchInv, SplitChunk
  PROVE  \E c \in Nat \X Nat \X Nat :
           /\ AddChunk(c) /\ c[1] <= c[2] /\ c[2] <= Len(text)
           /\ cursor' \in Nat /\ cursor' <= Len(text) /\ pc' \in {"split", "chunks"}
<1> USE DEF SearchInv
<1>1. Call /\ opts \in Splits /\ pc = "split" /\ cursor \in Nat /\ cursor <= Len(text)
  BY DEF SplitChunk, CallInv, TypeOK, Call, ChunkInv
<1>2. opts.chunk \in Nat \ {0} /\ opts.overlap \in Nat /\ Len(text) \in Nat
  BY <1>1, SplitOptions, TextType
<1> DEFINE end == cursor + opts.chunk
           cut == CutAt(cursor, end)
           back == cut - opts.overlap
<1>3. end \in Nat /\ cursor < end
  BY <1>1, <1>2
<1>4. cut \in Nat /\ cursor < cut /\ cut <= end
  <2> HIDE DEF end
  <2> QED BY <1>1, <1>3, CutRight
<1>5. CASE end >= Len(text)
  <2> DEFINE c == <<cursor, Len(text), Len(text)>>
  <2>1. AddChunk(c) /\ pc' = "chunks" /\ cursor' = cursor
    BY <1>5 DEF SplitChunk
  <2> QED BY <1>1, <1>2, <2>1
<1>6. CASE ~(end >= Len(text))
  <2> DEFINE c == <<cursor, cut, Len(text)>>
  <2>1. AddChunk(c) /\ pc' = pc /\ cursor' = IF back <= cursor THEN cut ELSE back
    BY <1>6 DEF SplitChunk
  <2>2. cut <= Len(text)
    <3> HIDE DEF cut
    <3> QED BY <1>2, <1>3, <1>4, <1>6
  <2>3. cursor' \in Nat /\ cursor' <= Len(text)
    <3> HIDE DEF cut
    <3> QED BY <1>1, <1>2, <1>4, <2>1, <2>2
  <2> HIDE DEF cut
  <2> QED BY <1>1, <1>2, <1>4, <2>1, <2>2, <2>3
<1> QED BY <1>5, <1>6

(* The chunk that SplitAutoChunk adds owns every start that it passes. *)
LEMMA SplitAutoRight ==
  ASSUME SearchInv, SplitAutoChunk
  PROVE  \E c \in Nat \X Nat \X Nat :
           /\ AddChunk(c) /\ c[1] <= c[2] /\ c[2] <= Len(text)
           /\ cursor' \in Nat /\ cursor' <= Len(text) /\ cursor < cursor'
           /\ \A s \in cursor .. (cursor' - 1) : Owned(c, s)
<1> USE DEF SearchInv
<1>1. Call /\ opts \in Splits /\ cursor \in Nat /\ cursor < Len(text)
  BY DEF SplitAutoChunk, CallInv, TypeOK, Call
<1>2. opts.chunk \in Nat \ {0} /\ opts.overlap \in Nat /\ Len(text) \in Nat /\ Longest \in Nat
  BY <1>1, SplitOptions, TextType, LongestType
<1> DEFINE full == cursor + Least(opts.chunk, Len(text) - cursor)
           end == IF full < Len(text) THEN CutAt(cursor, full) ELSE full
           c == <<cursor, end + Least(Extension, Len(text) - end), end - cursor>>
<1>3. full \in Nat /\ cursor < full /\ full <= Len(text)
  BY <1>1, <1>2 DEF Least
<1>4. end \in Nat /\ cursor < end /\ end <= Len(text)
  <2> HIDE DEF full
  <2>1. CutAt(cursor, full) \in Nat /\ cursor < CutAt(cursor, full) /\ CutAt(cursor, full) <= full
    BY <1>1, <1>3, CutRight
  <2> QED BY <1>2, <1>3, <2>1
<1>5. AddChunk(c) /\ cursor' = end
  BY DEF SplitAutoChunk
<1> HIDE DEF end
<1>6. Extension \in Int /\ Extension >= Longest - 1 /\ Extension >= 0
  BY <1>2 DEF Extension
<1>7. c[1] = cursor /\ c[2] = end + Least(Extension, Len(text) - end) /\ c[3] = end - cursor
  OBVIOUS
<1>8. c \in Nat \X Nat \X Nat /\ c[1] <= c[2] /\ c[2] <= Len(text)
  BY <1>1, <1>2, <1>4, <1>6 DEF Least
<1>9. ASSUME NEW s \in cursor .. (end - 1) PROVE Owned(c, s)
  <2>1. c[1] <= s /\ s < c[1] + c[3]
    BY <1>1, <1>4, <1>7
  <2>2. c[2] = Len(text) \/ c[2] >= s + Longest
    BY <1>1, <1>2, <1>4, <1>6, <1>7 DEF Least
  <2> HIDE DEF c
  <2> QED BY <2>1, <2>2 DEF Owned
<1> HIDE DEF c
<1> QED BY <1>4, <1>5, <1>8, <1>9

(* A new chunk has an empty slot. *)
LEMMA AddChunkRight ==
  ASSUME TypeOK, NEW c \in Nat \X Nat \X Nat, AddChunk(c)
  PROVE  /\ chunks' \in Seq(Nat \X Nat \X Nat) /\ Len(chunks') = Len(chunks) + 1
         /\ perChunk' \in Seq(Seq(Span)) /\ Len(perChunk') = Len(chunks')
         /\ \A i \in 1 .. Len(chunks) : chunks'[i] = chunks[i] /\ perChunk'[i] = perChunk[i]
         /\ chunks'[Len(chunks) + 1] = c /\ perChunk'[Len(chunks) + 1] = <<>>
<1>1. chunks \in Seq(Nat \X Nat \X Nat) /\ perChunk \in Seq(Seq(Span)) /\ Len(perChunk) = Len(chunks)
  BY DEF TypeOK
<1>2. chunks' = Append(chunks, c) /\ perChunk' = Append(perChunk, <<>>) /\ <<>> \in Seq(Span)
  BY DEF AddChunk
<1> QED BY <1>1, <1>2, AppendProperties

(* A chunk is a part of the text. *)
LEMMA ChunkPlace ==
  ASSUME SearchInv, pc \in {"split", "chunks"}, NEW i \in 1 .. Len(chunks)
  PROVE  chunks[i] \in Nat \X Nat \X Nat /\ chunks[i][1] <= chunks[i][2] /\ chunks[i][2] <= Len(text)
<1>1. chunks \in Seq(Nat \X Nat \X Nat)
  BY DEF SearchInv, TypeOK
<1>2. chunks[i] \in Range(chunks)
  BY <1>1 DEF Range
<1>3. \A c \in Range(chunks) : c[1] <= c[2] /\ c[2] <= Len(text)
  BY DEF SearchInv, ChunkInv
<1> QED BY <1>1, <1>2, <1>3

(* The steps of a parallel search keep the types. *)
LEMMA TypeSplitting ==
  ASSUME SearchInv, Splitting
  PROVE  TypeOK'
<1> USE DEF SearchInv
<1>0. Call /\ opts \in Splits /\ opts \notin Scans
  <2>1. opts \in Splits
    BY DEF Splitting, StartSplit, SplitChunk, SplitAutoChunk, SplitAutoEnds, ChunkStarts, ChunkEnds,
           ChunkCanceled, Merge, CallInv
  <2> QED BY <2>1, SplitOptions DEF TypeOK, Call
<1>1. CASE StartSplit
  BY <1>1 DEF StartSplit, Done, TypeOK
<1>2. CASE SplitChunk
  <2>1. PICK c \in Nat \X Nat \X Nat : AddChunk(c) /\ cursor' \in Nat /\ pc' \in {"split", "chunks"}
    BY <1>2, SplitChunkRight
  <2> QED BY <1>2, <2>1, AddChunkRight DEF SplitChunk, TypeOK
<1>3. CASE SplitAutoChunk
  <2>1. PICK c \in Nat \X Nat \X Nat : AddChunk(c) /\ cursor' \in Nat
    BY <1>3, SplitAutoRight
  <2> QED BY <1>3, <2>1, AddChunkRight DEF SplitAutoChunk, TypeOK
<1>4. CASE SplitAutoEnds
  BY <1>4 DEF SplitAutoEnds, TypeOK
<1>5. CASE ChunkStarts
  BY <1>5 DEF ChunkStarts, TypeOK
<1>6. ASSUME NEW i \in running, ChunkEnds(i) PROVE TypeOK'
  <2>1. i \in 1 .. Len(chunks)
    <3>1. pc = "chunks" /\ consumed \in Nat /\ chunks \in Seq(Nat \X Nat \X Nat)
      BY <1>6 DEF ChunkEnds, TypeOK
    <3>2. consumed <= Len(chunks) /\ running \subseteq 1 .. consumed
      BY <3>1 DEF ChunkInv
    <3> QED BY <3>1, <3>2
  <2>2. chunks[i] \in Nat \X Nat \X Nat /\ chunks[i][2] <= Len(text)
    <3>1. pc = "chunks"
      BY <1>6 DEF ChunkEnds
    <3> QED BY <2>1, <3>1, ChunkPlace
  <2>3. Scanned(chunks[i]) \in Seq(Span)
    BY <1>0, <2>2, ScannedRight
  <2>4. perChunk \in Seq(Seq(Span)) /\ i \in 1 .. Len(perChunk)
    BY <2>1 DEF TypeOK
  <2>5. perChunk' \in Seq(Seq(Span)) /\ Len(perChunk') = Len(perChunk)
    BY <1>6, <2>3, <2>4, ExceptSeq DEF ChunkEnds
  <2> QED BY <1>6, <2>5 DEF ChunkEnds, TypeOK
<1>7. CASE ChunkCanceled
  BY <1>7 DEF ChunkCanceled, TypeOK, Done
<1>8. CASE Merge
  BY <1>0, <1>8 DEF Merge, TypeOK, Done
<1> QED BY <1>1, <1>2, <1>3, <1>4, <1>5, <1>6, <1>7, <1>8 DEF Splitting

(* Every step keeps the types. *)
LEMMA TypeStep ==
  ASSUME SearchInv, [Next]_vars
  PROVE  TypeOK'
<1>1. CASE UNCHANGED vars
  BY <1>1 DEF vars, TypeOK, SearchInv
<1> QED BY <1>1, TypeScanning, TypeRewriting, TypeMatching, TypeSplitting DEF Next

-----------------------------------------------------------------------------
(* Which call is where. *)

(* A new call is where CallInv says. *)
LEMMA CallInit == Init => CallInv
<1> SUFFICES ASSUME Init PROVE CallInv
  OBVIOUS
<1>1. DOMAIN best = {} /\ \A i \in DOMAIN shards : chain[i] = {}
  BY DEF Init
<1>2. /\ consumed = 0 /\ candidates = 0 /\ windowEnd = 0 /\ rest = {} /\ cursor = 0 /\ rendered = 0 /\ total = 0
      /\ truncated = FALSE /\ pc = "start" /\ found = <<>> /\ output = <<>> /\ chunks = <<>> /\ running = {}
  BY DEF Init
<1> QED BY <1>1, <1>2 DEF CallInv

(* Every step of a call leads where CallInv says. *)
LEMMA CallStep ==
  ASSUME SearchInv, [Next]_vars
  PROVE  CallInv'
<1>0. CallInv /\ UNCHANGED callVars
  BY StepKeepsCall DEF SearchInv
<1>1. CASE StartScan
  BY <1>0, <1>1 DEF StartScan, CallInv, Done
<1>2. CASE Flush
  BY <1>0, <1>2 DEF Flush, CallInv, Select
<1>3. CASE ReadRune
  BY <1>0, <1>3 DEF ReadRune, CallInv
<1>4. CASE Emit
  BY <1>0, <1>4 DEF Emit, CallInv, Select, Done, AddCandidate
<1>5. CASE EmitDone
  BY <1>0, <1>5 DEF EmitDone, CallInv
<1>6. CASE Drain
  BY <1>0, <1>6 DEF Drain, CallInv
<1>7. CASE ScanEnds
  <2>1. opts \in Scans /\ opts.call \in {"scan", "replace", "mask", "findMatches"} /\ opts.call # "findMatches"
    BY <1>0, <1>7, ScanOptions DEF ScanEnds, CallInv
  <2> QED BY <1>0, <1>7, <2>1 DEF ScanEnds, CallInv, Done
<1>8. CASE Rewriting
  BY <1>0, <1>8 DEF Rewriting, Measure, Measured, Write, Written, CallInv, Done
<1>9. CASE StartMatches
  BY <1>0, <1>9 DEF StartMatches, CallInv
<1>10. CASE KeepMatch
  BY <1>0, <1>10 DEF KeepMatch, CallInv
<1>11. CASE MatchesEnd
  BY <1>0, <1>11 DEF MatchesEnd, CallInv, Done
<1>12. CASE StartSplit
  BY <1>0, <1>12 DEF StartSplit, Done, CallInv
<1>13. CASE SplitChunk
  BY <1>0, <1>13 DEF SplitChunk, AddChunk, CallInv
<1>14. CASE SplitAutoChunk
  BY <1>0, <1>14 DEF SplitAutoChunk, AddChunk, CallInv
<1>15. CASE SplitAutoEnds
  BY <1>0, <1>15 DEF SplitAutoEnds, CallInv
<1>16. CASE ChunkStarts
  BY <1>0, <1>16 DEF ChunkStarts, CallInv
<1>17. ASSUME NEW i \in running, ChunkEnds(i) PROVE CallInv'
  BY <1>0, <1>17 DEF ChunkEnds, CallInv
<1>18. CASE ChunkCanceled
  BY <1>0, <1>18 DEF ChunkCanceled, CallInv, Done
<1>19. CASE Merge
  BY <1>0, <1>19 DEF Merge, CallInv, Done
<1>20. CASE UNCHANGED vars
  BY <1>0, <1>20 DEF vars, CallInv
<1> QED BY <1>1, <1>2, <1>3, <1>4, <1>5, <1>6, <1>7, <1>8, <1>9, <1>10, <1>11, <1>12, <1>13, <1>14, <1>15,
           <1>16, <1>17, <1>18, <1>19, <1>20 DEF Next, Scanning, Matching, Splitting

-----------------------------------------------------------------------------
(* What the stream has shown. *)
Shown == {m \in Occ : Seen(m)}

(* A step outside the stream does not lead into it. *)
LEMMA OffStream ==
  ASSUME ScanEnds \/ Rewriting \/ Matching \/ Splitting
  PROVE  pc' \notin {"read", "emit", "drain"}
<1>1. CASE ScanEnds
  BY <1>1 DEF ScanEnds, Done
<1>2. CASE Rewriting
  BY <1>2 DEF Rewriting, Measure, Measured, Write, Written, Done
<1>3. CASE Matching
  BY <1>3 DEF Matching, StartMatches, KeepMatch, MatchesEnd, Done
<1>4. CASE Splitting
  BY <1>4 DEF Splitting, StartSplit, SplitChunk, SplitAutoChunk, SplitAutoEnds, ChunkStarts, ChunkEnds,
              ChunkCanceled, Merge, Done
<1> QED BY <1>1, <1>2, <1>3, <1>4

(* What has been seen depends on the stream alone. *)
LEMMA SeenFixed ==
  ASSUME UNCHANGED <<callVars, consumed, chain>>
  PROVE  (\A m : Seen(m)' = Seen(m)) /\ Shown' = Shown
<1>1. \A m : Seen(m)' = Seen(m)
  BY DEF Seen
<1>2. Occ' = Occ
  <2>1. UNCHANGED callVars
    OBVIOUS
  <2> HIDE DEF callVars
  <2> QED BY <2>1, CallFixed
<1>3. Shown' = Shown
  <2>1. Shown' = {m \in Occ' : Seen(m)'}
    BY DEF Shown
  <2>2. \A m \in Occ : Seen(m)' <=> Seen(m)
    BY <1>1
  <2> QED BY <1>2, <2>1, <2>2 DEF Shown
<1> QED BY <1>1, <1>3

(* The facts about the stream that its steps use. *)
LEMMA StreamFacts ==
  ASSUME SearchInv, pc \in {"read", "emit", "drain"}
  PROVE  /\ Call /\ opts \in Scans /\ opts.call # "findMatches" /\ ~truncated /\ consumed \in Nat /\ consumed <= Len(text)
         /\ \A i \in DOMAIN shards : \A m \in chain[i] :
              m \in Occ /\ m[2] = consumed /\ m = <<m[1], consumed>> /\ m[1] \in Nat /\ m[1] < consumed /\ ~Seen(m)
         /\ IsFiniteSet(Shown) /\ candidates = Cardinality(Shown) /\ Shown \subseteq Occ
         /\ candidates <= opts.candidates
<1> USE DEF SearchInv
<1>1. Call /\ opts \in Scans /\ opts.call # "findMatches" /\ ~truncated /\ consumed \in Nat /\ consumed <= Len(text)
  BY DEF CallInv, TypeOK, Call, StreamInv
<1>2. ASSUME NEW i \in DOMAIN shards, NEW m \in chain[i]
      PROVE  m \in Occ /\ m[2] = consumed /\ m = <<m[1], consumed>> /\ m[1] \in Nat /\ m[1] < consumed /\ ~Seen(m)
  <2>1. m \in ChainAt(shards[i], Normal(text), consumed)
    BY DEF StreamInv
  <2>2. m = <<m[1], consumed>> /\ m[1] \in Nat /\ m[1] < consumed /\ m[2] = consumed
    BY <1>1, <2>1, ChainSpan
  <2>3. consumed \in 1 .. Len(Normal(text)) /\ Normal(text) \in Seq(Rune)
    BY <1>1, <2>2, TextType
  <2>4. m \in Occ
    BY <1>1, <2>1, <2>3, ChainMeaning DEF Occ
  <2>5. ~Seen(m)
    BY <2>2, <1>1 DEF Seen
  <2> QED BY <2>2, <2>4, <2>5
<1>3. Shown \in SUBSET Occ /\ IsFiniteSet(Occ)
  BY <1>1, EligibleType DEF Shown
<1>4. IsFiniteSet(Shown)
  BY <1>3, FS_Subset
<1>5. candidates = Cardinality(Shown) /\ candidates <= opts.candidates
  BY DEF StreamInv, Shown, Occ
<1> QED BY <1>1, <1>2, <1>3, <1>4, <1>5

(* Emit takes a match that had not been seen; it has been seen then, and   *)
(* nothing else changes.                                                   *)
LEMMA EmitShows ==
  ASSUME SearchInv, Emit
  PROVE  \E m \in Occ :
           /\ m = Longer(chain[NextShard])
           /\ NextShard \in DOMAIN shards /\ m \in chain[NextShard]
           /\ ~Seen(m) /\ Seen(m)' /\ m[2] = consumed /\ m[1] \in Nat
           /\ \A n \in Occ : n # m => (Seen(n)' <=> Seen(n))
           /\ \A i \in DOMAIN shards : chain'[i] = chain[i] \ {m}
           /\ \A i \in DOMAIN shards : \A n \in chain'[i] : m[1] < n[1]
<1> PICK m : m = Longer(chain[NextShard])
  OBVIOUS
<1>0. pc = "emit" /\ Waiting # {} /\ TypeOK /\ UNCHANGED callVars /\ consumed' = consumed
      /\ chain' = [chain EXCEPT ![NextShard] = @ \ {m}]
  BY DEF Emit, SearchInv
<1>1. Call /\ consumed \in Nat
  BY <1>0, StreamFacts
<1>2. NextShard \in DOMAIN shards /\ m \in chain[NextShard] /\ \A j \in DOMAIN shards : \A n \in chain[j] : m[1] <= n[1]
  BY <1>0, <1>1, NextMatch
<1>3. m \in Occ /\ m[2] = consumed /\ m = <<m[1], consumed>> /\ m[1] \in Nat /\ ~Seen(m)
  BY <1>0, <1>2, StreamFacts
<1>4. DOMAIN chain = DOMAIN shards
  BY <1>0 DEF TypeOK
<1>5. ASSUME NEW i \in DOMAIN shards PROVE chain'[i] = chain[i] \ {m}
  <2>1. CASE i = NextShard
    BY <1>0, <1>4, <2>1
  <2>2. CASE i # NextShard
    <3>1. m \notin chain[i]
      <4> SUFFICES ASSUME m \in chain[i] PROVE FALSE
        OBVIOUS
      <4>1. m \in ChainAt(shards[i], Normal(text), consumed) /\ m \in ChainAt(shards[NextShard], Normal(text), consumed)
        BY <1>0, <1>2 DEF SearchInv, StreamInv
      <4> QED BY <1>1, <1>2, <2>2, <4>1, ChainsDisjoint
    <3> QED BY <1>0, <1>4, <2>2, <3>1
  <2> QED BY <2>1, <2>2
<1>6. \A i \in DOMAIN shards : m \notin chain'[i]
  BY <1>5
<1>7. Seen(m)'
  BY <1>0, <1>3, <1>6 DEF Seen
<1>8. ASSUME NEW n \in Occ, n # m PROVE Seen(n)' <=> Seen(n)
  <2>1. \A i \in DOMAIN shards : n \in chain'[i] <=> n \in chain[i]
    BY <1>5, <1>8
  <2> QED BY <1>0, <2>1 DEF Seen
<1>9. ASSUME NEW i \in DOMAIN shards, NEW n \in chain'[i] PROVE m[1] < n[1]
  <2>1. n \in chain[i] /\ n # m
    BY <1>5
  <2>2. n = <<n[1], consumed>> /\ n[1] \in Nat /\ m[1] <= n[1]
    BY <1>0, <1>2, <2>1, StreamFacts
  <2> QED BY <1>3, <2>1, <2>2
<1> QED BY <1>2, <1>3, <1>5, <1>7, <1>8, <1>9

(* At the end of the stream every occurrence has been seen. *)
LEMMA AllSeen ==
  ASSUME SearchInv, pc = "drain"
  PROVE  /\ \A m \in Occ : Seen(m)
         /\ Shown = Occ /\ Cardinality(Occ) <= opts.candidates
<1>1. Call /\ consumed \in Nat /\ candidates = Cardinality(Shown) /\ candidates <= opts.candidates
  BY StreamFacts
<1>2. (\A i \in DOMAIN shards : chain[i] = {}) /\ (consumed = Len(text) \/ Longest = 0)
  BY DEF SearchInv, StreamInv
<1>3. ASSUME NEW m \in Occ PROVE Seen(m)
  <2>1. m[1] \in Nat /\ m[2] \in Nat /\ m[1] < m[2] /\ m[2] <= Len(text) /\ m[2] - m[1] <= Longest
    BY <1>1, EligibleType
  <2>2. consumed = Len(text)
    BY <1>1, <1>2, <2>1, LongestType
  <2> QED BY <1>2, <2>1, <2>2 DEF Seen
<1>4. Shown = Occ
  BY <1>3 DEF Shown
<1> QED BY <1>1, <1>3, <1>4

(* A rune that is read shows nothing yet. *)
LEMMA ReadShows ==
  ASSUME SearchInv, ReadRune
  PROVE  /\ \A m \in Occ : Seen(m)' <=> Seen(m)
         /\ \A m \in Occ : Seen(m) <=> m[2] <= consumed
         /\ Shown' = Shown
<1>1. Call /\ UNCHANGED callVars /\ pc = "read" /\ consumed \in Nat /\ consumed' = consumed + 1 /\ consumed < Len(text)
      /\ chain' = [i \in DOMAIN shards |-> ChainAt(shards[i], Normal(text), consumed + 1)]
  BY StreamFacts DEF ReadRune
<1>2. Occ' = Occ
  BY <1>1, CallFixed
<1>3. \A i \in DOMAIN shards : chain[i] = {}
  BY <1>1 DEF SearchInv, StreamInv
<1>4. ASSUME NEW m \in Occ PROVE (Seen(m)' <=> Seen(m)) /\ (Seen(m) <=> m[2] <= consumed)
  <2>1. m[2] \in Nat
    BY <1>1, EligibleType
  <2>2. Seen(m) <=> m[2] <= consumed
    BY <1>1, <1>3, <2>1 DEF Seen
  <2>3. ASSUME m[2] = consumed + 1 PROVE \E i \in DOMAIN shards : m \in chain'[i]
    <3>1. consumed + 1 \in 1 .. Len(Normal(text)) /\ Normal(text) \in Seq(Rune)
      BY <1>1, TextType
    <3>2. \E i \in DOMAIN shards : m \in ChainAt(shards[i], Normal(text), consumed + 1)
      BY <1>1, <2>3, <3>1, ChainMeaning DEF Occ
    <3> QED BY <1>1, <3>2
  <2>4. Seen(m)' <=> m[2] < consumed + 1 \/ (m[2] = consumed + 1 /\ \A i \in DOMAIN shards : m \notin chain'[i])
    BY <1>1 DEF Seen
  <2> QED BY <1>1, <2>1, <2>2, <2>3, <2>4
<1>5. Shown' = Shown
  <2>1. Shown' = {m \in Occ' : Seen(m)'}
    BY DEF Shown
  <2> QED BY <1>2, <1>4, <2>1 DEF Shown
<1> QED BY <1>4, <1>5

(* What the stream has shown, after each of its steps. *)
LEMMA StreamStep ==
  ASSUME SearchInv, [Next]_vars
  PROVE  StreamInv'
<1> USE DEF SearchInv
<1>0. Call /\ UNCHANGED callVars /\ Normal(text)' = Normal(text) /\ Occ' = Occ /\ Longest' = Longest
  BY StepKeepsCall, CallFixed DEF TypeOK, Call
<1>1. CASE StartScan
  <2> SUFFICES ASSUME pc' = "read" PROVE StreamInv'
    BY <1>1 DEF StreamInv, StartScan, Done
  <2>1. consumed = 0 /\ candidates = 0 /\ (\A i \in DOMAIN shards : chain[i] = {}) /\ opts \in Scans
        /\ UNCHANGED <<callVars, streamVars>>
    BY <1>1 DEF StartScan, CallInv
  <2>2. Shown' = Shown
    BY <2>1, SeenFixed
  <2>3. \A m \in Occ : ~Seen(m) /\ m[2] # 0
    <3> TAKE m \in Occ
    <3>1. m[1] \in Nat /\ m[2] \in Nat /\ m[1] < m[2]
      BY <1>0, EligibleType
    <3> QED BY <2>1, <3>1 DEF Seen
  <2>4. Shown = {}
    BY <2>3 DEF Shown
  <2>5. Cardinality({m \in Occurrences(Normal(text)) : Seen(m)})' = 0
    BY <2>2, <2>4, FS_EmptySet DEF Shown, Occ
  <2>6. 0 <= opts.candidates /\ 0 <= Len(text)
    BY <1>0, <2>1, ScanOptions, TextType
  <2>7. \A m \in Occurrences(Normal(text))' : m[2] # 0
    BY <1>0, <2>3 DEF Occ
  <2> QED BY <2>1, <2>5, <2>6, <2>7 DEF StreamInv
<1>2. CASE Flush
  <2>1. pc' \in {pc, "ended"} /\ UNCHANGED <<callVars, streamVars>> /\ pc \in {"read", "drain"}
    BY <1>2 DEF Flush, Select
  <2> SUFFICES ASSUME pc' = pc PROVE StreamInv'
    BY <2>1 DEF StreamInv
  <2> QED BY <1>0, <2>1 DEF StreamInv, Seen, Occ
<1>3. CASE ReadRune
  <2>1. /\ pc = "read" /\ consumed \in Nat /\ consumed' = consumed + 1 /\ consumed < Len(text) /\ pc' = "emit"
        /\ chain' = [i \in DOMAIN shards |-> ChainAt(shards[i], Normal(text), consumed + 1)] /\ candidates' = candidates
        /\ Len(text) \in Nat
    BY <1>0, <1>3, StreamFacts, TextType DEF ReadRune
  <2>2. consumed' <= Len(text)'
    BY <1>0, <2>1
  <2>3. \A i \in DOMAIN shards' : chain'[i] \subseteq ChainAt(shards[i], Normal(text), consumed)'
    BY <1>0, <2>1 DEF ChainAt
  <2>4. ASSUME NEW m \in Occ', m[2] = consumed', Seen(m)' PROVE FALSE
    <3>1. m \in Occ /\ m[2] = consumed + 1
      BY <1>0, <2>1, <2>4
    <3>2. m[2] <= consumed
      BY <1>3, <2>4, <3>1, ReadShows
    <3> QED BY <2>1, <3>1, <3>2
  <2>5. candidates' = Cardinality({m \in Occurrences(Normal(text)) : Seen(m)})' /\ candidates' <= opts'.candidates
    <3>1. Shown' = Shown /\ candidates = Cardinality(Shown) /\ candidates <= opts.candidates
      BY <1>3, <2>1, ReadShows, StreamFacts
    <3>2. Shown' = {m \in Occurrences(Normal(text)) : Seen(m)}'
      BY DEF Shown, Occ
    <3> QED BY <1>0, <2>1, <3>1, <3>2
  <2> QED BY <2>1, <2>2, <2>3, <2>4, <2>5 DEF StreamInv, Occ
<1>4. CASE Emit
  <2> SUFFICES ASSUME pc' = "emit" PROVE StreamInv'
    BY <1>4 DEF StreamInv, Emit, Select, Done
  <2>1. /\ pc = "emit" /\ consumed \in Nat /\ consumed' = consumed /\ consumed <= Len(text)
        /\ candidates' = candidates + 1 /\ candidates = Cardinality(Shown) /\ IsFiniteSet(Shown) /\ Shown \subseteq Occ
    BY <1>4, StreamFacts DEF Emit
  <2>2. candidates' <= opts.candidates
    <3>1. opts.candidates \in Nat /\ candidates' \in Nat
      BY <1>4, StreamFacts, ScanOptions, TypeStep DEF TypeOK, Emit
    <3>2. ~OverBudget
      BY <1>4 DEF Emit, Done
    <3> QED BY <3>1, <3>2 DEF OverBudget
  <2>3. PICK m \in Occ : /\ ~Seen(m) /\ Seen(m)' /\ m[2] = consumed /\ m[1] \in Nat
                         /\ \A n \in Occ : n # m => (Seen(n)' <=> Seen(n))
                         /\ \A i \in DOMAIN shards : chain'[i] = chain[i] \ {m}
                         /\ \A i \in DOMAIN shards : \A n \in chain'[i] : m[1] < n[1]
    BY <1>4, EmitShows
  <2>4. \A i \in DOMAIN shards' : chain'[i] \subseteq ChainAt(shards[i], Normal(text), consumed)'
    <3>1. \A i \in DOMAIN shards : chain[i] \subseteq ChainAt(shards[i], Normal(text), consumed)
      BY <2>1 DEF StreamInv
    <3> QED BY <1>0, <2>1, <2>3, <3>1 DEF ChainAt
  <2>5. ASSUME NEW k \in Occ', k[2] = consumed', Seen(k)', NEW i \in DOMAIN shards', NEW n \in chain'[i]
        PROVE  k[1] < n[1]
    <3>1. i \in DOMAIN shards /\ k \in Occ /\ n \in chain[i]
      BY <1>0, <2>3, <2>5
    <3>2. CASE k = m
      BY <2>3, <3>1, <3>2
    <3>3. CASE k # m
      <4>1. Seen(k) /\ k[2] = consumed
        BY <2>1, <2>3, <2>5, <3>1, <3>3
      <4> QED BY <2>1, <3>1, <4>1 DEF StreamInv, Occ
    <3> QED BY <3>2, <3>3
  <2>6. candidates' = Cardinality({n \in Occurrences(Normal(text)) : Seen(n)})'
    <3>1. Shown' = {n \in Occ' : Seen(n)'}
      BY DEF Shown
    <3>2. Shown' = Shown \cup {m} /\ m \notin Shown
      BY <1>0, <2>3, <3>1 DEF Shown
    <3>3. Cardinality(Shown') = Cardinality(Shown) + 1
      BY <2>1, <3>2, FS_AddElement
    <3>4. Shown' = {n \in Occurrences(Normal(text)) : Seen(n)}'
      BY DEF Shown, Occ
    <3> QED BY <2>1, <3>3, <3>4
  <2> QED BY <1>0, <2>1, <2>2, <2>4, <2>5, <2>6 DEF StreamInv, Occ
<1>5. CASE EmitDone
  <2>1. pc' = "read" /\ UNCHANGED <<callVars, streamVars>> /\ pc = "emit" /\ \A i \in DOMAIN shards : chain[i] = {}
    BY <1>5 DEF EmitDone, Waiting
  <2> QED BY <1>0, <2>1 DEF StreamInv, Seen, Occ
<1>6. CASE Drain
  <2>1. pc' = "drain" /\ UNCHANGED <<callVars, streamVars>> /\ pc = "read" /\ (consumed = Len(text) \/ Longest = 0)
    BY <1>6 DEF Drain
  <2> QED BY <1>0, <2>1 DEF StreamInv, Seen, Occ
<1>7. CASE ScanEnds \/ Rewriting \/ Matching \/ Splitting
  BY <1>7, OffStream DEF StreamInv
<1>8. CASE UNCHANGED vars
  BY <1>0, <1>8 DEF vars, StreamInv, Seen, Occ
<1> QED BY <1>1, <1>2, <1>3, <1>4, <1>5, <1>6, <1>7, <1>8 DEF Next, Scanning

-----------------------------------------------------------------------------
(* The work budget. *)

(* A rewrite is rendered only within the budget, and an exhausted budget   *)
(* is reported exactly when the text has too many raw matches.             *)
LEMMA WorkStep ==
  ASSUME SearchInv, [Next]_vars
  PROVE  WorkInv' /\ WorkLimitHonest'
<1> USE DEF SearchInv
<1>0. Call /\ UNCHANGED callVars /\ Occ' = Occ /\ Occurrences(Normal(text))' = Occ /\ Occurrences(Normal(text)) = Occ
  BY StepKeepsCall, CallFixed DEF TypeOK, Call, Occ
<1>1. CASE StartScan
  BY <1>1 DEF StartScan, Done, WorkInv, WorkLimitHonest
<1>2. CASE Flush
  BY <1>2 DEF Flush, Select, WorkInv, WorkLimitHonest
<1>3. CASE ReadRune \/ EmitDone \/ Drain
  BY <1>3 DEF ReadRune, EmitDone, Drain, WorkInv, WorkLimitHonest
<1>4. CASE Emit
  <2>1. WorkInv'
    BY <1>4 DEF Emit, Select, Done, WorkInv
  <2>2. ASSUME pc' = "done" PROVE outcome' = "work" /\ Cardinality(Occ) > opts.candidates
    <3>1. outcome' = "work" /\ OverBudget
      BY <1>4, <2>2 DEF Emit, Select, Done
    <3>2. /\ pc = "emit" /\ candidates' = candidates + 1 /\ candidates = Cardinality(Shown)
          /\ IsFiniteSet(Shown) /\ Shown \subseteq Occ /\ IsFiniteSet(Occ) /\ opts \in Scans
      BY <1>0, <1>4, StreamFacts, EligibleType DEF Emit
    <3>3. PICK m \in Occ : ~Seen(m)
      BY <1>4, EmitShows
    <3>4. Shown \cup {m} \in SUBSET Occ /\ m \notin Shown
      BY <3>2, <3>3 DEF Shown
    <3>5. Cardinality(Shown \cup {m}) = Cardinality(Shown) + 1
      BY <3>2, <3>4, FS_AddElement
    <3>6. Cardinality(Shown \cup {m}) <= Cardinality(Occ)
      BY <3>2, <3>4, FS_Subset
    <3>7. Cardinality(Occ) \in Nat /\ opts.candidates \in Nat /\ candidates \in Nat
      BY <3>2, FS_CardinalityType, ScanOptions DEF TypeOK
    <3> QED BY <3>1, <3>2, <3>5, <3>6, <3>7 DEF OverBudget
  <2> QED BY <1>0, <2>1, <2>2 DEF WorkLimitHonest
<1>5. CASE ScanEnds
  <2>1. UNCHANGED truncated /\ (pc = "ended" => truncated) /\ pc \in {"ended", "drain"}
    BY <1>5 DEF ScanEnds, CallInv
  <2>2. pc = "drain" => Cardinality(Occ) <= opts.candidates
    BY AllSeen
  <2>3. WorkInv'
    BY <1>0, <1>5, <2>1, <2>2 DEF ScanEnds, Done, WorkInv
  <2>4. WorkLimitHonest'
    BY <1>0, <1>5, <2>1, <2>2 DEF ScanEnds, Done, WorkLimitHonest
  <2> QED BY <2>3, <2>4
<1>6. CASE Rewriting
  <2>1. pc \in {"size", "write"}
    BY <1>6 DEF Rewriting, Measure, Measured, Write, Written
  <2>2. Cardinality(Occ) <= opts.candidates
    BY <1>0, <2>1 DEF WorkInv
  <2>3. pc' = "done" => outcome' \in {"output", "ok"}
    BY <1>6 DEF Rewriting, Measure, Measured, Write, Written, Done
  <2> QED BY <1>0, <2>2, <2>3 DEF WorkInv, WorkLimitHonest
<1>7. CASE Matching
  <2>1. pc' \in {"select", "done"} /\ opts.call = "findMatches"
    BY <1>7 DEF Matching, StartMatches, KeepMatch, MatchesEnd, Done, CallInv
  <2> QED BY <1>0, <2>1 DEF WorkInv, WorkLimitHonest
<1>8. CASE Splitting
  <2>1. opts \in Splits /\ pc' \in {"split", "chunks", "done"}
    BY <1>8 DEF Splitting, StartSplit, SplitChunk, SplitAutoChunk, SplitAutoEnds, ChunkStarts, ChunkEnds,
                ChunkCanceled, Merge, Done, CallInv
  <2>2. opts \notin Scans
    BY <2>1, SplitOptions
  <2> QED BY <1>0, <2>1, <2>2 DEF WorkInv, WorkLimitHonest
<1>9. CASE UNCHANGED vars
  BY <1>0, <1>9 DEF vars, WorkInv, WorkLimitHonest
<1> QED BY <1>1, <1>2, <1>3, <1>4, <1>5, <1>6, <1>7, <1>8, <1>9 DEF Next, Scanning

-----------------------------------------------------------------------------
(* The window. *)

(* A pending start stays within reach of the longest keyword. *)
LEMMA WindowStep ==
  ASSUME SearchInv, [Next]_vars
  PROVE  WindowInv'
<1> USE DEF SearchInv
<1>0. /\ Call /\ UNCHANGED callVars /\ Longest' = Longest /\ Longest \in Nat /\ consumed \in Nat
      /\ DOMAIN best \subseteq Nat /\ \A s \in DOMAIN best : s < consumed /\ consumed - s <= Longest
  BY StepKeepsCall, CallFixed, LongestType DEF TypeOK, Call, WindowInv
<1>1. CASE UNCHANGED <<best, consumed>>
  BY <1>0, <1>1 DEF WindowInv
<1>2. CASE Flush
  <2>1. consumed' = consumed /\ DOMAIN best' \subseteq DOMAIN best
    BY <1>2 DEF Flush
  <2> QED BY <1>0, <2>1 DEF WindowInv
<1>3. CASE ReadRune
  <2>1. consumed' = consumed + 1 /\ best' = best /\ pc = "read" /\ ~Ripe
    BY <1>3 DEF ReadRune
  <2>2. ASSUME NEW s \in DOMAIN best PROVE s < consumed + 1 /\ consumed + 1 - s <= Longest
    <3>1. NextStart \in Nat /\ NextStart <= s /\ s \in Nat
      BY <1>0, NextStartRight
    <3>2. ~(consumed - NextStart >= Longest)
      BY <2>1 DEF Ripe
    <3> QED BY <1>0, <3>1, <3>2
  <2> QED BY <1>0, <2>1, <2>2 DEF WindowInv
<1>4. CASE Emit
  <2>1. PICK m \in Occ : m = Longer(chain[NextShard]) /\ m[2] = consumed
    BY <1>4, EmitShows
  <2>2. m[1] \in Nat /\ m[1] < consumed /\ consumed - m[1] <= Longest
    BY <1>0, <2>1, EligibleType
  <2>3. opts \in Scans /\ opts \notin Splits /\ opts.longest \in BOOLEAN
    BY <1>4, StreamFacts, ScanOptions DEF Emit
  <2>4. CASE UNCHANGED best
    BY <1>0, <1>4, <2>4 DEF Emit, WindowInv
  <2>5. CASE AddCandidate(m) /\ opts.longest
    <3>1. DOMAIN best' \subseteq DOMAIN best \cup {m[1]} /\ consumed' = consumed
      BY <1>4, <2>5 DEF AddCandidate, Emit
    <3> QED BY <1>0, <2>2, <2>3, <2>5, <3>1 DEF WindowInv
  <2> QED BY <1>4, <2>1, <2>4, <2>5 DEF Emit
<1>5. CASE StartScan \/ EmitDone \/ Drain \/ ScanEnds
  BY <1>1, <1>5 DEF StartScan, EmitDone, Drain, ScanEnds
<1>6. CASE Rewriting
  BY <1>1, <1>6 DEF Rewriting, Measure, Measured, Write, Written
<1>7. CASE Matching
  BY <1>1, <1>7 DEF Matching, StartMatches, KeepMatch, MatchesEnd
<1>8. CASE Splitting
  <2>1. opts \in Splits /\ best' = best
    BY <1>8 DEF Splitting, StartSplit, SplitChunk, SplitAutoChunk, SplitAutoEnds, ChunkStarts, ChunkEnds,
                ChunkCanceled, Merge, Done, CallInv
  <2>2. DOMAIN best = {}
    BY <2>1 DEF WindowInv
  <2> QED BY <2>1, <2>2 DEF WindowInv
<1>9. CASE UNCHANGED vars
  BY <1>1, <1>9 DEF vars
<1> QED BY <1>2, <1>3, <1>4, <1>5, <1>6, <1>7, <1>8, <1>9 DEF Next, Scanning

(* The pending starts are among the last ones the longest keyword reaches. *)
LEMMA WindowFits ==
  ASSUME SearchInv
  PROVE  WindowBounded
<1>1. Call /\ Longest \in Nat /\ consumed \in Nat /\ DOMAIN best \subseteq Nat
  BY LongestType DEF SearchInv, TypeOK, Call
<1> DEFINE I == (consumed - Longest) .. (consumed - 1)
<1>2. IsFiniteSet(I) /\ Cardinality(I) = Longest
  <2>1. consumed - Longest \in Int /\ consumed - 1 \in Int
    BY <1>1
  <2>2. IsFiniteSet(I) /\ Cardinality(I) = IF consumed - Longest > consumed - 1 THEN 0 ELSE (consumed - 1) - (consumed - Longest) + 1
    BY <2>1, FS_Interval
  <2> QED BY <1>1, <2>2
<1>3. DOMAIN best \in SUBSET I
  BY <1>1 DEF SearchInv, WindowInv
<1> HIDE DEF I
<1> QED BY <1>2, <1>3, FS_Subset DEF WindowBounded

-----------------------------------------------------------------------------
(* The selection. *)

(* The matches found so far, and their last end. *)
LEMMA FoundFacts ==
  ASSUME Call, TypeOK, DisjointInv, opts \in Scans
  PROVE  /\ found \in Seq(Span) /\ Len(found) \in Nat /\ DOMAIN found = 1 .. Len(found) /\ windowEnd \in Nat
         /\ \A i \in 1 .. Len(found) : found[i] \in Range(found)
         /\ \A n \in Range(found) : \E i \in 1 .. Len(found) : n = found[i]
         /\ \A n \in Range(found) : n \in Eligible /\ n[1] \in Nat /\ n[2] \in Nat /\ n[1] < n[2]
         /\ opts.longest => \A n \in Range(found) : n[2] <= windowEnd
         /\ opts.longest /\ windowEnd > 0 => \E n \in Range(found) : n[2] = windowEnd
<1>1. found \in Seq(Span) /\ Len(found) \in Nat /\ DOMAIN found = 1 .. Len(found) /\ windowEnd \in Nat
  BY DEF TypeOK
<1>2. /\ \A i \in 1 .. Len(found) : found[i] \in Range(found)
      /\ \A n \in Range(found) : \E i \in 1 .. Len(found) : n = found[i]
  BY <1>1 DEF Range
<1>3. \A n \in Range(found) : n \in Eligible /\ n[1] \in Nat /\ n[2] \in Nat /\ n[1] < n[2]
  BY EligibleType DEF DisjointInv
<1>4. ASSUME opts.longest, NEW n \in Range(found)
      PROVE  n[2] <= windowEnd /\ found # <<>> /\ windowEnd = found[Len(found)][2] /\ Len(found) \in 1 .. Len(found)
  <2>1. PICK i \in 1 .. Len(found) : n = found[i]
    BY <1>2, <1>4
  <2>2. found # <<>> /\ Len(found) \in 1 .. Len(found)
    BY <1>1, <2>1
  <2>3. windowEnd = found[Len(found)][2]
    BY <1>4, <2>2 DEF DisjointInv
  <2>4. CASE i = Len(found)
    BY <1>1, <2>1, <2>2, <2>3, <2>4
  <2>5. CASE i < Len(found)
    <3>1. found[i][2] <= found[Len(found)][1]
      BY <1>1, <1>4, <2>2, <2>5 DEF DisjointInv
    <3>2. found[Len(found)][1] < found[Len(found)][2] /\ found[Len(found)][1] \in Nat /\ found[i][2] \in Nat
          /\ found[Len(found)][2] \in Nat
      BY <1>2, <1>3, <2>2
    <3> QED BY <2>1, <2>2, <2>3, <3>1, <3>2
  <2>6. i = Len(found) \/ i < Len(found)
    <3>1. Len(found) \in Nat
      BY <1>1
    <3> QED BY <3>1
  <2> QED BY <2>4, <2>5, <2>6
<1>5. ASSUME opts.longest, windowEnd > 0 PROVE \E n \in Range(found) : n[2] = windowEnd
  <2>1. found # <<>>
    BY <1>1, <1>5 DEF DisjointInv
  <2>2. Len(found) \in 1 .. Len(found)
    BY <1>1, <2>1, EmptySeq
  <2>3. windowEnd = found[Len(found)][2]
    BY <1>5, <2>1 DEF DisjointInv
  <2> QED BY <1>2, <2>2, <2>3
<1> QED BY <1>1, <1>2, <1>3, <1>4, <1>5

(* A match that comes after the others may be added to them. *)
LEMMA FoundAppend ==
  ASSUME Call, TypeOK, DisjointInv, opts \in Scans, UNCHANGED callVars, NEW m \in Eligible,
         found' = Append(found, m),
         opts.longest => windowEnd <= m[1] /\ windowEnd' = m[2],
         ~opts.longest => \A n \in Range(found) : ScanOrder(n, m)
  PROVE  DisjointInv' /\ Range(found') = Range(found) \cup {m}
<1>1. found \in Seq(Span) /\ Len(found) \in Nat /\ m \in Span /\ m[1] \in Nat /\ m[2] \in Nat /\ m[1] < m[2] /\ windowEnd \in Nat
  BY FoundFacts, EligibleType
<1> DEFINE k == Len(found)
<1>2. /\ found' \in Seq(Span) /\ found' # <<>> /\ Len(found') = k + 1 /\ DOMAIN found' = 1 .. (k + 1)
      /\ \A i \in 1 .. k : found'[i] = found[i]
      /\ found'[k + 1] = m
  BY <1>1, AppendProperties
<1>3. Range(found') = Range(found) \cup {m}
  <2>1. ASSUME NEW n \in Range(found') PROVE n \in Range(found) \cup {m}
    <3>1. PICK i \in 1 .. (k + 1) : n = found'[i]
      BY <1>2 DEF Range
    <3>2. CASE i \in 1 .. k
      BY <1>2, <3>1, <3>2, FoundFacts
    <3>3. CASE i = k + 1
      BY <1>2, <3>1, <3>3
    <3> QED BY <1>1, <3>2, <3>3
  <2>2. ASSUME NEW n \in Range(found) PROVE n \in Range(found')
    <3>1. PICK i \in 1 .. k : n = found[i]
      BY FoundFacts
    <3>2. i \in DOMAIN found' /\ found'[i] = n
      BY <1>1, <1>2, <3>1
    <3> QED BY <3>2 DEF Range
  <2>3. m \in Range(found')
    <3>1. k + 1 \in DOMAIN found'
      BY <1>1, <1>2
    <3> QED BY <1>2, <3>1 DEF Range
  <2> QED BY <2>1, <2>2, <2>3
<1>4. Range(found') \subseteq Eligible'
  BY <1>3, CallFixed DEF DisjointInv
<1>5. \A n \in Range(found) : ScanOrder(n, m)
  <2>1. CASE opts.longest
    <3> TAKE n \in Range(found)
    <3>1. n[2] <= windowEnd /\ n[1] \in Nat /\ n[2] \in Nat
      BY <2>1, FoundFacts
    <3> QED BY <1>1, <2>1, <3>1 DEF ScanOrder
  <2> QED BY <2>1
<1>6. ASSUME NEW i \in DOMAIN found', NEW j \in DOMAIN found', i < j
      PROVE  ScanOrder(found'[i], found'[j]) /\ (opts.longest => found'[i][2] <= found'[j][1])
  <2>1. i \in 1 .. k /\ found'[i] = found[i] /\ found[i] \in Range(found)
    BY <1>1, <1>2, <1>6, FoundFacts
  <2>2. CASE j = k + 1
    <3>1. found'[j] = m /\ ScanOrder(found[i], m)
      BY <1>2, <1>5, <2>1, <2>2
    <3>2. opts.longest => found[i][2] <= windowEnd /\ windowEnd <= m[1] /\ found[i][2] \in Nat
      BY <2>1, FoundFacts
    <3> QED BY <1>1, <2>1, <3>1, <3>2
  <2>3. CASE j \in 1 .. k
    <3>1. found'[j] = found[j] /\ i \in DOMAIN found /\ j \in DOMAIN found
      BY <1>1, <1>2, <2>1, <2>3
    <3> QED BY <1>6, <2>1, <3>1 DEF DisjointInv, InScanOrder
  <2> QED BY <1>1, <1>2, <1>6, <2>2, <2>3
<1>7. opts.longest => windowEnd' = found'[Len(found')][2]
  BY <1>2
<1> HIDE DEF k
<1> QED BY <1>2, <1>3, <1>4, <1>6, <1>7 DEF DisjointInv, InScanOrder

(* What is found stays, the invariants about it with it. *)
LEMMA FoundKept ==
  ASSUME DisjointInv, UNCHANGED <<callVars, found, windowEnd>>
  PROVE  DisjointInv'
BY CallFixed DEF DisjointInv, InScanOrder, ScanOrder

(* What a full result of a scan turns away. *)
LEMMA SelectMeaning ==
  ASSUME NEW m, NEW p, Select(m, p)
  PROVE  \/ Len(found) = opts.matches /\ truncated' = TRUE /\ pc' = "ended" /\ found' = found
         \/ Len(found) # opts.matches /\ truncated' = truncated /\ pc' = p /\ found' = Append(found, m)
BY DEF Select

(* flush serves the first candidate: what it may do with it. *)
LEMMA FlushMeaning ==
  ASSUME SearchInv, Flush
  PROVE  \E m \in Eligible :
           /\ m[1] \in DOMAIN best /\ m[2] = best[m[1]] /\ opts.longest
           /\ best' = [s \in DOMAIN best \ {m[1]} |-> best[s]]
           /\ \A s \in DOMAIN best : s \in Nat /\ m[1] <= s
           /\ \A x \in Eligible : ~Seen(x) => m[1] < x[1]
           /\ \A n \in Range(found) : n[1] < m[1]
           /\ \/ m[1] < windowEnd /\ UNCHANGED <<pc, found, truncated, windowEnd>>
              \/ ~(m[1] < windowEnd) /\ Select(m, pc) /\ windowEnd' = IF Len(found) = opts.matches THEN windowEnd ELSE m[2]
<1> USE DEF SearchInv
<1>1. pc \in {"read", "drain"} /\ Ripe /\ DOMAIN best # {} /\ Call /\ opts \in Scans /\ consumed \in Nat /\ Longest \in Nat
  BY StreamFacts, LongestType DEF Flush, Ripe
<1>2. opts.longest
  BY <1>1 DEF WindowInv
<1>3. NextStart \in DOMAIN best /\ NextStart \in Nat /\ \A s \in DOMAIN best : s \in Nat /\ NextStart <= s
  BY <1>1, NextStartRight DEF TypeOK
<1>4. PICK m : m = <<NextStart, best[NextStart]>>
  OBVIOUS
<1>5. m \in Eligible /\ m[1] = NextStart /\ m[2] = best[m[1]]
  BY <1>1, <1>2, <1>3, <1>4 DEF GreedyInv
<1>6. ASSUME NEW x \in Eligible, ~Seen(x) PROVE m[1] < x[1]
  <2>1. x \in Occ /\ x[1] \in Nat /\ x[2] \in Nat /\ x[2] - x[1] <= Longest
    BY <1>1, EligibleType
  <2>2. pc = "read"
    BY <1>1, <1>6, <2>1, AllSeen
  <2>3. consumed - NextStart >= Longest
    BY <1>1, <2>2 DEF Ripe
  <2>4. \A i \in DOMAIN shards : chain[i] = {}
    BY <2>2 DEF StreamInv
  <2>5. x[2] > consumed
    BY <1>1, <1>6, <2>1, <2>4 DEF Seen
  <2> QED BY <1>1, <1>3, <1>5, <2>1, <2>3, <2>5
<1>7. \A n \in Range(found) : n[1] < m[1]
  BY <1>1, <1>2, <1>3, <1>5 DEF GreedyInv
<1>8. best' = [s \in DOMAIN best \ {m[1]} |-> best[s]]
  BY <1>4, <1>5 DEF Flush
<1>9. \/ m[1] < windowEnd /\ UNCHANGED <<pc, found, truncated, windowEnd>>
      \/ ~(m[1] < windowEnd) /\ Select(m, pc) /\ windowEnd' = IF Len(found) = opts.matches THEN windowEnd ELSE m[2]
  BY <1>4, <1>5 DEF Flush
<1> QED BY <1>2, <1>3, <1>5, <1>6, <1>7, <1>8, <1>9

(* emit shows one match: what it may do with it. *)
LEMMA EmitMeaning ==
  ASSUME SearchInv, Emit
  PROVE  \E m \in Occ :
           /\ ~Seen(m) /\ Seen(m)' /\ m[2] = consumed
           /\ \A n \in Occ : n # m => (Seen(n)' <=> Seen(n))
           /\ \A i \in DOMAIN shards : \A n \in chain'[i] : m[1] < n[1]
           /\ \/ pc' = "done" /\ outcome' = "work" /\ UNCHANGED <<best, resultVars>>
              \/ pc' = "emit" /\ m \notin Eligible /\ UNCHANGED <<best, resultVars>>
              \/ pc' = "emit" /\ m \in Eligible /\ opts.longest /\ AddCandidate(m) /\ UNCHANGED resultVars
              \/ m \in Eligible /\ ~opts.longest /\ Select(m, "emit") /\ UNCHANGED best
<1>1. PICK m \in Occ : /\ m = Longer(chain[NextShard])
                       /\ ~Seen(m) /\ Seen(m)' /\ m[2] = consumed
                       /\ \A n \in Occ : n # m => (Seen(n)' <=> Seen(n))
                       /\ \A i \in DOMAIN shards : \A n \in chain'[i] : m[1] < n[1]
  BY EmitShows
<1> DEFINE skip == opts.word /\ ~WholeWord(Normal(text), m)
<1>2. m \in Eligible <=> ~skip
  BY <1>1 DEF Eligible, Occ
<1>3. \/ pc' = "done" /\ outcome' = "work" /\ UNCHANGED <<best, resultVars>>
      \/ pc' = "emit" /\ skip /\ UNCHANGED <<best, resultVars>>
      \/ pc' = "emit" /\ ~skip /\ opts.longest /\ AddCandidate(m) /\ UNCHANGED resultVars
      \/ ~skip /\ ~opts.longest /\ Select(m, "emit") /\ UNCHANGED best
  <2> HIDE DEF skip
  <2> QED BY <1>1 DEF Emit, Done, skip
<1> HIDE DEF skip
<1> QED BY <1>1, <1>2, <1>3

(* An occurrence that has been seen comes before one that has not. *)
LEMMA SeenFirst ==
  ASSUME SearchInv, pc \in {"read", "emit", "drain"}, NEW n \in Occ, NEW m \in Occ, Seen(n), ~Seen(m)
  PROVE  ScanOrder(n, m)
<1>1. Call /\ consumed \in Nat
  BY StreamFacts
<1>2. n[1] \in Nat /\ n[2] \in Nat /\ m[1] \in Nat /\ m[2] \in Nat
  BY <1>1, EligibleType
<1>3. n[2] <= consumed /\ m[2] >= consumed
  BY <1>1, <1>2 DEF Seen
<1>4. CASE n[2] = consumed /\ m[2] = consumed
  <2>1. PICK i \in DOMAIN shards : m \in chain[i]
    BY <1>4 DEF Seen
  <2>2. n[1] < m[1]
    BY <1>4, <2>1 DEF SearchInv, StreamInv, Occ
  <2> QED BY <1>4, <2>2 DEF ScanOrder
<1>5. CASE ~(n[2] = consumed /\ m[2] = consumed)
  BY <1>1, <1>2, <1>3, <1>5 DEF ScanOrder
<1> QED BY <1>4, <1>5

(* The selection so far stays in order and without overlaps. *)
LEMMA DisjointStep ==
  ASSUME SearchInv, [Next]_vars
  PROVE  DisjointInv'
<1>0. Call /\ TypeOK /\ DisjointInv /\ UNCHANGED callVars
  BY StepKeepsCall DEF SearchInv, TypeOK, Call
<1>1. CASE UNCHANGED <<found, windowEnd>>
  BY <1>0, <1>1, FoundKept
<1>2. CASE Flush
  <2>1. PICK m \in Eligible :
           /\ opts.longest
           /\ \/ m[1] < windowEnd /\ UNCHANGED <<pc, found, truncated, windowEnd>>
              \/ ~(m[1] < windowEnd) /\ Select(m, pc) /\ windowEnd' = IF Len(found) = opts.matches THEN windowEnd ELSE m[2]
    BY <1>2, FlushMeaning
  <2>2. opts \in Scans /\ windowEnd \in Nat /\ m[1] \in Nat
    BY <1>0, <1>2, StreamFacts, EligibleType DEF Flush, TypeOK
  <2>3. CASE found' = Append(found, m) /\ windowEnd' = m[2] /\ ~(m[1] < windowEnd)
    BY <1>0, <2>1, <2>2, <2>3, FoundAppend
  <2> QED BY <1>1, <2>1, <2>3, SelectMeaning
<1>3. CASE Emit
  <2>1. PICK m \in Occ :
           /\ ~Seen(m)
           /\ \/ UNCHANGED found
              \/ m \in Eligible /\ ~opts.longest /\ Select(m, "emit")
    BY <1>3, EmitMeaning
  <2>2. windowEnd' = windowEnd /\ opts \in Scans /\ pc = "emit"
    BY <1>3, StreamFacts DEF Emit
  <2>3. CASE m \in Eligible /\ ~opts.longest /\ found' = Append(found, m)
    <3>1. \A n \in Range(found) : ScanOrder(n, m)
      <4> TAKE n \in Range(found)
      <4>1. n \in Eligible /\ Seen(n)
        BY <2>2, <2>3 DEF SearchInv, OverlappingInv
      <4> QED BY <1>0, <2>1, <2>2, <4>1, SeenFirst, EligibleType
    <3> QED BY <1>0, <2>2, <2>3, <3>1, FoundAppend
  <2> QED BY <1>1, <2>1, <2>2, <2>3, SelectMeaning
<1>4. CASE KeepMatch
  <2>1. opts \in Scans /\ rest \subseteq Eligible /\ rest # {} /\ pc = "select" /\ windowEnd \in Nat
    BY <1>4 DEF KeepMatch, CallInv, SelectInv, SearchInv, TypeOK
  <2>2. PICK m : m = Earliest
    OBVIOUS
  <2>3. m \in rest /\ m \in Eligible /\ m[1] \in Nat
    BY <1>0, <2>1, <2>2, EarliestRight, EligibleType
  <2>4. CASE found' = Append(found, m) /\ windowEnd' = m[2] /\ ~(opts.longest /\ m[1] < windowEnd)
    <3>1. ~opts.longest => \A n \in Range(found) : ScanOrder(n, m)
      BY <2>1, <2>3 DEF SearchInv, SelectInv
    <3> QED BY <1>0, <2>1, <2>3, <2>4, <3>1, FoundAppend
  <2> QED BY <1>1, <1>4, <2>2, <2>4 DEF KeepMatch
<1>5. CASE StartScan \/ ReadRune \/ EmitDone \/ Drain \/ ScanEnds
  BY <1>1, <1>5 DEF StartScan, ReadRune, EmitDone, Drain, ScanEnds
<1>6. CASE Rewriting
  BY <1>1, <1>6 DEF Rewriting, Measure, Measured, Write, Written
<1>7. CASE StartMatches \/ MatchesEnd
  BY <1>1, <1>7 DEF StartMatches, MatchesEnd
<1>8. CASE Splitting
  <2>1. opts \in Splits
    BY <1>8 DEF Splitting, StartSplit, SplitChunk, SplitAutoChunk, SplitAutoEnds, ChunkStarts, ChunkEnds,
                ChunkCanceled, Merge, SearchInv, CallInv
  <2>2. opts' \notin Scans
    BY <1>0, <2>1, SplitOptions
  <2> QED BY <2>2 DEF DisjointInv
<1>9. CASE UNCHANGED vars
  BY <1>1, <1>9 DEF vars
<1> QED BY <1>2, <1>3, <1>4, <1>5, <1>6, <1>7, <1>8, <1>9 DEF Next, Scanning, Matching

(* A match before the end of the last selection is settled by it. *)
LEMMA OverlappedSettled ==
  ASSUME Call, TypeOK, DisjointInv, opts \in Scans, opts.longest, NEW x \in Eligible, x[1] < windowEnd,
         \A n \in Range(found) : n[1] < x[1]
  PROVE  Settled(x)
<1>1. x[1] \in Nat /\ windowEnd \in Nat
  BY EligibleType DEF TypeOK
<1>2. PICK n \in Range(found) : n[2] = windowEnd
  BY <1>1, FoundFacts
<1> QED BY <1>2 DEF Settled, LeftmostFirst

(* What has been seen is settled or pending, after each step. *)
LEMMA GreedyStep ==
  ASSUME SearchInv, [Next]_vars
  PROVE  GreedyInv'
<1> USE DEF SearchInv
<1>0. Call /\ TypeOK /\ DisjointInv /\ UNCHANGED callVars /\ Eligible' = Eligible /\ Occ' = Occ
  BY StepKeepsCall, CallFixed DEF TypeOK, Call
<1> SUFFICES ASSUME pc' \in {"read", "emit", "drain"}, opts.longest PROVE GreedyInv'
  BY <1>0 DEF GreedyInv
<1>1. CASE pc \in {"read", "emit", "drain"} /\ UNCHANGED <<best, found, windowEnd, consumed, chain>>
  <2>1. \A m : Seen(m)' = Seen(m)
    BY <1>0, <1>1, SeenFixed
  <2> QED BY <1>0, <1>1, <2>1 DEF GreedyInv, Settled
<1>2. CASE StartScan
  <2>1. /\ pc = "start" /\ found = <<>> /\ DOMAIN best = {} /\ consumed = 0 /\ (\A i \in DOMAIN shards : chain[i] = {})
        /\ UNCHANGED <<best, found, windowEnd, consumed, chain>>
    BY <1>2 DEF StartScan, CallInv
  <2>2. Range(found) = {} /\ Range(found') = {} /\ DOMAIN best' = {}
    BY <2>1 DEF Range
  <2>3. \A m \in Eligible' : ~Seen(m)'
    <3> TAKE m \in Eligible'
    <3>1. m[1] \in Nat /\ m[2] \in Nat /\ m[1] < m[2]
      BY <1>0, EligibleType
    <3> QED BY <2>1, <3>1 DEF Seen
  <2> QED BY <2>2, <2>3 DEF GreedyInv
<1>3. CASE Flush
  <2>1. PICK m \in Eligible :
           /\ m[1] \in DOMAIN best /\ m[2] = best[m[1]]
           /\ best' = [s \in DOMAIN best \ {m[1]} |-> best[s]]
           /\ \A s \in DOMAIN best : s \in Nat /\ m[1] <= s
           /\ \A x \in Eligible : ~Seen(x) => m[1] < x[1]
           /\ \A n \in Range(found) : n[1] < m[1]
           /\ \/ m[1] < windowEnd /\ UNCHANGED <<pc, found, truncated, windowEnd>>
              \/ ~(m[1] < windowEnd) /\ Select(m, pc) /\ windowEnd' = IF Len(found) = opts.matches THEN windowEnd ELSE m[2]
    BY <1>3, FlushMeaning
  <2>2. opts \in Scans /\ UNCHANGED <<consumed, chain>> /\ pc \in {"read", "drain"}
    BY <1>3, StreamFacts DEF Flush
  <2>3. \A x : Seen(x)' = Seen(x)
    BY <1>0, <2>2, SeenFixed
  <2>4. m[1] \in Nat /\ m[2] \in Nat /\ m[1] < m[2] /\ windowEnd \in Nat
    BY <1>0, EligibleType DEF TypeOK
  <2>5. DOMAIN best' = DOMAIN best \ {m[1]} /\ \A s \in DOMAIN best' : best'[s] = best[s]
    BY <2>1
  <2>6. \A s \in DOMAIN best' : <<s, best'[s]>> \in Eligible
    BY <2>2, <2>5 DEF GreedyInv
  <2>7. /\ \A x \in Eligible : Seen(x) =>
             IF x[1] \in DOMAIN best THEN x[2] <= best[x[1]] \/ x[1] < windowEnd ELSE Settled(x)
        /\ \A n \in Range(found) : \A s \in DOMAIN best : n[1] < s
        /\ \A n \in Range(found) : \A x \in Eligible : ~Seen(x) => n[1] < x[1]
    BY <2>2 DEF GreedyInv
  <2>8. CASE m[1] < windowEnd /\ UNCHANGED <<pc, found, truncated, windowEnd>>
    <3>1. ASSUME NEW x \in Eligible, Seen(x)
          PROVE  IF x[1] \in DOMAIN best' THEN x[2] <= best'[x[1]] \/ x[1] < windowEnd' ELSE Settled(x)'
      <4>1. Settled(x)' <=> Settled(x)
        BY <2>8 DEF Settled
      <4>2. CASE x[1] = m[1]
        <5>1. Settled(x)
          BY <1>0, <2>1, <2>2, <2>8, <4>2, OverlappedSettled
        <5> QED BY <2>5, <4>1, <4>2, <5>1
      <4>3. CASE x[1] # m[1]
        BY <2>5, <2>7, <2>8, <3>1, <4>1, <4>3
      <4> QED BY <4>2, <4>3
    <3>2. \A n \in Range(found') : /\ \A s \in DOMAIN best' : n[1] < s
                                  /\ \A x \in Eligible : ~Seen(x) => n[1] < x[1]
      BY <2>5, <2>7, <2>8
    <3> QED BY <1>0, <2>3, <2>6, <3>1, <3>2 DEF GreedyInv
  <2>9. CASE ~(m[1] < windowEnd) /\ found' = Append(found, m) /\ windowEnd' = m[2]
    <3>1. Range(found') = Range(found) \cup {m}
      BY <1>0, <2>2, <2>4, <2>9, FoundAppend
    <3>2. ASSUME NEW x \in Eligible, Seen(x)
          PROVE  IF x[1] \in DOMAIN best' THEN x[2] <= best'[x[1]] \/ x[1] < windowEnd' ELSE Settled(x)'
      <4>0. x[1] \in Nat /\ x[2] \in Nat /\ x = <<x[1], x[2]>> /\ m = <<m[1], m[2]>>
        BY <1>0, EligibleType
      <4>1. Settled(x) => Settled(x)'
        BY <3>1 DEF Settled
      <4>2. CASE x[1] = m[1]
        <5>1. x[2] <= m[2]
          BY <2>1, <2>7, <2>9, <3>2, <4>2
        <5>2. x = m \/ (x[1] < m[2] /\ LeftmostFirst(m, x))
          BY <2>4, <4>0, <4>2, <5>1 DEF LeftmostFirst
        <5>3. Settled(x)'
          BY <3>1, <5>2 DEF Settled
        <5> QED BY <2>5, <4>2, <5>3
      <4>3. CASE x[1] # m[1] /\ x[1] \in DOMAIN best
        <5>1. x[1] \in DOMAIN best' /\ best'[x[1]] = best[x[1]]
          BY <2>5, <4>3
        <5>2. x[2] <= best[x[1]] \/ x[1] < windowEnd
          BY <2>7, <3>2, <4>3
        <5> QED BY <2>4, <2>9, <4>0, <5>1, <5>2
      <4>4. CASE x[1] # m[1] /\ x[1] \notin DOMAIN best
        BY <2>5, <2>7, <3>2, <4>1, <4>4
      <4> QED BY <4>2, <4>3, <4>4
    <3>3. \A n \in Range(found') : /\ \A s \in DOMAIN best' : n[1] < s
                                  /\ \A x \in Eligible : ~Seen(x) => n[1] < x[1]
      <4>1. \A s \in DOMAIN best' : m[1] < s
        BY <2>1, <2>4, <2>5
      <4> QED BY <2>1, <2>5, <2>7, <3>1, <4>1
    <3> QED BY <1>0, <2>3, <2>6, <3>2, <3>3 DEF GreedyInv
  <2>10. pc' # "ended"
    OBVIOUS
  <2> QED BY <2>1, <2>8, <2>9, <2>10, SelectMeaning
<1>4. CASE ReadRune
  <2>1. \A m \in Occ : Seen(m)' <=> Seen(m)
    BY <1>4, ReadShows
  <2>2. pc = "read" /\ UNCHANGED <<best, found, windowEnd>> /\ Eligible \subseteq Occ
    BY <1>0, <1>4, EligibleType DEF ReadRune
  <2> QED BY <1>0, <2>1, <2>2 DEF GreedyInv, Settled
<1>5. CASE Emit
  <2>1. PICK m \in Occ :
           /\ ~Seen(m) /\ Seen(m)' /\ m[2] = consumed
           /\ \A n \in Occ : n # m => (Seen(n)' <=> Seen(n))
           /\ \/ pc' = "done"
              \/ m \notin Eligible /\ UNCHANGED <<best, resultVars>>
              \/ m \in Eligible /\ AddCandidate(m) /\ UNCHANGED resultVars
    BY <1>5, EmitMeaning
  <2>2. opts \in Scans /\ consumed \in Nat /\ UNCHANGED <<consumed, windowEnd>> /\ pc = "emit" /\ Eligible \subseteq Occ
    BY <1>0, <1>5, StreamFacts, EligibleType DEF Emit
  <2>3. /\ \A s \in DOMAIN best : <<s, best[s]>> \in Eligible
        /\ \A x \in Eligible : Seen(x) =>
             IF x[1] \in DOMAIN best THEN x[2] <= best[x[1]] \/ x[1] < windowEnd ELSE Settled(x)
        /\ \A n \in Range(found) : \A s \in DOMAIN best : n[1] < s
        /\ \A n \in Range(found) : \A x \in Eligible : ~Seen(x) => n[1] < x[1]
    BY <2>2 DEF GreedyInv
  <2>4. CASE m \notin Eligible /\ UNCHANGED <<best, resultVars>>
    <3>1. \A x \in Eligible : Seen(x)' <=> Seen(x)
      BY <2>1, <2>2, <2>4
    <3> QED BY <1>0, <2>2, <2>3, <2>4, <3>1 DEF GreedyInv, Settled
  <2>5. CASE m \in Eligible /\ AddCandidate(m) /\ UNCHANGED resultVars
    <3>1. m[1] \in Nat /\ m[2] \in Nat /\ m = <<m[1], m[2]>>
      BY <1>0, EligibleType
    <3>2. \A n \in Range(found) : n[1] < m[1]
      BY <2>1, <2>3, <2>5
    <3>3. \A x : Settled(x)' <=> Settled(x)
      BY <2>5 DEF Settled
    <3>4. \A n \in Range(found') : \A x \in Eligible : ~Seen(x)' => n[1] < x[1]
      BY <2>1, <2>2, <2>3, <2>5
    <3>5. CASE best' = best /\ (m[1] < windowEnd \/ (m[1] \in DOMAIN best /\ best[m[1]] >= m[2]))
      <4>1. ASSUME NEW x \in Eligible, Seen(x)'
            PROVE  IF x[1] \in DOMAIN best THEN x[2] <= best[x[1]] \/ x[1] < windowEnd ELSE Settled(x)
        <5>1. CASE x # m
          BY <2>1, <2>2, <2>3, <4>1, <5>1
        <5>2. CASE x = m /\ x[1] \in DOMAIN best
          <6>1. best[m[1]] \in Nat
            BY <1>0, <5>2 DEF TypeOK
          <6> QED BY <3>1, <3>5, <5>2, <6>1
        <5>3. CASE x = m /\ x[1] \notin DOMAIN best
          BY <1>0, <2>2, <2>5, <3>2, <3>5, <5>3, OverlappedSettled
        <5> QED BY <5>1, <5>2, <5>3
      <4> QED BY <1>0, <2>2, <2>3, <2>5, <3>3, <3>4, <3>5, <4>1 DEF GreedyInv
    <3>6. CASE best' = [s \in DOMAIN best \cup {m[1]} |-> IF s = m[1] THEN m[2] ELSE best[s]]
      <4>1. DOMAIN best' = DOMAIN best \cup {m[1]} /\ best'[m[1]] = m[2] /\ \A s \in DOMAIN best : s # m[1] => best'[s] = best[s]
        BY <3>6
      <4>2. \A s \in DOMAIN best' : <<s, best'[s]>> \in Eligible
        BY <2>3, <2>5, <3>1, <4>1
      <4>3. ASSUME NEW x \in Eligible, Seen(x)'
            PROVE  IF x[1] \in DOMAIN best' THEN x[2] <= best'[x[1]] \/ x[1] < windowEnd ELSE Settled(x)
        <5>1. CASE x[1] = m[1]
          <6>1. x[2] \in Nat /\ x[2] <= consumed
            BY <1>0, <2>2, <4>3, EligibleType DEF Seen
          <6> QED BY <2>1, <4>1, <5>1, <6>1
        <5>2. CASE x[1] # m[1]
          <6>1. Seen(x) /\ (x[1] \in DOMAIN best' <=> x[1] \in DOMAIN best)
            BY <2>1, <2>2, <4>1, <4>3, <5>2
          <6> QED BY <2>3, <4>1, <5>2, <6>1
        <5> QED BY <5>1, <5>2
      <4>4. \A n \in Range(found') : \A s \in DOMAIN best' : n[1] < s
        BY <2>3, <2>5, <3>2, <4>1
      <4> QED BY <1>0, <2>2, <3>3, <3>4, <4>2, <4>3, <4>4 DEF GreedyInv
    <3> QED BY <2>5, <3>5, <3>6 DEF AddCandidate
  <2> QED BY <2>1, <2>4, <2>5
<1>6. CASE EmitDone \/ Drain
  BY <1>1, <1>6 DEF EmitDone, Drain
<1>7. CASE ScanEnds \/ Rewriting \/ Matching \/ Splitting
  BY <1>7, OffStream
<1>8. CASE UNCHANGED vars
  BY <1>1, <1>8 DEF vars
<1> QED BY <1>2, <1>3, <1>4, <1>5, <1>6, <1>7, <1>8 DEF Next, Scanning

(* A scan that reports overlaps has found what it has seen. *)
LEMMA OverlappingStep ==
  ASSUME SearchInv, [Next]_vars
  PROVE  OverlappingInv'
<1> USE DEF SearchInv
<1>0. Call /\ TypeOK /\ DisjointInv /\ UNCHANGED callVars /\ Eligible' = Eligible /\ Occ' = Occ /\ Eligible \subseteq Occ
  BY StepKeepsCall, CallFixed, EligibleType DEF TypeOK, Call
<1> SUFFICES ASSUME pc' \in {"read", "emit", "drain"}, ~opts.longest PROVE OverlappingInv'
  BY <1>0 DEF OverlappingInv
<1> DEFINE Now == {m \in Eligible : Seen(m)}
<1>1. CASE pc \in {"read", "emit", "drain"} /\ UNCHANGED found /\ \A m \in Eligible : Seen(m)' <=> Seen(m)
  BY <1>0, <1>1 DEF OverlappingInv
<1>2. CASE StartScan
  <2>1. /\ pc = "start" /\ found = <<>> /\ consumed = 0 /\ (\A i \in DOMAIN shards : chain[i] = {})
        /\ UNCHANGED <<found, consumed, chain>>
    BY <1>2 DEF StartScan, CallInv
  <2>2. Range(found') = {}
    BY <2>1 DEF Range
  <2>3. \A m \in Eligible' : ~Seen(m)'
    <3> TAKE m \in Eligible'
    <3>1. m[1] \in Nat /\ m[2] \in Nat /\ m[1] < m[2]
      BY <1>0, EligibleType
    <3> QED BY <2>1, <3>1 DEF Seen
  <2> QED BY <2>2, <2>3 DEF OverlappingInv
<1>3. CASE Flush
  BY <1>3, FlushMeaning
<1>4. CASE ReadRune
  BY <1>0, <1>1, <1>4, ReadShows DEF ReadRune
<1>5. CASE Emit
  <2>1. PICK m \in Occ :
           /\ ~Seen(m) /\ Seen(m)'
           /\ \A n \in Occ : n # m => (Seen(n)' <=> Seen(n))
           /\ \/ pc' = "done"
              \/ m \notin Eligible /\ UNCHANGED <<best, resultVars>>
              \/ m \in Eligible /\ Select(m, "emit")
    BY <1>5, EmitMeaning
  <2>2. opts \in Scans /\ pc = "emit" /\ windowEnd' = windowEnd
    BY <1>5, StreamFacts DEF Emit
  <2>3. CASE m \notin Eligible /\ UNCHANGED <<best, resultVars>>
    BY <1>0, <1>1, <2>1, <2>2, <2>3
  <2>4. CASE m \in Eligible /\ found' = Append(found, m)
    <3>1. Range(found) = Now
      BY <2>2 DEF OverlappingInv
    <3>2. \A n \in Range(found) : ScanOrder(n, m)
      BY <1>0, <2>1, <2>2, <2>4, <3>1, SeenFirst
    <3>3. Range(found') = Range(found) \cup {m}
      BY <1>0, <2>2, <2>4, <3>2, FoundAppend
    <3>4. \A x \in Eligible : Seen(x)' <=> x = m \/ Seen(x)
      BY <1>0, <2>1
    <3> QED BY <1>0, <2>4, <3>1, <3>3, <3>4 DEF OverlappingInv
  <2> QED BY <2>1, <2>3, <2>4, SelectMeaning
<1>6. CASE EmitDone \/ Drain
  <2>1. UNCHANGED <<callVars, consumed, chain, found>> /\ pc \in {"read", "emit"}
    BY <1>6 DEF EmitDone, Drain
  <2> QED BY <1>1, <2>1, SeenFixed
<1>7. CASE ScanEnds \/ Rewriting \/ Matching \/ Splitting
  BY <1>7, OffStream
<1>8. CASE UNCHANGED vars
  <2>1. UNCHANGED <<callVars, consumed, chain, found, pc>>
    BY <1>8 DEF vars
  <2> QED BY <1>1, <2>1, SeenFixed
<1> QED BY <1>2, <1>3, <1>4, <1>5, <1>6, <1>7, <1>8 DEF Next, Scanning

(* FindMatches settles the matches in order. *)
LEMMA SelectStep ==
  ASSUME SearchInv, [Next]_vars
  PROVE  SelectInv'
<1> USE DEF SearchInv
<1>0. Call /\ TypeOK /\ DisjointInv /\ UNCHANGED callVars /\ Eligible' = Eligible
  BY StepKeepsCall, CallFixed DEF TypeOK, Call
<1> SUFFICES ASSUME pc' = "select" PROVE SelectInv'
  BY DEF SelectInv
<1>1. CASE StartMatches
  <2>1. MatchString(Normal(text)) = Occ
    BY <1>0, TextType, MatchStringRight DEF Occ
  <2>2. rest' = Eligible /\ found = <<>> /\ found' = found
    BY <1>1, <2>1 DEF StartMatches, Eligible, Occ, CallInv
  <2>3. Range(found') = {}
    BY <2>2 DEF Range
  <2> QED BY <1>0, <2>2, <2>3 DEF SelectInv
<1>2. CASE KeepMatch
  <2>1. opts \in Scans /\ rest \subseteq Eligible /\ rest # {} /\ pc = "select" /\ windowEnd \in Nat /\ opts.longest \in BOOLEAN
    BY <1>2, ScanOptions DEF KeepMatch, CallInv, SelectInv, TypeOK
  <2>2. PICK m : m = Earliest
    OBVIOUS
  <2>3. m \in rest /\ m \in Eligible /\ m[1] \in Nat /\ m[2] \in Nat /\ m[1] < m[2]
    BY <1>0, <2>1, <2>2, EarliestRight, EligibleType
  <2>4. rest' = rest \ {m} /\ rest' \subseteq Eligible'
    BY <1>0, <1>2, <2>1, <2>2 DEF KeepMatch
  <2>5. CASE opts.longest
    <3>1. /\ \A n \in rest \ {m} : LeftmostFirst(m, n)
          /\ \A x \in Eligible \ rest : Settled(x)
          /\ \A n \in Range(found) : \A x \in rest : LeftmostFirst(n, x)
      BY <1>0, <2>1, <2>2, <2>5, EarliestRight DEF SelectInv
    <3>2. CASE m[1] < windowEnd /\ UNCHANGED <<found, windowEnd>>
      <4>1. PICK n \in Range(found) : n[2] = windowEnd
        BY <1>0, <2>1, <2>3, <2>5, <3>2, FoundFacts
      <4>2. Settled(m)
        BY <2>3, <3>1, <3>2, <4>1 DEF Settled
      <4>3. \A x \in Eligible \ rest' : Settled(x)'
        BY <2>4, <3>1, <3>2, <4>2 DEF Settled
      <4> QED BY <1>0, <2>4, <2>5, <3>1, <3>2, <4>3 DEF SelectInv
    <3>3. CASE found' = Append(found, m) /\ windowEnd' = m[2] /\ ~(m[1] < windowEnd)
      <4>1. Range(found') = Range(found) \cup {m}
        BY <1>0, <2>1, <2>3, <2>5, <3>3, FoundAppend
      <4>2. \A x \in Eligible \ rest' : Settled(x)'
        BY <2>4, <3>1, <4>1 DEF Settled
      <4>3. \A n \in Range(found') : \A x \in rest' : LeftmostFirst(n, x)
        BY <2>4, <3>1, <4>1
      <4> QED BY <1>0, <2>4, <2>5, <4>2, <4>3 DEF SelectInv
    <3> QED BY <1>2, <2>2, <2>5, <3>2, <3>3 DEF KeepMatch
  <2>6. CASE ~opts.longest
    <3>1. /\ \A n \in rest \ {m} : ScanOrder(m, n)
          /\ Range(found) = Eligible \ rest
          /\ \A n \in Range(found) : \A x \in rest : ScanOrder(n, x)
      BY <1>0, <2>1, <2>2, <2>6, EarliestRight DEF SelectInv
    <3>2. found' = Append(found, m)
      BY <1>2, <2>2, <2>6 DEF KeepMatch
    <3>3. Range(found') = Range(found) \cup {m}
      BY <1>0, <2>1, <2>3, <2>6, <3>1, <3>2, FoundAppend
    <3>4. Range(found') = Eligible \ rest'
      BY <2>3, <2>4, <3>1, <3>3
    <3>5. \A n \in Range(found') : \A x \in rest' : ScanOrder(n, x)
      BY <2>4, <3>1, <3>3
    <3> QED BY <1>0, <2>4, <2>6, <3>4, <3>5 DEF SelectInv
  <2> QED BY <2>1, <2>5, <2>6
<1>3. CASE Scanning \/ Rewriting \/ Splitting \/ MatchesEnd
  BY <1>3 DEF Scanning, StartScan, Flush, ReadRune, Emit, EmitDone, Drain, ScanEnds, Done, Select, Rewriting, Measure,
     Measured, Write, Written, Splitting, StartSplit, SplitChunk, SplitAutoChunk, SplitAutoEnds, ChunkStarts, ChunkEnds,
     ChunkCanceled, Merge, MatchesEnd
<1>4. CASE UNCHANGED vars
  BY <1>0, <1>4 DEF vars, SelectInv, Settled
<1> QED BY <1>1, <1>2, <1>3, <1>4 DEF Next, Matching

-----------------------------------------------------------------------------
(* A choice of matches that is right for the starts before k0 can be       *)
(* completed, start by start, to one that is right for all of them.        *)
LEMMA SelectionCompletes ==
  ASSUME Call, NEW F \in SUBSET Eligible, NEW k0 \in Nat,
         \A n \in F : n[1] < k0,
         \A x \in Eligible : x[1] < k0 => (x \in F <=> ~\E n \in F : Overlap(x, n) /\ LeftmostFirst(n, x))
  PROVE  \E S \in SUBSET Eligible : Selection(S) /\ F \subseteq S /\ \A x \in S \ F : x[1] >= k0
<1>0. /\ Len(text) \in Nat
      /\ \A x \in Eligible : x = <<x[1], x[2]>> /\ x[1] \in Nat /\ x[2] \in Nat /\ x[1] < x[2] /\ x[2] <= Len(text)
  BY EligibleType, TextType
<1> DEFINE Beaten(x, T) == \E n \in T : Overlap(x, n) /\ LeftmostFirst(n, x)
           Upto(T, k) == /\ F \subseteq T
                         /\ \A n \in T : n[1] < k
                         /\ \A n \in T \ F : n[1] >= k0
                         /\ \A x \in Eligible : x[1] < k => (x \in T <=> ~Beaten(x, T))
           K == {k \in Nat : k >= k0 => \E T \in SUBSET Eligible : Upto(T, k)}
<1>1. Upto(F, k0)
  OBVIOUS
<1>2. 0 \in K
  <2> HIDE DEF Upto
  <2>1. 0 >= k0 => k0 = 0
    OBVIOUS
  <2> QED BY <1>1, <2>1
<1>3. ASSUME NEW k \in Nat, k >= k0, NEW T \in SUBSET Eligible, Upto(T, k)
      PROVE  \E U \in SUBSET Eligible : Upto(U, k + 1)
  <2> DEFINE C == {x \in Eligible : x[1] = k /\ ~Beaten(x, T)}
  <2>1. CASE C = {}
    <3>1. \A n \in T : n[1] < k + 1
      BY <1>0, <1>3
    <3>2. ASSUME NEW x \in Eligible, x[1] < k + 1 PROVE x \in T <=> ~Beaten(x, T)
      <4>1. CASE x[1] < k
        BY <1>3, <4>1
      <4>2. CASE x[1] = k
        <5>1. Beaten(x, T)
          BY <2>1, <4>2
        <5>2. x \notin T
          BY <1>0, <1>3, <4>2
        <5> QED BY <5>1, <5>2
      <4> QED BY <1>0, <3>2, <4>1, <4>2
    <3>3. Upto(T, k + 1)
      BY <1>3, <3>1, <3>2
    <3> QED BY <3>3
  <2>2. CASE C # {}
    <3> DEFINE E == {x[2] : x \in C}
    <3>1. PICK e \in E : \A z \in E : z <= e
      <4>1. E \subseteq Nat /\ E # {} /\ \A z \in E : z <= Len(text)
        BY <1>0, <2>2
      <4> HIDE DEF E, C, Upto
      <4> QED BY <1>0, <4>1, GreatestNat
    <3>2. PICK y \in C : \A x \in C : x[2] <= y[2]
      BY <3>1
    <3> HIDE DEF E
    <3>3. y \in Eligible /\ y[1] = k /\ ~Beaten(y, T) /\ y[2] \in Nat /\ k < y[2]
      BY <1>0, <3>2
    <3> DEFINE U == T \cup {y}
    <3>4. U \in SUBSET Eligible /\ F \subseteq U /\ (\A n \in U : n[1] < k + 1) /\ \A n \in U \ F : n[1] >= k0
      BY <1>0, <1>3, <3>3
    <3>5. ASSUME NEW x \in Eligible, x[1] < k + 1 PROVE x \in U <=> ~Beaten(x, U)
      <4>0. x = <<x[1], x[2]>> /\ x[1] \in Nat /\ x[2] \in Nat /\ x[1] < x[2] /\ y = <<y[1], y[2]>>
        BY <1>0, <3>3
      <4>1. CASE x[1] < k
        <5>1. ~LeftmostFirst(y, x)
          BY <3>3, <4>0, <4>1 DEF LeftmostFirst
        <5>2. Beaten(x, U) <=> Beaten(x, T)
          BY <5>1
        <5>3. x \in U <=> x \in T
          BY <3>3, <4>0, <4>1
        <5>4. x \in T <=> ~Beaten(x, T)
          BY <1>3, <4>1
        <5> HIDE DEF Beaten, U
        <5> QED BY <5>2, <5>3, <5>4
      <4>2. CASE x = y
        <5>1. ~LeftmostFirst(y, y)
          BY <3>3 DEF LeftmostFirst
        <5>2. ~Beaten(y, U)
          BY <3>3, <5>1
        <5> QED BY <4>2, <5>2
      <4>3. CASE x # y /\ x[1] = k
        <5>1. x \notin T
          BY <1>0, <1>3, <4>3
        <5>2. CASE Beaten(x, T)
          BY <4>3, <5>1, <5>2
        <5>3. CASE ~Beaten(x, T)
          <6>1. x \in C
            BY <4>3, <5>3
          <6>2. x[2] < y[2]
            <7>1. x[2] <= y[2] /\ x[2] # y[2]
              BY <3>2, <3>3, <4>0, <4>3, <6>1
            <7> QED BY <3>3, <4>0, <7>1
          <6>3. Overlap(x, y) /\ LeftmostFirst(y, x)
            BY <3>3, <4>0, <4>3, <6>2 DEF Overlap, LeftmostFirst
          <6> QED BY <4>3, <5>1, <6>3
        <5> QED BY <5>2, <5>3
      <4> QED BY <3>5, <4>0, <4>1, <4>2, <4>3
    <3>6. Upto(U, k + 1)
      BY <3>4, <3>5
    <3> QED BY <3>4, <3>6
  <2> QED BY <2>1, <2>2
<1>4. ASSUME NEW k \in Nat, k \in K PROVE k + 1 \in K
  <2> HIDE DEF Upto
  <2> SUFFICES ASSUME k + 1 >= k0 PROVE \E T \in SUBSET Eligible : Upto(T, k + 1)
    OBVIOUS
  <2>1. CASE k + 1 = k0
    BY <1>1, <2>1
  <2>2. CASE k >= k0
    <3>1. PICK T \in SUBSET Eligible : Upto(T, k)
      BY <1>4, <2>2
    <3> QED BY <1>3, <2>2, <3>1
  <2> QED BY <2>1, <2>2
<1>5. Nat \subseteq K
  <2> HIDE DEF K
  <2> QED BY <1>2, <1>4, SetInduction
<1> DEFINE last == k0 + Len(text) + 1
<1>6. last \in Nat /\ last >= k0 /\ \A x \in Eligible : x[1] < last
  BY <1>0
<1>7. PICK S \in SUBSET Eligible : Upto(S, last)
  <2> HIDE DEF Upto, last
  <2> QED BY <1>5, <1>6
<1>8. Selection(S)
  <2> HIDE DEF last
  <2> QED BY <1>6, <1>7 DEF Selection
<1> QED BY <1>7, <1>8

(* A settled match is selected exactly when no better one overlaps it. *)
LEMMA SettledMeaning ==
  ASSUME Call, TypeOK, DisjointInv, opts \in Scans, opts.longest, NEW x \in Eligible, Settled(x)
  PROVE  x \in Range(found) <=> ~\E n \in Range(found) : Overlap(x, n) /\ LeftmostFirst(n, x)
<1>1. x = <<x[1], x[2]>> /\ x[1] \in Nat /\ x[2] \in Nat /\ x[1] < x[2]
  BY EligibleType
<1>2. ASSUME x \in Range(found), NEW n \in Range(found), Overlap(x, n), LeftmostFirst(n, x) PROVE FALSE
  <2>1. PICK i \in 1 .. Len(found) : x = found[i]
    BY <1>2, FoundFacts
  <2>2. PICK j \in 1 .. Len(found) : n = found[j]
    BY <1>2, FoundFacts
  <2>3. n[1] \in Nat /\ n[2] \in Nat
    BY <1>2, FoundFacts
  <2>4. i \in DOMAIN found /\ j \in DOMAIN found /\ Len(found) \in Nat
    BY FoundFacts
  <2>5. ASSUME i < j PROVE FALSE
    <3>1. x[2] <= n[1]
      BY <2>1, <2>2, <2>4, <2>5 DEF DisjointInv
    <3> QED BY <1>1, <1>2, <2>3, <3>1 DEF Overlap
  <2>6. ASSUME j < i PROVE FALSE
    <3>1. n[2] <= x[1]
      BY <2>1, <2>2, <2>4, <2>6 DEF DisjointInv
    <3> QED BY <1>1, <1>2, <2>3, <3>1 DEF Overlap
  <2>7. ASSUME i = j PROVE FALSE
    <3>1. x = n
      BY <2>1, <2>2, <2>7
    <3> QED BY <1>1, <1>2, <3>1 DEF LeftmostFirst
  <2>8. i < j \/ j < i \/ i = j
    <3>1. Len(found) \in Nat
      BY <2>4
    <3> QED BY <3>1
  <2> QED BY <2>5, <2>6, <2>7, <2>8
<1>3. ASSUME x \notin Range(found) PROVE \E n \in Range(found) : Overlap(x, n) /\ LeftmostFirst(n, x)
  <2>1. PICK n \in Range(found) : x[1] < n[2] /\ LeftmostFirst(n, x)
    BY <1>3 DEF Settled
  <2>2. n[1] \in Nat /\ n[2] \in Nat
    BY FoundFacts
  <2>3. Overlap(x, n)
    BY <1>1, <2>1, <2>2 DEF Overlap, LeftmostFirst
  <2> QED BY <2>1, <2>3
<1> QED BY <1>2, <1>3

(* When everything is settled, what was found is the selection. *)
LEMMA SettledExact ==
  ASSUME Call, TypeOK, DisjointInv, opts \in Scans, ~truncated,
         IF opts.longest THEN \A x \in Eligible : Settled(x) ELSE Range(found) = Eligible
  PROVE  Exact
<1>1. InScanOrder(found) /\ Range(found) \in SUBSET Eligible
  BY DEF DisjointInv
<1>2. Range(found) \in Chosen
  <2>1. CASE opts.longest
    <3>1. \A x \in Eligible : x \in Range(found) <=> ~\E n \in Range(found) : Overlap(x, n) /\ LeftmostFirst(n, x)
      BY <2>1, SettledMeaning
    <3>2. Selection(Range(found))
      BY <1>1, <3>1 DEF Selection
    <3> QED BY <1>1, <2>1, <3>2 DEF Chosen
  <2>2. CASE ~opts.longest
    BY <1>1, <2>2 DEF Chosen
  <2> QED BY <2>1, <2>2
<1>3. Leads(found, Range(found))
  BY DEF Leads
<1> QED BY <1>1, <1>2, <1>3 DEF Exact

(* A result stays what it is. *)
LEMMA ExactKept ==
  ASSUME Exact, UNCHANGED <<callVars, found, truncated>>
  PROVE  Exact'
<1>1. Chosen' = Chosen
  BY CallFixed
<1> QED BY <1>1 DEF Exact, InScanOrder, Leads, ScanOrder

(* A scan that ends early has found the first matches of a selection. *)
LEMMA FlushTruncates ==
  ASSUME SearchInv, Flush, pc' = "ended"
  PROVE  Exact'
<1> USE DEF SearchInv
<1>0. Call /\ TypeOK /\ DisjointInv /\ UNCHANGED callVars /\ Chosen' = Chosen /\ pc \in {"read", "drain"}
      /\ opts \in Scans /\ ~truncated
  BY CallFixed, StreamFacts DEF TypeOK, Call, Flush
<1>1. PICK m \in Eligible :
           /\ m[1] \in DOMAIN best /\ opts.longest
           /\ \A s \in DOMAIN best : s \in Nat /\ m[1] <= s
           /\ \A x \in Eligible : ~Seen(x) => m[1] < x[1]
           /\ \A n \in Range(found) : n[1] < m[1]
           /\ \/ UNCHANGED pc
              \/ ~(m[1] < windowEnd) /\ Select(m, pc)
  BY FlushMeaning
<1>2. ~(m[1] < windowEnd) /\ Len(found) = opts.matches /\ truncated' = TRUE /\ found' = found
  BY <1>0, <1>1, SelectMeaning
<1>3. m[1] \in Nat /\ m[2] \in Nat /\ m[1] < m[2] /\ windowEnd \in Nat
  BY <1>0, EligibleType DEF TypeOK
<1> DEFINE F == Range(found)
<1>4. ASSUME NEW x \in Eligible, x[1] < m[1]
      PROVE  x \in F <=> ~\E n \in F : Overlap(x, n) /\ LeftmostFirst(n, x)
  <2>1. x[1] \in Nat
    BY <1>0, EligibleType
  <2>2. Seen(x) /\ x[1] \notin DOMAIN best
    BY <1>1, <1>3, <1>4, <2>1
  <2>3. Settled(x)
    BY <1>0, <1>1, <2>2 DEF GreedyInv
  <2> QED BY <1>0, <1>1, <2>3, SettledMeaning
<1>5. F \in SUBSET Eligible
  BY <1>0 DEF DisjointInv
<1>6. PICK S \in SUBSET Eligible : Selection(S) /\ F \subseteq S /\ \A x \in S \ F : x[1] >= m[1]
  <2> HIDE DEF F
  <2>1. \A n \in F : n[1] < m[1]
    BY <1>1 DEF F
  <2> QED BY <1>0, <1>3, <1>4, <1>5, <2>1, SelectionCompletes
<1>7. F # S
  <2> SUFFICES ASSUME F = S PROVE FALSE
    OBVIOUS
  <2>1. m \notin F
    BY <1>1, <1>3
  <2>2. PICK n \in F : Overlap(m, n)
    BY <1>6, <2>1 DEF Selection
  <2>3. n[2] <= windowEnd /\ n[2] \in Nat
    BY <1>0, <1>1, FoundFacts
  <2> QED BY <1>2, <1>3, <2>2, <2>3 DEF Overlap
<1>8. ASSUME NEW x \in S \ F, NEW i \in DOMAIN found PROVE ScanOrder(found[i], x)
  <2> DEFINE n == found[i]
  <2>1. n \in F /\ n[1] \in Nat /\ n[2] \in Nat /\ n[1] < m[1]
    BY <1>0, <1>1, FoundFacts
  <2>2. x \in Eligible /\ x[1] \in Nat /\ x[2] \in Nat /\ x[1] < x[2] /\ x[1] >= m[1]
    BY <1>0, <1>6, EligibleType
  <2>3. ~(Overlap(x, n) /\ LeftmostFirst(n, x))
    <3> HIDE DEF n
    <3> QED BY <1>6, <2>1, <2>2 DEF Selection
  <2> HIDE DEF n, F
  <2>4. n[2] <= x[1]
    BY <1>3, <2>1, <2>2, <2>3 DEF Overlap, LeftmostFirst
  <2>5. n[2] < x[2]
    BY <2>1, <2>2, <2>4
  <2> QED BY <2>5 DEF ScanOrder, n
<1>9. S \in Chosen /\ Leads(found, S)
  BY <1>1, <1>6, <1>8 DEF Chosen, Leads
<1>10. InScanOrder(found)
  BY <1>0 DEF DisjointInv
<1> HIDE DEF F
<1>11. \E U \in Chosen : Leads(found, U) /\ Range(found) # U
  BY <1>7, <1>9 DEF F
<1> QED BY <1>0, <1>2, <1>10, <1>11 DEF Exact, InScanOrder, Leads, ScanOrder

(* So has one that reports overlaps. *)
LEMMA EmitTruncates ==
  ASSUME SearchInv, Emit, pc' = "ended"
  PROVE  Exact'
<1> USE DEF SearchInv
<1>0. Call /\ TypeOK /\ DisjointInv /\ UNCHANGED callVars /\ Chosen' = Chosen /\ pc = "emit"
      /\ opts \in Scans /\ ~truncated
  BY CallFixed, StreamFacts DEF TypeOK, Call, Emit
<1>1. PICK m \in Occ : ~Seen(m) /\ m \in Eligible /\ ~opts.longest /\ Select(m, "emit")
  BY EmitMeaning
<1>2. Len(found) = opts.matches /\ truncated' = TRUE /\ found' = found
  BY <1>1 DEF Select
<1>3. Range(found) = {x \in Eligible : Seen(x)}
  BY <1>0, <1>1 DEF OverlappingInv
<1>4. Eligible \in Chosen
  BY <1>1 DEF Chosen
<1>5. Leads(found, Eligible)
  <2>1. ASSUME NEW x \in Eligible \ Range(found), NEW i \in DOMAIN found PROVE ScanOrder(found[i], x)
    <3>1. found[i] \in Range(found)
      BY DEF Range
    <3> QED BY <1>0, <1>3, <3>1, SeenFirst, EligibleType
  <2> QED BY <1>3, <2>1 DEF Leads
<1>6. InScanOrder(found) /\ Range(found) # Eligible
  BY <1>0, <1>1, <1>3 DEF DisjointInv
<1> QED BY <1>0, <1>2, <1>4, <1>5, <1>6 DEF Exact, InScanOrder, Leads, ScanOrder

(* The result of a scan, and of FindMatches, is exact when it ends. *)
LEMMA ExactStep ==
  ASSUME SearchInv, [Next]_vars
  PROVE  ExactInv'
<1> USE DEF SearchInv
<1>0. Call /\ TypeOK /\ DisjointInv /\ UNCHANGED callVars
  BY StepKeepsCall DEF TypeOK, Call
<1>1. CASE Flush
  <2>1. pc' \in {"read", "drain", "ended"}
    BY <1>1 DEF Flush, Select
  <2> QED BY <1>1, <2>1, FlushTruncates DEF ExactInv
<1>2. CASE Emit
  <2>1. pc' \in {"emit", "ended"} \/ (pc' = "done" /\ outcome' = "work")
    BY <1>2 DEF Emit, Select, Done
  <2> QED BY <1>2, <2>1, EmitTruncates DEF ExactInv
<1>3. CASE ScanEnds
  <2>1. UNCHANGED <<callVars, found, truncated>> /\ (pc = "ended" \/ (pc = "drain" /\ ~Ripe))
    BY <1>3 DEF ScanEnds
  <2>2. CASE pc = "ended"
    BY <2>1, <2>2, ExactKept DEF ExactInv
  <2>3. CASE pc = "drain" /\ ~Ripe
    <3>1. opts \in Scans /\ ~truncated /\ DOMAIN best = {} /\ Eligible \subseteq Occ
      BY <1>0, <2>3, StreamFacts, EligibleType DEF Ripe
    <3>2. \A x \in Eligible : Seen(x)
      BY <2>3, <3>1, AllSeen
    <3>3. opts.longest => \A x \in Eligible : Settled(x)
      BY <2>3, <3>1, <3>2 DEF GreedyInv
    <3>4. ~opts.longest => Range(found) = Eligible
      BY <2>3, <3>2 DEF OverlappingInv
    <3>5. Exact
      BY <1>0, <3>1, <3>3, <3>4, SettledExact
    <3> QED BY <2>1, <3>5, ExactKept DEF ExactInv
  <2> QED BY <2>1, <2>2, <2>3
<1>4. CASE Rewriting
  <2>1. pc \in {"size", "write"} /\ UNCHANGED <<callVars, found, truncated>>
    BY <1>4 DEF Rewriting, Measure, Measured, Write, Written
  <2> QED BY <2>1, ExactKept DEF ExactInv
<1>5. CASE MatchesEnd
  <2>1. pc = "select" /\ rest = {} /\ UNCHANGED <<callVars, found, truncated>> /\ opts \in Scans /\ ~truncated
    BY <1>5 DEF MatchesEnd, CallInv
  <2>2. Exact
    BY <1>0, <2>1, SettledExact DEF SelectInv
  <2> QED BY <2>1, <2>2, ExactKept DEF ExactInv
<1>6. CASE StartScan \/ ReadRune \/ EmitDone \/ Drain \/ StartMatches \/ KeepMatch
  BY <1>6 DEF StartScan, ReadRune, EmitDone, Drain, StartMatches, KeepMatch, Done, ExactInv
<1>7. CASE Splitting
  <2>1. opts \in Splits /\ pc' \in {"split", "chunks", "done"}
    BY <1>7 DEF Splitting, StartSplit, SplitChunk, SplitAutoChunk, SplitAutoEnds, ChunkStarts, ChunkEnds,
                ChunkCanceled, Merge, Done, CallInv
  <2>2. opts' \notin Scans
    BY <1>0, <2>1, SplitOptions
  <2> QED BY <2>1, <2>2 DEF ExactInv
<1>8. CASE UNCHANGED vars
  <2>1. UNCHANGED <<callVars, found, truncated, pc, outcome>>
    BY <1>8 DEF vars
  <2> QED BY <2>1, ExactKept DEF ExactInv
<1> QED BY <1>1, <1>2, <1>3, <1>4, <1>5, <1>6, <1>7, <1>8 DEF Next, Scanning, Matching

-----------------------------------------------------------------------------
(* Rewriting. *)

(* A number of runes that does not fit does not fit in bytes either. *)
LEMMA MaskRoom ==
  ASSUME NEW a \in Nat, NEW b \in Nat, NEW w \in Nat, w > 0, ~(a <= b \div w)
  PROVE  a * w > b
<1> DEFINE q == b \div w
<1>1. q \in Int /\ b < w * (q + 1)
  OBVIOUS
<1> HIDE DEF q
<1>2. a >= q + 1
  BY <1>1 DEF q
<1>3. a * w >= (q + 1) * w
  BY <1>1, <1>2
<1>4. a * w \in Int /\ (q + 1) * w = w * (q + 1) /\ (q + 1) * w \in Int
  BY <1>1
<1> QED BY <1>1, <1>3, <1>4

(* How much the text grows with each match. *)
LEMMA GrowthRight ==
  ASSUME SearchInv, pc \in {"size", "write"}
  PROVE  /\ Partial(Growth) \in [0 .. Len(found) -> Int] /\ Partial(Growth)[0] = 0
         /\ \A i \in 1 .. Len(found) :
              Partial(Growth)[i] = Partial(Growth)[i - 1] + (Piece(found[i]) - Bytes(found[i][1], found[i][2]))
         /\ \A i \in 1 .. Len(found) : Piece(found[i]) \in Nat
         /\ Rewritten = Bytes(0, Len(text)) + Partial(Growth)[Len(found)]
<1>1. Call /\ opts \in Scans /\ found \in Seq(Span) /\ Len(found) \in Nat /\ DOMAIN found = 1 .. Len(found) /\ Len(text) \in Nat
  BY RewritePlace, TextType
<1>2. ASSUME NEW i \in 1 .. Len(found) PROVE Piece(found[i]) \in Nat /\ Bytes(found[i][1], found[i][2]) \in Int
  <2>1. found[i][1] \in 0 .. Len(text) /\ found[i][2] \in 0 .. Len(text) /\ found[i][1] < found[i][2]
    BY RewritePlace
  <2>2. found[i][1] \in Nat /\ found[i][2] \in Nat
    BY <1>1, <2>1
  <2> QED BY <1>1, <2>1, <2>2, PieceSize, BytesRight
<1>3. /\ Growth \in [1 .. Len(found) -> Int]
      /\ \A i \in 1 .. Len(found) : Growth[i] = Piece(found[i]) - Bytes(found[i][1], found[i][2])
  BY <1>1, <1>2 DEF Growth
<1>4. Growth \in Seq(Int) /\ Len(Growth) = Len(found) /\ \A i \in 1 .. Len(Growth) : Growth[i] \in Int
  BY <1>1, <1>3
<1>5. /\ Partial(Growth) \in [0 .. Len(found) -> Int] /\ Partial(Growth)[0] = 0
      /\ \A i \in 1 .. Len(found) : Partial(Growth)[i] = Partial(Growth)[i - 1] + Growth[i]
  BY <1>1, <1>4, PartialSums
<1>6. Rewritten = Bytes(0, Len(text)) + Sum(Growth)
  BY DEF Rewritten, Growth
<1>7. Sum(Growth) = Partial(Growth)[Len(found)]
  BY <1>4 DEF Sum
<1> QED BY <1>2, <1>3, <1>5, <1>6, <1>7

(* The rewritten text is at least as long as its part up to any match. *)
LEMMA RewriteGrows ==
  ASSUME SearchInv, pc \in {"size", "write"}, NEW j \in 1 .. Len(found)
  PROVE  Bytes(0, found[j][2]) + Partial(Growth)[j] <= Rewritten
<1> DEFINE P == Partial(Growth)
           n == Len(found)
           B(i) == Bytes(0, found[i][2])
           T == {i \in Nat : j <= i /\ i <= n => B(j) + P[j] <= B(i) + P[i]}
<1>0. /\ Call /\ n \in Nat /\ 0 \in 0 .. Len(text) /\ Len(text) \in 0 .. Len(text) /\ Len(text) \in Nat
      /\ \A i \in 1 .. n : found[i][1] \in 0 .. Len(text) /\ found[i][2] \in 0 .. Len(text) /\ found[i][1] < found[i][2]
      /\ \A i, k \in 1 .. n : i < k => found[i][2] <= found[k][1]
  BY RewritePlace, TextType
<1>1. /\ \A i \in 0 .. n : P[i] \in Int
      /\ \A i \in 1 .. n : P[i] = P[i - 1] + (Piece(found[i]) - Bytes(found[i][1], found[i][2]))
      /\ \A i \in 1 .. n : Piece(found[i]) \in Nat
      /\ Rewritten = Bytes(0, Len(text)) + P[n]
  BY GrowthRight
<1>2. /\ \A i \in 1 .. n : B(i) \in Int
  BY <1>0, BytesRight
<1> HIDE DEF P, n
<1>3. 0 \in T
  BY <1>0
<1>4. ASSUME NEW i \in Nat, i \in T PROVE i + 1 \in T
  <2> SUFFICES ASSUME j <= i + 1, i + 1 <= n PROVE B(j) + P[j] <= B(i + 1) + P[i + 1]
    OBVIOUS
  <2>0. j \in 1 .. n /\ j \in Nat
    BY DEF n
  <2>1. CASE j = i + 1
    <3>1. B(j) \in Int /\ P[j] \in Int
      BY <1>0, <1>1, <1>2, <2>0
    <3> QED BY <2>1, <3>1
  <2>2. CASE j <= i
    <3>1. i \in 1 .. n /\ i + 1 \in 1 .. n /\ (i + 1) - 1 = i /\ i \in 0 .. n /\ i + 1 \in 0 .. n /\ j \in 0 .. n /\ i <= n
      BY <1>0, <2>0, <2>2
    <3>2. B(j) + P[j] <= B(i) + P[i]
      BY <1>4, <2>2, <3>1
    <3> DEFINE a == found[i][2]
               b == found[i + 1][1]
               c == found[i + 1][2]
    <3>3. a \in 0 .. Len(text) /\ b \in 0 .. Len(text) /\ c \in 0 .. Len(text) /\ a <= b
      BY <1>0, <3>1
    <3>4. P[i + 1] = P[i] + (Piece(found[i + 1]) - Bytes(b, c))
      BY <1>1, <3>1
    <3>5. B(i) = Bytes(0, a) /\ B(i + 1) = Bytes(0, c)
      OBVIOUS
    <3>6. P[i] \in Int /\ P[i + 1] \in Int /\ P[j] \in Int /\ Piece(found[i + 1]) \in Nat /\ B(j) \in Int
      BY <1>1, <1>2, <2>0, <3>1
    <3> HIDE DEF a, b, c, B
    <3>7. Bytes(0, a) + Bytes(a, b) = Bytes(0, b) /\ Bytes(0, b) + Bytes(b, c) = Bytes(0, c) /\ Bytes(a, b) >= 0
          /\ Bytes(0, a) \in Int /\ Bytes(a, b) \in Int /\ Bytes(b, c) \in Int /\ Bytes(0, b) \in Int /\ Bytes(0, c) \in Int
      BY <1>0, <3>3, BytesRight
    <3>8. PICK h \in Int, p \in Int, v \in Int : h = B(j) + P[j] /\ p = P[i] /\ v = Piece(found[i + 1]) /\ v >= 0
      BY <3>6
    <3>9. PICK x \in Int, d \in Int, g \in Int : x = Bytes(0, a) /\ d = Bytes(a, b) /\ g = Bytes(b, c)
      BY <3>7
    <3>10. h <= x + p /\ d >= 0
      BY <3>2, <3>5, <3>7, <3>8, <3>9
    <3>11. Bytes(0, c) = (x + d) + g
      BY <3>7, <3>9
    <3>12. P[i + 1] = p + (v - g)
      BY <3>4, <3>8, <3>9
    <3>13. h <= ((x + d) + g) + (p + (v - g))
      <4>1. v >= 0
        BY <3>8
      <4> QED BY <3>10, <4>1
    <3> QED BY <3>5, <3>8, <3>11, <3>12, <3>13
  <2> QED BY <2>0, <2>1, <2>2
<1>5. Nat \subseteq T
  <2> HIDE DEF T
  <2> QED BY <1>3, <1>4, SetInduction
<1>6. j \in 1 .. n /\ n \in 1 .. n
  <2>1. j \in 1 .. n
    BY DEF n
  <2> QED BY <1>0, <2>1
<1>7. B(j) + P[j] <= B(n) + P[n]
  BY <1>0, <1>5, <1>6
<1>8. Bytes(0, found[n][2]) + Bytes(found[n][2], Len(text)) = Bytes(0, Len(text)) /\ Bytes(found[n][2], Len(text)) >= 0
      /\ Bytes(0, found[n][2]) \in Int /\ Bytes(found[n][2], Len(text)) \in Int /\ Bytes(0, Len(text)) \in Int
  <2>1. PICK e : e = found[n][2]
    OBVIOUS
  <2>2. e \in 0 .. Len(text)
    BY <1>0, <1>6, <2>1
  <2>3. e <= Len(text)
    BY <1>0, <2>2
  <2>4. Bytes(0, e) + Bytes(e, Len(text)) = Bytes(0, Len(text)) /\ Bytes(e, Len(text)) >= 0
        /\ Bytes(0, e) \in Int /\ Bytes(e, Len(text)) \in Int /\ Bytes(0, Len(text)) \in Int
    BY <1>0, <2>2, <2>3, BytesRight
  <2> QED BY <2>1, <2>4
<1>9. P[n] \in Int /\ P[j] \in Int /\ B(j) \in Int
  BY <1>0, <1>1, <1>2, <1>6
<1> QED BY <1>1, <1>7, <1>8, <1>9 DEF P

(* One more match: what is copied before it, and what stands for it. *)
LEMMA NextGrown ==
  ASSUME SearchInv, pc \in {"size", "write"}, rendered < Len(found),
         NEW m, m = found[rendered + 1]
  PROVE  /\ Grown \in Int /\ Bytes(cursor, m[1]) \in Int /\ Bytes(cursor, m[1]) >= 0 /\ Piece(m) \in Nat
         /\ Bytes(0, m[2]) + Partial(Growth)[rendered + 1] = Grown + Bytes(cursor, m[1]) + Piece(m)
         /\ Bytes(0, m[2]) + Partial(Growth)[rendered + 1] <= Rewritten
<1>0. /\ Call /\ Len(found) \in Nat /\ rendered \in 0 .. Len(found) /\ cursor \in 0 .. Len(text) /\ Len(text) \in Nat
      /\ 0 \in 0 .. Len(text)
  BY RewritePlace, TextType
<1>1. rendered + 1 \in 1 .. Len(found) /\ (rendered + 1) - 1 = rendered
  BY <1>0
<1>2. m[1] \in 0 .. Len(text) /\ m[2] \in 0 .. Len(text) /\ cursor <= m[1]
  BY <1>1, RewritePlace
<1>3. PICK p : p = Partial(Growth)
  OBVIOUS
<1>4. p[rendered + 1] = p[rendered] + (Piece(m) - Bytes(m[1], m[2])) /\ p[rendered] \in Int /\ Piece(m) \in Nat
  BY <1>0, <1>1, <1>3, GrowthRight
<1>5. Grown = Bytes(0, cursor) + p[rendered]
  BY <1>3 DEF Grown
<1>6. /\ Bytes(0, cursor) \in Int /\ Bytes(cursor, m[1]) \in Int /\ Bytes(m[1], m[2]) \in Int /\ Bytes(cursor, m[1]) >= 0
      /\ Bytes(0, m[1]) \in Int /\ Bytes(0, m[2]) \in Int
      /\ Bytes(0, cursor) + Bytes(cursor, m[1]) = Bytes(0, m[1])
      /\ Bytes(0, m[1]) + Bytes(m[1], m[2]) = Bytes(0, m[2])
  <2>1. \A a, b \in 0 .. Len(text) : Bytes(a, b) \in Int
    BY <1>0, BytesRight
  <2>2. \A a, b \in 0 .. Len(text) : a <= b => Bytes(a, b) >= 0
    BY <1>0, BytesRight
  <2>3. \A a, b, c \in 0 .. Len(text) : Bytes(a, b) + Bytes(b, c) = Bytes(a, c)
    BY <1>0, BytesRight
  <2>4. /\ Bytes(0, cursor) \in Int /\ Bytes(cursor, m[1]) \in Int /\ Bytes(m[1], m[2]) \in Int
        /\ Bytes(0, m[1]) \in Int /\ Bytes(0, m[2]) \in Int
    BY <1>0, <1>2, <2>1, Zenon
  <2>5. Bytes(cursor, m[1]) >= 0
    BY <1>0, <1>2, <2>2, Zenon
  <2>6. Bytes(0, cursor) + Bytes(cursor, m[1]) = Bytes(0, m[1])
    BY <1>0, <1>2, <2>3, Zenon
  <2>7. Bytes(0, m[1]) + Bytes(m[1], m[2]) = Bytes(0, m[2])
    BY <1>0, <1>2, <2>3, Zenon
  <2> QED BY <2>4, <2>5, <2>6, <2>7
<1>7. Bytes(0, m[2]) + p[rendered + 1] = Grown + Bytes(cursor, m[1]) + Piece(m)
  <2>1. PICK x \in Int, y \in Int, z \in Int : x = Bytes(0, cursor) /\ y = Bytes(cursor, m[1]) /\ z = Bytes(m[1], m[2])
    BY <1>6
  <2>2. PICK q \in Int, v \in Int : q = p[rendered] /\ v = Piece(m)
    BY <1>4
  <2>3. Bytes(0, m[2]) = (x + y) + z
    BY <1>6, <2>1
  <2>4. p[rendered + 1] = q + (v - z) /\ Grown = x + q
    BY <1>4, <1>5, <2>1, <2>2
  <2>5. ((x + y) + z) + (q + (v - z)) = (x + q) + y + v
    OBVIOUS
  <2> QED BY <2>1, <2>2, <2>3, <2>4, <2>5
<1>8. Bytes(0, m[2]) + p[rendered + 1] <= Rewritten
  BY <1>1, <1>3, RewriteGrows
<1>9. Grown \in Int
  BY <1>4, <1>5, <1>6
<1> QED BY <1>3, <1>4, <1>6, <1>7, <1>8, <1>9

(* After the last match only the tail is missing. *)
LEMMA LastGrown ==
  ASSUME SearchInv, pc \in {"size", "write"}, rendered = Len(found)
  PROVE  /\ Grown \in Int /\ Bytes(cursor, Len(text)) \in Int /\ Bytes(cursor, Len(text)) >= 0
         /\ Rewritten = Grown + Bytes(cursor, Len(text))
<1>0. /\ Call /\ Len(found) \in Nat /\ cursor \in 0 .. Len(text) /\ Len(text) \in Nat
      /\ 0 \in 0 .. Len(text) /\ Len(text) \in 0 .. Len(text) /\ cursor <= Len(text) /\ rendered \in 0 .. Len(found)
  BY RewritePlace, TextType
<1>1. PICK p : p = Partial(Growth)
  OBVIOUS
<1>2. p[rendered] \in Int /\ Rewritten = Bytes(0, Len(text)) + p[rendered] /\ Grown = Bytes(0, cursor) + p[rendered]
  BY <1>0, <1>1, GrowthRight DEF Grown
<1>3. /\ Bytes(0, cursor) \in Int /\ Bytes(cursor, Len(text)) \in Int /\ Bytes(cursor, Len(text)) >= 0
      /\ Bytes(0, cursor) + Bytes(cursor, Len(text)) = Bytes(0, Len(text)) /\ Bytes(0, Len(text)) \in Int
  BY <1>0, BytesRight
<1> QED BY <1>2, <1>3

(* A match that does not fit makes the text too long. *)
LEMMA NotFits ==
  ASSUME opts \in Scans, total \in Int, total <= opts.output, NEW m, m[1] \in Nat, m[2] \in Nat, m[1] < m[2],
         NEW same \in Int, same >= 0, Piece(m) \in Nat
  PROVE  /\ ~Fits(m, same) => total + same + Piece(m) > opts.output
         /\ Fits(m, same) => total + same + Piece(m) <= opts.output
<1>0. opts.output \in Nat /\ opts.size \in Nat /\ (opts.call = "mask" => opts.size > 0)
  BY ScanOptions
<1>1. PICK room \in Int, v \in Int : room = opts.output - total /\ v = Piece(m) /\ v >= 0 /\ room >= 0
  BY <1>0
<1>2. Fits(m, same) <=> same <= room /\ (opts.call = "mask" => m[2] - m[1] <= (room - same) \div opts.size) /\ v <= room - same
  BY <1>1 DEF Fits, Room
<1>3. ASSUME same <= room, opts.call = "mask", ~(m[2] - m[1] <= (room - same) \div opts.size) PROVE v > room - same
  <2>1. Piece(m) = (m[2] - m[1]) * opts.size /\ m[2] - m[1] \in Nat /\ room - same \in Nat
    BY <1>3 DEF Piece
  <2>2. (m[2] - m[1]) * opts.size > room - same
    BY <1>0, <1>3, <2>1, MaskRoom
  <2> QED BY <1>1, <2>1, <2>2
<1>4. total = opts.output - room /\ v >= 0
  BY <1>0, <1>1
<1>5. ~Fits(m, same) => same + v > room
  <2>1. CASE same > room
    BY <1>4, <2>1
  <2>2. CASE same <= room /\ v > room - same
    BY <2>2
  <2> QED BY <1>2, <1>3, <2>1, <2>2
<1>6. Fits(m, same) => same + v <= room
  BY <1>2
<1>7. total + same + Piece(m) = (opts.output - room) + same + v
  BY <1>1, <1>4
<1>8. PICK o \in Int : o = opts.output
  BY <1>0
<1> QED BY <1>5, <1>6, <1>7, <1>8

(* The sizes depend on the call and on what was found. *)
LEMMA GrowthFixed ==
  ASSUME UNCHANGED <<callVars, found>>
  PROVE  /\ Growth' = Growth /\ Rewritten' = Rewritten
         /\ \A p : Size(p)' = Size(p)
         /\ \A m : Changed(m)' = Changed(m)
<1>0. UNCHANGED callVars /\ found' = found
  OBVIOUS
<1>1. (\A a, b : Bytes(a, b)' = Bytes(a, b)) /\ \A m : Piece(m)' = Piece(m)
  BY <1>0, CallFixed
<1>2. Growth' = Growth
  BY <1>0, <1>1 DEF Growth
<1>3. Rewritten' = Rewritten
  BY <1>0, <1>1 DEF Rewritten
<1>4. \A p : Size(p)' = Size(p)
  BY <1>0 DEF Size, Bytes, Offsets, Piece
<1>5. \A m : Changed(m)' = Changed(m)
  BY DEF Changed
<1> QED BY <1>2, <1>3, <1>4, <1>5

(* A piece has a size. *)
LEMMA SizeType ==
  ASSUME Call, opts \in Scans, NEW p \in PieceType, p.from <= Len(text), p.to <= Len(text)
  PROVE  Size(p) \in Int
<1>1. p.from \in 0 .. Len(text) /\ p.to \in 0 .. Len(text) /\ p.from \in Int /\ p.to \in Int /\ opts.size \in Int
  BY TextType, ScanOptions DEF PieceType
<1>2. Bytes(p.from, p.to) \in Int
  BY <1>1, BytesRight
<1>3. PICK m : m = <<p.from, p.to>>
  OBVIOUS
<1>4. m[1] = p.from /\ m[2] = p.to
  BY <1>3
<1>5. \A a, b, c \in Int : (a - b) * c \in Int
  OBVIOUS
<1>6. Piece(m) \in Int
  BY <1>1, <1>4, <1>5 DEF Piece
<1> QED BY <1>2, <1>3, <1>6 DEF Size

(* Sizing the text, match by match. *)
LEMMA MeasureStep ==
  ASSUME SearchInv, Measure \/ Measured
  PROVE  RewriteInv' /\ RewriteSized'
<1> USE DEF SearchInv
<1>0. /\ pc = "size" /\ UNCHANGED <<callVars, found, truncated, output>>
      /\ output = <<>> /\ total = Grown /\ total <= opts.output /\ total \in Int
      /\ opts \in Scans /\ opts.output \in Nat
  BY RewritePlace, ScanOptions DEF Measure, Measured, RewriteInv, CallInv, TypeOK
<1>1. Growth' = Growth /\ Rewritten' = Rewritten
  BY <1>0, GrowthFixed
<1>2. Call /\ Len(found) \in Nat /\ rendered \in 0 .. Len(found) /\ rendered \in Nat
  BY <1>0, RewritePlace DEF TypeOK
<1>3. \A a, b : Bytes(a, b)' = Bytes(a, b)
  BY <1>0, CallFixed
<1>4. CASE Measure
  <2>1. PICK m : m = found[rendered + 1]
    OBVIOUS
  <2>2. rendered < Len(found)
    BY <1>4 DEF Measure
  <2>3. /\ Grown \in Int /\ Bytes(cursor, m[1]) \in Int /\ Bytes(cursor, m[1]) >= 0 /\ Piece(m) \in Nat
        /\ Bytes(0, m[2]) + Partial(Growth)[rendered + 1] = Grown + Bytes(cursor, m[1]) + Piece(m)
        /\ Bytes(0, m[2]) + Partial(Growth)[rendered + 1] <= Rewritten
    BY <1>0, <2>1, <2>2, NextGrown
  <2>4. rendered + 1 \in 1 .. Len(found)
    BY <1>2, <2>2
  <2>5. m[1] \in Nat /\ m[2] \in Nat /\ m[1] < m[2]
    BY <1>0, <2>1, <2>4, RewritePlace, TextType
  <2>6. PICK same : same = Bytes(cursor, m[1])
    OBVIOUS
  <2>7. /\ ~Fits(m, same) => total + same + Piece(m) > opts.output
        /\ Fits(m, same) => total + same + Piece(m) <= opts.output
    BY <1>0, <2>3, <2>5, <2>6, NotFits
  <2>8. CASE Fits(m, same)
    <3>1. total' = total + same + Piece(m) /\ rendered' = rendered + 1 /\ cursor' = m[2] /\ pc' = "size"
      BY <1>0, <1>4, <2>1, <2>6, <2>8 DEF Measure
    <3>2. Grown' = Bytes(0, m[2]) + Partial(Growth)[rendered + 1]
      BY <1>0, <1>1, <1>3, <3>1 DEF Grown, Bytes, Offsets
    <3>3. total' = Grown' /\ total' <= opts.output
      BY <1>0, <2>3, <2>6, <2>7, <2>8, <3>1, <3>2
    <3>4. rendered' <= Len(found) /\ rendered' # 0 /\ cursor' = found[rendered'][2]
      BY <1>2, <2>1, <2>4, <3>1
    <3> QED BY <1>0, <3>1, <3>3, <3>4 DEF RewriteInv, RewriteSized
  <2>9. CASE ~Fits(m, same)
    <3>1. pc' = "done" /\ outcome' = "output"
      BY <1>4, <2>1, <2>6, <2>9 DEF Measure, Done
    <3>2. total + same + Piece(m) <= Rewritten
      BY <1>0, <2>3, <2>6
    <3>3. Rewritten \in Int
      <4>0. Len(text) \in Nat /\ 0 \in 0 .. Len(text) /\ Len(text) \in 0 .. Len(text) /\ Len(found) \in 0 .. Len(found)
        BY <1>2, TextType
      <4>1. Bytes(0, Len(text)) \in Int
        BY <1>2, <4>0, BytesRight
      <4>2. Partial(Growth)[Len(found)] \in Int /\ Rewritten = Bytes(0, Len(text)) + Partial(Growth)[Len(found)]
        BY <1>0, <4>0, GrowthRight
      <4> QED BY <4>1, <4>2
    <3>4. Rewritten > opts.output
      <4>1. PICK x \in Int : x = total + same + Piece(m)
        BY <1>0, <2>3, <2>6
      <4> QED BY <1>0, <2>7, <2>9, <3>2, <3>3, <4>1
    <3> QED BY <1>0, <1>1, <3>1, <3>4 DEF RewriteInv, RewriteSized
  <2> QED BY <2>8, <2>9
<1>5. CASE Measured
  <2>1. rendered = Len(found)
    BY <1>5 DEF Measured
  <2>2. Grown \in Int /\ Bytes(cursor, Len(text)) \in Int /\ Bytes(cursor, Len(text)) >= 0
        /\ Rewritten = Grown + Bytes(cursor, Len(text))
    BY <1>0, <2>1, LastGrown
  <2>3. TailFits <=> Rewritten <= opts.output
    BY <1>0, <2>2 DEF TailFits, Room
  <2>4. CASE TailFits
    <3>1. total' = Rewritten /\ rendered' = 0 /\ cursor' = 0 /\ pc' = "write" /\ output' = <<>>
      BY <1>0, <1>5, <2>2, <2>4 DEF Measured
    <3>2. Range(output') = {} /\ Len(output') = 0
      BY <3>1 DEF Range
    <3>3. Grown' = 0
      <4>1. Partial(Growth)[0] = 0 /\ Bytes(0, 0) = 0
        BY <1>0, <1>2, GrowthRight, BytesRight, TextType
      <4>2. Grown' = Bytes(0, 0) + Partial(Growth)[0]
        BY <1>0, <1>1, <1>3, <3>1 DEF Grown, Bytes, Offsets
      <4> QED BY <4>1, <4>2
    <3>4. Sum([k \in DOMAIN output |-> Size(output[k])])' = 0
      <4>1. PICK s : s = [k \in DOMAIN output |-> Size(output[k])]'
        OBVIOUS
      <4>2. s = <<>> /\ Len(s) = 0
        BY <3>1, <4>1
      <4>3. Sum(s) = 0
        BY <4>2, PartialSums DEF Sum
      <4> QED BY <4>1, <4>3
    <3>5. {p \in Range(output') : p.kind = "changed"} = {Changed(found[i]) : i \in 1 .. 0}
      BY <3>2
    <3>6. total' = Rewritten' /\ total' <= opts'.output /\ rendered' <= Len(found') /\ pc' # "done"
      BY <1>0, <1>1, <1>2, <2>3, <2>4, <3>1
    <3>7. {p \in Range(output') : p.kind = "changed"} = {Changed(found'[i]) : i \in 1 .. rendered'}
      BY <1>0, <3>1, <3>5 DEF Changed
    <3>8. \A k \in 1 .. (Len(output') - 1) : output'[k].to = output'[k + 1].from
      BY <3>2
    <3>9. RewriteInv'
      BY <3>1, <3>2, <3>3, <3>4, <3>6, <3>7, <3>8 DEF RewriteInv
    <3> QED BY <3>6, <3>9 DEF RewriteSized
  <2>5. CASE ~TailFits
    <3>1. pc' = "done" /\ outcome' = "output"
      BY <1>5, <2>5 DEF Measured, Done
    <3>2. Rewritten > opts.output
      BY <1>0, <2>2, <2>3, <2>5
    <3> QED BY <1>0, <1>1, <3>1, <3>2 DEF RewriteInv, RewriteSized
  <2> QED BY <2>4, <2>5
<1> QED BY <1>4, <1>5

(* The sizes of a text's pieces. *)
Sizes(o) == [k \in DOMAIN o |-> Size(o[k])]

(* They are numbers. *)
LEMMA SizesType ==
  ASSUME Call, opts \in Scans, NEW o \in Seq(PieceType), \A p \in Range(o) : p.from <= Len(text) /\ p.to <= Len(text),
         NEW s, s = Sizes(o)
  PROVE  Len(s) = Len(o) /\ Len(s) \in Nat /\ \A i \in 1 .. Len(s) : s[i] = Size(o[i]) /\ s[i] \in Int
<1>1. DOMAIN o = 1 .. Len(o) /\ Len(o) \in Nat /\ \A i \in 1 .. Len(o) : o[i] \in PieceType
  OBVIOUS
<1>2. \A i \in 1 .. Len(o) : o[i] \in Range(o)
  BY <1>1 DEF Range
<1>3. \A i \in 1 .. Len(o) : Size(o[i]) \in Int
  BY <1>1, <1>2, SizeType
<1>4. s = [k \in 1 .. Len(o) |-> Size(o[k])]
  BY <1>1 DEF Sizes
<1>5. s \in Seq(Int) /\ Len(s) = Len(o)
  BY <1>1, <1>3, <1>4
<1> QED BY <1>1, <1>3, <1>4, <1>5

(* A text in pieces, and the same with one more piece. *)
InPieces(o) == o \in Seq(PieceType) /\ \A p \in Range(o) : p.from <= Len(text) /\ p.to <= Len(text)
Extended(o, q, r) ==
  /\ r \in Seq(PieceType) /\ Len(r) = Len(o) + 1 /\ r[Len(o) + 1] = q /\ \A i \in 1 .. Len(o) : r[i] = o[i]
  /\ Range(r) = Range(o) \cup {q}
  /\ \A p \in Range(r) : p.from <= Len(text) /\ p.to <= Len(text)
  /\ Sum(Sizes(o)) \in Int
  /\ Sum(Sizes(r)) = Sum(Sizes(o)) + Size(q)

(* One more piece adds its size. *)
LEMMA SizesOne ==
  ASSUME Call, opts \in Scans, NEW o, InPieces(o),
         NEW q, q \in PieceType /\ q.from <= Len(text) /\ q.to <= Len(text),
         NEW r, r = Append(o, q)
  PROVE  Extended(o, q, r)
<1>0. o \in Seq(PieceType) /\ \A p \in Range(o) : p.from <= Len(text) /\ p.to <= Len(text)
  BY DEF InPieces
<1>1. r \in Seq(PieceType) /\ Len(r) = Len(o) + 1 /\ r[Len(o) + 1] = q /\ \A i \in 1 .. Len(o) : r[i] = o[i]
  BY <1>0
<1>2. DOMAIN r = 1 .. (Len(o) + 1) /\ DOMAIN o = 1 .. Len(o) /\ Len(o) \in Nat
  BY <1>0, <1>1
<1>3. Range(r) = Range(o) \cup {q}
  <2>1. ASSUME NEW p \in Range(r) PROVE p \in Range(o) \cup {q}
    <3>1. PICK i \in DOMAIN r : p = r[i]
      BY <2>1 DEF Range
    <3>2. CASE i = Len(o) + 1
      BY <1>1, <3>1, <3>2
    <3>3. CASE i # Len(o) + 1
      <4>1. i \in 1 .. Len(o)
        BY <1>2, <3>1, <3>3
      <4> QED BY <1>1, <1>2, <3>1, <4>1 DEF Range
    <3> QED BY <3>2, <3>3
  <2>2. ASSUME NEW p \in Range(o) \cup {q} PROVE p \in Range(r)
    <3>1. CASE p = q
      BY <1>1, <1>2, <3>1 DEF Range
    <3>2. CASE p \in Range(o)
      <4>1. PICK i \in 1 .. Len(o) : p = o[i]
        BY <1>2, <3>2 DEF Range
      <4> QED BY <1>1, <1>2, <4>1 DEF Range
    <3> QED BY <2>2, <3>1, <3>2
  <2> QED BY <2>1, <2>2
<1>4. \A p \in Range(r) : p.from <= Len(text) /\ p.to <= Len(text)
  BY <1>0, <1>3
<1>5. PICK s : s = Sizes(o)
  OBVIOUS
<1>6. PICK t : t = Sizes(r)
  OBVIOUS
<1>7. Len(s) = Len(o) /\ Len(s) \in Nat /\ \A i \in 1 .. Len(s) : s[i] = Size(o[i]) /\ s[i] \in Int
  BY <1>0, <1>5, SizesType
<1>8. Len(t) = Len(r) /\ Len(t) \in Nat /\ \A i \in 1 .. Len(t) : t[i] = Size(r[i]) /\ t[i] \in Int
  BY <1>1, <1>4, <1>6, SizesType
<1>9. Len(t) = Len(s) + 1 /\ \A i \in 1 .. Len(s) : s[i] = t[i]
  BY <1>1, <1>7, <1>8
<1>10. Sum(s) \in Int /\ Sum(t) = Sum(s) + t[Len(t)]
  BY <1>7, <1>8, <1>9, SumOne
<1>11. t[Len(t)] = Size(q)
  BY <1>1, <1>2, <1>7, <1>8, <1>9
<1> QED BY <1>1, <1>3, <1>4, <1>5, <1>6, <1>10, <1>11 DEF Extended

(* The pieces join, from the start of the text to a place in it. *)
Joined(o, at) ==
  /\ Len(o) \in Nat
  /\ Len(o) > 0 => o[1].from = 0 /\ o[Len(o)].to = at
  /\ Len(o) = 0 => at = 0
  /\ \A k \in 1 .. (Len(o) - 1) : o[k].to = o[k + 1].from

(* So they do with one more piece from there. *)
LEMMA JoinOne ==
  ASSUME NEW o, NEW q, NEW r, Joined(o, q.from), Extended(o, q, r)
  PROVE  Joined(r, q.to) /\ Len(r) > 0
<1>0. /\ Len(o) \in Nat
      /\ Len(o) > 0 => o[1].from = 0 /\ o[Len(o)].to = q.from
      /\ Len(o) = 0 => q.from = 0
      /\ \A k \in 1 .. (Len(o) - 1) : o[k].to = o[k + 1].from
      /\ Len(r) = Len(o) + 1 /\ r[Len(o) + 1] = q /\ \A i \in 1 .. Len(o) : r[i] = o[i]
  BY DEF Joined, Extended
<1>1. r[1].from = 0
  <2>1. CASE Len(o) = 0
    BY <1>0, <2>1
  <2>2. CASE Len(o) > 0
    BY <1>0, <2>2
  <2> QED BY <1>0, <2>1, <2>2
<1>2. ASSUME NEW k \in 1 .. (Len(r) - 1) PROVE r[k].to = r[k + 1].from
  <2>1. CASE k = Len(o)
    BY <1>0, <2>1
  <2>2. CASE k # Len(o)
    <3>1. k \in 1 .. (Len(o) - 1) /\ k \in 1 .. Len(o) /\ k + 1 \in 1 .. Len(o)
      BY <1>0, <2>2
    <3> QED BY <1>0, <3>1
  <2> QED BY <2>1, <2>2
<1>3. Len(r) \in Nat /\ Len(r) > 0 /\ r[Len(r)] = q
  BY <1>0
<1> QED BY <1>1, <1>2, <1>3 DEF Joined

(* What the invariant says while renderRewrite writes. *)
LEMMA WriteFacts ==
  ASSUME SearchInv, pc = "write"
  PROVE  /\ Call /\ opts \in Scans /\ Len(found) \in Nat /\ rendered \in Nat /\ rendered <= Len(found)
         /\ cursor \in Nat /\ cursor <= Len(text) /\ Len(text) \in Nat
         /\ output \in Seq(PieceType) /\ Len(output) = 2 * rendered /\ Len(output) \in Nat
         /\ \A p \in Range(output) : p.from <= Len(text) /\ p.to <= Len(text)
         /\ Sum(Sizes(output)) = Grown
         /\ Joined(output, cursor)
         /\ {p \in Range(output) : p.kind = "changed"} = {Changed(found[i]) : i \in 1 .. rendered}
         /\ total = Rewritten /\ total <= opts.output
<1>1. Call /\ opts \in Scans /\ Len(found) \in Nat /\ rendered \in Nat /\ rendered <= Len(found) /\ cursor \in 0 .. Len(text)
  BY RewritePlace
<1>2. Len(text) \in Nat /\ cursor \in Nat /\ cursor <= Len(text)
  BY <1>1, TextType
<1>3. output \in Seq(PieceType) /\ Len(output) \in Nat
  BY DEF SearchInv, TypeOK
<1>4. /\ Len(output) = 2 * rendered
      /\ \A p \in Range(output) : p.from <= Len(text) /\ p.to <= Len(text)
      /\ Sum(Sizes(output)) = Grown
      /\ output # <<>> => output[1].from = 0 /\ output[Len(output)].to = cursor
      /\ \A k \in 1 .. (Len(output) - 1) : output[k].to = output[k + 1].from
      /\ {p \in Range(output) : p.kind = "changed"} = {Changed(found[i]) : i \in 1 .. rendered}
      /\ total = Rewritten /\ total <= opts.output
      /\ cursor = IF rendered = 0 THEN 0 ELSE found[rendered][2]
  BY DEF SearchInv, RewriteInv, Sizes
<1>5. Len(output) = 0 => cursor = 0
  BY <1>1, <1>4
<1>6. Len(output) > 0 => output # <<>>
  BY <1>3
<1>7. Joined(output, cursor)
  BY <1>3, <1>4, <1>5, <1>6 DEF Joined
<1> QED BY <1>1, <1>2, <1>3, <1>4, <1>7

(* Writing what precedes a match and what stands for it: the pieces stay   *)
(* joined and have the size they were given.                               *)
LEMMA WriteStep ==
  ASSUME SearchInv, Write
  PROVE  RewriteInv' /\ RewriteSized'
<1>0. pc = "write" /\ pc' = "write" /\ UNCHANGED <<callVars, found, total>> /\ rendered < Len(found)
  BY DEF Write
<1>1. /\ Call /\ opts \in Scans /\ Len(found) \in Nat /\ rendered \in Nat
      /\ cursor \in Nat /\ cursor <= Len(text) /\ Len(text) \in Nat
      /\ output \in Seq(PieceType) /\ Len(output) = 2 * rendered /\ Len(output) \in Nat
      /\ \A p \in Range(output) : p.from <= Len(text) /\ p.to <= Len(text)
      /\ Sum(Sizes(output)) = Grown
      /\ Joined(output, cursor)
      /\ {p \in Range(output) : p.kind = "changed"} = {Changed(found[i]) : i \in 1 .. rendered}
      /\ total = Rewritten /\ total <= opts.output
  BY <1>0, WriteFacts
<1>2. Growth' = Growth /\ Rewritten' = Rewritten /\ \A a, b : Bytes(a, b)' = Bytes(a, b)
  BY <1>0, GrowthFixed, CallFixed
<1>3. PICK m : m = found[rendered + 1]
  OBVIOUS
<1>4. /\ Grown \in Int /\ Bytes(cursor, m[1]) \in Int /\ Piece(m) \in Nat
      /\ Bytes(0, m[2]) + Partial(Growth)[rendered + 1] = Grown + Bytes(cursor, m[1]) + Piece(m)
  BY <1>0, <1>3, NextGrown
<1>5. rendered + 1 \in 1 .. Len(found)
  BY <1>0, <1>1
<1>6. m = <<m[1], m[2]>> /\ m[1] \in 0 .. Len(text) /\ m[2] \in 0 .. Len(text)
  BY <1>0, <1>3, <1>5, RewritePlace
<1>7. m[1] \in Nat /\ m[2] \in Nat /\ m[1] <= Len(text) /\ m[2] <= Len(text)
  BY <1>1, <1>6
<1>8. PICK c : c = Copied(cursor, m[1])
  OBVIOUS
<1>9. PICK d : d = Changed(m)
  OBVIOUS
<1>10. /\ c \in PieceType /\ c.from = cursor /\ c.to = m[1] /\ c.kind = "copied"
       /\ d \in PieceType /\ d.from = m[1] /\ d.to = m[2] /\ d.kind = "changed"
  BY <1>1, <1>7, <1>8, <1>9 DEF Copied, Changed, PieceType
<1>11. Size(c) = Bytes(cursor, m[1]) /\ Size(d) = Piece(m)
  <2>1. Size(c) = Bytes(cursor, m[1])
    BY <1>10 DEF Size
  <2>2. Size(d) = Piece(<<m[1], m[2]>>)
    BY <1>10 DEF Size
  <2> QED BY <1>6, <2>1, <2>2
<1>12. PICK o : o = Append(output, c)
  OBVIOUS
<1>13. Extended(output, c, o)
  <2>1. InPieces(output) /\ (c \in PieceType /\ c.from <= Len(text) /\ c.to <= Len(text))
    BY <1>1, <1>7, <1>10 DEF InPieces
  <2> QED BY <1>1, <1>12, <2>1, SizesOne
<1>14. PICK r : r = Append(o, d)
  OBVIOUS
<1>15. Extended(o, d, r) /\ Sum(Sizes(r)) = Grown + Bytes(cursor, m[1]) + Piece(m)
  <2>1. InPieces(o) /\ (d \in PieceType /\ d.from <= Len(text) /\ d.to <= Len(text))
    BY <1>7, <1>10, <1>13 DEF Extended, InPieces
  <2>2. Extended(o, d, r)
    BY <1>1, <1>14, <2>1, SizesOne
  <2>3. Sum(Sizes(o)) = Grown + Bytes(cursor, m[1])
    BY <1>1, <1>11, <1>13 DEF Extended
  <2>4. Sum(Sizes(r)) = Sum(Sizes(o)) + Size(d)
    BY <2>2 DEF Extended
  <2> QED BY <1>11, <2>2, <2>3, <2>4
<1>16. output' = r /\ rendered' = rendered + 1 /\ cursor' = m[2]
  <2>1. output' = output \o <<c, d>> /\ rendered' = rendered + 1 /\ cursor' = m[2]
    BY <1>3, <1>8, <1>9 DEF Write
  <2>2. output \o <<c, d>> = Append(Append(output, c), d)
    BY <1>1, <1>10
  <2> QED BY <1>12, <1>14, <2>1, <2>2
<1>17. Grown' = Bytes(0, m[2]) + Partial(Growth)[rendered + 1]
  BY <1>0, <1>2, <1>16 DEF Grown, Bytes, Offsets
<1>18. Sum(Sizes(output))' = Grown'
  <2>1. Sizes(output)' = Sizes(r)
    BY <1>0, <1>16 DEF Sizes, Size, Bytes, Offsets, Piece
  <2> QED BY <1>4, <1>15, <1>17, <2>1
<1>19. Joined(o, c.to)
  BY <1>1, <1>10, <1>13, JoinOne
<1>20. Joined(r, m[2]) /\ Len(r) > 0
  BY <1>10, <1>15, <1>19, JoinOne
<1>21. {p \in Range(r) : p.kind = "changed"} = {Changed(found[i]) : i \in 1 .. (rendered + 1)}
  <2>1. {p \in Range(r) : p.kind = "changed"} = {p \in Range(output) : p.kind = "changed"} \cup {d}
    <3>1. Range(r) = (Range(output) \cup {c}) \cup {d} /\ c.kind # "changed" /\ d.kind = "changed"
      BY <1>10, <1>13, <1>15 DEF Extended
    <3> QED BY <3>1
  <2>2. 1 .. (rendered + 1) = (1 .. rendered) \cup {rendered + 1}
    BY <1>1
  <2>3. {Changed(found[i]) : i \in 1 .. (rendered + 1)} = {Changed(found[i]) : i \in 1 .. rendered} \cup {Changed(found[rendered + 1])}
    BY <2>2, Zenon
  <2> QED BY <1>1, <1>3, <1>9, <2>1, <2>3
<1>22. Len(r) = 2 * (rendered + 1) /\ rendered + 1 <= Len(found) /\ rendered + 1 # 0
  <2>1. Len(r) = Len(output) + 1 + 1
    BY <1>13, <1>15 DEF Extended
  <2> QED BY <1>0, <1>1, <2>1
<1>23. {p \in Range(output') : p.kind = "changed"} = {Changed(found'[i]) : i \in 1 .. rendered'}
  <2>1. {p \in Range(output') : p.kind = "changed"} = {Changed(found[i]) : i \in 1 .. (rendered + 1)}
    BY <1>16, <1>21
  <2>2. found' = found /\ rendered' = rendered + 1
    BY <1>0, <1>16
  <2> QED BY <2>1, <2>2 DEF Changed
<1>24. RewriteInv'
  <2>1. rendered' <= Len(found') /\ cursor' = IF rendered' = 0 THEN 0 ELSE found'[rendered'][2]
    BY <1>0, <1>3, <1>16, <1>22
  <2>2. total' = Rewritten' /\ total' <= opts'.output
    BY <1>0, <1>1, <1>2
  <2>3. Len(output') = 2 * rendered' /\ \A p \in Range(output') : p.from <= Len(text') /\ p.to <= Len(text')
    BY <1>0, <1>15, <1>16, <1>22 DEF Extended
  <2>4. /\ output' # <<>> => output'[1].from = 0 /\ output'[Len(output')].to = cursor'
        /\ \A k \in 1 .. (Len(output') - 1) : output'[k].to = output'[k + 1].from
    BY <1>16, <1>20 DEF Joined
  <2>5. pc' = "write"
    BY <1>0
  <2> QED BY <1>18, <1>23, <2>1, <2>2, <2>3, <2>4, <2>5 DEF RewriteInv, Sizes
<1> QED BY <1>0, <1>24 DEF RewriteSized

(* The last piece ends the text. *)
LEMMA WrittenStep ==
  ASSUME SearchInv, Written
  PROVE  RewriteInv' /\ RewriteSized'
<1>0. pc = "write" /\ pc' = "done" /\ outcome' = "ok" /\ UNCHANGED <<callVars, found, total>> /\ rendered = Len(found)
  BY DEF Written, Done
<1>1. /\ Call /\ opts \in Scans /\ Len(found) \in Nat /\ rendered \in Nat
      /\ cursor \in Nat /\ cursor <= Len(text) /\ Len(text) \in Nat
      /\ output \in Seq(PieceType) /\ Len(output) \in Nat
      /\ \A p \in Range(output) : p.from <= Len(text) /\ p.to <= Len(text)
      /\ Sum(Sizes(output)) = Grown
      /\ Joined(output, cursor)
      /\ {p \in Range(output) : p.kind = "changed"} = {Changed(found[i]) : i \in 1 .. rendered}
      /\ total = Rewritten /\ total <= opts.output
  BY <1>0, WriteFacts
<1>2. Rewritten' = Rewritten
  BY <1>0, GrowthFixed
<1>3. Rewritten = Grown + Bytes(cursor, Len(text))
  BY <1>0, LastGrown
<1>4. PICK c : c = Copied(cursor, Len(text))
  OBVIOUS
<1>5. c \in PieceType /\ c.from = cursor /\ c.to = Len(text) /\ c.kind = "copied" /\ c.kind # "changed"
  BY <1>1, <1>4 DEF Copied, PieceType
<1>6. PICK r : r = Append(output, c)
  OBVIOUS
<1>7. Extended(output, c, r)
  <2>1. InPieces(output) /\ (c \in PieceType /\ c.from <= Len(text) /\ c.to <= Len(text))
    BY <1>1, <1>5 DEF InPieces
  <2> QED BY <1>1, <1>6, <2>1, SizesOne
<1>8. output' = r
  BY <1>4, <1>6 DEF Written
<1>9. Sum(Sizes(r)) = Rewritten
  <2>1. Size(c) = Bytes(cursor, Len(text))
    BY <1>5 DEF Size
  <2> QED BY <1>1, <1>3, <1>7, <2>1 DEF Extended
<1>10. Sizes(output)' = Sizes(r)
  BY <1>0, <1>8 DEF Sizes, Size, Bytes, Offsets, Piece
<1>12. Joined(r, Len(text)) /\ Len(r) > 0
  BY <1>1, <1>5, <1>7, JoinOne
<1>13. {p \in Range(r) : p.kind = "changed"} = {Changed(found[i]) : i \in DOMAIN found}
  <2>1. Range(r) = Range(output) \cup {c}
    BY <1>7 DEF Extended
  <2>2. {p \in Range(r) : p.kind = "changed"} = {p \in Range(output) : p.kind = "changed"}
    BY <1>5, <2>1
  <2>3. found \in Seq(Span)
    BY <1>1 DEF SearchInv, TypeOK
  <2>4. DOMAIN found = 1 .. rendered
    BY <1>0, <2>3
  <2> QED BY <1>1, <2>2, <2>4
<1>14. Pieces(output)'
  <2>1. text' = text /\ found' = found
    BY <1>0
  <2> QED BY <1>8, <1>12, <1>13, <2>1 DEF Pieces, Changed, Joined
<1>15. Sum(Sizes(output))' = Rewritten' /\ total' = Rewritten' /\ total' <= opts'.output
  BY <1>0, <1>1, <1>2, <1>9, <1>10
<1>16. Sum([k \in DOMAIN output |-> Size(output[k])])' = Rewritten'
  BY <1>15 DEF Sizes
<1>17. RewriteInv'
  BY <1>0 DEF RewriteInv
<1> QED BY <1>0, <1>14, <1>15, <1>16, <1>17 DEF RewriteSized

(* RewriteInv and RewriteSized are kept. *)
LEMMA RewriteStep ==
  ASSUME SearchInv, [Next]_vars
  PROVE  RewriteInv' /\ RewriteSized'
<1>0. UNCHANGED callVars /\ (Call <=> Call') /\ Call
  BY StepKeepsCall, CallFixed DEF SearchInv, TypeOK, Call
<1>1. CASE Scanning
  <2>1. RewriteSized'
    <3>1. CASE StartScan
      BY <1>0, <3>1 DEF StartScan, Done, RewriteSized
    <3>2. CASE Flush
      <4>1. pc' # "done"
        BY <3>2 DEF Flush, Select
      <4> QED BY <4>1 DEF RewriteSized
    <3>3. CASE Emit
      <4>1. pc' # "done" \/ outcome' = "work"
        BY <3>3 DEF Emit, Select, Done
      <4> QED BY <4>1 DEF RewriteSized
    <3>4. CASE ReadRune \/ EmitDone \/ Drain
      BY <3>4 DEF ReadRune, EmitDone, Drain, RewriteSized
    <3>5. CASE ScanEnds
      <4>1. pc' = "done" => opts'.call = "scan" \/ outcome' = "matches"
        BY <1>0, <3>5 DEF ScanEnds, Done
      <4> QED BY <4>1 DEF RewriteSized
    <3> QED BY <1>1, <3>1, <3>2, <3>3, <3>4, <3>5 DEF Scanning
  <2>2. CASE pc' \in {"size", "write"}
    <3>1. ScanEnds /\ pc \in {"ended", "drain"} /\ pc' = "size" /\ UNCHANGED <<callVars, found, cursor, rendered, total>>
      BY <1>1, <2>2 DEF Scanning, StartScan, Flush, Select, ReadRune, Emit, EmitDone, Drain, ScanEnds, Done
    <3>2. cursor = 0 /\ rendered = 0 /\ total = 0 /\ opts \in Scans
      BY <3>1 DEF SearchInv, CallInv
    <3>3. found \in Seq(Span) /\ Len(found) \in Nat /\ opts.output \in Nat
      BY <3>2, ScanOptions DEF SearchInv, TypeOK
    <3>4. \A i \in DOMAIN found : Growth[i] \in Int
      <4>1. ASSUME NEW i \in DOMAIN found PROVE Piece(found[i]) - Bytes(found[i][1], found[i][2]) \in Int
        <5>1. found[i] \in Range(found)
          BY <4>1 DEF Range
        <5>2. found[i] \in Occ
          BY <1>0, <3>2, <5>1, EligibleType DEF SearchInv, DisjointInv
        <5>3. PICK a, b : a = found[i][1] /\ b = found[i][2]
          OBVIOUS
        <5>4. a \in Nat /\ b \in Nat /\ a < b /\ b <= Len(text)
          BY <1>0, <5>2, <5>3, EligibleType
        <5>5. a \in 0 .. Len(text) /\ b \in 0 .. Len(text)
          BY <1>0, <5>4, TextType
        <5>6. Bytes(a, b) \in Int
          BY <1>0, <5>5, BytesRight
        <5>7. Piece(found[i]) \in Nat
          BY <3>2, <5>3, <5>4, PieceSize
        <5> QED BY <5>3, <5>6, <5>7
      <4> QED BY <4>1 DEF Growth
    <3>5. Len(Growth) = Len(found) /\ \A i \in 1 .. Len(found) : Growth[i] \in Int
      <4>1. DOMAIN found = 1 .. Len(found)
        BY <3>3
      <4>2. Growth \in Seq(Int) /\ DOMAIN Growth = 1 .. Len(found)
        BY <3>3, <3>4, <4>1 DEF Growth
      <4> QED BY <3>3, <3>4, <4>1, <4>2
    <3>6. Partial(Growth)[0] = 0
      BY <3>3, <3>5, PartialSums
    <3>7. Bytes(0, 0) = 0
      <4>1. 0 \in 0 .. Len(text)
        BY <1>0, TextType
      <4> QED BY <1>0, <4>1, BytesRight
    <3>8. Grown' = Grown /\ Grown = Bytes(0, 0) + Partial(Growth)[0]
      <4>1. Growth' = Growth /\ \A a, b : Bytes(a, b)' = Bytes(a, b)
        BY <1>0, <3>1, GrowthFixed, CallFixed
      <4> QED BY <3>1, <3>2, <4>1 DEF Grown, Bytes, Offsets
    <3>9. total' = Grown' /\ total' <= opts'.output /\ rendered' = 0 /\ cursor' = 0 /\ rendered' <= Len(found')
      BY <1>0, <3>1, <3>2, <3>3, <3>6, <3>7, <3>8
    <3> QED BY <2>1, <3>1, <3>9 DEF RewriteInv
  <2>3. CASE pc' \notin {"size", "write"}
    BY <2>1, <2>3 DEF RewriteInv
  <2> QED BY <2>1, <2>2, <2>3
<1>2. CASE Rewriting
  BY <1>2, MeasureStep, WriteStep, WrittenStep DEF Rewriting
<1>3. CASE Matching
  <2>1. pc' \notin {"size", "write"}
    BY <1>3 DEF Matching, StartMatches, KeepMatch, MatchesEnd, Done
  <2>2. opts.call = "findMatches"
    BY <1>3 DEF Matching, StartMatches, KeepMatch, MatchesEnd, SearchInv, CallInv
  <2> QED BY <1>0, <2>1, <2>2 DEF RewriteInv, RewriteSized
<1>4. CASE Splitting
  <2>1. pc' \notin {"size", "write"}
    BY <1>4 DEF Splitting, StartSplit, SplitChunk, SplitAutoChunk, SplitAutoEnds, ChunkStarts, ChunkEnds, ChunkCanceled, Merge, Done
  <2>2. opts \in Splits
    BY <1>4 DEF Splitting, StartSplit, SplitChunk, SplitAutoChunk, SplitAutoEnds, ChunkStarts, ChunkEnds, ChunkCanceled, Merge,
                SearchInv, CallInv
  <2>3. opts \notin Scans
    BY <2>2, SplitOptions
  <2> QED BY <1>0, <2>1, <2>3 DEF RewriteInv, RewriteSized
<1>5. CASE UNCHANGED vars
  <2>1. UNCHANGED <<callVars, found>> /\ UNCHANGED <<pc, cursor, rendered, total, output, outcome>>
    BY <1>5 DEF vars
  <2>2. Growth' = Growth /\ Rewritten' = Rewritten /\ \A a, b : Bytes(a, b)' = Bytes(a, b)
    BY <2>1, GrowthFixed, CallFixed
  <2>3. Sizes(output)' = Sizes(output)
    BY <2>1 DEF Sizes, Size, Bytes, Offsets, Piece
  <2>4. Grown' = Grown
    BY <2>1, <2>2 DEF Grown, Bytes, Offsets
  <2>5. Pieces(output)' <=> Pieces(output)
    BY <2>1 DEF Pieces, Changed
  <2>6. RewriteInv'
    <3>1. RewriteInv
      BY DEF SearchInv
    <3>2. {Changed(found[i]) : i \in 1 .. rendered}' = {Changed(found[i]) : i \in 1 .. rendered}
      BY <2>1 DEF Changed
    <3>3. Range(output)' = Range(output)
      BY <2>1 DEF Range
    <3>4. [k \in DOMAIN output |-> Size(output[k])]' = [k \in DOMAIN output |-> Size(output[k])]
      BY <2>3 DEF Sizes
    <3> QED BY <2>1, <2>2, <2>4, <3>1, <3>2, <3>3, <3>4 DEF RewriteInv
  <2>7. RewriteSized'
    BY <2>1, <2>2, <2>3, <2>5 DEF SearchInv, RewriteSized, Sizes
  <2> QED BY <2>6, <2>7
<1> QED BY <1>1, <1>2, <1>3, <1>4, <1>5 DEF Next

-----------------------------------------------------------------------------
(* The chunks of a parallel search. *)

(* What a chunk finds and owns depends on the call only. *)
LEMMA ChunkFixed ==
  ASSUME UNCHANGED callVars
  PROVE  (\A c : Scanned(c)' = Scanned(c)) /\ \A c, s : Owned(c, s)' <=> Owned(c, s)
<1>1. shards' = shards /\ text' = text /\ opts' = opts
  OBVIOUS
<1>2. \A c : Scanned(c)' = Scanned(c)
  BY <1>1 DEF Scanned, MatchString, Normal
<1>3. Longest' = Longest
  BY CallFixed
<1>4. \A c, s : Owned(c, s)' <=> Owned(c, s)
  BY <1>1, <1>3 DEF Owned
<1> QED BY <1>2, <1>4

(* A place of the text that is not before another is at it or past it. *)
LEMMA AtOrPast ==
  \A a, b \in Nat : \A x \in 0 .. (b - 1) : ~(x < a) => x \in a .. (b - 1)
OBVIOUS

(* One more chunk covers as much more of the text. *)
LEMMA ChunkGrows ==
  ASSUME SearchInv, pc = "split", UNCHANGED <<callVars, consumed, running>>,
         NEW c \in Nat \X Nat \X Nat, AddChunk(c), c[1] <= c[2], c[2] <= Len(text),
         cursor' \in Nat, cursor' <= Len(text),
         opts.auto => \A s \in cursor .. (cursor' - 1) : Owned(c, s),
         opts.auto => pc' # "chunks"
  PROVE  ChunkInv'
<1>0. /\ UNCHANGED callVars /\ consumed' = consumed /\ running' = running /\ text' = text /\ opts' = opts
      /\ consumed \in Nat /\ cursor \in Nat /\ chunks \in Seq(Nat \X Nat \X Nat) /\ Len(chunks) \in Nat
  BY DEF SearchInv, TypeOK
<1>1. /\ consumed <= Len(chunks) /\ running \subseteq 1 .. consumed
      /\ \A b \in Range(chunks) : b[1] <= b[2] /\ b[2] <= Len(text)
      /\ opts.auto => \A s \in 0 .. (cursor - 1) : \E b \in Range(chunks) : Owned(b, s)
      /\ \A i \in DOMAIN chunks : perChunk[i] = IF i <= consumed /\ i \notin running THEN Scanned(chunks[i]) ELSE <<>>
  BY DEF SearchInv, ChunkInv
<1>2. /\ chunks' \in Seq(Nat \X Nat \X Nat) /\ Len(chunks') = Len(chunks) + 1
      /\ \A i \in 1 .. Len(chunks) : chunks'[i] = chunks[i] /\ perChunk'[i] = perChunk[i]
      /\ chunks'[Len(chunks) + 1] = c /\ perChunk'[Len(chunks) + 1] = <<>>
  BY AddChunkRight DEF SearchInv
<1>3. DOMAIN chunks = 1 .. Len(chunks) /\ DOMAIN chunks' = 1 .. (Len(chunks) + 1)
  BY <1>0, <1>2
<1>4. Range(chunks') = Range(chunks) \cup {c}
  <2>1. chunks' = Append(chunks, c)
    BY DEF AddChunk
  <2>2. ASSUME NEW b \in Range(chunks') PROVE b \in Range(chunks) \cup {c}
    <3>1. PICK i \in DOMAIN chunks' : b = chunks'[i]
      BY <2>2 DEF Range
    <3>2. i = Len(chunks) + 1 \/ i \in 1 .. Len(chunks)
      BY <1>0, <1>3, <3>1
    <3> QED BY <1>2, <1>3, <3>1, <3>2 DEF Range
  <2>3. ASSUME NEW b \in Range(chunks) PROVE b \in Range(chunks')
    <3>1. PICK i \in 1 .. Len(chunks) : b = chunks[i]
      BY <1>3, <2>3 DEF Range
    <3>2. i \in DOMAIN chunks'
      BY <1>0, <1>3, <3>1
    <3> QED BY <1>2, <3>1, <3>2 DEF Range
  <2>4. c \in Range(chunks')
    <3>1. Len(chunks) + 1 \in DOMAIN chunks'
      BY <1>0, <1>3
    <3> QED BY <1>2, <3>1 DEF Range
  <2> QED BY <2>2, <2>3, <2>4
<1>5. consumed' <= Len(chunks') /\ running' \subseteq 1 .. consumed'
  BY <1>0, <1>1, <1>2
<1>6. \A b \in Range(chunks') : b[1] <= b[2] /\ b[2] <= Len(text')
  BY <1>0, <1>1, <1>4
<1>7. (\A b : Scanned(b)' = Scanned(b)) /\ \A b, s : Owned(b, s)' <=> Owned(b, s)
  BY <1>0, ChunkFixed
<1>8. ASSUME opts'.auto, NEW r \in 0 .. (cursor' - 1) PROVE \E b \in Range(chunks') : Owned(b, r)'
  <2>1. CASE r < cursor
    <3>1. r \in 0 .. (cursor - 1)
      BY <1>0, <2>1
    <3>2. PICK b \in Range(chunks) : Owned(b, r)
      BY <1>0, <1>1, <1>8, <3>1
    <3> QED BY <1>4, <1>7, <3>2
  <2>2. CASE ~(r < cursor)
    <3>1. r \in cursor .. (cursor' - 1)
      BY <1>0, <2>2, AtOrPast, Zenon
    <3>2. opts.auto
      BY <1>0, <1>8
    <3>3. \A q \in cursor .. (cursor' - 1) : Owned(c, q)
      BY <3>2
    <3>4. Owned(c, r)
      BY <3>1, <3>3
    <3> QED BY <1>4, <1>7, <3>4
  <2> QED BY <2>1, <2>2
<1>9. ASSUME NEW i \in DOMAIN chunks'
      PROVE  perChunk'[i] = IF i <= consumed' /\ i \notin running' THEN Scanned(chunks[i])' ELSE <<>>
  <2>0. Scanned(chunks[i])' = Scanned(chunks'[i])
    BY <1>0 DEF Scanned, MatchString, Normal
  <2>1. CASE i = Len(chunks) + 1
    <3>1. ~(i <= consumed')
      BY <1>0, <1>1, <2>1
    <3> QED BY <1>2, <2>1, <3>1
  <2>2. CASE i # Len(chunks) + 1
    <3>1. i \in 1 .. Len(chunks)
      BY <1>0, <1>3, <1>9, <2>2
    <3> QED BY <1>0, <1>1, <1>2, <1>3, <2>0, <3>1
  <2> QED BY <2>1, <2>2
<1> QED BY <1>0, <1>5, <1>6, <1>8, <1>9 DEF ChunkInv

(* The chunks so far, and what they have found. *)
LEMMA ChunkFacts ==
  ASSUME SearchInv, pc \in {"split", "chunks"}
  PROVE  /\ Call /\ opts \in Splits /\ Len(text) \in Nat
         /\ consumed \in Nat /\ cursor \in Nat /\ chunks \in Seq(Nat \X Nat \X Nat) /\ Len(chunks) \in Nat
         /\ perChunk \in Seq(Seq(Span)) /\ Len(perChunk) = Len(chunks) /\ DOMAIN chunks = 1 .. Len(chunks)
         /\ DOMAIN perChunk = 1 .. Len(chunks)
         /\ consumed <= Len(chunks) /\ running \subseteq 1 .. consumed
         /\ \A b \in Range(chunks) : b[1] <= b[2] /\ b[2] <= Len(text)
         /\ cursor <= Len(text)
         /\ opts.auto => \A s \in 0 .. (cursor - 1) : \E b \in Range(chunks) : Owned(b, s)
         /\ opts.auto /\ pc = "chunks" => cursor = Len(text)
         /\ \A i \in 1 .. Len(chunks) : perChunk[i] = IF i <= consumed /\ i \notin running THEN Scanned(chunks[i]) ELSE <<>>
<1>1. Call /\ opts \in Splits
  BY DEF SearchInv, TypeOK, CallInv, Call
<1>2. Len(text) \in Nat
  BY <1>1, TextType
<1>3. /\ consumed \in Nat /\ cursor \in Nat /\ chunks \in Seq(Nat \X Nat \X Nat)
      /\ perChunk \in Seq(Seq(Span)) /\ Len(perChunk) = Len(chunks)
  BY DEF SearchInv, TypeOK
<1>4. Len(chunks) \in Nat /\ DOMAIN chunks = 1 .. Len(chunks) /\ DOMAIN perChunk = 1 .. Len(chunks)
  BY <1>3
<1> QED BY <1>1, <1>2, <1>3, <1>4 DEF SearchInv, ChunkInv

(* The rest of the invariant is not affected when chunks start and end. *)
LEMMA ChunksKept ==
  ASSUME SearchInv, pc \in {"split", "chunks"}, UNCHANGED <<callVars, cursor, chunks>>, pc' = "chunks",
         opts.auto => cursor = Len(text),
         consumed' <= Len(chunks), running' \subseteq 1 .. consumed',
         \A i \in 1 .. Len(chunks) :
           perChunk'[i] = IF i <= consumed' /\ i \notin running' THEN Scanned(chunks[i]) ELSE <<>>
  PROVE  ChunkInv'
<1>0. shards' = shards /\ text' = text /\ opts' = opts /\ cursor' = cursor /\ chunks' = chunks
  OBVIOUS
<1>1. /\ DOMAIN chunks = 1 .. Len(chunks)
      /\ \A b \in Range(chunks) : b[1] <= b[2] /\ b[2] <= Len(text)
      /\ cursor <= Len(text)
      /\ opts.auto => \A s \in 0 .. (cursor - 1) : \E b \in Range(chunks) : Owned(b, s)
  BY ChunkFacts
<1>2. \A b, s : Owned(b, s)' <=> Owned(b, s)
  BY ChunkFixed
<1>3. ASSUME NEW i \in DOMAIN chunks'
      PROVE  perChunk'[i] = IF i <= consumed' /\ i \notin running' THEN Scanned(chunks[i])' ELSE <<>>
  <2>1. Scanned(chunks[i])' = Scanned(chunks[i])
    BY <1>0 DEF Scanned, MatchString, Normal
  <2>2. i \in 1 .. Len(chunks)
    BY <1>0, <1>1
  <2> QED BY <2>1, <2>2
<1>4. opts'.auto => \A s \in 0 .. (cursor' - 1) : \E b \in Range(chunks') : Owned(b, s)'
  BY <1>0, <1>1, <1>2
<1>5. /\ consumed' <= Len(chunks') /\ running' \subseteq 1 .. consumed'
      /\ \A b \in Range(chunks') : b[1] <= b[2] /\ b[2] <= Len(text')
      /\ cursor' <= Len(text') /\ (opts'.auto => cursor' = Len(text'))
  BY <1>0, <1>1
<1> QED BY <1>3, <1>4, <1>5 DEF ChunkInv

(* ChunkInv is kept. *)
LEMMA ChunkStep ==
  ASSUME SearchInv, [Next]_vars
  PROVE  ChunkInv'
<1>0. UNCHANGED callVars
  BY StepKeepsCall
<1>1. CASE Scanning \/ Rewriting \/ Matching
  <2>1. pc' \notin {"split", "chunks"}
    <3>1. CASE Scanning
      BY <3>1 DEF Scanning, StartScan, Flush, Select, ReadRune, Emit, EmitDone, Drain, ScanEnds, Done
    <3>2. CASE Rewriting \/ Matching
      BY <3>2 DEF Rewriting, Measure, Measured, Write, Written, Matching, StartMatches, KeepMatch, MatchesEnd, Done
    <3> QED BY <1>1, <3>1, <3>2
  <2> QED BY <2>1 DEF ChunkInv
<1>2. CASE StartSplit
  <2>1. /\ pc = "start" /\ pc' \in {"split", "done"} /\ consumed' = consumed /\ chunks' = chunks /\ running' = running
        /\ perChunk' = perChunk /\ cursor' = cursor /\ text' = text
    BY <1>2 DEF StartSplit, Done
  <2>2. consumed = 0 /\ cursor = 0 /\ chunks = <<>> /\ running = {}
    BY <2>1 DEF SearchInv, CallInv
  <2>3. Len(chunks') = 0 /\ DOMAIN chunks' = {} /\ Range(chunks') = {} /\ Len(text') \in Nat
    <3>1. Len(text) \in Nat
      BY TextType DEF SearchInv, TypeOK, Call
    <3> QED BY <2>1, <2>2, <3>1 DEF Range
  <2>4. consumed' <= Len(chunks') /\ running' \subseteq 1 .. consumed' /\ cursor' <= Len(text') /\ 0 .. (cursor' - 1) = {}
    BY <2>1, <2>2, <2>3
  <2> QED BY <2>1, <2>3, <2>4 DEF ChunkInv
<1>3. CASE SplitChunk
  <2>1. pc = "split" /\ ~opts.auto /\ UNCHANGED <<callVars, consumed, running>>
    BY <1>3 DEF SplitChunk
  <2>2. PICK c \in Nat \X Nat \X Nat : AddChunk(c) /\ c[1] <= c[2] /\ c[2] <= Len(text) /\ cursor' \in Nat /\ cursor' <= Len(text)
    BY <1>3, SplitChunkRight
  <2> QED BY <2>1, <2>2, ChunkGrows
<1>4. CASE SplitAutoChunk
  <2>1. pc = "split" /\ pc' = "split" /\ UNCHANGED <<callVars, consumed, running>>
    BY <1>4 DEF SplitAutoChunk
  <2>2. PICK c \in Nat \X Nat \X Nat :
          /\ AddChunk(c) /\ c[1] <= c[2] /\ c[2] <= Len(text) /\ cursor' \in Nat /\ cursor' <= Len(text)
          /\ \A s \in cursor .. (cursor' - 1) : Owned(c, s)
    BY <1>4, SplitAutoRight
  <2> QED BY <2>1, <2>2, ChunkGrows
<1>5. CASE SplitAutoEnds
  <2>1. /\ pc = "split" /\ pc' = "chunks" /\ cursor >= Len(text)
        /\ UNCHANGED <<callVars, cursor, chunks>> /\ consumed' = consumed /\ running' = running /\ perChunk' = perChunk
    BY <1>5 DEF SplitAutoEnds
  <2>2. /\ cursor \in Nat /\ Len(text) \in Nat /\ cursor <= Len(text) /\ consumed <= Len(chunks) /\ running \subseteq 1 .. consumed
        /\ \A i \in 1 .. Len(chunks) : perChunk[i] = IF i <= consumed /\ i \notin running THEN Scanned(chunks[i]) ELSE <<>>
    BY <2>1, ChunkFacts
  <2>3. cursor = Len(text)
    BY <2>1, <2>2
  <2> QED BY <2>1, <2>2, <2>3, ChunksKept
<1>6. CASE ChunkStarts
  <2>1. /\ pc = "chunks" /\ pc' = "chunks" /\ consumed < Len(chunks) /\ consumed' = consumed + 1
        /\ running' = running \cup {consumed + 1}
        /\ UNCHANGED <<callVars, cursor, chunks>> /\ perChunk' = perChunk
    BY <1>6 DEF ChunkStarts
  <2>2. /\ consumed \in Nat /\ Len(chunks) \in Nat /\ consumed <= Len(chunks) /\ running \subseteq 1 .. consumed
        /\ opts.auto => cursor = Len(text)
        /\ \A i \in 1 .. Len(chunks) : perChunk[i] = IF i <= consumed /\ i \notin running THEN Scanned(chunks[i]) ELSE <<>>
    BY <2>1, ChunkFacts
  <2>3. consumed' <= Len(chunks) /\ running' \subseteq 1 .. consumed'
    BY <2>1, <2>2
  <2>4. \A i \in 1 .. Len(chunks) : (i <= consumed' /\ i \notin running') <=> (i <= consumed /\ i \notin running)
    BY <2>1, <2>2
  <2>5. \A i \in 1 .. Len(chunks) : perChunk'[i] = IF i <= consumed' /\ i \notin running' THEN Scanned(chunks[i]) ELSE <<>>
    BY <2>1, <2>2, <2>4
  <2> QED BY <2>1, <2>2, <2>3, <2>5, ChunksKept
<1>7. ASSUME NEW k \in running, ChunkEnds(k) PROVE ChunkInv'
  <2>1. /\ pc = "chunks" /\ pc' = "chunks" /\ consumed' = consumed /\ running' = running \ {k}
        /\ UNCHANGED <<callVars, cursor, chunks>> /\ perChunk' = [perChunk EXCEPT ![k] = Scanned(chunks[k])]
    BY <1>7 DEF ChunkEnds
  <2>2. /\ consumed \in Nat /\ Len(chunks) \in Nat /\ consumed <= Len(chunks) /\ running \subseteq 1 .. consumed
        /\ opts.auto => cursor = Len(text)
        /\ DOMAIN perChunk = 1 .. Len(chunks)
        /\ \A i \in 1 .. Len(chunks) : perChunk[i] = IF i <= consumed /\ i \notin running THEN Scanned(chunks[i]) ELSE <<>>
    BY <2>1, ChunkFacts
  <2>3. k \in 1 .. consumed /\ k \in 1 .. Len(chunks) /\ k <= consumed
    BY <1>7, <2>2
  <2>4. ASSUME NEW i \in 1 .. Len(chunks)
        PROVE  perChunk'[i] = IF i <= consumed' /\ i \notin running' THEN Scanned(chunks[i]) ELSE <<>>
    <3>1. CASE i = k
      <4>1. perChunk'[k] = Scanned(chunks[k]) /\ k \notin running'
        BY <2>1, <2>2, <2>3
      <4> QED BY <2>1, <2>3, <3>1, <4>1
    <3>2. CASE i # k
      <4>1. perChunk'[i] = perChunk[i] /\ (i \in running' <=> i \in running)
        BY <2>1, <2>2, <3>2
      <4> QED BY <2>1, <2>2, <4>1
    <3> QED BY <3>1, <3>2
  <2>5. consumed' <= Len(chunks) /\ running' \subseteq 1 .. consumed'
    BY <2>1, <2>2
  <2> QED BY <2>1, <2>2, <2>4, <2>5, ChunksKept
<1>8. CASE ChunkCanceled \/ Merge
  BY <1>8 DEF ChunkCanceled, Merge, Done, ChunkInv
<1>9. CASE UNCHANGED vars
  <2>1. UNCHANGED <<pc, callVars, consumed, cursor, chunks, running, perChunk>>
    BY <1>9 DEF vars
  <2>2. CASE pc = "chunks"
    <3>1. /\ consumed <= Len(chunks) /\ running \subseteq 1 .. consumed /\ (opts.auto => cursor = Len(text))
          /\ \A i \in 1 .. Len(chunks) : perChunk[i] = IF i <= consumed /\ i \notin running THEN Scanned(chunks[i]) ELSE <<>>
      BY <2>2, ChunkFacts
    <3> QED BY <2>1, <2>2, <3>1, ChunksKept
  <2>3. CASE pc # "chunks"
    <3>1. \A b, s : Owned(b, s)' <=> Owned(b, s)
      BY <1>0, ChunkFixed
    <3>2. \A i \in DOMAIN chunks : Scanned(chunks[i])' = Scanned(chunks[i])
      BY <2>1 DEF Scanned, MatchString, Normal
    <3> QED BY <2>1, <2>3, <3>1, <3>2 DEF SearchInv, ChunkInv, Range
  <2> QED BY <2>2, <2>3
<1> QED BY <1>1, <1>2, <1>3, <1>4, <1>5, <1>6, <1>7, <1>8, <1>9 DEF Next, Splitting

-----------------------------------------------------------------------------
(* Merging what the chunks have found. *)

(* A text is, rune by rune, the text from an offset on. *)
SamePart(t, off, n) == \A i \in 1 .. n : Normal(t)[i] = Normal(text)[i + off]

(* A part of the text is normalized as the text is. *)
LEMMA NormalPart ==
  ASSUME Call, NEW off \in Nat, NEW end \in Nat, off <= end, end <= Len(text),
         NEW t, t = SubSeq(text, off + 1, end)
  PROVE  /\ t \in Seq(Rune) /\ Len(t) = end - off /\ Normal(t) \in Seq(Rune) /\ Len(Normal(t)) = end - off
         /\ SamePart(t, off, end - off)
<1>1. text \in Seq(Rune) /\ Len(text) \in Nat /\ DOMAIN text = 1 .. Len(text)
  BY TextType
<1>2. \A i \in (off + 1) .. end : text[i] \in Rune
  BY <1>1
<1>3. /\ t \in Seq(Rune) /\ Len(t) = IF off + 1 <= end THEN end - (off + 1) + 1 ELSE 0
      /\ \A i \in 1 .. (end - (off + 1) + 1) : t[i] = text[(off + 1) + i - 1]
  BY <1>2, SubSeqProperties
<1>4. Len(t) = end - off /\ DOMAIN t = 1 .. (end - off)
  BY <1>3
<1>5. Normal(t) \in Seq(Rune) /\ Len(Normal(t)) = end - off
  BY <1>3, <1>4, NormalType
<1>6. ASSUME NEW i \in 1 .. (end - off) PROVE Normal(t)[i] = Normal(text)[i + off]
  <2>1. i \in 1 .. (end - (off + 1) + 1) /\ (off + 1) + i - 1 = i + off /\ i + off \in 1 .. Len(text)
    BY <1>1
  <2>2. t[i] = text[i + off]
    BY <1>3, <2>1
  <2>3. Normal(t)[i] = IF opts.sensitive THEN t[i] ELSE Fold[t[i]]
    BY <1>4 DEF Normal
  <2>4. Normal(text)[i + off] = IF opts.sensitive THEN text[i + off] ELSE Fold[text[i + off]]
    BY <1>1, <2>1 DEF Normal
  <2> QED BY <2>2, <2>3, <2>4
<1> QED BY <1>3, <1>4, <1>5, <1>6 DEF SamePart

(* An occurrence in a part of the text is one in the text, and back. *)
LEMMA OccurrenceShifts ==
  ASSUME Call, NEW off \in Nat, NEW end \in Nat, off <= end, end <= Len(text),
         NEW a \in Nat, NEW b \in Nat, a < b, b <= end - off
  PROVE  <<a, b>> \in Occurrences(Normal(SubSeq(text, off + 1, end))) <=> <<a + off, b + off>> \in Occ
<1>1. PICK t : t = SubSeq(text, off + 1, end)
  OBVIOUS
<1>2. /\ Normal(t) \in Seq(Rune) /\ Len(Normal(t)) = end - off
      /\ \A i \in 1 .. (end - off) : Normal(t)[i] = Normal(text)[i + off]
  <2>1. Normal(t) \in Seq(Rune) /\ Len(Normal(t)) = end - off
    BY <1>1, NormalPart
  <2>2. SamePart(t, off, end - off)
    BY <1>1, NormalPart
  <2> QED BY <2>1, <2>2 DEF SamePart
<1>3. Normal(text) \in Seq(Rune) /\ Len(Normal(text)) = Len(text) /\ Len(text) \in Nat
  BY TextType
<1>4. PICK x, y : x = SubSeq(Normal(t), a + 1, b) /\ y = SubSeq(Normal(text), (a + off) + 1, b + off)
  OBVIOUS
<1>5. x \in Seq(Rune) /\ Len(x) = b - a /\ \A i \in 1 .. (b - a) : x[i] = Normal(t)[a + i]
  <2>1. \A i \in (a + 1) .. b : Normal(t)[i] \in Rune
    BY <1>2
  <2>2. /\ x \in Seq(Rune) /\ Len(x) = IF a + 1 <= b THEN b - (a + 1) + 1 ELSE 0
        /\ \A i \in 1 .. (b - (a + 1) + 1) : x[i] = Normal(t)[(a + 1) + i - 1]
    BY <1>4, <2>1, SubSeqProperties
  <2>3. Len(x) = b - a /\ b - (a + 1) + 1 = b - a /\ \A i \in Int : (a + 1) + i - 1 = a + i
    BY <2>2
  <2> QED BY <2>2, <2>3
<1>6. y \in Seq(Rune) /\ Len(y) = b - a /\ \A i \in 1 .. (b - a) : y[i] = Normal(text)[(a + i) + off]
  <2>1. \A i \in ((a + off) + 1) .. (b + off) : Normal(text)[i] \in Rune
    BY <1>3
  <2>2. /\ y \in Seq(Rune) /\ Len(y) = IF (a + off) + 1 <= b + off THEN (b + off) - ((a + off) + 1) + 1 ELSE 0
        /\ \A i \in 1 .. ((b + off) - ((a + off) + 1) + 1) : y[i] = Normal(text)[((a + off) + 1) + i - 1]
    BY <1>4, <2>1, SubSeqProperties
  <2>3. Len(y) = b - a /\ (b + off) - ((a + off) + 1) + 1 = b - a /\ \A i \in Int : ((a + off) + 1) + i - 1 = (a + i) + off
    BY <2>2
  <2> QED BY <2>2, <2>3
<1>7. x = y
  <2>1. ASSUME NEW i \in 1 .. (b - a) PROVE x[i] = y[i]
    <3>1. a + i \in 1 .. (end - off)
      OBVIOUS
    <3> QED BY <1>2, <1>5, <1>6, <3>1
  <2> QED BY <1>5, <1>6, <2>1, SeqEqual
<1>8. <<a, b>> \in Occurrences(Normal(t)) <=> x \in Dictionary
  <2>1. <<a, b>> \in (0 .. Len(Normal(t))) \X (0 .. Len(Normal(t)))
    BY <1>2
  <2> QED BY <1>4, <2>1 DEF Occurrences
<1>9. <<a + off, b + off>> \in Occ <=> y \in Dictionary
  <2>1. <<a + off, b + off>> \in (0 .. Len(Normal(text))) \X (0 .. Len(Normal(text))) /\ a + off < b + off
    BY <1>3
  <2> QED BY <1>4, <2>1 DEF Occurrences, Occ
<1> QED BY <1>1, <1>7, <1>8, <1>9

(* When the chunks have ended, their positions are those of occurrences,   *)
(* and with AutoOverlap of every one.                                      *)
LEMMA PositionsRight ==
  ASSUME SearchInv, pc = "chunks", consumed = Len(chunks), running = {}
  PROVE  /\ Positions \subseteq Span /\ IsFiniteSet(Positions)
         /\ \A p \in Positions : Shifted(p) \in Occ
         /\ opts.auto => \A m \in Occ : \E p \in Positions : Shifted(p) = m
<1>0. /\ Call /\ Len(text) \in Nat /\ cursor \in Nat /\ Len(chunks) \in Nat
      /\ DOMAIN chunks = 1 .. Len(chunks) /\ (opts.auto => cursor = Len(text))
      /\ opts.auto => \A s \in 0 .. (cursor - 1) : \E b \in Range(chunks) : Owned(b, s)
      /\ \A i \in 1 .. Len(chunks) : perChunk[i] = IF i <= consumed /\ i \notin running THEN Scanned(chunks[i]) ELSE <<>>
  BY ChunkFacts
<1>1. \A i \in 1 .. Len(chunks) : perChunk[i] = Scanned(chunks[i])
  BY <1>0
<1>2. \A i \in 1 .. Len(chunks) : chunks[i] \in Nat \X Nat \X Nat /\ chunks[i][1] <= chunks[i][2] /\ chunks[i][2] <= Len(text)
  BY ChunkPlace
<1> DEFINE Own(c) == {m \in Occurrences(Normal(SubSeq(text, c[1] + 1, c[2]))) : m[1] < c[3]}
           most == Cardinality((0 .. Len(text)) \X (0 .. Len(text)))
<1>3. \A i \in 1 .. Len(chunks) :
        /\ Scanned(chunks[i]) \in Seq(Span) /\ Range(Scanned(chunks[i])) = Own(chunks[i]) /\ DOMAIN Scanned(chunks[i]) \subseteq 1 .. most
  <2> TAKE i \in 1 .. Len(chunks)
  <2>1. PICK c : c = chunks[i]
    OBVIOUS
  <2>2. c \in Nat \X Nat \X Nat /\ c[2] <= Len(text)
    BY <1>2, <2>1
  <2>3. Scanned(c) \in Seq(Span) /\ Range(Scanned(c)) = Own(c) /\ DOMAIN Scanned(c) \subseteq 1 .. most
    BY <1>0, <2>2, ScannedRight
  <2> HIDE DEF Own, most
  <2> QED BY <2>1, <2>3
<1>4. most \in Nat
  <2>1. IsFiniteSet(0 .. Len(text))
    BY <1>0, FS_Interval
  <2>2. IsFiniteSet((0 .. Len(text)) \X (0 .. Len(text)))
    BY <2>1, FS_Product
  <2> QED BY <2>2, FS_CardinalityType
<1> HIDE DEF Own, most
<1>5. \A p : p \in Positions <=> \E i \in 1 .. Len(chunks) : \E k \in DOMAIN Scanned(chunks[i]) : p = <<i, k>>
  BY <1>0, <1>1 DEF Positions
<1>6. Positions \subseteq (1 .. Len(chunks)) \X (1 .. most)
  BY <1>3, <1>5
<1>7. Positions \subseteq Span /\ IsFiniteSet(Positions)
  <2>1. IsFiniteSet(1 .. Len(chunks)) /\ IsFiniteSet(1 .. most)
    BY <1>0, <1>4, FS_Interval
  <2>2. IsFiniteSet((1 .. Len(chunks)) \X (1 .. most))
    BY <2>1, FS_Product
  <2>3. IsFiniteSet(Positions)
    BY <1>6, <2>2, FS_Subset
  <2>4. 1 .. Len(chunks) \subseteq Nat /\ 1 .. most \subseteq Nat
    BY <1>0, <1>4
  <2> QED BY <1>6, <2>3, <2>4 DEF Span
<1>8. ASSUME NEW p \in Positions PROVE Shifted(p) \in Occ
  <2>1. PICK i \in 1 .. Len(chunks) : \E k \in DOMAIN Scanned(chunks[i]) : p = <<i, k>>
    BY <1>5
  <2>2. PICK k \in DOMAIN Scanned(chunks[i]) : p = <<i, k>>
    BY <2>1
  <2>3. PICK c : c = chunks[i]
    OBVIOUS
  <2>4. PICK m : m = Scanned(c)[k]
    OBVIOUS
  <2>5. m \in Own(c)
    BY <1>3, <2>2, <2>3, <2>4 DEF Range
  <2>6. PICK off, end : off = c[1] /\ end = c[2]
    OBVIOUS
  <2>7. off \in Nat /\ end \in Nat /\ off <= end /\ end <= Len(text)
    BY <1>2, <2>3, <2>6
  <2>8. PICK t : t = SubSeq(text, off + 1, end)
    OBVIOUS
  <2>9. Normal(t) \in Seq(Rune) /\ Len(Normal(t)) = end - off
    BY <1>0, <2>7, <2>8, NormalPart
  <2>10. m \in Occurrences(Normal(t))
    BY <2>5, <2>6, <2>8 DEF Own
  <2>11. m = <<m[1], m[2]>> /\ m[1] \in Nat /\ m[2] \in Nat /\ m[1] < m[2] /\ m[2] <= end - off
    BY <1>0, <2>9, <2>10, OccurrenceType
  <2>12. PICK x, y : x = m[1] /\ y = m[2]
    OBVIOUS
  <2>13. <<x, y>> \in Occurrences(Normal(SubSeq(text, off + 1, end)))
    BY <2>8, <2>10, <2>11, <2>12
  <2>14. <<x + off, y + off>> \in Occ
    BY <1>0, <2>7, <2>11, <2>12, <2>13, OccurrenceShifts
  <2>15. Shifted(p) = <<x + off, y + off>>
    <3>1. p[1] = i /\ p[2] = k /\ perChunk[i] = Scanned(c)
      BY <1>1, <2>2, <2>3
    <3> QED BY <2>3, <2>4, <2>6, <2>12, <3>1 DEF Shifted
  <2> QED BY <2>14, <2>15
<1>9. ASSUME opts.auto, NEW m \in Occ PROVE \E p \in Positions : Shifted(p) = m
  <2>1. /\ m = <<m[1], m[2]>> /\ m[1] \in Nat /\ m[2] \in Nat /\ m[1] < m[2] /\ m[2] <= Len(text)
        /\ m[2] - m[1] <= Longest /\ Longest \in Nat
    BY <1>0, EligibleType, LongestType
  <2>2. PICK s, e : s = m[1] /\ e = m[2]
    OBVIOUS
  <2>3. s \in 0 .. (cursor - 1)
    BY <1>0, <1>9, <2>1, <2>2
  <2>4. PICK c \in Range(chunks) : Owned(c, s)
    BY <1>0, <1>9, <2>3
  <2>5. PICK i \in 1 .. Len(chunks) : c = chunks[i]
    BY <1>0, <2>4 DEF Range
  <2>6. PICK off, end, own : off = c[1] /\ end = c[2] /\ own = c[3]
    OBVIOUS
  <2>7. off \in Nat /\ end \in Nat /\ own \in Nat /\ off <= end /\ end <= Len(text)
    BY <1>2, <2>5, <2>6
  <2>8. off <= s /\ s < off + own /\ (end = Len(text) \/ end >= s + Longest)
    BY <2>4, <2>6 DEF Owned
  <2>9. s \in Nat /\ e \in Nat /\ s < e /\ e <= Len(text) /\ e - s <= Longest /\ Longest \in Nat
    BY <2>1, <2>2
  <2>10. e <= end
    BY <2>7, <2>8, <2>9, <1>0
  <2>11. PICK a \in Nat, b \in Nat : a = s - off /\ b = e - off
    BY <2>7, <2>8, <2>9
  <2>12. a < b /\ b <= end - off /\ a + off = s /\ b + off = e /\ a < own
    BY <2>7, <2>8, <2>9, <2>10, <2>11
  <2>13. <<a + off, b + off>> \in Occ
    BY <2>1, <2>2, <2>12
  <2>14. <<a, b>> \in Occurrences(Normal(SubSeq(text, off + 1, end)))
    BY <1>0, <2>7, <2>12, <2>13, OccurrenceShifts
  <2>15. <<a, b>> \in Own(c)
    BY <2>6, <2>12, <2>14 DEF Own
  <2>16. PICK k \in DOMAIN Scanned(chunks[i]) : Scanned(chunks[i])[k] = <<a, b>>
    <3>1. <<a, b>> \in Range(Scanned(chunks[i]))
      BY <1>3, <2>5, <2>15
    <3> QED BY <3>1 DEF Range
  <2>17. <<i, k>> \in Positions
    BY <1>5, <2>16
  <2>18. Shifted(<<i, k>>) = <<a + off, b + off>>
    BY <1>1, <2>5, <2>6, <2>16 DEF Shifted
  <2>19. Shifted(<<i, k>>) = m
    BY <2>1, <2>2, <2>12, <2>18
  <2> QED BY <2>17, <2>19
<1> QED BY <1>7, <1>8, <1>9

(* A set of positions has an earliest. *)
LEMMA EarliestPosition ==
  ASSUME NEW T \in SUBSET Span, T # {}
  PROVE  \E p \in T : \A q \in T : ~Earlier(q, p)
<1>1. \A p \in T : p = <<p[1], p[2]>> /\ p[1] \in Nat /\ p[2] \in Nat
  BY DEF Span
<1> DEFINE F == {p[1] : p \in T}
<1>2. F \in SUBSET Nat /\ F # {}
  BY <1>1
<1>3. PICK i \in F : \A j \in F : i <= j
  BY <1>2, LeastNat
<1> DEFINE G == {p[2] : p \in {q \in T : q[1] = i}}
<1>4. G \in SUBSET Nat /\ G # {}
  BY <1>1, <1>3
<1>5. PICK k \in G : \A j \in G : k <= j
  BY <1>4, LeastNat
<1>6. PICK p \in T : p[1] = i /\ p[2] = k
  BY <1>5
<1>7. ASSUME NEW q \in T PROVE ~Earlier(q, p)
  <2>1. i <= q[1] /\ q[1] \in Nat /\ q[2] \in Nat /\ i \in Nat /\ k \in Nat
    BY <1>1, <1>3, <1>6
  <2>2. q[1] = i => k <= q[2]
    BY <1>5
  <2> QED BY <1>6, <2>1, <2>2 DEF Earlier
<1> QED BY <1>7

(* FirstNamed has one position for each name found. *)
LEMMA FirstNamedRight ==
  ASSUME Positions \subseteq Span
  PROVE  /\ \A p, q \in FirstNamed : Named(Shifted(p)) = Named(Shifted(q)) => p = q
         /\ \A p \in Positions : \E q \in FirstNamed : Named(Shifted(q)) = Named(Shifted(p))
<1>1. \A p \in Positions : p = <<p[1], p[2]>> /\ p[1] \in Nat /\ p[2] \in Nat
  BY DEF Span
<1>2. ASSUME NEW p \in FirstNamed, NEW q \in FirstNamed, Named(Shifted(p)) = Named(Shifted(q)) PROVE p = q
  <2>1. p \in Positions /\ q \in Positions /\ ~Earlier(p, q) /\ ~Earlier(q, p)
    BY <1>2 DEF FirstNamed
  <2>2. p[1] = q[1] /\ p[2] = q[2]
    BY <1>1, <2>1 DEF Earlier
  <2> QED BY <1>1, <2>1, <2>2
<1>3. ASSUME NEW p \in Positions PROVE \E q \in FirstNamed : Named(Shifted(q)) = Named(Shifted(p))
  <2>1. PICK n : n = Named(Shifted(p))
    OBVIOUS
  <2>2. PICK T : T = {q \in Positions : Named(Shifted(q)) = n}
    OBVIOUS
  <2>3. T \in SUBSET Span /\ T # {}
    BY <1>3, <2>1, <2>2
  <2>4. PICK q \in T : \A r \in T : ~Earlier(r, q)
    BY <2>3, EarliestPosition
  <2>5. q \in Positions /\ Named(Shifted(q)) = n
    BY <2>2, <2>4
  <2>6. \A r \in Positions : Earlier(r, q) => Named(Shifted(r)) # Named(Shifted(q))
    BY <2>2, <2>4, <2>5
  <2>7. q \in FirstNamed
    BY <2>5, <2>6 DEF FirstNamed
  <2> QED BY <2>1, <2>5, <2>7
<1> QED BY <1>2, <1>3

(* Merge returns the occurrences, or their keywords. *)
LEMMA MergeExact ==
  ASSUME SearchInv, Merge
  PROVE  ParallelExact'
<1>0. /\ pc = "chunks" /\ consumed = Len(chunks) /\ running = {} /\ UNCHANGED callVars
  BY DEF Merge
<1>1. Call /\ opts \in Splits /\ opts.call \in {"find", "index"}
  BY <1>0, ChunkFacts, SplitOptions
<1>2. /\ Positions \subseteq Span /\ IsFiniteSet(Positions)
      /\ \A p \in Positions : Shifted(p) \in Occ
      /\ opts.auto => \A m \in Occ : \E p \in Positions : Shifted(p) = m
  BY <1>0, PositionsRight
<1> DEFINE want == IF opts.call = "index" THEN Occ ELSE {Named(m) : m \in Occ}
           Right == Range(found') \subseteq want /\ (opts.auto => Range(found') = want /\ IsInjective(found'))
<1>3. ASSUME opts.call = "index" PROVE Right
  <2>1. PICK S : S = {Shifted(p) : p \in Positions}
    OBVIOUS
  <2>2. S \subseteq Occ /\ (opts.auto => S = Occ)
    BY <1>2, <2>1
  <2>3. S \in SUBSET Span /\ IsFiniteSet(S)
    BY <1>1, <2>2, EligibleType, FS_Subset
  <2>4. found' = InOrder(S, ScanOrder)
    BY <1>3, <2>1 DEF Merge
  <2>5. Range(InOrder(S, ScanOrder)) = S /\ IsInjective(InOrder(S, ScanOrder))
    BY <2>3, ScanOrderSorts
  <2> QED BY <1>3, <2>2, <2>4, <2>5
<1>4. ASSUME opts.call # "index" PROVE Right
  <2>1. PICK S : S = FirstNamed
    OBVIOUS
  <2>2. S \in SUBSET Positions /\ S \in SUBSET Span /\ IsFiniteSet(S)
    <3>1. S \in SUBSET Positions
      BY <2>1 DEF FirstNamed
    <3> QED BY <1>2, <3>1, FS_Subset
  <2>3. PICK f : f = InOrder(S, Earlier)
    OBVIOUS
  <2>4. Range(f) = S /\ IsInjective(f)
    BY <2>2, <2>3, EarlierSorts
  <2>5. found' = [k \in DOMAIN f |-> Named(Shifted(f[k]))]
    BY <1>4, <2>1, <2>3 DEF Merge
  <2>6. \A k \in DOMAIN f : f[k] \in S
    BY <2>4 DEF Range
  <2>7. ASSUME NEW n \in Range(found') PROVE n \in want
    <3>1. PICK k \in DOMAIN f : n = Named(Shifted(f[k]))
      BY <2>5, <2>7 DEF Range
    <3>2. Shifted(f[k]) \in Occ
      BY <1>2, <2>2, <2>6
    <3> QED BY <1>4, <3>1, <3>2
  <2>8. ASSUME opts.auto, NEW n \in want PROVE n \in Range(found')
    <3>1. PICK m \in Occ : n = Named(m)
      BY <1>4, <2>8
    <3>2. PICK p \in Positions : Shifted(p) = m
      BY <1>2, <2>8
    <3>3. PICK q \in S : Named(Shifted(q)) = Named(Shifted(p))
      BY <1>2, <2>1, FirstNamedRight
    <3>4. PICK k \in DOMAIN f : f[k] = q
      BY <2>4, <3>3 DEF Range
    <3>5. found'[k] = n /\ k \in DOMAIN found'
      BY <2>5, <3>1, <3>2, <3>3, <3>4
    <3> QED BY <3>5 DEF Range
  <2>9. ASSUME NEW a \in DOMAIN found', NEW b \in DOMAIN found', found'[a] = found'[b] PROVE a = b
    <3>1. a \in DOMAIN f /\ b \in DOMAIN f /\ Named(Shifted(f[a])) = Named(Shifted(f[b]))
      BY <2>5, <2>9
    <3>2. f[a] = f[b]
      BY <1>2, <2>1, <2>6, <3>1, FirstNamedRight
    <3> QED BY <2>4, <3>1, <3>2 DEF IsInjective
  <2>10. IsInjective(found')
    BY <2>9 DEF IsInjective
  <2> QED BY <2>7, <2>8, <2>10
<1>5. Right
  BY <1>3, <1>4
<1>6. opts' = opts /\ Occurrences(Normal(text))' = Occ /\ \A m : Named(m)' = Named(m)
  BY <1>0, CallFixed DEF Occ, Named, Normal
<1>7. {Named(m) : m \in Occurrences(Normal(text))}' = {Named(m) : m \in Occ}
  BY <1>0, <1>6 DEF Named, Normal
<1>8. (IF opts.call = "index" THEN Occurrences(Normal(text)) ELSE {Named(m) : m \in Occurrences(Normal(text))})' = want
  BY <1>6, <1>7
<1> HIDE DEF want
<1> QED BY <1>5, <1>6, <1>8 DEF ParallelExact

(* ParallelExact is kept. *)
LEMMA ParallelStep ==
  ASSUME SearchInv, [Next]_vars
  PROVE  ParallelExact'
<1>0. UNCHANGED callVars /\ opts' = opts
  BY StepKeepsCall
<1>1. CASE Scanning \/ Rewriting \/ Matching
  <2>1. opts \in Scans
    <3>1. CASE Scanning
      BY <3>1 DEF Scanning, StartScan, Flush, ReadRune, Emit, EmitDone, Drain, ScanEnds, SearchInv, CallInv
    <3>2. CASE Rewriting \/ Matching
      BY <3>2 DEF Rewriting, Measure, Measured, Write, Written, Matching, StartMatches, KeepMatch, MatchesEnd, SearchInv, CallInv
    <3> QED BY <1>1, <3>1, <3>2
  <2>2. opts' \notin Splits
    BY <1>0, <2>1, ScanOptions
  <2> QED BY <2>2 DEF ParallelExact
<1>2. CASE Merge
  BY <1>2, MergeExact
<1>3. CASE ChunkCanceled
  BY <1>3 DEF ChunkCanceled, Done, ParallelExact
<1>4. CASE SplitChunk \/ SplitAutoChunk \/ SplitAutoEnds \/ ChunkStarts \/ \E i \in running : ChunkEnds(i)
  <2>1. pc' # "done"
    BY <1>4 DEF SplitChunk, SplitAutoChunk, SplitAutoEnds, ChunkStarts, ChunkEnds
  <2> QED BY <2>1 DEF ParallelExact
<1>5. CASE UNCHANGED vars
  <2>1. pc' = pc /\ outcome' = outcome /\ found' = found
    BY <1>5 DEF vars
  <2>2. Occurrences(Normal(text))' = Occurrences(Normal(text))
    BY <1>0, CallFixed DEF Occ
  <2>3. {Named(m) : m \in Occurrences(Normal(text))}' = {Named(m) : m \in Occurrences(Normal(text))}
    BY <1>0, <2>2 DEF Named, Normal
  <2>4. ParallelExact
    BY DEF SearchInv
  <2> QED BY <1>0, <2>1, <2>2, <2>3, <2>4 DEF ParallelExact
<1>6. CASE StartSplit
  <2>1. CASE text = <<>>
    <3>1. found' = <<>> /\ Range(found') = {} /\ IsInjective(found')
      <4>1. found' = <<>>
        BY <1>6 DEF StartSplit, SearchInv, CallInv
      <4> QED BY <4>1 DEF Range, IsInjective
    <3>2. Occ = {}
      <4>1. Call /\ Len(text) = 0
        BY <2>1 DEF SearchInv, TypeOK, Call
      <4>2. ASSUME NEW m \in Occ PROVE FALSE
        BY <4>1, EligibleType
      <4> QED BY <4>2
    <3>3. Occurrences(Normal(text))' = {}
      BY <1>0, <3>2, CallFixed DEF Occ
    <3> QED BY <3>1, <3>3 DEF ParallelExact
  <2>2. CASE text # <<>>
    BY <1>6, <2>2 DEF StartSplit, ParallelExact
  <2> QED BY <2>1, <2>2
<1> QED BY <1>1, <1>2, <1>3, <1>4, <1>5, <1>6 DEF Next, Splitting

-----------------------------------------------------------------------------
(* The invariant. *)

(* SearchInv holds of every call that has not begun. *)
LEMMA SearchInit == Init => SearchInv
<1> SUFFICES ASSUME Init PROVE SearchInv
  OBVIOUS
<1>1. TypeOK /\ CallInv
  BY TypeInit, CallInit
<1>2. pc = "start" /\ found = <<>> /\ windowEnd = 0 /\ DOMAIN best = {}
  BY DEF Init
<1>3. /\ StreamInv /\ WorkInv /\ GreedyInv /\ OverlappingInv /\ SelectInv /\ ExactInv /\ RewriteInv /\ ChunkInv
      /\ WorkLimitHonest /\ RewriteSized /\ ParallelExact
  BY <1>2 DEF StreamInv, WorkInv, GreedyInv, OverlappingInv, SelectInv, ExactInv, RewriteInv, ChunkInv,
              WorkLimitHonest, RewriteSized, ParallelExact
<1>4. WindowInv
  BY <1>2 DEF WindowInv
<1>5. DisjointInv
  <2>1. DOMAIN found = {} /\ Range(found) = {}
    BY <1>2 DEF Range
  <2> QED BY <1>2, <2>1 DEF DisjointInv, InScanOrder
<1> QED BY <1>1, <1>3, <1>4, <1>5 DEF SearchInv

(* SearchInv is inductive: every turn of every loop keeps each of its parts. *)
LEMMA SearchInductive == SearchInv /\ [Next]_vars => SearchInv'
<1> SUFFICES ASSUME SearchInv, [Next]_vars PROVE SearchInv'
  OBVIOUS
<1>1. TypeOK' /\ CallInv' /\ StreamInv' /\ WorkInv' /\ WorkLimitHonest' /\ WindowInv'
  BY TypeStep, CallStep, StreamStep, WorkStep, WindowStep
<1>2. DisjointInv' /\ GreedyInv' /\ OverlappingInv' /\ SelectInv' /\ ExactInv'
  BY DisjointStep, GreedyStep, OverlappingStep, SelectStep, ExactStep
<1>3. RewriteInv' /\ RewriteSized' /\ ChunkInv' /\ ParallelExact'
  BY RewriteStep, ChunkStep, ParallelStep
<1> QED BY <1>1, <1>2, <1>3 DEF SearchInv

(* SearchInv is an invariant of every search call (scan.go, rewrite.go,    *)
(* matches.go, parallel.go), whatever the dictionaries, texts, options and *)
(* limits.                                                                 *)
THEOREM SearchInvariant == Spec => []SearchInv
<1>1. Init => SearchInv
  BY SearchInit
<1>2. SearchInv /\ [Next]_vars => SearchInv'
  BY SearchInductive
<1> QED BY <1>1, <1>2, PTL DEF Spec

(* The result of Scan, of the matches a rewrite replaces and of            *)
(* FindMatches is the leftmost-longest selection, or every match, in scan  *)
(* order and up to the limit; truncated says whether it is all of it       *)
(* (scan.go 218-237, matches.go 282-340).                                  *)
THEOREM ScanIsExact == Spec => []ScanExact
<1>1. SearchInv => ScanExact
  BY DEF SearchInv, ExactInv, ScanExact
<1> QED BY <1>1, SearchInvariant, PTL

(* The call fails for its work exactly when the text has more raw matches  *)
(* than the budget (scan.go 60-62).                                        *)
THEOREM WorkLimitIsHonest == Spec => []WorkLimitHonest
<1>1. SearchInv => WorkLimitHonest
  BY DEF SearchInv
<1> QED BY <1>1, SearchInvariant, PTL

(* The window of pending candidates is no longer than the longest keyword  *)
(* (scan.go 239-240).                                                      *)
THEOREM WindowIsBounded == Spec => []WindowBounded
<1>1. SearchInv => WindowBounded
  BY WindowFits
<1> QED BY <1>1, SearchInvariant, PTL

(* A rewrite is refused exactly when it would be too long, and what it     *)
(* returns is the text with every match changed, in the bytes it was       *)
(* sized for (rewrite.go 86-140).                                          *)
THEOREM RewriteIsSized == Spec => []RewriteSized
<1>1. SearchInv => RewriteSized
  BY DEF SearchInv
<1> QED BY <1>1, SearchInvariant, PTL

(* With AutoOverlap a parallel search finds every occurrence, for every    *)
(* chunk size, overlap and number of workers and in whatever order the     *)
(* chunks end; without it, no false one (parallel.go 109-120, 209-258).    *)
THEOREM ParallelIsExact == Spec => []ParallelExact
<1>1. SearchInv => ParallelExact
  BY DEF SearchInv
<1> QED BY <1>1, SearchInvariant, PTL
=============================================================================
