----------------------- MODULE VersionedShardsProofs -----------------------
(***************************************************************************)
(* Proofs about VersionedShards, for any number of shards, layouts, calls, *)
(* sweeps, failures and keywords.                                          *)
(***************************************************************************)
EXTENDS VersionedShards, FiniteSetTheorems, TLAPS

USE DEF storeVars, recordVars, tokenVars, planVars, opVars, pruneVars, histVars, ClientVars

(* The slots. *)
LEMMA Slots ==
  /\ Shard \subseteq Slot /\ Global \in Slot /\ Global \notin Shard
  /\ \A n \in 1 .. MaxShards : ShardsOf(n) \subseteq Shard
  /\ \A n \in Counts : n \in 1 .. MaxShards
BY ShardAssumption DEF Shard, Slot, Global, ShardsOf

(* Every keyword is at home in one slot of its layout. *)
LEMMA Homes ==
  ASSUME NEW k \in Keyword, NEW n \in 1 .. MaxShards
  PROVE  /\ n = 1 => Home(k, n) = Global
         /\ n # 1 => Home(k, n) \in ShardsOf(n) /\ Home(k, n) # Global /\ Home(k, n) = Bucket[k] % n
<1>1. Bucket[k] \in Nat /\ n \in Nat /\ n <= MaxShards /\ MaxShards \in Nat
  BY ShardAssumption
<1>2. n # 1 => Bucket[k] % n \in 0 .. n - 1
  BY <1>1
<1> QED BY <1>1, <1>2 DEF Home, ShardsOf, Global

(* A set of numbers has a least one. *)
LEMMA MinIn ==
  ASSUME NEW S, S \subseteq Nat, S # {}
  PROVE  Min(S) \in S
<1> DEFINE R == {ss \in Nat \X Nat : ss[1] < ss[2]}
<1>1. IsWellFoundedOn(R, Nat)
  BY NatLessThanWellFounded DEF OpToRel
<1>2. \E x \in S : \A y \in S : ~ (<<y, x>> \in R)
  <2> HIDE DEF R
  <2> QED BY <1>1, WFMin
<1>3. PICK x \in S : \A y \in S : ~ (<<y, x>> \in R)
  BY <1>2
<1>4. ASSUME NEW y \in S
      PROVE  x <= y
  <2>1. x \in Nat /\ y \in Nat
    OBVIOUS
  <2>2. y < x => <<y, x>> \in R
    BY <2>1
  <2> QED BY <1>3, <2>1, <2>2
<1> QED BY <1>4 DEF Min

(* A sweep that has shards left is at one of them. *)
LEMMA FrontIn ==
  ASSUME TypeOK, NEW t \in Token, sweep[t] # {}
  PROVE  Front(t) \in sweep[t] /\ Front(t) \in Shard
<1>1. sweep[t] \subseteq Shard /\ sweep[t] \subseteq Nat
  BY ShardAssumption DEF TypeOK, Shard
<1> QED BY <1>1, MinIn DEF Front

-----------------------------------------------------------------------------
(* What a coherent manifest names is what its writer meant. *)
LEMMA NamedWords ==
  ASSUME TypeOK, NEW v \in Op, Coherent(v)
  PROVE  Named(v) = draft[v].words
<1> DEFINE d == draft[v]
<1>1. d.n \in 1 .. MaxShards /\ d.words \subseteq Keyword
  BY DEF TypeOK, Draft
<1>2. CASE d.n = 1
  BY <1>2 DEF Named
<1>3. CASE d.n # 1
  <2>1. Named(v) = UNION {Part(d, s) : s \in ShardsOf(d.n)}
    BY <1>3 DEF Named, Coherent
  <2>2. \A k \in d.words : Home(k, d.n) \in ShardsOf(d.n)
    BY <1>1, <1>3, Homes
  <2> QED BY <2>1, <2>2 DEF Part
<1> QED BY <1>2, <1>3

(* Its entries are as many as it records. *)
LEMMA EntriesCount ==
  ASSUME TypeOK, NEW v \in Op, Coherent(v), draft[v].n # 1
  PROVE  Cardinality(Entries(v)) = draft[v].count
<1> DEFINE d == draft[v]
           W == d.words
           E == Entries(v)
           f == [k \in W |-> <<Home(k, d.n), k>>]
<1>1. d.n \in 1 .. MaxShards /\ W \subseteq Keyword
  BY DEF TypeOK, Draft
<1>2. E = UNION {{s} \X Part(d, s) : s \in ShardsOf(d.n)}
  BY DEF Entries, Coherent
<1>3. \A k \in W : Home(k, d.n) \in ShardsOf(d.n)
  BY <1>1, Homes
<1>4. \A k \in W : <<Home(k, d.n), k>> \in E
  <2>1. TAKE k \in W
  <2>2. k \in Part(d, Home(k, d.n))
    BY DEF Part
  <2> QED BY <1>2, <1>3, <2>2
<1>5. \A e \in E : \E k \in W : e = <<Home(k, d.n), k>>
  <2>1. TAKE e \in E
  <2>2. PICK s \in ShardsOf(d.n) : e \in {s} \X Part(d, s)
    BY <1>2
  <2>3. e = <<s, e[2]>> /\ e[2] \in Part(d, s)
    BY <2>2
  <2> QED BY <2>3 DEF Part
<1>6. f \in Bijection(W, E)
  <2> HIDE DEF W, E
  <2>1. f \in [W -> E]
    BY <1>4
  <2>2. IsInjective(f)
    BY DEF IsInjective
  <2>3. \A e \in E : \E k \in W : f[k] = e
    BY <1>5
  <2> QED BY <2>1, <2>2, <2>3 DEF Bijection, Injection, Surjection
<1>7. ExistsBijection(W, E)
  BY <1>6 DEF ExistsBijection
<1>8. IsFiniteSet(W) /\ d.count = Cardinality(W)
  BY DEF Coherent
<1> HIDE DEF W, E
<1>9. Cardinality(E) = Cardinality(W)
  BY <1>7, <1>8, FS_Bijection
<1> QED BY <1>8, <1>9 DEF E

(* So loadManifest accepts it while its shard manifests are there. *)
LEMMA LoadsWhole ==
  ASSUME TypeOK, NEW v \in gens, Coherent(v), Complete(v)
  PROVE  Loads(v)
<1> DEFINE d == draft[v]
<1>1. v \in Op /\ d.n \in 1 .. MaxShards /\ d.words \subseteq Keyword
  BY DEF TypeOK, Draft
<1>2. ASSUME NEW s \in ShardsOf(d.n)
      PROVE  d.shards[s] \in manifests[s] /\ \A k \in Listed(d.shards[s], s) : Bucket[k] % d.n = s
  <2>1. Listed(d.shards[s], s) = Part(d, s) /\ d.n # 1
    BY <1>2 DEF Coherent, ShardsOf
  <2>2. \A k \in Part(d, s) : k \in Keyword /\ Home(k, d.n) = s
    BY <1>1 DEF Part
  <2> QED BY <1>1, <1>2, <2>1, <2>2, Homes DEF Complete
<1>3. d.n > 1 => Cardinality(Entries(v)) = d.count
  BY <1>1, EntriesCount
<1> QED BY <1>2, <1>3 DEF Loads

-----------------------------------------------------------------------------
(* What Change and Reshard prepare for a generation that follows old: the  *)
(* manifests of the shards in sh are written anew, the others are those of *)
(* old; what is not staged is already in its place.                        *)
Follows(o, old, next, stages, sh) ==
  /\ next \in Draft /\ IsFiniteSet(next.words) /\ next.count = Cardinality(next.words)
  /\ stages \subseteq Keyword /\ sh \subseteq ShardsOf(next.n)
  /\ \A s \in sh : next.shards[s] = o
  /\ \A s \in ShardsOf(next.n) \ sh :
       next.n = old.n /\ next.shards[s] = old.shards[s] /\ Part(next, s) = Part(old, s)
  /\ \A p \in Slot : Part(next, p) \ stages \subseteq Part(old, p)
  /\ \A s \in Shard \ sh : Part(next, s) \subseteq Part(old, s)

(* The size of a set after a change. *)
LEMMA CountAfter ==
  ASSUME NEW A, NEW B, IsFiniteSet(A), IsFiniteSet(B)
  PROVE  Cardinality(B) = (Cardinality(A) + Cardinality(B \ A)) - Cardinality(A \ B)
<1> DEFINE a == Cardinality(A)
           b == Cardinality(B)
           c == Cardinality(A \cap B)
<1>1. Cardinality(A \ B) = a - c
  BY FS_Difference
<1>2. Cardinality(B \ A) = b - c
  <2>1. A \cap B = B \cap A
    OBVIOUS
  <2> QED BY <2>1, FS_Difference
<1>3. a \in Nat /\ b \in Nat /\ c \in Nat
  BY FS_CardinalityType, FS_Intersection
<1> HIDE DEF a, b, c
<1>4. b = (a + (b - c)) - (a - c)
  BY <1>3
<1> QED BY <1>1, <1>2, <1>4 DEF a, b, c

(* change. *)
LEMMA ChangeFollows ==
  ASSUME TypeOK, NEW o \in Op, NEW req \in Requests, Change(o, req),
         expected[o] \in Op, Coherent(expected[o])
  PROVE  \E next, stages, sh, changed :
           Prepared(o, next, stages, sh, changed) /\ Follows(o, draft[expected[o]], next, stages, sh)
<1> DEFINE old == draft[expected[o]]
           before == Named(expected[o])
           after == [add |-> before \cup req.words, remove |-> before \ req.words,
                     replace |-> req.words][req.mode]
           touched == (after \ before) \cup (before \ after)
           sh == {Home(k, old.n) : k \in touched} \ {Global}
           next == [n |-> old.n, words |-> after,
                    shards |-> [s \in Shard |-> IF s \in sh THEN o ELSE old.shards[s]],
                    count |-> (old.count + Cardinality(after \ before)) - Cardinality(before \ after)]
<1>1. Prepared(o, next, after \ before, sh, touched # {})
  BY DEF Change
<1>2. /\ old.n \in 1 .. MaxShards /\ old.words \subseteq Keyword /\ old.shards \in [Shard -> 0 .. MaxOps]
      /\ IsFiniteSet(old.words) /\ old.count = Cardinality(old.words) /\ before = old.words
  BY NamedWords DEF TypeOK, Draft, Coherent
<1>3. IsFiniteSet(after) /\ after \subseteq Keyword
  <2>1. req.mode \in {"add", "remove", "replace"} /\ req.words \subseteq Keyword /\ IsFiniteSet(req.words)
    BY ShardAssumption
  <2>2. IsFiniteSet(before \cup req.words) /\ IsFiniteSet(before \ req.words)
    BY <1>2, <2>1, FS_Union, FS_Difference
  <2>3. after \in {before \cup req.words, before \ req.words, req.words}
    BY <2>1
  <2> QED BY <1>2, <2>1, <2>2, <2>3
<1> HIDE DEF before, after
<1>4. next.count = Cardinality(after)
  BY <1>2, <1>3, CountAfter
<1>5. sh \subseteq ShardsOf(old.n)
  <2>1. touched \subseteq Keyword
    BY <1>2, <1>3
  <2> HIDE DEF touched
  <2> QED BY <1>2, <2>1, Homes
<1>6. next \in Draft
  <2>1. Cardinality(after) \in Nat
    BY <1>3, FS_CardinalityType
  <2>2. o \in 0 .. MaxOps
    BY ShardAssumption DEF Op
  <2>3. [s \in Shard |-> IF s \in sh THEN o ELSE old.shards[s]] \in [Shard -> 0 .. MaxOps]
    BY <1>2, <2>2
  <2>4. next.count \in Nat
    BY <1>4, <2>1
  <2> QED BY <1>2, <1>3, <2>3, <2>4 DEF Draft
<1>7. ASSUME NEW s \in Shard \ sh
      PROVE  Part(next, s) = Part(old, s)
  <2>1. \A k \in touched : Home(k, old.n) # s
    BY <1>7, Slots
  <2> QED BY <1>2, <2>1 DEF Part
<1>8. \A p \in Slot : Part(next, p) \ (after \ before) \subseteq Part(old, p)
  BY <1>2 DEF Part
<1>9. ShardsOf(old.n) \subseteq Shard
  BY <1>2, Slots
<1>10. \A s \in Shard : next.shards[s] = IF s \in sh THEN o ELSE old.shards[s]
  OBVIOUS
<1>11. next.n = old.n /\ next.words = after /\ after \ before \subseteq Keyword
  BY <1>3
<1> HIDE DEF next, sh
<1>12. Follows(o, old, next, after \ before, sh)
  BY <1>3, <1>4, <1>5, <1>6, <1>7, <1>8, <1>9, <1>10, <1>11 DEF Follows
<1> QED BY <1>1, <1>12

(* Reshard. *)
LEMMA ReshardFollows ==
  ASSUME TypeOK, NEW o \in Op, NEW n \in Counts, Reshard(o, n),
         expected[o] \in Op, Coherent(expected[o])
  PROVE  \E next, stages, sh, changed :
           Prepared(o, next, stages, sh, changed) /\ Follows(o, draft[expected[o]], next, stages, sh)
<1> DEFINE old == draft[expected[o]]
           words == Named(expected[o])
           next == [n |-> n, words |-> words, count |-> old.count,
                    shards |-> [s \in Shard |-> IF s \in ShardsOf(n) THEN o ELSE 0]]
<1>1. Prepared(o, next, words, ShardsOf(n), n # old.n)
  BY DEF Reshard
<1>2. /\ old.words \subseteq Keyword /\ words = old.words
      /\ IsFiniteSet(old.words) /\ old.count = Cardinality(old.words) /\ n \in 1 .. MaxShards
  BY NamedWords, Slots DEF TypeOK, Draft, Coherent
<1> HIDE DEF words
<1>3. next \in Draft
  <2>1. Cardinality(words) \in Nat
    BY <1>2, FS_CardinalityType
  <2>2. o \in 0 .. MaxOps /\ 0 \in 0 .. MaxOps
    BY ShardAssumption DEF Op
  <2> QED BY <1>2, <2>1, <2>2 DEF Draft
<1>4. ASSUME NEW s \in Shard \ ShardsOf(n)
      PROVE  Part(next, s) = {}
  <2>1. \A k \in words : Home(k, n) # s
    BY <1>2, <1>4, Homes, Slots
  <2> QED BY <2>1 DEF Part
<1>5. \A p \in Slot : Part(next, p) \ words = {}
  BY DEF Part
<1>6. \A s \in ShardsOf(n) : next.shards[s] = o
  BY <1>2, Slots
<1>7. next.n = n /\ next.words = words /\ next.count = old.count
  OBVIOUS
<1> HIDE DEF next
<1>8. Follows(o, old, next, words, ShardsOf(n))
  BY <1>2, <1>3, <1>4, <1>5, <1>6, <1>7 DEF Follows
<1> QED BY <1>1, <1>8

-----------------------------------------------------------------------------
(* Types. *)
LEMMA DraftType ==
  ASSUME NEW n \in 1 .. MaxShards, NEW i \in 0 .. MaxOps
  PROVE  EmptyDraft(n, i) \in Draft
<1>1. 0 \in 0 .. MaxOps /\ 0 \in Nat
  BY ShardAssumption
<1>2. [s \in Shard |-> IF s \in ShardsOf(n) THEN i ELSE 0] \in [Shard -> 0 .. MaxOps]
  BY <1>1
<1> QED BY <1>1, <1>2 DEF EmptyDraft, Draft

(* The draft of a call that has none. *)
LEMMA NoDraftType == NoDraft \in Draft
BY DraftType, ShardAssumption DEF NoDraft

(* What a writing call that loads its version prepares. *)
LEMMA Plans ==
  ASSUME TypeOK, WholeInv, NEW o \in Op,
         (\E req \in Requests : Change(o, req)) \/ (\E n \in Counts : Reshard(o, n))
  PROVE  /\ phase[o] = "plan" /\ expected[o] \in gens
         /\ \E next, stages, sh, changed :
              Prepared(o, next, stages, sh, changed) /\ Follows(o, draft[expected[o]], next, stages, sh)
<1>1. phase[o] = "plan" /\ Loads(expected[o])
  BY DEF Change, Reshard
<1>2. expected[o] \in gens /\ expected[o] \in Op /\ Coherent(expected[o])
  BY <1>1 DEF Loads, TypeOK, WholeInv
<1> QED BY <1>1, <1>2, ChangeFollows, ReshardFollows

(* The first state has its types. *)
LEMMA TypeInit ==
  ASSUME Init
  PROVE  TypeOK
<1>1. 0 \in 0 .. MaxOps
  BY ShardAssumption
<1> QED BY <1>1, NoDraftType DEF Init, TypeOK, OpPhase, Step, PrunePhase

(* The steps of a call keep them. *)
LEMMA TypeOp ==
  ASSUME TypeOK, WholeInv, NEW o \in Op, OpNext(o)
  PROVE  TypeOK'
<1>0. MaxOps \in Nat /\ o \in 0 .. MaxOps /\ 0 \in 0 .. MaxOps
  BY ShardAssumption DEF Op
<1>1. ASSUME NEW n \in Counts, InitialManifest(o, n)
      PROVE  TypeOK'
  <2>1. EmptyDraft(n, o) \in Draft
    BY <1>0, DraftType, Slots
  <2> QED BY <1>1, <2>1 DEF InitialManifest, TypeOK, OpPhase, Step
<1>2. ASSUME SeedShard(o)
      PROVE  TypeOK'
  BY <1>2 DEF SeedShard, TypeOK, OpPhase, Step
<1>3. ASSUME Create(o)
      PROVE  TypeOK'
  <2>1. draft[o].n \in Nat
    BY ShardAssumption DEF TypeOK, Draft
  <2> QED BY <1>0, <1>3, <2>1 DEF Create, TypeOK, OpPhase
<1>4. ASSUME Acquire(o)
      PROVE  TypeOK'
  BY <1>4, Slots DEF Acquire, TypeOK, OpPhase
<1>5. ASSUME (\E req \in Requests : Change(o, req)) \/ (\E n \in Counts : Reshard(o, n))
      PROVE  TypeOK'
  <2>1. PICK next, stages, sh, changed :
          Prepared(o, next, stages, sh, changed) /\ Follows(o, draft[expected[o]], next, stages, sh)
    BY <1>5, Plans
  <2>2. next \in Draft /\ stages \subseteq Keyword /\ draft[expected[o]] \in Draft
    <3>1. expected[o] \in Op
      BY <1>5, Plans DEF TypeOK
    <3> QED BY <2>1, <3>1 DEF Follows, TypeOK
  <2> QED BY <2>1, <2>2 DEF Prepared, TypeOK, OpPhase, Step
<1>6. ASSUME NEW s \in Shard, ReadDeadline(o, s)
      PROVE  TypeOK'
  <2>1. fence[Global] \in Nat
    BY Slots DEF TypeOK
  <2> QED BY <1>6, <2>1 DEF ReadDeadline, TypeOK
<1>7. ASSUME NEW s \in Shard, StageManifest(o, s)
      PROVE  TypeOK'
  BY <1>7, Slots DEF StageManifest, TypeOK, Step
<1>8. ASSUME NEW p \in Slot, StageChunks(o, p)
      PROVE  TypeOK'
  BY <1>8 DEF StageChunks, Stages, TypeOK, Step
<1>9. ASSUME NEW slots \in SUBSET Slot, LeaseExpires(o, slots)
      PROVE  TypeOK'
  BY <1>9 DEF LeaseExpires, TypeOK
<1>10. ASSUME StageGeneration(o)
       PROVE  TypeOK'
  BY <1>10 DEF StageGeneration, TypeOK, OpPhase
<1>11. ASSUME CheckGeneration(o)
       PROVE  TypeOK'
  BY <1>11 DEF CheckGeneration, TypeOK, OpPhase
<1>12. ASSUME Commit(o)
       PROVE  TypeOK'
  <2>1. draft[o].n \in Nat
    BY ShardAssumption DEF TypeOK, Draft
  <2> QED BY <1>0, <1>12, <2>1, NoDraftType DEF Commit, Leaves, TypeOK, OpPhase, Step
<1>13. ASSUME Fails(o)
       PROVE  TypeOK'
  BY <1>0, <1>13, NoDraftType DEF Fails, Leaves, TypeOK, OpPhase, Step
<1>14. ASSUME CloseLease(o)
       PROVE  TypeOK'
  BY <1>14 DEF CloseLease, TypeOK, OpPhase
<1>15. ASSUME CloseMirrors(o)
       PROVE  TypeOK'
  BY <1>15 DEF CloseMirrors, TypeOK, OpPhase
<1> QED
  BY <1>1, <1>2, <1>3, <1>4, <1>5, <1>6, <1>7, <1>8, <1>9, <1>10, <1>11, <1>12, <1>13, <1>14, <1>15 DEF OpNext

(* So do those of a sweep. *)
LEMMA TypePrune ==
  ASSUME TypeOK, SweepInv, NEW t \in Token, PruneNext(t)
  PROVE  TypeOK'
<1>0. t \in Nat
  BY ShardAssumption DEF Token
<1>1. ASSUME PruneAcquire(t)
      PROVE  TypeOK'
  BY <1>0, <1>1 DEF PruneAcquire, TypeOK, PrunePhase
<1>2. ASSUME NEW recent \in SUBSET gens, PruneKeep(t, recent)
      PROVE  TypeOK'
  <2> DEFINE K == ({active} \cup recent \cup {leases[r] : r \in Reader}) \ {0}
  <2>1. K \subseteq Op
    <3>1. \A i \in 0 .. MaxOps : i # 0 => i \in Op
      BY ShardAssumption DEF Op
    <3>2. active \in 0 .. MaxOps /\ recent \subseteq Op /\ \A r \in Reader : leases[r] \in 0 .. MaxOps
      BY DEF TypeOK
    <3> QED BY <3>1, <3>2
  <2>2. keep' = [keep EXCEPT ![t] = K] /\ deadGens' = [deadGens EXCEPT ![t] = gens \ keep'[t]]
    BY <1>2 DEF PruneKeep
  <2> HIDE DEF K
  <2> QED BY <1>2, <2>1, <2>2 DEF PruneKeep, TypeOK, PrunePhase
<1>3. ASSUME PruneReferences(t)
      PROVE  TypeOK'
  <2>1. chunks[Global] \ ChunkRefs(keep[t], Global) \subseteq Keyword
    BY Slots DEF TypeOK
  <2> QED BY <1>3, <2>1 DEF PruneReferences, TypeOK, PrunePhase
<1>4. ASSUME PruneGlobalChunks(t)
      PROVE  TypeOK'
  BY <1>4, Slots DEF PruneGlobalChunks, TypeOK, PrunePhase
<1>5. ASSUME PruneGenerations(t)
      PROVE  TypeOK'
  BY <1>5 DEF PruneGenerations, TypeOK, PrunePhase
<1>6. ASSUME PruneDiscover(t)
      PROVE  TypeOK'
  BY <1>6 DEF PruneDiscover, TypeOK, PrunePhase
<1>7. ASSUME PruneGrant(t)
      PROVE  TypeOK'
  BY <1>0, <1>7 DEF PruneGrant, TypeOK, PrunePhase
<1>8. ASSUME PruneRenew(t)
      PROVE  TypeOK'
  <2>1. goal[t] \in PrunePhase
    BY <1>8 DEF PruneRenew, SweepInv, Sweeps, TypeOK, PrunePhase
  <2> QED BY <1>8, <2>1 DEF PruneRenew, TypeOK
<1>9. ASSUME NEW dead \in SUBSET Keyword, NEW deadM \in SUBSET Op, Proceed(t, dead, deadM),
             chunks' \in [Slot -> SUBSET Keyword], manifests' \in [Slot -> SUBSET Op]
      PROVE  TypeOK'
  BY <1>9 DEF Proceed, TypeOK, PrunePhase
<1>10. ASSUME PruneList(t)
       PROVE  TypeOK'
  <2>1. Front(t) \in Slot
    BY <1>10, FrontIn, Slots DEF PruneList, SweepInv, Sweeps
  <2>2. /\ chunks[Front(t)] \ ChunkRefs(keep[t], Front(t)) \in SUBSET Keyword
        /\ manifests[Front(t)] \ ManifestRefs(keep[t], Front(t)) \in SUBSET Op
    BY <2>1 DEF TypeOK
  <2>3. chunks' \in [Slot -> SUBSET Keyword] /\ manifests' \in [Slot -> SUBSET Op]
    BY <1>10 DEF PruneList, TypeOK
  <2>4. Proceed(t, chunks[Front(t)] \ ChunkRefs(keep[t], Front(t)),
                   manifests[Front(t)] \ ManifestRefs(keep[t], Front(t)))
    BY <1>10 DEF PruneList
  <2> QED BY <1>9, <2>2, <2>3, <2>4
<1>11. ASSUME PruneChunks(t)
       PROVE  TypeOK'
  <2>1. chunks' \in [Slot -> SUBSET Keyword] /\ manifests' \in [Slot -> SUBSET Op] /\ deadManifests[t] \in SUBSET Op
    BY <1>11 DEF PruneChunks, TypeOK
  <2>2. Proceed(t, {}, deadManifests[t])
    BY <1>11 DEF PruneChunks
  <2> QED BY <1>9, <2>1, <2>2
<1>12. ASSUME PruneManifests(t)
       PROVE  TypeOK'
  <2>1. chunks' \in [Slot -> SUBSET Keyword] /\ manifests' \in [Slot -> SUBSET Op]
    BY <1>12 DEF PruneManifests, TypeOK
  <2>2. Proceed(t, {}, {})
    BY <1>12 DEF PruneManifests
  <2> QED BY <1>9, <2>1, <2>2
<1>13. ASSUME PruneSwept(t) \/ PruneFails(t)
       PROVE  TypeOK'
  BY <1>13 DEF PruneSwept, PruneFails, PruneReturns, TypeOK, PrunePhase
<1>14. ASSUME NEW slots \in SUBSET Slot, TokenEnds(t, slots)
       PROVE  TypeOK'
  BY <1>14 DEF TokenEnds, TypeOK
<1> QED
  BY <1>1, <1>2, <1>3, <1>4, <1>5, <1>6, <1>7, <1>8, <1>10, <1>11, <1>12, <1>13, <1>14 DEF PruneNext

(* And every other step. *)
LEMMA TypeStep ==
  ASSUME TypeOK, WholeInv, SweepInv, [Next]_vars
  PROVE  TypeOK'
<1>1. ASSUME NEW m \in mail, Mirror(m)
      PROVE  TypeOK'
  <2>1. m.op \in Op /\ m.shard \in Slot /\ m.fence \in Nat
    BY Slots DEF TypeOK
  <2> QED BY <1>1, <2>1 DEF Mirror, TypeOK, Step
<1>2. ASSUME NEW r \in Reader, OpenSnapshot(r) \/ SnapshotEnds(r)
      PROVE  TypeOK'
  <2>1. 0 \in 0 .. MaxOps
    BY ShardAssumption
  <2> QED BY <1>2, <2>1 DEF OpenSnapshot, SnapshotEnds, TypeOK
<1>3. CASE UNCHANGED vars
  BY <1>3 DEF vars, TypeOK
<1> QED BY <1>1, <1>2, <1>3, TypeOp, TypePrune DEF Next

-----------------------------------------------------------------------------
(* Leases, tokens and fences. *)
LEMMA FenceOp ==
  ASSUME TypeOK, FenceInv, NEW o \in Op, OpNext(o)
  PROVE  FenceInv'
<1>1. ASSUME NEW n \in Counts, InitialManifest(o, n)
      PROVE  FenceInv'
  BY <1>1 DEF InitialManifest, Begins, TypeOK, FenceInv
<1>2. ASSUME SeedShard(o)
      PROVE  FenceInv'
  BY <1>2 DEF SeedShard, TypeOK, FenceInv
<1>3. ASSUME Create(o)
      PROVE  FenceInv'
  BY <1>3 DEF Create, TypeOK, Draft, FenceInv
<1>4. ASSUME Acquire(o)
      PROVE  FenceInv'
  BY <1>4, Slots DEF Acquire, Begins, TypeOK, FenceInv
<1>5. ASSUME NEW next, NEW stages, NEW sh, NEW changed, phase[o] = "plan", Prepared(o, next, stages, sh, changed)
      PROVE  FenceInv'
  BY <1>5 DEF Prepared, TypeOK, FenceInv
<1>6. ASSUME NEW s \in Shard, ReadDeadline(o, s)
      PROVE  FenceInv'
  BY <1>6, Slots DEF ReadDeadline, TypeOK, FenceInv
<1>7. ASSUME NEW s \in Shard, StageManifest(o, s)
      PROVE  FenceInv'
  BY <1>7 DEF StageManifest, TypeOK, FenceInv
<1>8. ASSUME NEW p \in Slot, StageChunks(o, p)
      PROVE  FenceInv'
  BY <1>8 DEF StageChunks, TypeOK, FenceInv
<1>9. ASSUME NEW slots \in SUBSET Slot, LeaseExpires(o, slots)
      PROVE  FenceInv'
  BY <1>9, Slots DEF LeaseExpires, TypeOK, FenceInv
<1>10. ASSUME StageGeneration(o) \/ CheckGeneration(o)
       PROVE  FenceInv'
  BY <1>10 DEF StageGeneration, CheckGeneration, TypeOK, FenceInv
<1>12. ASSUME Commit(o)
       PROVE  FenceInv'
  BY <1>12 DEF Commit, Leaves, TypeOK, Draft, FenceInv
<1>13. ASSUME Fails(o)
       PROVE  FenceInv'
  BY <1>13 DEF Fails, Leaves, TypeOK, FenceInv
<1>14. ASSUME CloseLease(o)
       PROVE  FenceInv'
  BY <1>14, Slots DEF CloseLease, TypeOK, FenceInv
<1>15. ASSUME CloseMirrors(o)
       PROVE  FenceInv'
  BY <1>15, Slots DEF CloseMirrors, TypeOK, FenceInv
<1> QED
  BY <1>1, <1>2, <1>3, <1>4, <1>5, <1>6, <1>7, <1>8, <1>9, <1>10, <1>12, <1>13, <1>14, <1>15
  DEF OpNext, Change, Reshard

(* A sweep keeps the order of leases, tokens and fences. *)
LEMMA FencePrune ==
  ASSUME TypeOK, SweepInv, FenceInv, NEW t \in Token, PruneNext(t)
  PROVE  FenceInv'
<1>0. t \in Nat /\ t # 0 /\ ShardAssumption
  BY ShardAssumption DEF Token
<1>1. ASSUME PruneAcquire(t)
      PROVE  FenceInv'
  BY <1>0, <1>1, Slots DEF PruneAcquire, TypeOK, FenceInv
<1>2. ASSUME PruneGrant(t)
      PROVE  FenceInv'
  <2>1. Front(t) \in Shard
    BY <1>2, FrontIn DEF PruneGrant
  <2> QED BY <1>0, <1>2, <2>1, Slots DEF PruneGrant, TypeOK, FenceInv
<1>3. ASSUME NEW slots \in SUBSET Slot, TokenEnds(t, slots)
      PROVE  FenceInv'
  BY <1>3, Slots DEF TokenEnds, TypeOK, FenceInv
<1>4. ASSUME UNCHANGED <<meta, writers, phase, mail, born, tokenVars>>, pphase[t] # "idle",
             NEW new, pphase' = [pphase EXCEPT ![t] = new]
      PROVE  FenceInv'
  BY <1>4 DEF TypeOK, FenceInv
<1>5. ASSUME PruneNext(t), ~ PruneAcquire(t), ~ PruneGrant(t), ~ \E slots \in SUBSET Slot : TokenEnds(t, slots)
      PROVE  /\ UNCHANGED <<meta, writers, phase, mail, born, tokenVars>> /\ pphase[t] # "idle"
             /\ \E new : pphase' = [pphase EXCEPT ![t] = new]
  BY <1>5, Zenon DEF PruneNext, PruneKeep, PruneReferences, PruneGlobalChunks, PruneGenerations, PruneDiscover,
     PruneRenew, PruneList, PruneChunks, PruneManifests, PruneSwept, PruneFails, PruneReturns, Proceed
<1> QED BY <1>1, <1>2, <1>3, <1>4, <1>5

(* Every step keeps it. *)
LEMMA FenceStep ==
  ASSUME TypeOK, SweepInv, FenceInv, [Next]_vars
  PROVE  FenceInv'
<1>1. ASSUME NEW m \in mail, Mirror(m)
      PROVE  FenceInv'
  <2>1. m.op \in Op /\ m.shard \in Shard /\ m.fence \in Nat
    BY DEF TypeOK
  <2> QED BY <1>1, <2>1, Slots DEF Mirror, MirrorAccepted, TypeOK, FenceInv
<1>2. ASSUME NEW r \in Reader, OpenSnapshot(r) \/ SnapshotEnds(r)
      PROVE  FenceInv'
  BY <1>2 DEF OpenSnapshot, SnapshotEnds, FenceInv
<1>3. CASE UNCHANGED vars
  BY <1>3 DEF vars, FenceInv
<1> QED BY <1>1, <1>2, <1>3, FenceOp, FencePrune DEF Next

(* A mirror script that was read before a sweep is refused after it. *)
LEMMA LateStep ==
  ASSUME TypeOK, SweepInv, FenceInv, LateMirrorRefused, [Next]_vars
  PROVE  LateMirrorRefused'
<1>1. ASSUME NEW m \in mail, Mirror(m)
      PROVE  LateMirrorRefused'
  <2>1. m.op \in Op /\ m.shard \in Shard /\ m.fence \in Nat /\ m.fence = born[m.op]
    BY DEF TypeOK, FenceInv
  <2>2. swept[m.shard] <= born[m.op]
    BY <1>1, <2>1, Slots DEF Mirror, MirrorAccepted, FenceInv, TypeOK
  <2> QED BY <1>1, <2>1, <2>2, Slots DEF Mirror, TypeOK, LateMirrorRefused
<1>2. ASSUME NEW t \in Token, PruneGrant(t)
      PROVE  LateMirrorRefused'
  BY <1>2, Slots DEF PruneGrant, TypeOK, LateMirrorRefused
<1>3. ASSUME UNCHANGED swept, \A s \in Shard : writers'[s] \subseteq writers[s],
             \A i \in Op : phase[i] = "idle" \/ born'[i] = born[i]
      PROVE  LateMirrorRefused'
  BY <1>3, Slots DEF FenceInv, TypeOK, LateMirrorRefused
<1>4. ASSUME NEW o \in Op, OpNext(o), writers' # writers \/ born' # born
      PROVE  LateMirrorRefused'
  <2>1. CASE Acquire(o)
    BY <1>3, <2>1, Slots DEF Acquire, Begins, TypeOK
  <2>2. CASE \E slots \in SUBSET Slot : LeaseExpires(o, slots)
    BY <1>3, <2>2, Slots DEF LeaseExpires, TypeOK
  <2>3. CASE CloseLease(o)
    BY <1>3, <2>3, Slots DEF CloseLease, TypeOK
  <2>4. CASE CloseMirrors(o)
    BY <1>3, <2>4, Slots DEF CloseMirrors, TypeOK
  <2> QED
    BY <1>4, <2>1, <2>2, <2>3, <2>4, Zenon DEF OpNext, InitialManifest, SeedShard, Create, Change, Reshard, Prepared,
       ReadDeadline, StageManifest, StageChunks, StageGeneration, CheckGeneration, Commit, Fails
<1>5. ASSUME NEW o \in Op, OpNext(o)
      PROVE  UNCHANGED swept
  BY <1>5, Zenon DEF OpNext, InitialManifest, SeedShard, Create, Change, Reshard, Prepared, Acquire, LeaseExpires,
     ReadDeadline, StageManifest, StageChunks, StageGeneration, CheckGeneration, Commit, Fails, CloseLease,
     CloseMirrors
<1>6. ASSUME NEW t \in Token, PruneNext(t), ~ PruneGrant(t)
      PROVE  UNCHANGED <<swept, writers, born>>
  BY <1>6, Zenon DEF PruneNext, PruneAcquire, PruneKeep, PruneReferences, PruneGlobalChunks, PruneGenerations,
     PruneDiscover, PruneRenew, PruneList, PruneChunks, PruneManifests, PruneSwept, PruneFails, Proceed, TokenEnds
<1>7. ASSUME NEW r \in Reader, OpenSnapshot(r) \/ SnapshotEnds(r)
      PROVE  UNCHANGED <<swept, writers, born>>
  BY <1>7 DEF OpenSnapshot, SnapshotEnds
<1>8. CASE UNCHANGED <<swept, writers, born>>
  BY <1>3, <1>8
<1>9. CASE UNCHANGED vars
  BY <1>8, <1>9 DEF vars
<1> QED BY <1>1, <1>2, <1>4, <1>5, <1>6, <1>7, <1>8, <1>9 DEF Next

-----------------------------------------------------------------------------
(* What no step changes: the manifest of a version that has a record, or   *)
(* whose call has left.                                                    *)
LEMMA Frozen ==
  ASSUME TypeOK, WholeInv, [Next]_vars
  PROVE  \A i \in Op : /\ Sealed(i) => Sealed(i)'
                       /\ i \in gens => phase'[i] \in {"check", "commit", "close", "unmirror", "done"}
                       /\ i \in gens \/ Sealed(i) => draft'[i] = draft[i]
<1> DEFINE Q == {"check", "commit", "close", "unmirror", "done"}
           P == \A i \in Op : /\ Sealed(i) => Sealed(i)'
                              /\ i \in gens => phase'[i] \in Q
                              /\ i \in gens \/ Sealed(i) => draft'[i] = draft[i]
<1>0. \A v \in gens : phase[v] \in Q
  BY DEF WholeInv
<1>1. CASE UNCHANGED <<phase, draft>>
  BY <1>0, <1>1 DEF Sealed
<1>2. ASSUME NEW o \in Op, NEW new, UNCHANGED draft, phase' = [phase EXCEPT ![o] = new],
             Sealed(o) => new \in {"close", "unmirror", "done"}, phase[o] \in Q => new \in Q
      PROVE  P
  BY <1>0, <1>2 DEF TypeOK, Sealed
<1>3. ASSUME NEW o \in Op, NEW new, NEW d, draft' = [draft EXCEPT ![o] = d], phase' = [phase EXCEPT ![o] = new],
             phase[o] \notin Q \/ (~ Sealed(o) /\ new \in Q /\ (o \in gens => d = draft[o]))
      PROVE  P
  BY <1>0, <1>3 DEF TypeOK, Sealed
<1>4. ASSUME NEW o \in Op, OpNext(o)
      PROVE  P
  <2>1. CASE \E n \in Counts : InitialManifest(o, n)
    <3>1. phase[o] \notin Q
      BY <2>1 DEF InitialManifest, Begins
    <3> QED BY <1>3, <2>1, <3>1 DEF InitialManifest
  <2>2. CASE SeedShard(o) \/ Create(o) \/ Acquire(o) \/ StageGeneration(o) \/ CheckGeneration(o)
    BY <1>2, <2>2 DEF SeedShard, Create, Acquire, Begins, StageGeneration, CheckGeneration, Sealed
  <2>3. CASE (\E req \in Requests : Change(o, req)) \/ (\E n \in Counts : Reshard(o, n))
    <3>1. phase[o] \notin Q
      BY <2>3 DEF Change, Reshard
    <3>2. \E d, new : draft' = [draft EXCEPT ![o] = d] /\ phase' = [phase EXCEPT ![o] = new]
      BY <2>3, Zenon DEF Change, Reshard, Prepared
    <3> QED BY <1>3, <3>1, <3>2
  <2>4. CASE \/ \E s \in Shard : ReadDeadline(o, s) \/ StageManifest(o, s)
             \/ \E p \in Slot : StageChunks(o, p)
             \/ \E slots \in SUBSET Slot \ {{}} : LeaseExpires(o, slots)
    BY <1>1, <2>4 DEF ReadDeadline, StageManifest, StageChunks, LeaseExpires
  <2>5. CASE Commit(o) \/ Fails(o)
    <3>1. ~ Sealed(o)
      BY <2>5 DEF Commit, Fails, Sealed
    <3>2. PICK new \in Q : Leaves(o, new)
      BY <2>5 DEF Commit, Fails
    <3>3. draft' = [draft EXCEPT ![o] = IF o \in gens THEN draft[o] ELSE NoDraft]
          /\ phase' = [phase EXCEPT ![o] = new]
      BY <3>2 DEF Leaves
    <3> QED BY <1>3, <3>1, <3>3
  <2>6. CASE CloseLease(o) \/ CloseMirrors(o)
    BY <1>2, <2>6 DEF CloseLease, CloseMirrors
  <2> QED BY <1>4, <2>1, <2>2, <2>3, <2>4, <2>5, <2>6 DEF OpNext
<1>5. ASSUME NEW t \in Token, PruneNext(t)
      PROVE  UNCHANGED <<phase, draft>>
  BY <1>5, Zenon DEF PruneNext, PruneAcquire, PruneKeep, PruneReferences, PruneGlobalChunks, PruneGenerations,
     PruneDiscover, PruneGrant, PruneRenew, PruneList, PruneChunks, PruneManifests, PruneSwept, PruneFails,
     Proceed, TokenEnds
<1>6. ASSUME NEW m \in mail, Mirror(m)
      PROVE  UNCHANGED <<phase, draft>>
  BY <1>6 DEF Mirror
<1>7. ASSUME NEW r \in Reader, OpenSnapshot(r) \/ SnapshotEnds(r)
      PROVE  UNCHANGED <<phase, draft>>
  BY <1>7 DEF OpenSnapshot, SnapshotEnds
<1>8. CASE UNCHANGED vars
  BY <1>1, <1>8 DEF vars
<1> QED BY <1>1, <1>4, <1>5, <1>6, <1>7, <1>8 DEF Next

(* So a manifest that is coherent stays so while it is not replaced. *)
LEMMA CoherentStep ==
  ASSUME TypeOK, WholeInv, [Next]_vars, NEW v \in Op, Coherent(v), draft'[v] = draft[v]
  PROVE  Coherent(v)'
<1>1. \A s \in ShardsOf(draft[v].n) : LET i == draft[v].shards[s] IN
        i \in Op /\ draft'[i] = draft[i] /\ (i = v \/ Sealed(i)')
  BY Frozen DEF Coherent
<1> QED BY <1>1 DEF Coherent, Listed

(* The bounds of the parts of a manifest. *)
LEMMA Parts ==
  ASSUME TypeOK, NEW v \in Op
  PROVE  /\ draft[v].n \in 1 .. MaxShards /\ ShardsOf(draft[v].n) \subseteq Shard
         /\ \A k \in draft[v].words : Home(k, draft[v].n) \in Slot
         /\ Readable(v) <=> \A p \in Slot : Part(draft[v], p) \subseteq chunks[p]
<1>1. draft[v].n \in 1 .. MaxShards /\ draft[v].words \subseteq Keyword
  BY DEF TypeOK, Draft
<1>2. \A k \in draft[v].words : Home(k, draft[v].n) \in Slot
  BY <1>1, Homes, Slots
<1> QED BY <1>1, <1>2, Slots DEF Readable, Stored, Part

-----------------------------------------------------------------------------
(* Steps that take nothing away: every record stays, and nothing is relied *)
(* upon that was not before.                                               *)
Steady ==
  /\ gens' = gens /\ UNCHANGED pruneVars
  /\ \A p \in Slot : /\ chunks[p] \subseteq chunks'[p] /\ manifests[p] \subseteq manifests'[p]
                     /\ maintenance'[p] \in {0, maintenance[p]}
  /\ Relied' \subseteq Relied
  /\ \A v \in Settled' : v \in Settled \/ Sealed(v)'
  /\ maintenance'[Global] # 0 => Pinned' \subseteq Pinned
  /\ (active' = 0 <=> meta' = 0) /\ (meta' = 0 => meta = 0 /\ leases' = leases)

(* The calls that stage are those that did, in every shard that is swept.  *)
StillStaging ==
  \A o \in Op : Live(o)' /\ phase'[o] = "stage" =>
    /\ Live(o) /\ phase[o] = "stage" /\ draft'[o] = draft[o] /\ fresh'[o] = fresh[o]
    /\ \A s \in Shard : maintenance[s] # 0 => step'[o][s] = step[o][s]

(* What is relied upon. *)
LEMMA ReliedOps ==
  ASSUME TypeOK
  PROVE  Settled \subseteq Relied /\ Pinned \subseteq Settled /\ Pinned \subseteq Op
<1>1. \A i \in 0 .. MaxOps : i # 0 => i \in Op
  BY ShardAssumption DEF Op
<1>2. active \in 0 .. MaxOps /\ \A r \in Reader : leases[r] \in 0 .. MaxOps
  BY DEF TypeOK
<1>3. Pinned \subseteq Op
  BY <1>1, <1>2 DEF Pinned
<1>4. Settled \subseteq Relied /\ Pinned \subseteq Settled
  BY DEF Settled, Relied
<1> QED BY <1>3, <1>4

(* Under the token of a sweep nobody may commit. *)
LEMMA NoneLive ==
  ASSUME TypeOK, FenceInv, maintenance[Global] # 0
  PROVE  Relied = Pinned /\ \A o \in Op : ~ Live(o)
<1>1. \A o \in Op : ~ Live(o)
  BY Slots DEF Live, FenceInv
<1> QED BY <1>1 DEF Relied, Settled

(* Steady steps leave the records whole. *)
LEMMA WholeSteady ==
  ASSUME TypeOK, WholeInv, [Next]_vars, TypeOK', Steady
  PROVE  WholeInv'
<1>1. ASSUME NEW v \in gens
      PROVE  v \in Op /\ draft'[v] = draft[v] /\ phase'[v] \in {"check", "commit", "close", "unmirror", "done"}
  BY Frozen DEF TypeOK
<1>2. ASSUME NEW v \in gens
      PROVE  Coherent(v)' /\ Complete(v)'
  <2>1. Coherent(v) /\ Complete(v) /\ draft'[v] = draft[v] /\ v \in Op
    BY <1>1 DEF WholeInv
  <2>2. Coherent(v)'
    BY <2>1, CoherentStep
  <2>3. ShardsOf(draft[v].n) \subseteq Slot
    BY <2>1, Parts, Slots
  <2> QED BY <2>1, <2>2, <2>3 DEF Complete, Steady
<1>3. ASSUME NEW v \in Relied'
      PROVE  v \in gens' /\ Readable(v)'
  <2>1. v \in Relied /\ v \in gens /\ Readable(v)
    BY DEF Steady, WholeInv
  <2>2. v \in Op /\ draft'[v] = draft[v]
    BY <1>1, <2>1
  <2>3. \A p \in Slot : Part(draft[v], p) \subseteq chunks[p]
    BY <2>1, <2>2, Parts
  <2>4. \A p \in Slot : Part(draft'[v], p) \subseteq chunks'[p]
    BY <2>2, <2>3 DEF Steady
  <2>5. \A k \in draft[v].words : Home(k, draft[v].n) \in Slot
    BY <2>2, Parts
  <2>6. Readable(v)'
    BY <2>2, <2>4, <2>5 DEF Readable, Stored, Part
  <2> QED BY <2>1, <2>6 DEF Steady
<1>4. ASSUME NEW v \in Settled'
      PROVE  Sealed(v)'
  <2>1. v \in Settled => v \in Op /\ Sealed(v)
    BY ReliedOps DEF WholeInv, TypeOK
  <2> QED BY <2>1, Frozen DEF Steady
<1> QED BY <1>1, <1>2, <1>3, <1>4 DEF WholeInv, Steady

(* They leave what a sweep keeps. *)
LEMMA KeepSteady ==
  ASSUME TypeOK, WholeInv, KeepInv, [Next]_vars, Steady
  PROVE  KeepInv'
<1> SUFFICES ASSUME NEW t \in Token, maintenance'[Global] = t, pphase'[t] \notin {"idle", "keep", "done"}
             PROVE  Keeps(t)'
  BY DEF KeepInv
<1>1. t # 0 /\ maintenance[Global] = t /\ Pinned' \subseteq Pinned
  BY Slots, ShardAssumption DEF Steady, Token
<1>2. Front(t)' = Front(t) /\ \A v \in keep[t] : v \in gens => draft'[v] = draft[v]
  BY Frozen DEF Steady, Front, TypeOK
<1>3. Keeps(t)
  BY <1>1 DEF Steady, KeepInv
<1> QED BY <1>1, <1>2, <1>3 DEF Steady, Keeps

(* What a sweep is about to delete stays nobody's. *)
LEMMA HarmlessSteady ==
  ASSUME TypeOK, WholeInv, [Next]_vars, Steady, StillStaging,
         NEW t \in Token, NEW s \in Shard, maintenance[s] # 0, Harmless(t, s)
  PROVE  Harmless(t, s)'
<1>1. \A v \in gens : draft'[v] = draft[v]
  BY Frozen DEF TypeOK
<1>2. Relied \subseteq gens
  BY DEF WholeInv
<1>3. \A o \in Op : Live(o)' /\ phase'[o] = "stage" =>
        Live(o) /\ phase[o] = "stage" /\ draft'[o] = draft[o] /\ fresh'[o] = fresh[o] /\ step'[o][s] = step[o][s]
  BY DEF StillStaging
<1> QED BY <1>1, <1>2, <1>3 DEF Steady, Harmless

(* So the sweeps stay harmless. *)
LEMMA SweepSteady ==
  ASSUME TypeOK, WholeInv, SweepInv, [Next]_vars, Steady,
         \A t \in Token, s \in Shard : maintenance[s] # 0 /\ Harmless(t, s) => Harmless(t, s)'
  PROVE  SweepInv'
<1>1. ASSUME NEW t \in Token, pphase[t] \in {"chunks", "manifests"},
             NEW s \in Shard, s = Front(t), maintenance'[s] = t
      PROVE  Harmless(t, s)'
  <2>1. t # 0 /\ maintenance[s] = t
    BY <1>1, Slots, ShardAssumption DEF Steady, Token
  <2> QED BY <1>1, <2>1 DEF SweepInv, Sweeps
<1>2. \A t \in Token : Front(t)' = Front(t)
  BY DEF Steady, Front
<1> QED BY <1>1, <1>2 DEF SweepInv, Sweeps, Steady

(* What a call has staged stays staged. *)
LEMMA StageSteady ==
  ASSUME TypeOK, WholeInv, StageInv, [Next]_vars, Steady, StillStaging,
         \A o \in Op, p \in Slot :
           Live(o)' /\ phase'[o] = "stage" /\ Staged(o, p) => step'[o][p] = step[o][p] \/ Staged(o, p)'
  PROVE  StageInv'
<1> SUFFICES ASSUME NEW o \in Op, Live(o)', phase'[o] = "stage"
             PROVE  Coherent(o)' /\ \A p \in Slot : Staged(o, p)'
  BY DEF StageInv
<1>1. Live(o) /\ phase[o] = "stage" /\ draft'[o] = draft[o] /\ fresh'[o] = fresh[o]
  BY DEF StillStaging
<1>2. Coherent(o)'
  BY <1>1, CoherentStep DEF StageInv
<1>3. ASSUME NEW p \in Slot, step'[o][p] = step[o][p]
      PROVE  Staged(o, p)'
  <2>1. chunks[p] \subseteq chunks'[p] /\ manifests[p] \subseteq manifests'[p]
    BY DEF Steady
  <2>2. Staged(o, p)
    BY <1>1 DEF StageInv
  <2> QED BY <1>1, <1>3, <2>1, <2>2 DEF Staged
<1> QED BY <1>1, <1>2, <1>3 DEF StageInv

(* What all steps but a few do to the calls. *)
Quiet ==
  /\ Steady /\ StillStaging
  /\ \A o \in Op : Live(o)' /\ phase'[o] = "stage" => step'[o] = step[o]

USE DEF Quiet

(* A call that begins. *)
LEMMA QuietBegin ==
  ASSUME TypeOK, WholeInv, NEW o \in Op, (\E n \in Counts : InitialManifest(o, n)) \/ Acquire(o)
  PROVE  Quiet
<1>1. CASE \E n \in Counts : InitialManifest(o, n)
  <2>1. /\ ~ Live(o) /\ phase'[o] \in {"create", "seed"}
        /\ \A i \in Op : i # o => phase'[i] = phase[i] /\ draft'[i] = draft[i] /\ step'[i] = step[i]
    BY <1>1 DEF InitialManifest, Begins, Live, TypeOK
  <2>2. \A i \in Op : Live(i)' => Live(i) /\ phase'[i] = phase[i] /\ i # o
    BY <1>1, <2>1 DEF InitialManifest, Live
  <2>3. Relied' \subseteq Relied /\ Settled' \subseteq Settled /\ Pinned' \subseteq Pinned
    BY <1>1, <2>2 DEF InitialManifest, Relied, Settled, Pinned
  <2> QED BY <1>1, <2>1, <2>2, <2>3 DEF Steady, StillStaging, InitialManifest, WholeInv
<1>2. CASE Acquire(o)
  <2>1. \A i \in Op : i # o => phase'[i] = phase[i] /\ expected'[i] = expected[i]
    BY <1>2 DEF Acquire, TypeOK
  <2>2. \A i \in Op : Live(i)' => i = o \/ Live(i)
    BY <1>2, <2>1, Slots DEF Acquire, Live, TypeOK
  <2>3. Pinned' = Pinned /\ active \in Pinned /\ phase'[o] = "plan" /\ expected'[o] = active
    BY <1>2 DEF Acquire, Pinned, TypeOK, WholeInv
  <2>4. Relied' \subseteq Relied /\ Settled' \subseteq Settled
    BY <2>1, <2>2, <2>3 DEF Relied, Settled
  <2> QED BY <1>2, <2>1, <2>2, <2>3, <2>4 DEF Steady, StillStaging, Acquire, WholeInv
<1> QED BY <1>1, <1>2

(* A call that leaves, commits or only reads. *)
LEMMA QuietEnd ==
  ASSUME TypeOK, WholeInv, NEW o \in Op, Commit(o) \/ Fails(o) \/ CloseLease(o) \/ CloseMirrors(o)
  PROVE  Quiet
<1>1. CASE Commit(o)
  <2>1. Sealed(o)' /\ \A i \in Op : i # o => phase'[i] = phase[i] /\ draft'[i] = draft[i] /\ step'[i] = step[i]
                                 /\ fresh'[i] = fresh[i] /\ expected'[i] = expected[i]
    BY <1>1 DEF Commit, Leaves, Sealed, TypeOK
  <2>2. \A i \in Op : Live(i)' => Live(i) /\ i # o
    BY <1>1, <2>1 DEF Commit, Live, Sealed
  <2>3. o \in Pinned' => o \in Relied
    BY <1>1 DEF Commit, Relied, Settled, Pinned, Live
  <2>4. Pinned' \subseteq Pinned \cup {o}
    BY <1>1 DEF Commit, Pinned
  <2>5. Relied' \subseteq Relied /\ Settled' \subseteq Settled \cup {o}
    BY <2>1, <2>2, <2>3, <2>4 DEF Relied, Settled
  <2>6. draft[o].n # 0 /\ o # 0
    BY ShardAssumption DEF TypeOK, Draft, Op
  <2>7. (active' = 0 <=> meta' = 0) /\ (meta' = 0 => meta = 0 /\ leases' = leases)
    BY <1>1, <2>6 DEF Commit, WholeInv
  <2> QED BY <1>1, <2>1, <2>2, <2>4, <2>5, <2>7 DEF Steady, StillStaging, Commit
<1>2. CASE Fails(o)
  <2>1. Sealed(o)' /\ \A i \in Op : i # o => phase'[i] = phase[i] /\ draft'[i] = draft[i] /\ step'[i] = step[i]
                                 /\ fresh'[i] = fresh[i] /\ expected'[i] = expected[i]
    BY <1>2 DEF Fails, Leaves, Sealed, TypeOK
  <2>2. \A i \in Op : Live(i)' => Live(i) /\ i # o
    BY <1>2, <2>1 DEF Fails, Live, Sealed
  <2>3. Relied' \subseteq Relied /\ Settled' \subseteq Settled /\ Pinned' \subseteq Pinned
    BY <1>2, <2>1, <2>2 DEF Fails, Relied, Settled, Pinned
  <2> QED BY <1>2, <2>1, <2>2, <2>3 DEF Steady, StillStaging, Fails, WholeInv
<1>3. CASE CloseLease(o) \/ CloseMirrors(o)
  <2>1. Sealed(o)' /\ \A i \in Op : i # o => phase'[i] = phase[i]
    BY <1>3 DEF CloseLease, CloseMirrors, Sealed, TypeOK
  <2>2. \A i \in Op : Live(i)' => Live(i) /\ i # o
    <3>1. writers'[Global] \subseteq writers[Global]
      BY <1>3, Slots DEF CloseLease, CloseMirrors, TypeOK
    <3> QED BY <2>1, <3>1 DEF Live, Sealed
  <2>3. Relied' \subseteq Relied /\ Settled' \subseteq Settled /\ Pinned' \subseteq Pinned
    BY <1>3, <2>1, <2>2 DEF CloseLease, CloseMirrors, Relied, Settled, Pinned
  <2> QED BY <1>3, <2>1, <2>2, <2>3 DEF Steady, StillStaging, CloseLease, CloseMirrors, WholeInv
<1> QED BY <1>1, <1>2, <1>3

(* Checks, deadlines, snapshots and tokens that end. *)
LEMMA QuietRest ==
  ASSUME TypeOK, WholeInv,
         \/ \E o \in Op : CheckGeneration(o)
         \/ \E o \in Op, s \in Shard : ReadDeadline(o, s)
         \/ \E o \in Op, slots \in SUBSET Slot : LeaseExpires(o, slots)
         \/ \E r \in Reader : OpenSnapshot(r) \/ SnapshotEnds(r)
         \/ \E t \in Token, slots \in SUBSET Slot : TokenEnds(t, slots)
         \/ UNCHANGED vars
  PROVE  Quiet
<1>1. ASSUME NEW o \in Op, CheckGeneration(o)
      PROVE  Quiet
  <2>1. \A i \in Op : Live(i)' => Live(i) /\ (i = o \/ phase'[i] = phase[i])
    BY <1>1 DEF CheckGeneration, Live, TypeOK
  <2>2. Live(o)' => phase'[o] = "commit" /\ phase[o] = "check"
    BY <1>1 DEF CheckGeneration, Live, TypeOK
  <2>3. Relied' \subseteq Relied /\ Settled' \subseteq Settled /\ Pinned' \subseteq Pinned
    BY <1>1, <2>1, <2>2 DEF CheckGeneration, Relied, Settled, Pinned
  <2> QED BY <1>1, <2>1, <2>2, <2>3 DEF Steady, StillStaging, CheckGeneration, WholeInv
<1>2. ASSUME NEW o \in Op, NEW slots \in SUBSET Slot, LeaseExpires(o, slots)
      PROVE  Quiet
  <2>1. writers'[Global] \subseteq writers[Global]
    BY <1>2, Slots DEF LeaseExpires, TypeOK
  <2>2. \A i \in Op : Live(i)' => Live(i)
    BY <1>2, <2>1 DEF LeaseExpires, Live
  <2>3. Relied' \subseteq Relied /\ Settled' \subseteq Settled /\ Pinned' \subseteq Pinned
    BY <1>2, <2>2 DEF LeaseExpires, Relied, Settled, Pinned
  <2> QED BY <1>2, <2>2, <2>3 DEF Steady, StillStaging, LeaseExpires, WholeInv
<1>3. ASSUME NEW r \in Reader, OpenSnapshot(r) \/ SnapshotEnds(r)
      PROVE  Quiet
  <2>1. \A i \in Op : Live(i)' = Live(i)
    BY <1>3 DEF OpenSnapshot, SnapshotEnds, Live
  <2>2. Pinned' \subseteq Pinned
    BY <1>3 DEF OpenSnapshot, SnapshotEnds, Pinned, TypeOK
  <2>3. Relied' \subseteq Relied /\ Settled' \subseteq Settled
    BY <1>3, <2>1, <2>2 DEF OpenSnapshot, SnapshotEnds, Relied, Settled
  <2>4. (active' = 0 <=> meta' = 0) /\ (meta' = 0 => meta = 0 /\ leases' = leases)
    BY <1>3 DEF OpenSnapshot, SnapshotEnds, WholeInv
  <2> QED BY <1>3, <2>1, <2>2, <2>3, <2>4 DEF Steady, StillStaging, OpenSnapshot, SnapshotEnds
<1>4. ASSUME UNCHANGED <<storeVars, recordVars, opVars, pruneVars>>, UNCHANGED writers,
             \A p \in Slot : maintenance'[p] \in {0, maintenance[p]}
      PROVE  Quiet
  <2>1. \A i \in Op : Live(i)' = Live(i)
    BY <1>4 DEF Live
  <2>2. Relied' \subseteq Relied /\ Settled' \subseteq Settled /\ Pinned' \subseteq Pinned
    BY <1>4, <2>1 DEF Relied, Settled, Pinned
  <2> QED BY <1>4, <2>1, <2>2 DEF Steady, StillStaging, WholeInv
<1>5. ASSUME NEW o \in Op, NEW s \in Shard, ReadDeadline(o, s)
      PROVE  Quiet
  BY <1>4, <1>5 DEF ReadDeadline
<1>6. ASSUME NEW t \in Token, NEW slots \in SUBSET Slot, TokenEnds(t, slots)
      PROVE  Quiet
  BY <1>4, <1>6 DEF TokenEnds
<1>7. CASE UNCHANGED vars
  BY <1>4, <1>7 DEF vars
<1> QED BY <1>1, <1>2, <1>3, <1>5, <1>6, <1>7

-----------------------------------------------------------------------------
(* A new collection. *)
LEMMA FirstUnstaged ==
  ASSUME TypeOK, NEW o \in Op, Unstaged(o) # {}
  PROVE  Min(Unstaged(o)) \in Unstaged(o) /\ Min(Unstaged(o)) \in Slot
<1>1. Unstaged(o) \subseteq Slot /\ Unstaged(o) \subseteq Nat
  BY ShardAssumption DEF Unstaged, Slot
<1> QED BY <1>1, MinIn

(* Every step keeps what has been seeded. *)
LEMMA SeedStep ==
  ASSUME TypeOK, FenceInv, SeedInv, WholeInv, [Next]_vars
  PROVE  SeedInv'
<1> DEFINE Early == {"seed", "create"}
<1>1. ASSUME \A i \in Op : phase'[i] \in Early => phase'[i] = phase[i] /\ draft'[i] = draft[i] /\ step'[i] = step[i],
             meta' = 0 => meta = 0 /\ \A s \in Shard : manifests[s] \subseteq manifests'[s]
      PROVE  SeedInv'
  <2>1. \A i \in Op : ShardsOf(draft[i].n) \subseteq Shard
    BY Parts
  <2> QED BY <1>1, <2>1 DEF SeedInv
<1>2. ASSUME NEW o \in Op, NEW n \in Counts, InitialManifest(o, n)
      PROVE  SeedInv'
  <2>1. \A i \in Op : i # o => phase'[i] = phase[i] /\ draft'[i] = draft[i] /\ step'[i] = step[i]
    BY <1>2 DEF InitialManifest, TypeOK
  <2>2. /\ draft'[o] = EmptyDraft(n, o) /\ phase'[o] = IF n = 1 THEN "create" ELSE "seed"
        /\ step'[o] = [p \in Slot |-> IF p \in ShardsOf(n) THEN "manifest" ELSE "none"]
    BY <1>2 DEF InitialManifest, TypeOK
  <2>3. UNCHANGED <<meta, manifests>>
    BY <1>2 DEF InitialManifest
  <2>4. ShardsOf(n) \subseteq Shard /\ ShardsOf(n) \subseteq Slot /\ (n = 1 => ShardsOf(n) = {})
    BY Slots DEF ShardsOf
  <2>5. LET d == draft'[o] IN
          /\ d.words = {} /\ d.count = 0 /\ d.n = n
          /\ \A s \in ShardsOf(n) : d.shards[s] = o /\ step'[o][s] # "none"
          /\ phase'[o] = "create" => \A p \in Slot : step'[o][p] = "none"
    BY <2>2, <2>4 DEF EmptyDraft
  <2> QED BY <2>1, <2>3, <2>5 DEF SeedInv
<1>3. ASSUME NEW o \in Op, SeedShard(o)
      PROVE  SeedInv'
  <2> DEFINE s == Min(Unstaged(o))
  <2>1. s \in Unstaged(o) /\ s \in Slot
    BY <1>3, FirstUnstaged DEF SeedShard
  <2> HIDE DEF s
  <2>2. /\ phase[o] = "seed" /\ manifests' = [manifests EXCEPT ![s] = @ \cup {o}]
        /\ step' = [step EXCEPT ![o][s] = "none"] /\ UNCHANGED <<meta, draft>>
        /\ phase' = [phase EXCEPT ![o] = IF Unstaged(o) = {s} THEN "create" ELSE @]
    BY <1>3 DEF SeedShard, s
  <2>3. ASSUME NEW i \in Op, i # o
        PROVE  phase'[i] = phase[i] /\ step'[i] = step[i]
    BY <2>2, <2>3 DEF TypeOK
  <2>4. ASSUME NEW p \in Slot
        PROVE  /\ manifests[p] \subseteq manifests'[p] /\ (p = s => o \in manifests'[p])
               /\ step'[o][p] = IF p = s THEN "none" ELSE step[o][p]
    BY <2>1, <2>2 DEF TypeOK
  <2>5. phase'[o] = "create" => \A p \in Slot : step'[o][p] = "none"
    BY <2>1, <2>2, <2>4 DEF TypeOK, Unstaged
  <2>6. \A i \in Op : ShardsOf(draft[i].n) \subseteq Slot
    BY Parts, Slots
  <2> QED BY <2>2, <2>3, <2>4, <2>5, <2>6 DEF SeedInv
<1>4. ASSUME NEW o \in Op, NEW new, phase'= [phase EXCEPT ![o] = new], new \notin Early,
             \A i \in Op : i # o => draft'[i] = draft[i] /\ step'[i] = step[i],
             meta' = 0 => meta = 0, \A s \in Shard : manifests[s] \subseteq manifests'[s]
      PROVE  SeedInv'
  BY <1>1, <1>4 DEF TypeOK
<1>5. ASSUME NEW o \in Op, Create(o) \/ Acquire(o) \/ StageGeneration(o) \/ CheckGeneration(o)
                        \/ CloseLease(o) \/ CloseMirrors(o)
      PROVE  SeedInv'
  <2>1. meta' = 0 => meta = 0
    BY <1>5 DEF Create, Acquire, StageGeneration, CheckGeneration, CloseLease, CloseMirrors
  <2> QED BY <1>4, <1>5, <2>1 DEF Create, Acquire, StageGeneration, CheckGeneration, CloseLease, CloseMirrors
<1>6. ASSUME NEW o \in Op, (\E req \in Requests : Change(o, req)) \/ (\E n \in Counts : Reshard(o, n))
      PROVE  SeedInv'
  <2>1. PICK next, stages, sh, changed : Prepared(o, next, stages, sh, changed)
    BY <1>6 DEF Change, Reshard
  <2>2. \A i \in Op : i # o => draft'[i] = draft[i] /\ step'[i] = step[i]
    BY <2>1 DEF Prepared, TypeOK
  <2>3. UNCHANGED <<meta, manifests>>
    BY <2>1 DEF Prepared
  <2>4. PICK new : phase' = [phase EXCEPT ![o] = new] /\ new \in {"stage", "unchanged"}
    BY <2>1 DEF Prepared
  <2> QED BY <1>4, <2>2, <2>3, <2>4
<1>7. ASSUME NEW o \in Op, Commit(o) \/ Fails(o)
      PROVE  SeedInv'
  <2>1. PICK new : Leaves(o, new) /\ new \notin Early
    BY <1>7 DEF Commit, Fails
  <2>2. \A i \in Op : i # o => draft'[i] = draft[i] /\ step'[i] = step[i]
    BY <2>1 DEF Leaves, TypeOK
  <2>3. UNCHANGED manifests /\ (meta' = 0 => meta = 0)
    BY <1>7 DEF Commit, Fails, TypeOK, Draft
  <2> QED BY <1>4, <2>1, <2>2, <2>3 DEF Leaves
<1>8. ASSUME NEW o \in Op, NEW p \in Slot, NEW new, phase[o] \in Early => step[o][p] # "none" /\ new # "none",
             step' = [step EXCEPT ![o][p] = new], UNCHANGED <<phase, draft, meta>>,
             \A s \in Shard : manifests[s] \subseteq manifests'[s]
      PROVE  SeedInv'
  <2>1. \A i \in Op, q \in Slot : step'[i][q] = IF i = o /\ q = p THEN new ELSE step[i][q]
    BY <1>8 DEF TypeOK
  <2>2. \A i \in Op : ShardsOf(draft[i].n) \subseteq Shard /\ ShardsOf(draft[i].n) \subseteq Slot
    BY Parts, Slots
  <2> QED BY <1>8, <2>1, <2>2 DEF SeedInv
<1>9. ASSUME NEW o \in Op, NEW s \in Shard, StageManifest(o, s)
      PROVE  SeedInv'
  BY <1>8, <1>9, Slots DEF StageManifest, TypeOK
<1>10. ASSUME NEW o \in Op, NEW p \in Slot, StageChunks(o, p)
       PROVE  SeedInv'
  BY <1>8, <1>10 DEF StageChunks
<1>11. ASSUME NEW m \in mail, Mirror(m)
       PROVE  SeedInv'
  <2>1. m.op \in Op /\ m.shard \in Slot /\ phase[m.op] \notin Early
    BY Slots DEF FenceInv, TypeOK
  <2> QED BY <1>8, <1>11, <2>1 DEF Mirror
<1>12. ASSUME NEW t \in Token, PruneNext(t)
       PROVE  SeedInv'
  <2>1. UNCHANGED <<phase, draft, step, meta>>
    BY <1>12, Zenon DEF PruneNext, PruneAcquire, PruneKeep, PruneReferences, PruneGlobalChunks, PruneGenerations,
       PruneDiscover, PruneGrant, PruneRenew, PruneList, PruneChunks, PruneManifests, PruneSwept, PruneFails,
       Proceed, TokenEnds
  <2>2. UNCHANGED manifests \/ PruneManifests(t)
    BY <1>12, Zenon DEF PruneNext, PruneAcquire, PruneKeep, PruneReferences, PruneGlobalChunks, PruneGenerations,
       PruneDiscover, PruneGrant, PruneRenew, PruneList, PruneChunks, PruneSwept, PruneFails, Proceed, TokenEnds
  <2>3. PruneManifests(t) => meta # 0
    BY DEF PruneManifests, FenceInv
  <2> QED BY <1>1, <2>1, <2>2, <2>3
<1>13. ASSUME NEW o \in Op,
              (\E s \in Shard : ReadDeadline(o, s)) \/ (\E slots \in SUBSET Slot \ {{}} : LeaseExpires(o, slots))
       PROVE  SeedInv'
  BY <1>1, <1>13 DEF ReadDeadline, LeaseExpires
<1>14. ASSUME NEW r \in Reader, OpenSnapshot(r) \/ SnapshotEnds(r)
       PROVE  SeedInv'
  BY <1>1, <1>14 DEF OpenSnapshot, SnapshotEnds
<1>15. CASE UNCHANGED vars
  BY <1>1, <1>15 DEF vars
<1> QED
  BY <1>2, <1>3, <1>5, <1>6, <1>7, <1>9, <1>10, <1>11, <1>12, <1>13, <1>14, <1>15 DEF Next, OpNext

-----------------------------------------------------------------------------
(* Steps that stage records. *)
LEMMA StagesSteady ==
  ASSUME TypeOK, WholeInv, NEW o \in Op, NEW p \in Slot, NEW new,
         UNCHANGED <<storeVars, phase, planVars, maintenance, pruneVars>>, UNCHANGED writers[Global],
         step' = [step EXCEPT ![o][p] = new], maintenance[p] = 0,
         \A q \in Slot : chunks[q] \subseteq chunks'[q] /\ manifests[q] \subseteq manifests'[q]
  PROVE  Steady /\ StillStaging
<1>1. \A i \in Op : Live(i)' = Live(i)
  BY DEF Live
<1>2. Relied' \subseteq Relied /\ Settled' \subseteq Settled /\ Pinned' \subseteq Pinned
  BY <1>1 DEF Relied, Settled, Pinned
<1>3. \A i \in Op, q \in Slot : (i = o /\ q = p) \/ step'[i][q] = step[i][q]
  BY DEF TypeOK
<1>4. Steady
  BY <1>2 DEF Steady, WholeInv
<1>5. StillStaging
  BY <1>1, <1>3, Slots DEF StillStaging
<1> QED BY <1>4, <1>5

(* stageBatch and mirrorWriter. *)
LEMMA StageRecords ==
  ASSUME TypeOK, WholeInv, StageInv, [Next]_vars,
         \/ \E o \in Op, p \in Slot : StageChunks(o, p)
         \/ \E o \in Op, s \in Shard : StageManifest(o, s)
         \/ \E m \in mail : Mirror(m)
  PROVE  Steady /\ StillStaging /\ StageInv'
<1>1. ASSUME NEW o \in Op, NEW p \in Slot, NEW new, step' = [step EXCEPT ![o][p] = new],
             Steady, StillStaging, Staged(o, p) => Staged(o, p)'
      PROVE  StageInv'
  <2>1. \A i \in Op, q \in Slot : (i = o /\ q = p) \/ step'[i][q] = step[i][q]
    BY <1>1 DEF TypeOK
  <2> QED BY <1>1, <2>1, StageSteady
<1>2. ASSUME NEW o \in Op, NEW p \in Slot, StageChunks(o, p)
      PROVE  Steady /\ StillStaging /\ StageInv'
  <2> DEFINE new == IF p = Global THEN "staged" ELSE "manifest"
  <2>1. step' = [step EXCEPT ![o][p] = new] /\ maintenance[p] = 0
        /\ chunks' = [chunks EXCEPT ![p] = @ \cup Stages(o, p)] /\ step[o][p] = "chunks"
        /\ UNCHANGED <<storeVars, manifests, writers, tokenVars, phase, planVars, pruneVars>>
    BY <1>2 DEF StageChunks, MayStage
  <2>2. chunks'[p] = chunks[p] \cup Stages(o, p) /\ \A q \in Slot : chunks[q] \subseteq chunks'[q]
    BY <2>1 DEF TypeOK
  <2>3. Steady /\ StillStaging
    BY <2>1, <2>2, StagesSteady
  <2>4. ASSUME Staged(o, p)
        PROVE  Staged(o, p)'
    <3>1. step'[o][p] = new
      BY <2>1 DEF TypeOK
    <3>2. Part(draft[o], p) \subseteq chunks'[p]
      BY <2>1, <2>2, <2>4 DEF Staged, Stages, Part
    <3>3. Global \notin ShardsOf(draft[o].n)
      BY Parts, Slots
    <3> QED BY <2>1, <2>4, <3>1, <3>2, <3>3 DEF Staged
  <2> QED BY <1>1, <2>1, <2>3, <2>4
<1>3. ASSUME NEW o \in Op, NEW s \in Shard, StageManifest(o, s)
      PROVE  Steady /\ StillStaging /\ StageInv'
  <2>1. step' = [step EXCEPT ![o][s] = "staged"] /\ maintenance[s] = 0
        /\ manifests' = [manifests EXCEPT ![s] = @ \cup {o}] /\ step[o][s] = "manifest"
        /\ UNCHANGED <<storeVars, chunks, writers, tokenVars, phase, planVars, pruneVars>>
    BY <1>3 DEF StageManifest, MayStage
  <2>2. s \in Slot /\ o \in manifests'[s] /\ \A q \in Slot : manifests[q] \subseteq manifests'[q]
    BY <2>1, Slots DEF TypeOK
  <2>3. Steady /\ StillStaging
    BY <2>1, <2>2, StagesSteady
  <2>4. ASSUME Staged(o, s)
        PROVE  Staged(o, s)'
    <3>1. step'[o][s] = "staged"
      BY <2>1, <2>2 DEF TypeOK
    <3> QED BY <2>1, <2>2, <2>4, <3>1, Slots DEF Staged
  <2> QED BY <1>1, <2>1, <2>2, <2>3, <2>4
<1>4. ASSUME NEW m \in mail, Mirror(m)
      PROVE  Steady /\ StillStaging /\ StageInv'
  <2> DEFINE o == m.op
             s == m.shard
             new == IF step[o][s] # "mirror" THEN step[o][s] ELSE IF Stages(o, s) = {} THEN "manifest" ELSE "chunks"
  <2>1. o \in Op /\ s \in Shard /\ s \in Slot /\ s # Global
    BY Slots DEF TypeOK
  <2>2. step' = [step EXCEPT ![o][s] = new] /\ maintenance[s] = 0
        /\ UNCHANGED <<storeVars, recordVars, maintenance, phase, planVars, pruneVars>>
        /\ writers' = [writers EXCEPT ![s] = @ \cup {o}]
    BY <1>4 DEF Mirror, MirrorAccepted
  <2> HIDE DEF o, s
  <2>3. UNCHANGED writers[Global]
    BY <2>1, <2>2, Slots DEF TypeOK
  <2>4. Steady /\ StillStaging
    BY <2>1, <2>2, <2>3, StagesSteady
  <2>5. ASSUME Staged(o, s)
        PROVE  Staged(o, s)'
    <3>1. step'[o][s] = new
      BY <2>1, <2>2 DEF TypeOK
    <3>2. Stages(o, s) = {} => Part(draft[o], s) \ fresh[o] = Part(draft[o], s)
      BY DEF Stages, Part
    <3> QED BY <2>1, <2>2, <2>5, <3>1, <3>2 DEF Staged
  <2> QED BY <1>1, <2>1, <2>2, <2>4, <2>5
<1> QED BY <1>2, <1>3, <1>4

(* initialManifest seeds a shard. *)
LEMMA SeedSteady ==
  ASSUME TypeOK, WholeInv, NEW o \in Op, SeedShard(o)
  PROVE  Quiet
<1>1. /\ phase[o] = "seed" /\ phase'[o] \in {"seed", "create"}
      /\ \A i \in Op : i # o => phase'[i] = phase[i] /\ step'[i] = step[i]
  BY DEF SeedShard, TypeOK
<1>2. \A i \in Op : Live(i)' => Live(i) /\ i # o
  BY <1>1 DEF SeedShard, Live
<1>3. Relied' \subseteq Relied /\ Settled' \subseteq Settled /\ Pinned' \subseteq Pinned
  BY <1>1, <1>2 DEF SeedShard, Relied, Settled, Pinned
<1>4. \A q \in Slot : manifests[q] \subseteq manifests'[q]
  BY DEF SeedShard, TypeOK
<1> QED BY <1>1, <1>2, <1>3, <1>4 DEF Steady, StillStaging, SeedShard, WholeInv

(* What follows from a steady step. *)
LEMMA SteadyStep ==
  ASSUME TypeOK, WholeInv, KeepInv, SweepInv, [Next]_vars, TypeOK', Steady, StillStaging
  PROVE  WholeInv' /\ KeepInv' /\ SweepInv'
BY WholeSteady, KeepSteady, HarmlessSteady, SweepSteady

(* What follows from a quiet step. *)
LEMMA QuietStep ==
  ASSUME TypeOK, WholeInv, StageInv, KeepInv, SweepInv, [Next]_vars, TypeOK', Quiet
  PROVE  WholeInv' /\ StageInv' /\ KeepInv' /\ SweepInv'
<1>1. \A o \in Op, p \in Slot : Live(o)' /\ phase'[o] = "stage" => step'[o][p] = step[o][p]
  OBVIOUS
<1> QED BY <1>1, SteadyStep, StageSteady

-----------------------------------------------------------------------------
(* The plan of a writing call. *)
LEMMA PlanSteady ==
  ASSUME TypeOK, WholeInv, NEW o \in Op, NEW next, NEW stages, NEW sh, NEW changed,
         phase[o] = "plan", Prepared(o, next, stages, sh, changed)
  PROVE  Steady /\ (~ (Live(o) /\ changed) => Quiet)
<1>1. /\ \A i \in Op : i # o =>
           phase'[i] = phase[i] /\ draft'[i] = draft[i] /\ step'[i] = step[i] /\ fresh'[i] = fresh[i]
      /\ phase'[o] = IF changed THEN "stage" ELSE "unchanged"
      /\ UNCHANGED <<storeVars, recordVars, writers, tokenVars, expected, pruneVars>>
  BY DEF Prepared, TypeOK
<1>2. \A i \in Op : Live(i)' => Live(i) /\ (i = o \/ phase'[i] = phase[i])
  BY <1>1 DEF Live
<1>3. Relied' \subseteq Relied /\ Settled' \subseteq Settled /\ Pinned' \subseteq Pinned
  BY <1>1, <1>2 DEF Relied, Settled, Pinned
<1>4. Steady
  BY <1>1, <1>3 DEF Steady, WholeInv
<1>5. ASSUME ~ (Live(o) /\ changed)
      PROVE  \A i \in Op : Live(i)' /\ phase'[i] = "stage" => i # o
  BY <1>1, <1>2, <1>5
<1>6. ASSUME ~ (Live(o) /\ changed)
      PROVE  Quiet
  BY <1>1, <1>2, <1>4, <1>5, <1>6 DEF StillStaging
<1> QED BY <1>4, <1>6

(* change and Reshard keep the invariant. *)
LEMMA PlanStep ==
  ASSUME TypeOK, WholeInv, StageInv, KeepInv, SweepInv, [Next]_vars, TypeOK', NEW o \in Op,
         (\E req \in Requests : Change(o, req)) \/ (\E n \in Counts : Reshard(o, n))
  PROVE  WholeInv' /\ StageInv' /\ KeepInv' /\ SweepInv'
<1>1. PICK next, stages, sh, changed :
        Prepared(o, next, stages, sh, changed) /\ Follows(o, draft[expected[o]], next, stages, sh)
  BY Plans
<1>2. phase[o] = "plan" /\ expected[o] \in gens /\ expected[o] \in Op
  BY Plans DEF TypeOK
<1>3. Steady /\ (~ (Live(o) /\ changed) => Quiet)
  BY <1>1, <1>2, PlanSteady
<1>4. CASE ~ (Live(o) /\ changed)
  BY <1>3, <1>4, QuietStep
<1>5. CASE Live(o) /\ changed
  <2> DEFINE e == expected[o]
             old == draft[e]
  <2>1. /\ phase'[o] = "stage" /\ draft'[o] = next /\ fresh'[o] = stages
        /\ step'[o] = [p \in Slot |-> IF p \in sh THEN "mirror"
                         ELSE IF next.n = 1 /\ p = Global /\ stages # {} THEN "chunks" ELSE "none"]
        /\ UNCHANGED <<storeVars, recordVars, writers, tokenVars, expected, pruneVars>>
    BY <1>1, <1>5 DEF Prepared, TypeOK
  <2>2. \A i \in Op : i # o =>
          phase'[i] = phase[i] /\ draft'[i] = draft[i] /\ step'[i] = step[i] /\ fresh'[i] = fresh[i]
    BY <1>1 DEF Prepared, TypeOK
  <2>3. e \in Settled /\ e \in Relied /\ Sealed(e) /\ Readable(e) /\ Coherent(e) /\ Complete(e) /\ e # o
    BY <1>2, <1>5 DEF WholeInv, Relied, Settled, Sealed
  <2>4. \A p \in Slot : Part(old, p) \subseteq chunks[p]
    BY <1>2, <2>3, Parts
  <2>5. next \in Draft /\ next.n \in 1 .. MaxShards /\ ShardsOf(next.n) \subseteq Shard
    BY <1>1, Slots DEF Follows, Draft
  <2> HIDE DEF e
  <2>6. ASSUME NEW i \in Op, Live(i)', phase'[i] = "stage", i # o
        PROVE  Live(i) /\ phase[i] = "stage"
    BY <2>1, <2>2, <2>6 DEF Live
  <2>7. Coherent(o)'
    <3>1. \A s \in ShardsOf(next.n) : LET i == next.shards[s] IN
            i \in Op /\ (i = o \/ Sealed(i)') /\ Listed(i, s)' = Part(next, s)
      <4>1. SUFFICES ASSUME NEW s \in ShardsOf(next.n)
                     PROVE  LET i == next.shards[s] IN
                              i \in Op /\ (i = o \/ Sealed(i)') /\ Listed(i, s)' = Part(next, s)
        OBVIOUS
      <4>2. CASE s \in sh
        BY <1>1, <2>1, <4>2 DEF Follows, Listed, Part
      <4>3. CASE s \notin sh
        <5>1. next.n = old.n /\ next.shards[s] = old.shards[s] /\ Part(next, s) = Part(old, s)
          BY <1>1, <4>3 DEF Follows, e
        <5>2. PICK i \in Op : i = old.shards[s] /\ Sealed(i) /\ Listed(i, s) = Part(old, s)
          BY <2>3, <5>1 DEF Coherent
        <5>3. draft'[i] = draft[i] /\ Sealed(i)'
          BY <5>2, Frozen
        <5>4. Listed(i, s)' = Part(old, s)
          BY <5>2, <5>3 DEF Listed
        <5> QED BY <5>1, <5>2, <5>3, <5>4
      <4> QED BY <4>2, <4>3
    <3>2. IsFiniteSet(next.words) /\ next.count = Cardinality(next.words)
      BY <1>1 DEF Follows
    <3> QED BY <2>1, <3>1, <3>2 DEF Coherent
  <2>8. ASSUME NEW p \in Slot
        PROVE  Staged(o, p)'
    <3>1. CASE p \in sh
      <4>1. step'[o][p] = "mirror" /\ next.shards[p] = o /\ Part(next, p) \ stages \subseteq chunks[p]
        BY <1>1, <2>1, <2>4, <3>1 DEF Follows, e
      <4> QED BY <2>1, <4>1 DEF Staged
    <3>2. CASE p \in Shard \ sh
      <4>1. step'[o][p] = "none" /\ Part(next, p) \subseteq chunks[p]
        BY <1>1, <2>1, <2>4, <3>2, Slots DEF Follows, e
      <4>2. p \in ShardsOf(next.n) => next.shards[p] \in manifests[p]
        BY <1>1, <2>3, <3>2 DEF Follows, Complete, e
      <4> QED BY <2>1, <4>1, <4>2 DEF Staged
    <3>3. CASE p = Global
      <4>1. p \notin sh /\ p \notin ShardsOf(next.n)
        BY <1>1, <2>5, <3>3, Slots DEF Follows
      <4>2. Part(next, p) \ stages \subseteq chunks[p]
        BY <1>1, <2>4 DEF Follows, e
      <4>3. next.n # 1 => Part(next, p) = {}
        BY <2>5, <3>3, Homes DEF Part, Draft
      <4>4. step'[o][p] = IF next.n = 1 /\ stages # {} THEN "chunks" ELSE "none"
        BY <2>1, <3>3, <4>1
      <4> QED BY <2>1, <3>3, <4>1, <4>2, <4>3, <4>4 DEF Staged
    <3>4. p \in Shard \/ p = Global
      BY ShardAssumption DEF Shard, Slot, Global
    <3> QED BY <3>1, <3>2, <3>3, <3>4
  <2>9. StageInv'
    <3>1. ASSUME NEW i \in Op, i # o, Live(i)', phase'[i] = "stage"
          PROVE  Coherent(i)' /\ \A p \in Slot : Staged(i, p)'
      <4>1. Live(i) /\ phase[i] = "stage" /\ draft'[i] = draft[i] /\ step'[i] = step[i] /\ fresh'[i] = fresh[i]
        BY <2>2, <2>6, <3>1
      <4>2. Coherent(i) /\ \A p \in Slot : Staged(i, p)
        BY <4>1 DEF StageInv
      <4>3. Coherent(i)'
        BY <4>1, <4>2, CoherentStep
      <4> QED BY <2>1, <4>1, <4>2, <4>3 DEF Staged
    <3> QED BY <2>7, <2>8, <3>1 DEF StageInv
  <2>10. ASSUME NEW t \in Token, NEW s \in Shard, maintenance[s] # 0, Harmless(t, s)
         PROVE  Harmless(t, s)'
    <3>1. \A v \in gens : draft'[v] = draft[v]
      BY Frozen DEF TypeOK
    <3>2. Relied \subseteq gens /\ Relied' \subseteq Relied /\ gens' = gens
      BY <1>3 DEF WholeInv, Steady
    <3>3. \A i \in Op : i # o /\ Live(i)' /\ phase'[i] = "stage" =>
            Live(i) /\ phase[i] = "stage" /\ draft'[i] = draft[i] /\ fresh'[i] = fresh[i] /\ step'[i][s] = step[i][s]
      BY <2>2, <2>6
    <3>4. Part(old, s) \cap deadChunks[t] = {} /\ (s \in ShardsOf(old.n) => old.shards[s] \notin deadManifests[t])
      BY <1>2, <2>3, <2>10 DEF Harmless, e
    <3>5. CASE s \in sh
      <4>1. step'[o][s] = "mirror" /\ Part(next, s) \ stages \subseteq Part(old, s)
        BY <1>1, <2>1, <3>5, Slots DEF Follows, e
      <4> QED BY <2>1, <2>10, <3>1, <3>2, <3>3, <3>4, <4>1 DEF Harmless
    <3>6. CASE s \notin sh
      <4>1. step'[o][s] = "none" /\ Part(next, s) \subseteq Part(old, s)
        BY <1>1, <2>1, <3>6, Slots DEF Follows, e
      <4>2. s \in ShardsOf(next.n) => next.n = old.n /\ next.shards[s] = old.shards[s]
        BY <1>1, <3>6 DEF Follows, e
      <4> QED BY <2>1, <2>10, <3>1, <3>2, <3>3, <3>4, <4>1, <4>2 DEF Harmless
    <3> QED BY <3>5, <3>6
  <2> QED BY <1>3, <2>9, <2>10, WholeSteady, KeepSteady, SweepSteady
<1> QED BY <1>4, <1>5

-----------------------------------------------------------------------------
(* Steps that bring forth a generation. *)
LEMMA CreateStep ==
  ASSUME TypeOK, FenceInv, WholeInv, SeedInv, StageInv, KeepInv, SweepInv, [Next]_vars, TypeOK',
         NEW o \in Op, Create(o)
  PROVE  WholeInv' /\ StageInv' /\ KeepInv' /\ SweepInv'
<1>1. phase[o] = "create" /\ phase'[o] = "done" /\ \A i \in Op : i # o => phase'[i] = phase[i]
  BY DEF Create, TypeOK
<1>2. UNCHANGED <<leases, recordVars, writers, tokenVars, planVars, step, mail, pruneVars>>
  BY DEF Create
<1>3. \A i \in Op : Live(i)' => Live(i) /\ i # o
  BY <1>1, <1>2 DEF Live
<1>4. CASE meta # 0
  <2>1. UNCHANGED <<meta, active, gens>>
    BY <1>4 DEF Create
  <2>2. Relied' \subseteq Relied /\ Settled' \subseteq Settled /\ Pinned' \subseteq Pinned
    BY <1>1, <1>2, <1>3, <2>1 DEF Relied, Settled, Pinned
  <2>3. Quiet
    BY <1>1, <1>2, <1>3, <2>1, <2>2 DEF Steady, StillStaging, WholeInv
  <2> QED BY <2>3, QuietStep
<1>5. CASE meta = 0
  <2>1. meta' = draft[o].n /\ active' = o /\ gens = {} /\ gens' = {o} /\ \A r \in Reader : leases[r] = 0
    BY <1>5 DEF Create, WholeInv
  <2>2. Pinned = {} /\ Pinned' = {o}
    <3>1. o # 0 /\ active = 0
      BY <1>5, ShardAssumption DEF Op, WholeInv
    <3> QED BY <1>2, <2>1, <3>1 DEF Pinned
  <2>3. \A i \in Op : Live(i) => phase[i] = "stage"
    <3>1. Relied = {}
      BY <2>1 DEF WholeInv
    <3> QED BY <3>1 DEF Relied, Settled, Live
  <2>4. Settled' = {o} /\ Relied' = {o}
    BY <1>1, <1>3, <2>2, <2>3 DEF Settled, Relied
  <2>5. draft'[o] = draft[o] /\ draft[o].words = {} /\ draft[o].count = 0
        /\ \A s \in ShardsOf(draft[o].n) : draft[o].shards[s] = o /\ o \in manifests[s]
    <3>1. ShardsOf(draft[o].n) \subseteq Slot
      BY Parts, Slots
    <3> QED BY <1>1, <1>2, <1>5, <3>1 DEF SeedInv
  <2>6. Coherent(o)' /\ Complete(o)' /\ Readable(o)' /\ Sealed(o)'
    <3>1. IsFiniteSet({}) /\ Cardinality({}) = 0
      BY FS_EmptySet
    <3>2. \A s : Listed(o, s)' = {} /\ Part(draft'[o], s) = {}
      BY <2>5 DEF Listed, Part
    <3>3. Coherent(o)'
      BY <2>5, <3>1, <3>2 DEF Coherent
    <3> QED BY <1>1, <1>2, <2>5, <3>3 DEF Complete, Readable, Sealed
  <2>7. meta' # 0 /\ active' # 0
    BY <2>1, ShardAssumption DEF TypeOK, Draft, Op
  <2>8. WholeInv'
    BY <1>1, <2>1, <2>4, <2>6, <2>7 DEF WholeInv
  <2>9. StageInv'
    <3>1. ASSUME NEW i \in Op, Live(i)', phase'[i] = "stage"
          PROVE  Coherent(i)' /\ \A p \in Slot : Staged(i, p)'
      <4>1. Live(i) /\ phase[i] = "stage" /\ Coherent(i) /\ \A p \in Slot : Staged(i, p)
        BY <1>1, <1>3, <3>1 DEF StageInv
      <4>2. draft'[i] = draft[i]
        BY <1>2
      <4>3. Coherent(i)'
        BY <4>1, <4>2, CoherentStep
      <4> QED BY <1>2, <4>1, <4>3 DEF Staged
    <3> QED BY <3>1 DEF StageInv
  <2>10. \A t \in Token : t # 0 /\ pphase'[t] = "idle"
    BY <1>2, <1>5, ShardAssumption DEF FenceInv, Token
  <2>11. KeepInv' /\ SweepInv'
    BY <1>2, <2>10 DEF KeepInv, SweepInv, Sweeps
  <2> QED BY <2>8, <2>9, <2>11
<1> QED BY <1>4, <1>5

(* The record of a generation is written when all it names is there. *)
LEMMA GenerationStep ==
  ASSUME TypeOK, FenceInv, WholeInv, StageInv, KeepInv, SweepInv, [Next]_vars, TypeOK',
         NEW o \in Op, StageGeneration(o)
  PROVE  WholeInv' /\ StageInv' /\ KeepInv' /\ SweepInv'
<1>1. /\ phase[o] = "stage" /\ phase'[o] \in {"check", "commit"} /\ \A i \in Op : i # o => phase'[i] = phase[i]
      /\ Live(o) /\ maintenance[Global] = 0 /\ gens' = gens \cup {o}
  BY DEF StageGeneration, MayStage, Live, TypeOK
<1>2. UNCHANGED <<meta, active, leases, recordVars, writers, tokenVars, planVars, step, mail, pruneVars>>
  BY DEF StageGeneration
<1>3. \A i \in Op : Live(i)' => Live(i)
  BY <1>1, <1>2 DEF Live
<1>4. Pinned' = Pinned /\ Settled' \subseteq Settled /\ Relied' \subseteq Relied \cup {o}
  BY <1>1, <1>2, <1>3 DEF Relied, Settled, Pinned
<1>5. Coherent(o) /\ \A p \in Slot : step[o][p] \in {"none", "staged"} /\ Staged(o, p)
  BY <1>1 DEF StageGeneration, AllStaged, StageInv
<1>6. Coherent(o)' /\ Complete(o)' /\ Readable(o)'
  <2>1. Coherent(o)'
    BY <1>2, <1>5, CoherentStep
  <2>2. ShardsOf(draft[o].n) \subseteq Slot /\ \A k \in draft[o].words : Home(k, draft[o].n) \in Slot
    BY Parts, Slots
  <2>3. Complete(o) /\ Readable(o)
    BY <1>5, <2>2 DEF Staged, Complete, Readable, Stored, Part
  <2> QED BY <1>2, <2>1, <2>3 DEF Complete, Readable, Stored
<1>7. ASSUME NEW v \in gens
      PROVE  Coherent(v)' /\ Complete(v)' /\ phase'[v] \in {"check", "commit", "close", "unmirror", "done"}
  <2>1. v \in Op /\ Coherent(v) /\ Complete(v)
    BY DEF WholeInv, TypeOK
  <2>2. Coherent(v)'
    BY <1>2, <2>1, CoherentStep
  <2>3. phase'[v] \in {"check", "commit", "close", "unmirror", "done"}
    BY <2>1, Frozen
  <2> QED BY <1>2, <2>1, <2>2, <2>3 DEF Complete
<1>8. ASSUME NEW v \in Relied
      PROVE  v \in gens /\ Readable(v)'
  BY <1>2 DEF WholeInv, Readable, Stored
<1>9. ASSUME NEW v \in Settled
      PROVE  Sealed(v)'
  <2>1. v \in Op /\ Sealed(v)
    BY ReliedOps DEF WholeInv, TypeOK
  <2> QED BY <2>1, Frozen
<1>10. WholeInv'
  <2>1. meta' # 0
    BY <1>1, <1>2 DEF FenceInv, Live
  <2> QED BY <1>1, <1>2, <1>4, <1>6, <1>7, <1>8, <1>9, <2>1 DEF WholeInv
<1>11. StageInv'
  <2>1. ASSUME NEW i \in Op, Live(i)', phase'[i] = "stage"
        PROVE  Coherent(i)' /\ \A p \in Slot : Staged(i, p)'
    <3>1. Live(i) /\ phase[i] = "stage" /\ Coherent(i) /\ \A p \in Slot : Staged(i, p)
      BY <1>1, <1>3, <2>1 DEF StageInv
    <3>2. Coherent(i)'
      BY <1>2, <3>1, CoherentStep
    <3> QED BY <1>2, <3>1, <3>2 DEF Staged
  <2> QED BY <2>1 DEF StageInv
<1>12. KeepInv'
  BY <1>1, <1>2, ShardAssumption DEF KeepInv, Token
<1>13. SweepInv'
  <2>1. ASSUME NEW t \in Token, NEW s \in Shard, maintenance[s] = t, Harmless(t, s)
        PROVE  Harmless(t, s)'
    <3>1. s \in Slot /\ step[o][s] \in {"none", "staged"}
      BY <1>5, Slots
    <3>2. Part(draft[o], s) \cap deadChunks[t] = {}
          /\ (s \in ShardsOf(draft[o].n) => draft[o].shards[s] \notin deadManifests[t])
      BY <1>1, <2>1, <3>1 DEF Harmless
    <3> QED BY <1>1, <1>2, <1>3, <1>4, <2>1, <3>2 DEF Harmless
  <2>2. \A t \in Token : Front(t)' = Front(t)
    BY <1>2 DEF Front
  <2> QED BY <1>2, <2>1, <2>2 DEF SweepInv, Sweeps
<1> QED BY <1>10, <1>11, <1>12, <1>13

-----------------------------------------------------------------------------
(* Sweeps. A step of one leaves the others alone. *)
PrunesAlone(t) ==
  /\ UNCHANGED <<meta, active, leases, writers, opVars>>
  /\ gens' \subseteq gens /\ (gens' = gens \/ maintenance[Global] = t)
  /\ \A p \in Slot : maintenance'[p] \in {maintenance[p], t}
  /\ \A u \in Token : u # t =>
       /\ pphase'[u] = pphase[u] /\ keep'[u] = keep[u] /\ deadGens'[u] = deadGens[u] /\ goal'[u] = goal[u]
       /\ deadChunks'[u] = deadChunks[u] /\ deadManifests'[u] = deadManifests[u] /\ sweep'[u] = sweep[u]

(* What is relied upon depends on the clients alone. *)
LEMMA Reliance ==
  ASSUME UNCHANGED <<meta, active, leases, writers, opVars>>
  PROVE  /\ Relied' = Relied /\ Settled' = Settled /\ Pinned' = Pinned
         /\ \A o \in Op : Live(o)' = Live(o)
<1>1. \A o \in Op : Live(o)' = Live(o)
  BY DEF Live
<1> QED BY <1>1 DEF Relied, Settled, Pinned

(* It is enough to look at the sweep that takes the step. *)
LEMMA PruneOthers ==
  ASSUME TypeOK, KeepInv, SweepInv, NEW t \in Token, PrunesAlone(t),
         maintenance'[Global] = t /\ pphase'[t] \notin {"idle", "keep", "done"} => Keeps(t)',
         Sweeps(t)'
  PROVE  KeepInv' /\ SweepInv'
<1>1. Relied' = Relied /\ Pinned' = Pinned /\ \A o \in Op : Live(o)' = Live(o)
  BY Reliance DEF PrunesAlone
<1>2. ASSUME NEW u \in Token, u # t
      PROVE  /\ maintenance'[Global] = u /\ pphase'[u] \notin {"idle", "keep", "done"} => Keeps(u)'
             /\ Sweeps(u)'
  <2>1. Front(u)' = Front(u)
    BY <1>2 DEF PrunesAlone, Front
  <2>2. \A p \in Slot : maintenance'[p] = u => maintenance[p] = u
    BY <1>2 DEF PrunesAlone
  <2>3. maintenance[Global] = u => gens' = gens
    BY <1>2 DEF PrunesAlone
  <2>4. ASSUME NEW s \in Shard, Harmless(u, s)
        PROVE  Harmless(u, s)'
    BY <1>1, <1>2, <2>4 DEF PrunesAlone, Harmless
  <2>5. Sweeps(u)'
    BY <1>2, <2>1, <2>2, <2>4, Slots DEF PrunesAlone, SweepInv, Sweeps
  <2>6. ASSUME maintenance'[Global] = u, pphase'[u] \notin {"idle", "keep", "done"}
        PROVE  Keeps(u)'
    <3>1. maintenance[Global] = u /\ gens' = gens
      BY <2>2, <2>3, <2>6, Slots
    <3>2. Keeps(u)
      BY <1>2, <2>6, <3>1 DEF PrunesAlone, KeepInv
    <3> QED BY <1>1, <1>2, <2>1, <3>1, <3>2 DEF PrunesAlone, Keeps
  <2> QED BY <2>5, <2>6
<1> QED BY <1>2 DEF KeepInv, SweepInv

(* A sweep that only reads disturbs no record. *)
LEMMA PruneReads ==
  ASSUME TypeOK, WholeInv, StageInv, UNCHANGED <<storeVars, recordVars, writers, opVars>>
  PROVE  WholeInv' /\ StageInv'
<1>1. Relied' = Relied /\ Settled' = Settled /\ Pinned' = Pinned /\ \A o \in Op : Live(o)' = Live(o)
  BY Reliance
<1>2. \A v : (Coherent(v)' <=> Coherent(v)) /\ (Complete(v)' <=> Complete(v)) /\ (Readable(v)' <=> Readable(v))
             /\ (Sealed(v)' <=> Sealed(v))
  BY DEF Coherent, Complete, Readable, Stored, Sealed, Listed
<1>3. \A o, p : Staged(o, p)' <=> Staged(o, p)
  BY DEF Staged
<1> QED BY <1>1, <1>2, <1>3 DEF WholeInv, StageInv

(* A sweep is granted the collection or a shard. *)
LEMMA PruneTokens ==
  ASSUME TypeOK, FenceInv, WholeInv, StageInv, KeepInv, SweepInv, NEW t \in Token, PruneAcquire(t) \/ PruneGrant(t)
  PROVE  WholeInv' /\ StageInv' /\ KeepInv' /\ SweepInv'
<1>1. WholeInv' /\ StageInv'
  <2>1. UNCHANGED <<storeVars, recordVars, writers, opVars>>
    BY DEF PruneAcquire, PruneGrant
  <2> QED BY <2>1, PruneReads
<1>2. CASE PruneAcquire(t)
  <2>1. PrunesAlone(t) /\ pphase'[t] = "keep" /\ goal'[t] = goal[t] /\ pphase[t] = "idle"
    BY <1>2 DEF PruneAcquire, PrunesAlone, TypeOK
  <2>2. Sweeps(t)'
    BY <2>1 DEF SweepInv, Sweeps
  <2> QED BY <1>1, <2>1, <2>2, PruneOthers
<1>3. CASE PruneGrant(t)
  <2>1. Front(t) \in Shard /\ Front(t) # Global
    BY <1>3, FrontIn, Slots DEF PruneGrant
  <2>2. /\ PrunesAlone(t) /\ pphase'[t] = "renew" /\ pphase[t] \in {"shards", "grant"} /\ sweep[t] # {}
        /\ UNCHANGED <<storeVars, opVars, writers, keep, deadGens, deadChunks, deadManifests, sweep, goal>>
    BY <1>3 DEF PruneGrant, PrunesAlone, TypeOK
  <2>3. maintenance'[Global] = maintenance[Global]
    BY <1>3, <2>1, Slots DEF PruneGrant, TypeOK
  <2>4. Sweeps(t)'
    BY <2>2 DEF SweepInv, Sweeps
  <2>5. ASSUME maintenance'[Global] = t
        PROVE  Keeps(t)'
    <3>1. Keeps(t)
      BY <2>2, <2>3, <2>5 DEF KeepInv
    <3>2. Pinned' = Pinned /\ Front(t)' = Front(t)
      BY <2>2 DEF Pinned, Front
    <3> QED BY <2>2, <3>1, <3>2 DEF Keeps
  <2> QED BY <1>1, <2>2, <2>4, <2>5, PruneOthers
<1> QED BY <1>2, <1>3

(* A sweep goes on in its shard, or to the next one. *)
LEMMA Proceeds ==
  ASSUME TypeOK, KeepInv, SweepInv, NEW t \in Token, NEW dead, NEW deadM, Proceed(t, dead, deadM),
         pphase[t] \in {"list", "chunks", "manifests"},
         maintenance[Global] = t => \A v \in keep[t] :
           /\ Part(draft[v], Front(t)) \cap dead = {}
           /\ Front(t) \in ShardsOf(draft[v].n) => draft[v].shards[Front(t)] \notin deadM
  PROVE  KeepInv' /\ SweepInv'
<1> DEFINE next == IF dead # {} THEN "chunks" ELSE IF deadM # {} THEN "manifests" ELSE "list"
<1>1. /\ UNCHANGED <<ClientVars, tokenVars, keep, deadGens>>
      /\ deadChunks' = [deadChunks EXCEPT ![t] = dead] /\ deadManifests' = [deadManifests EXCEPT ![t] = deadM]
      /\ goal' = [goal EXCEPT ![t] = next]
      /\ sweep' = [sweep EXCEPT ![t] = IF next = "list" THEN sweep[t] \ {Front(t)} ELSE sweep[t]]
      /\ pphase' = [pphase EXCEPT ![t] = IF next = "list" THEN "shards" ELSE "grant"]
  BY DEF Proceed
<1>2. next \in {"chunks", "manifests", "list"}
  OBVIOUS
<1> HIDE DEF next
<1>3. /\ deadChunks'[t] = dead /\ deadManifests'[t] = deadM /\ goal'[t] = next
      /\ pphase'[t] = IF next = "list" THEN "shards" ELSE "grant"
      /\ next # "list" => sweep'[t] = sweep[t]
  BY <1>1 DEF TypeOK
<1>4. PrunesAlone(t)
  BY <1>1 DEF PrunesAlone, TypeOK
<1>5. sweep[t] # {}
  BY DEF SweepInv, Sweeps
<1>6. Sweeps(t)'
  BY <1>2, <1>3, <1>5 DEF Sweeps
<1>7. ASSUME maintenance'[Global] = t
      PROVE  Keeps(t)'
  <2>1. maintenance[Global] = t /\ Keeps(t)
    BY <1>1, <1>7 DEF KeepInv
  <2>2. Pinned' = Pinned
    BY <1>1, Reliance
  <2>3. next # "list" => Front(t)' = Front(t)
    BY <1>3 DEF Front
  <2> QED BY <1>1, <1>2, <1>3, <2>1, <2>2, <2>3 DEF Keeps
<1> QED BY <1>4, <1>6, <1>7, PruneOthers

(* The steps of a sweep that only read. *)
LEMMA PruneLooks ==
  ASSUME TypeOK, FenceInv, WholeInv, StageInv, KeepInv, SweepInv, NEW t \in Token,
         \/ \E recent \in SUBSET gens : PruneKeep(t, recent)
         \/ PruneReferences(t) \/ PruneDiscover(t) \/ PruneRenew(t) \/ PruneList(t) \/ PruneSwept(t) \/ PruneFails(t)
  PROVE  WholeInv' /\ StageInv' /\ KeepInv' /\ SweepInv'
<1>1. UNCHANGED <<storeVars, recordVars, writers, opVars, maintenance>>
  BY Zenon DEF PruneKeep, PruneReferences, PruneDiscover, PruneRenew, PruneList, PruneSwept, PruneFails, Proceed
<1>2. WholeInv' /\ StageInv'
  BY <1>1, PruneReads
<1>3. Pinned' = Pinned /\ Relied' = Relied /\ \A o \in Op : Live(o)' = Live(o)
  BY <1>1, Reliance
<1>4. ASSUME NEW v \in gens
      PROVE  v \in Op /\ Named(v) = draft[v].words
  BY NamedWords DEF WholeInv, TypeOK
<1>5. ASSUME NEW recent \in SUBSET gens, PruneKeep(t, recent)
      PROVE  KeepInv' /\ SweepInv'
  <2>1. PrunesAlone(t) /\ pphase[t] = "keep" /\ pphase'[t] = "refs" /\ goal'[t] = goal[t]
    BY <1>5 DEF PruneKeep, PrunesAlone, TypeOK
  <2>2. Sweeps(t)' /\ goal'[t] = "none"
    BY <2>1 DEF SweepInv, Sweeps
  <2>3. keep'[t] = Pinned \cup recent
    <3>1. 0 \notin gens
      BY ShardAssumption DEF TypeOK, Op
    <3>2. keep'[t] = ({active} \cup recent \cup {leases[r] : r \in Reader}) \ {0}
      BY <1>5 DEF PruneKeep, TypeOK
    <3> QED BY <3>1, <3>2 DEF Pinned
  <2>4. deadGens'[t] = gens \ keep'[t]
    BY <1>5 DEF PruneKeep, TypeOK
  <2>5. Pinned \subseteq gens
    BY ReliedOps DEF WholeInv
  <2>6. Keeps(t)'
    BY <1>1, <1>3, <2>1, <2>2, <2>3, <2>4, <2>5 DEF Keeps
  <2> QED BY <2>1, <2>2, <2>6, PruneOthers
<1>6. ASSUME PruneReferences(t)
      PROVE  KeepInv' /\ SweepInv'
  <2>1. /\ PrunesAlone(t) /\ pphase[t] = "refs" /\ maintenance[Global] = t
        /\ pphase'[t] \in {"globalChunks", "generations"}
        /\ goal'[t] = goal[t] /\ keep'[t] = keep[t] /\ deadGens'[t] = deadGens[t]
        /\ deadChunks'[t] = chunks[Global] \ ChunkRefs(keep[t], Global)
    BY <1>6 DEF PruneReferences, PrunesAlone, TypeOK
  <2>2. Sweeps(t)' /\ goal'[t] = "none"
    BY <2>1 DEF SweepInv, Sweeps
  <2>3. Keeps(t)
    BY <2>1 DEF KeepInv
  <2>4. ASSUME NEW v \in keep[t]
        PROVE  Part(draft[v], Global) \cap deadChunks'[t] = {}
    <3>1. Named(v) = draft[v].words
      BY <1>4, <2>3 DEF Keeps
    <3> QED BY <2>1, <3>1 DEF ChunkRefs, Part
  <2>5. Keeps(t)'
    BY <1>1, <1>3, <2>1, <2>2, <2>3, <2>4 DEF Keeps
  <2> QED BY <2>1, <2>2, <2>5, PruneOthers
<1>7. ASSUME PruneDiscover(t)
      PROVE  KeepInv' /\ SweepInv'
  <2>1. /\ PrunesAlone(t) /\ pphase[t] = "discover" /\ maintenance[Global] = t /\ pphase'[t] = "shards"
        /\ goal'[t] = "list" /\ keep'[t] = keep[t]
    BY <1>7 DEF PruneDiscover, PrunesAlone, TypeOK
  <2>2. Sweeps(t)'
    BY <2>1 DEF Sweeps
  <2>3. Keeps(t)
    BY <2>1 DEF KeepInv
  <2>4. Keeps(t)'
    BY <1>1, <1>3, <2>1, <2>3 DEF Keeps
  <2> QED BY <2>1, <2>2, <2>4, PruneOthers
<1>8. ASSUME PruneRenew(t)
      PROVE  KeepInv' /\ SweepInv'
  <2>1. /\ PrunesAlone(t) /\ pphase[t] = "renew" /\ maintenance[Global] = t /\ pphase'[t] = goal[t]
        /\ UNCHANGED <<keep, deadGens, deadChunks, deadManifests, sweep, goal>>
    BY <1>8 DEF PruneRenew, Renewed, PrunesAlone, TypeOK
  <2>2. Keeps(t) /\ gens = keep[t]
    BY <2>1 DEF KeepInv, Keeps
  <2>3. goal[t] \in {"list", "chunks", "manifests"} /\ sweep[t] # {}
    BY <2>1 DEF SweepInv, Sweeps, TypeOK
  <2>4. Front(t)' = Front(t)
    BY <2>1 DEF Front
  <2>5. Relied = Pinned /\ \A o \in Op : ~ Live(o)
    <3>1. maintenance[Global] # 0
      BY <2>1, ShardAssumption DEF Token
    <3> QED BY <3>1, NoneLive
  <2>6. ASSUME NEW s \in Shard, s = Front(t), goal[t] \in {"chunks", "manifests"}
        PROVE  Harmless(t, s)'
    BY <1>1, <1>3, <2>1, <2>2, <2>5, <2>6 DEF Keeps, Harmless
  <2>7. Sweeps(t)'
    BY <2>1, <2>3, <2>4, <2>6 DEF Sweeps
  <2>8. Keeps(t)'
    BY <1>1, <1>3, <2>1, <2>2, <2>3, <2>4 DEF Keeps
  <2> QED BY <2>1, <2>7, <2>8, PruneOthers
<1>9. ASSUME PruneList(t)
      PROVE  KeepInv' /\ SweepInv'
  <2> DEFINE dead == chunks[Front(t)] \ ChunkRefs(keep[t], Front(t))
             deadM == manifests[Front(t)] \ ManifestRefs(keep[t], Front(t))
  <2>1. Proceed(t, dead, deadM) /\ pphase[t] = "list"
    BY <1>9 DEF PruneList
  <2>2. ASSUME maintenance[Global] = t, NEW v \in keep[t]
        PROVE  /\ Part(draft[v], Front(t)) \cap dead = {}
               /\ Front(t) \in ShardsOf(draft[v].n) => draft[v].shards[Front(t)] \notin deadM
    <3>1. Named(v) = draft[v].words
      BY <1>4, <2>1, <2>2 DEF KeepInv, Keeps
    <3> QED BY <2>2, <3>1 DEF ChunkRefs, ManifestRefs, Part
  <2> QED BY <2>1, <2>2, Proceeds
<1>10. ASSUME PruneSwept(t) \/ PruneFails(t)
       PROVE  KeepInv' /\ SweepInv'
  <2>1. PrunesAlone(t) /\ pphase'[t] = "done" /\ goal'[t] = "none"
    BY <1>10 DEF PruneSwept, PruneFails, PruneReturns, PrunesAlone, TypeOK
  <2>2. Sweeps(t)'
    BY <2>1 DEF Sweeps
  <2> QED BY <2>1, <2>2, PruneOthers
<1> QED BY <1>2, <1>5, <1>6, <1>7, <1>8, <1>9, <1>10

(* The steps of a sweep that delete. *)
LEMMA PruneDeletes ==
  ASSUME TypeOK, FenceInv, WholeInv, StageInv, KeepInv, SweepInv, [Next]_vars, TypeOK', NEW t \in Token,
         PruneGlobalChunks(t) \/ PruneGenerations(t) \/ PruneChunks(t) \/ PruneManifests(t)
  PROVE  WholeInv' /\ StageInv' /\ KeepInv' /\ SweepInv'
<1>1. UNCHANGED <<meta, active, leases, writers, opVars, maintenance>>
  BY Zenon DEF PruneGlobalChunks, PruneGenerations, PruneChunks, PruneManifests, Proceed
<1>2. Relied' = Relied /\ Settled' = Settled /\ Pinned' = Pinned /\ \A o \in Op : Live(o)' = Live(o)
  BY <1>1, Reliance
<1>3. t # 0
  BY ShardAssumption DEF Token
<1>4. ASSUME NEW v \in gens
      PROVE  v \in Op /\ Coherent(v)' /\ Complete(v)
             /\ phase'[v] \in {"check", "commit", "close", "unmirror", "done"}
  BY <1>1, CoherentStep DEF WholeInv, TypeOK
<1>5. ASSUME NEW v \in Settled
      PROVE  Sealed(v)'
  BY <1>1 DEF WholeInv, Sealed
<1>6. ASSUME gens' \subseteq gens, \A v \in gens' : Complete(v)', \A v \in Relied : v \in gens' /\ Readable(v)'
      PROVE  WholeInv'
  BY <1>1, <1>2, <1>4, <1>5, <1>6 DEF WholeInv
<1>7. ASSUME \A o \in Op : Live(o) /\ phase[o] = "stage" => \A p \in Slot : Staged(o, p)'
      PROVE  StageInv'
  <2>1. \A o \in Op : Coherent(o) => Coherent(o)'
    BY <1>1, CoherentStep
  <2> QED BY <1>1, <1>2, <1>7, <2>1 DEF StageInv
<1>8. ASSUME NEW v \in Relied
      PROVE  /\ v \in gens /\ v \in Op /\ \A p \in Slot : Part(draft[v], p) \subseteq chunks[p]
             /\ (\A p \in Slot : Part(draft[v], p) \subseteq chunks'[p]) => Readable(v)'
  <2>1. v \in gens /\ v \in Op /\ Readable(v)
    BY DEF WholeInv, TypeOK
  <2>2. /\ \A p \in Slot : Part(draft[v], p) \subseteq chunks[p]
        /\ \A k \in draft[v].words : Home(k, draft[v].n) \in Slot
    BY <2>1, Parts
  <2> QED BY <1>1, <2>1, <2>2 DEF Readable, Stored, Part
<1>9. ASSUME PruneGlobalChunks(t)
      PROVE  WholeInv' /\ StageInv' /\ KeepInv' /\ SweepInv'
  <2>1. /\ PrunesAlone(t) /\ pphase[t] = "globalChunks" /\ maintenance[Global] = t /\ pphase'[t] = "generations"
        /\ UNCHANGED <<gens, manifests, keep, deadGens, deadChunks, deadManifests, sweep, goal>>
        /\ chunks' = [chunks EXCEPT ![Global] = @ \ deadChunks[t]]
    BY <1>9 DEF PruneGlobalChunks, PrunesAlone, TypeOK
  <2>2. Keeps(t) /\ goal[t] = "none" /\ Sweeps(t)'
    BY <2>1 DEF KeepInv, SweepInv, Sweeps
  <2>3. Relied = Pinned /\ \A o \in Op : ~ Live(o)
    BY <1>3, <2>1, NoneLive
  <2>4. ASSUME NEW v \in Relied
        PROVE  Readable(v)'
    <3>1. Part(draft[v], Global) \cap deadChunks[t] = {}
      BY <2>1, <2>2, <2>3 DEF Keeps
    <3> QED BY <1>8, <2>1, <3>1 DEF TypeOK
  <2>5. WholeInv'
    BY <1>4, <1>6, <1>8, <2>1, <2>4, <1>1 DEF Complete
  <2>6. Keeps(t)'
    BY <1>1, <1>2, <2>1, <2>2 DEF Keeps
  <2> QED BY <1>7, <2>1, <2>2, <2>3, <2>5, <2>6, PruneOthers
<1>10. ASSUME PruneGenerations(t)
       PROVE  WholeInv' /\ StageInv' /\ KeepInv' /\ SweepInv'
  <2>1. /\ pphase[t] = "generations" /\ (deadGens[t] # {} => maintenance[Global] = t) /\ pphase'[t] = "discover"
        /\ UNCHANGED <<recordVars, keep, deadGens, deadChunks, deadManifests, sweep, goal>>
        /\ gens' = gens \ deadGens[t]
    BY <1>10 DEF PruneGenerations, TypeOK
  <2>2. PrunesAlone(t)
    BY <1>10, <2>1 DEF PruneGenerations, PrunesAlone, TypeOK
  <2>3. goal[t] = "none" /\ Sweeps(t)'
    BY <2>1 DEF SweepInv, Sweeps
  <2>4. ASSUME maintenance[Global] = t
        PROVE  Keeps(t) /\ Relied = Pinned /\ gens' = keep[t]
    BY <1>3, <2>1, <2>4, NoneLive DEF KeepInv, Keeps
  <2>5. ASSUME NEW v \in Relied
        PROVE  v \in gens'
    BY <1>8, <2>1, <2>4 DEF Keeps
  <2>6. ASSUME NEW v \in Relied
        PROVE  Readable(v)'
    BY <1>8, <2>1
  <2>7. WholeInv'
    <3>1. \A v \in gens' : Complete(v)'
      BY <1>1, <1>4, <2>1 DEF Complete
    <3> QED BY <1>6, <2>1, <2>5, <2>6, <3>1
  <2>8. StageInv'
    <3>1. \A o, p : Staged(o, p)' <=> Staged(o, p)
      BY <1>1, <2>1 DEF Staged
    <3> QED BY <1>7, <3>1 DEF StageInv
  <2>9. ASSUME maintenance[Global] = t
        PROVE  Keeps(t)'
    BY <1>1, <1>2, <2>1, <2>3, <2>4, <2>9 DEF Keeps
  <2> QED BY <1>1, <2>2, <2>3, <2>7, <2>8, <2>9, PruneOthers
<1>11. ASSUME NEW s \in Shard, s = Front(t), pphase[t] \in {"chunks", "manifests"}, maintenance[s] = t
       PROVE  Harmless(t, s)
  BY <1>11 DEF SweepInv, Sweeps
<1>12. ASSUME pphase[t] \in {"chunks", "manifests"}
       PROVE  Front(t) \in Shard /\ goal[t] = pphase[t]
  BY <1>12, FrontIn DEF SweepInv, Sweeps
<1>13. ASSUME PruneChunks(t)
       PROVE  WholeInv' /\ StageInv' /\ KeepInv' /\ SweepInv'
  <2>1. PICK s \in Shard : s = Front(t)
    BY <1>12, <1>13 DEF PruneChunks
  <2>2. /\ pphase[t] = "chunks" /\ maintenance[s] = t /\ chunks' = [chunks EXCEPT ![s] = @ \ deadChunks[t]]
        /\ Proceed(t, {}, deadManifests[t]) /\ UNCHANGED <<manifests, gens>>
    BY <1>13, <2>1 DEF PruneChunks, Proceed
  <2>3. Harmless(t, s)
    BY <1>11, <2>1, <2>2
  <2>4. \A p \in Slot : chunks'[p] = IF p = s THEN chunks[s] \ deadChunks[t] ELSE chunks[p]
    BY <2>2 DEF TypeOK
  <2>5. ASSUME NEW v \in Relied
        PROVE  v \in gens' /\ Readable(v)'
    <3>1. Part(draft[v], s) \cap deadChunks[t] = {}
      BY <2>3 DEF Harmless
    <3> QED BY <1>8, <2>2, <2>4, <3>1
  <2>6. WholeInv'
    <3>1. \A v \in gens' : Complete(v)'
      BY <1>1, <1>4, <2>2 DEF Complete
    <3> QED BY <1>6, <2>2, <2>5, <3>1
  <2>7. StageInv'
    <3>1. ASSUME NEW o \in Op, Live(o), phase[o] = "stage", NEW p \in Slot
          PROVE  Staged(o, p)'
      <4>1. Staged(o, p)
        BY <3>1 DEF StageInv
      <4>2. CASE p # s
        BY <1>1, <2>2, <2>4, <4>1, <4>2 DEF Staged
      <4>3. CASE p = s
        <5>1. \/ step[o][s] = "mirror" /\ (Part(draft[o], s) \ fresh[o]) \cap deadChunks[t] = {}
              \/ step[o][s] = "none" /\ Part(draft[o], s) \cap deadChunks[t] = {}
          BY <2>3, <3>1 DEF Harmless
        <5> QED BY <1>1, <2>2, <2>4, <4>1, <4>3, <5>1 DEF Staged
      <4> QED BY <4>2, <4>3
    <3> QED BY <1>7, <3>1
  <2>8. KeepInv' /\ SweepInv'
    <3>1. goal[t] = "chunks"
      BY <1>12, <2>2
    <3>2. maintenance[Global] = t => Keeps(t)
      BY <2>2 DEF KeepInv
    <3> QED BY <2>2, <3>1, <3>2, Proceeds DEF Keeps
  <2> QED BY <2>6, <2>7, <2>8
<1>14. ASSUME PruneManifests(t)
       PROVE  WholeInv' /\ StageInv' /\ KeepInv' /\ SweepInv'
  <2>1. PICK s \in Shard : s = Front(t)
    BY <1>12, <1>14 DEF PruneManifests
  <2>2. /\ pphase[t] = "manifests" /\ maintenance[s] = t
        /\ manifests' = [manifests EXCEPT ![s] = @ \ deadManifests[t]]
        /\ Proceed(t, {}, {}) /\ UNCHANGED <<chunks, gens>>
    BY <1>14, <2>1 DEF PruneManifests, Proceed
  <2>3. Harmless(t, s)
    BY <1>11, <2>1, <2>2
  <2>4. \A p \in Slot : manifests'[p] = IF p = s THEN manifests[s] \ deadManifests[t] ELSE manifests[p]
    BY <2>2 DEF TypeOK
  <2>5. ASSUME NEW v \in gens
        PROVE  Complete(v)'
    <3>1. s \in ShardsOf(draft[v].n) => draft[v].shards[s] \notin deadManifests[t]
      BY <2>3 DEF Harmless
    <3>2. ShardsOf(draft[v].n) \subseteq Slot
      BY <1>4, Parts, Slots
    <3> QED BY <1>1, <1>4, <2>4, <3>1, <3>2 DEF Complete
  <2>6. WholeInv'
    BY <1>6, <1>8, <2>2, <2>5
  <2>7. StageInv'
    <3>1. ASSUME NEW o \in Op, Live(o), phase[o] = "stage", NEW p \in Slot
          PROVE  Staged(o, p)'
      <4>1. Staged(o, p)
        BY <3>1 DEF StageInv
      <4>2. CASE p # s
        BY <1>1, <2>2, <2>4, <4>1, <4>2 DEF Staged
      <4>3. CASE p = s
        <5>1. \/ step[o][s] = "mirror"
              \/ step[o][s] = "none" /\ (s \in ShardsOf(draft[o].n) => draft[o].shards[s] \notin deadManifests[t])
          BY <2>3, <3>1 DEF Harmless
        <5> QED BY <1>1, <2>2, <2>4, <4>1, <4>3, <5>1 DEF Staged
      <4> QED BY <4>2, <4>3
    <3> QED BY <1>7, <3>1
  <2>8. KeepInv' /\ SweepInv'
    BY <2>2, Proceeds
  <2> QED BY <2>6, <2>7, <2>8
<1> QED BY <1>9, <1>10, <1>13, <1>14

-----------------------------------------------------------------------------
(* The whole invariant. *)
LEMMA ShardInit ==
  ASSUME Init
  PROVE  ShardInv
<1>1. TypeOK
  BY TypeInit
<1>2. Pinned = {} /\ \A o \in Op : ~ Live(o)
  BY Slots DEF Init, Pinned, Live
<1>3. Relied = {} /\ Settled = {}
  BY <1>2 DEF Relied, Settled
<1>4. FenceInv
  BY Slots DEF Init, FenceInv
<1>5. WholeInv
  BY <1>3 DEF Init, WholeInv
<1>6. SeedInv /\ StageInv
  BY <1>2 DEF Init, SeedInv, StageInv
<1>7. KeepInv /\ SweepInv
  BY DEF Init, KeepInv, SweepInv, Sweeps
<1>8. LateMirrorRefused
  BY Slots DEF Init, LateMirrorRefused
<1> QED BY <1>1, <1>4, <1>5, <1>6, <1>7, <1>8 DEF ShardInv

(* Every step keeps the invariant. *)
LEMMA ShardStep ==
  ASSUME ShardInv, [Next]_vars
  PROVE  ShardInv'
<1> USE DEF ShardInv
<1>1. TypeOK'
  BY TypeStep
<1>2. FenceInv' /\ SeedInv' /\ LateMirrorRefused'
  BY FenceStep, SeedStep, LateStep
<1> DEFINE Rest == WholeInv' /\ StageInv' /\ KeepInv' /\ SweepInv'
<1>3. ASSUME Quiet
      PROVE  Rest
  BY <1>1, <1>3, QuietStep
<1>4. ASSUME NEW o \in Op, OpNext(o)
      PROVE  Rest
  <2>1. CASE (\E n \in Counts : InitialManifest(o, n)) \/ Acquire(o) \/ SeedShard(o)
    BY <1>3, <2>1, QuietBegin, SeedSteady
  <2>2. CASE Create(o)
    BY <1>1, <2>2, CreateStep
  <2>3. CASE (\E req \in Requests : Change(o, req)) \/ (\E n \in Counts : Reshard(o, n))
    BY <1>1, <2>3, PlanStep
  <2>4. CASE (\E s \in Shard : StageManifest(o, s)) \/ (\E p \in Slot : StageChunks(o, p))
    BY <1>1, <2>4, StageRecords, SteadyStep
  <2>5. CASE \/ \E s \in Shard : ReadDeadline(o, s)
             \/ \E slots \in SUBSET Slot \ {{}} : LeaseExpires(o, slots)
             \/ CheckGeneration(o)
    BY <1>3, <2>5, QuietRest
  <2>6. CASE StageGeneration(o)
    BY <1>1, <2>6, GenerationStep
  <2>7. CASE Commit(o) \/ Fails(o) \/ CloseLease(o) \/ CloseMirrors(o)
    BY <1>3, <2>7, QuietEnd
  <2> QED BY <1>4, <2>1, <2>2, <2>3, <2>4, <2>5, <2>6, <2>7 DEF OpNext
<1>5. ASSUME NEW m \in mail, Mirror(m)
      PROVE  Rest
  BY <1>1, <1>5, StageRecords, SteadyStep
<1>6. ASSUME NEW r \in Reader, OpenSnapshot(r) \/ SnapshotEnds(r)
      PROVE  Rest
  BY <1>3, <1>6, QuietRest
<1>7. ASSUME NEW t \in Token, PruneNext(t)
      PROVE  Rest
  <2>1. CASE \E slots \in SUBSET Slot \ {{}} : TokenEnds(t, slots)
    BY <1>3, <2>1, QuietRest
  <2>2. CASE ~ \E slots \in SUBSET Slot \ {{}} : TokenEnds(t, slots)
    BY <1>1, <1>7, <2>2, PruneTokens, PruneLooks, PruneDeletes DEF PruneNext
  <2> QED BY <2>1, <2>2
<1>8. ASSUME UNCHANGED vars
      PROVE  Rest
  BY <1>3, <1>8, QuietRest
<1>9. Rest
  BY <1>4, <1>5, <1>6, <1>7, <1>8 DEF Next
<1> QED BY <1>1, <1>2, <1>9

(* The sharded layout stays whole under every interleaving of writers,     *)
(* snapshots and sweeps across the slots, whatever fails, expires or is    *)
(* delayed: every record names manifests that are there, and whatever is   *)
(* read or may be committed has all its chunks.                            *)
THEOREM ShardsCorrect == Spec => []ShardInv
<1>1. Init => ShardInv
  BY ShardInit
<1>2. ShardInv /\ [Next]_vars => ShardInv'
  BY ShardStep
<1> QED BY <1>1, <1>2, PTL DEF Spec

(* Every generation record can be loaded: pruneReferences never meets one  *)
(* that lacks a shard manifest.                                            *)
THEOREM RecordsLoad == Spec => []GenerationsLoad
<1>1. ShardInv => GenerationsLoad
  BY LoadsWhole DEF ShardInv, WholeInv, GenerationsLoad
<1> QED BY <1>1, ShardsCorrect, PTL

(* What is active or pinned by a snapshot is read back whole, as its       *)
(* writer meant it.                                                        *)
THEOREM PinnedReadable == Spec => []PinnedReads
<1>1. ASSUME ShardInv
      PROVE  PinnedReads
  <2>1. ASSUME NEW v \in Pinned
        PROVE  Loads(v) /\ Named(v) = draft[v].words /\ \A k \in Named(v) : Stored(k, draft[v].n)
    <3>1. v \in gens /\ v \in Op /\ Readable(v) /\ Coherent(v) /\ Complete(v) /\ TypeOK
      BY <1>1, ReliedOps DEF ShardInv, WholeInv
    <3> QED BY <3>1, LoadsWhole, NamedWords DEF Readable
  <2> QED BY <2>1 DEF PinnedReads, Pinned
<1> QED BY <1>1, ShardsCorrect, PTL

(* A shard that was granted to a sweep holds no lease of a writer that     *)
(* began before it, however late its mirror script arrives.                *)
THEOREM LateMirrors == Spec => []LateMirrorRefused
<1>1. ShardInv => LateMirrorRefused
  BY DEF ShardInv
<1> QED BY <1>1, ShardsCorrect, PTL
=============================================================================
