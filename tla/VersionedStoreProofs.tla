------------------------ MODULE VersionedStoreProofs ------------------------
(***************************************************************************)
(* Proofs about VersionedStore, for any operations, keywords, snapshots,   *)
(* pruners, batch size and number of prunes. The inductive invariant is    *)
(* StoreInv; after type correctness and the facts every part uses (what    *)
(* cannot change again), there is one lemma per part of it.                *)
(***************************************************************************)
EXTENDS VersionedStore, TLAPS

(* Applying a call to a set of keywords gives a set of keywords (v3Apply). *)
LEMMA ApplyType ==
  ASSUME NEW r \in Requests, NEW w \in SUBSET Keyword
  PROVE  Apply(r, w) \in SUBSET Keyword
BY RequestAssumption DEF RequestType, Apply

USE DEF redisVars, commitVars, recordVars, manifestVars, leaseVars, tokenVars, writerVars,
        callVars, stageVars, snapVars, pruneVars, refVars, deadVars

(* The initial state, as initialize leaves it, has values of the right kind. *)
LEMMA TypeInit ==
  ASSUME Init
  PROVE  TypeOK
BY RequestAssumption, StoreAssumption DEF Init, TypeOK, Version, DeleteRequest, NoDelete, Refusals

(* Writing keeps the types; change() reads the call of an operation that   *)
(* has one.                                                                *)
LEMMA TypeWriterStep ==
  ASSUME TypeOK, OpInv, NEW o \in Op
  PROVE  /\ \A r \in Requests, e \in Version : AcquireWriter(o, r, e) => TypeOK'
         /\ Prepare(o) => TypeOK'
         /\ \A k \in Keyword : StageChunk(o, k) => TypeOK'
         /\ StageManifest(o) => TypeOK'
         /\ Retransmit(o) => TypeOK'
         /\ Staged(o) => TypeOK'
         /\ Commit(o) => TypeOK'
         /\ WriteFails(o) => TypeOK'
         /\ ResolveOperation(o) => TypeOK'
<1> USE DEF TypeOK, Refusals, Return
<1>1. ASSUME NEW r \in Requests, NEW e \in Version, AcquireWriter(o, r, e)
      PROVE  TypeOK'
  BY <1>1, SMTT(30) DEF AcquireWriter
<1>2. ASSUME Prepare(o)
      PROVE  TypeOK'
  <2>1. request[o] \in Requests /\ words[expected[o]] \in SUBSET Keyword
    BY <1>2, SMTT(30) DEF Prepare, OpInv
  <2>2. Apply(request[o], words[expected[o]]) \in SUBSET Keyword
    BY <2>1, ApplyType
  <2>3. /\ words' = words \/ words' = [words EXCEPT ![o] = Apply(request[o], words[expected[o]])]
        /\ seq' = seq \/ seq' = [seq EXCEPT ![o] = seq[expected[o]] + 1]
        /\ \/ todo' = todo
           \/ todo' = [todo EXCEPT ![o] = Apply(request[o], words[expected[o]]) \ words[expected[o]]]
        /\ changed' = changed \/ changed' = [changed EXCEPT ![o] = TRUE]
        /\ todoGen' = todoGen \/ todoGen' = [todoGen EXCEPT ![o] = TRUE]
        /\ sent' = sent \/ sent' = [sent EXCEPT ![o] = TRUE]
        /\ \E ph \in {"staging", "committing"} : phase' = [phase EXCEPT ![o] = ph]
    BY <1>2, Zenon DEF Prepare
  <2>4. /\ words \in [Version -> SUBSET Keyword] /\ seq \in [Version -> Nat]
        /\ seq[expected[o]] + 1 \in Nat /\ todo \in [Op -> SUBSET Keyword]
        /\ changed \in [Op -> BOOLEAN] /\ todoGen \in [Op -> BOOLEAN] /\ sent \in [Op -> BOOLEAN]
        /\ phase \in [Op -> {"idle", "leased", "staging", "committing", "done"}]
    OBVIOUS
  <2>5. /\ words' \in [Version -> SUBSET Keyword] /\ seq' \in [Version -> Nat]
        /\ todo' \in [Op -> SUBSET Keyword]
        /\ changed' \in [Op -> BOOLEAN] /\ todoGen' \in [Op -> BOOLEAN] /\ sent' \in [Op -> BOOLEAN]
        /\ phase' \in [Op -> {"idle", "leased", "staging", "committing", "done"}]
    <3> HIDE DEF TypeOK
    <3>1. words' \in [Version -> SUBSET Keyword]
      BY <2>2, <2>3, <2>4
    <3>2. seq' \in [Version -> Nat]
      BY <2>3, <2>4
    <3>3. todo' \in [Op -> SUBSET Keyword]
      <4>1. Apply(request[o], words[expected[o]]) \ words[expected[o]] \in SUBSET Keyword
        BY <2>2
      <4> QED BY <2>3, <2>4, <4>1
    <3>4. /\ changed' \in [Op -> BOOLEAN] /\ todoGen' \in [Op -> BOOLEAN] /\ sent' \in [Op -> BOOLEAN]
          /\ phase' \in [Op -> {"idle", "leased", "staging", "committing", "done"}]
      BY <2>3, <2>4
    <3> QED BY <3>1, <3>2, <3>3, <3>4
  <2> QED BY <1>2, <2>5 DEF Prepare
<1>3. ASSUME NEW k \in Keyword, StageChunk(o, k)
      PROVE  TypeOK'
  BY <1>3 DEF StageChunk
<1>4. ASSUME StageManifest(o)
      PROVE  TypeOK'
  <2>1. CASE StageAllowed(o)
    BY <1>4, <2>1 DEF StageManifest, Version
  <2>2. CASE ~StageAllowed(o)
    BY <1>4, <2>2 DEF StageManifest
  <2> QED BY <2>1, <2>2
<1>5. ASSUME Retransmit(o)
      PROVE  TypeOK'
  BY <1>5 DEF Retransmit, Version
<1>6. ASSUME Staged(o)
      PROVE  TypeOK'
  BY <1>6 DEF Staged
<1>7. ASSUME Commit(o)
      PROVE  TypeOK'
  <2>1. CommitReply(o) \in Refusals \cup {"committed"}
    BY DEF CommitReply
  <2>2. o \in Version /\ Target(o) \in Version
    BY DEF Target, Version
  <2>3. /\ phase' \in [Op -> {"idle", "leased", "staging", "committing", "done"}]
        /\ result' \in [Op -> Refusals \cup {"none", "committed", "unknown", "error"}]
        /\ writers' \in SUBSET Op
        /\ expired' \in SUBSET (Op \cup Snap)
    BY <1>7, <2>1, SMTT(30) DEF Commit
  <2>4. CASE CommitReply(o) = "committed" /\ o \notin receipts
    <3>1. active' \in Version /\ receipts' \in SUBSET Op /\ recent' \in SUBSET Version
      BY <1>7, <2>2, <2>4 DEF Commit
    <3>2. committed' \in [Version -> Nat]
      BY <1>7, <2>2, <2>4, SMTT(30) DEF Commit
    <3> QED BY <1>7, <2>4, <2>3, <3>1, <3>2 DEF Commit
  <2>5. CASE ~(CommitReply(o) = "committed" /\ o \notin receipts)
    BY <1>7, <2>3, <2>5 DEF Commit
  <2> QED BY <2>4, <2>5
<1>8. ASSUME WriteFails(o)
      PROVE  TypeOK'
  BY <1>8 DEF WriteFails
<1>9. ASSUME ResolveOperation(o)
      PROVE  TypeOK'
  BY <1>9 DEF ResolveOperation
<1> QED BY <1>1, <1>2, <1>3, <1>4, <1>5, <1>6, <1>7, <1>8, <1>9

(* Snapshots and their reads keep the types. *)
LEMMA TypeSnapshotStep ==
  ASSUME TypeOK, NEW s \in Snap
  PROVE  /\ SnapshotAcquire(s) => TypeOK'
         /\ SnapshotManifest(s) => TypeOK'
         /\ ListStart(s) => TypeOK'
         /\ \A k \in Keyword : ListBucket(s, k) => TypeOK'
         /\ ListEnd(s) => TypeOK'
         /\ SnapshotClose(s) => TypeOK'
<1> USE DEF TypeOK
<1>1. ASSUME SnapshotAcquire(s)
      PROVE  TypeOK'
  BY <1>1 DEF SnapshotAcquire
<1>2. ASSUME SnapshotManifest(s)
      PROVE  TypeOK'
  BY <1>2 DEF SnapshotManifest
<1>3. ASSUME ListStart(s)
      PROVE  TypeOK'
  BY <1>3 DEF ListStart
<1>4. ASSUME NEW k \in Keyword, ListBucket(s, k)
      PROVE  TypeOK'
  BY <1>4 DEF ListBucket
<1>5. ASSUME ListEnd(s)
      PROVE  TypeOK'
  BY <1>5 DEF ListEnd
<1>6. ASSUME SnapshotClose(s)
      PROVE  TypeOK'
  BY <1>6 DEF SnapshotClose
<1> QED BY <1>1, <1>2, <1>3, <1>4, <1>5, <1>6

(* Prune keeps the types. *)
LEMMA TypePruneStep ==
  ASSUME TypeOK, NEW p \in Pruner
  PROVE  /\ PruneAcquire(p) => TypeOK'
         /\ KeepActive(p) \/ KeepLeases(p) \/ KeepRecent(p) => TypeOK'
         /\ RefFence(p) => TypeOK'
         /\ \A v \in Version : RefLoad(p, v) => TypeOK'
         /\ Candidates(p) => TypeOK'
         /\ SendDelete(p) => TypeOK'
         /\ DeleteBatch(p) => TypeOK'
         /\ PruneReturn(p) => TypeOK'
<1> USE DEF TypeOK, PruneReads
<1>1. ASSUME PruneAcquire(p)
      PROVE  TypeOK'
  <2>1. CASE maintenance # 0 \/ writers' # {}
    BY <1>1, <2>1 DEF PruneAcquire
  <2>2. CASE ~(maintenance # 0 \/ writers' # {})
    <3>1. fence' \in Nat /\ maintenance' \in Nat /\ token' \in [Pruner -> Nat]
      <4>1. fence' = fence + 1 /\ maintenance' = fence + 1 /\ token' = [token EXCEPT ![p] = fence + 1]
        BY <1>1, <2>2 DEF PruneAcquire
      <4>2. fence \in Nat /\ token \in [Pruner -> Nat]
        OBVIOUS
      <4> HIDE DEF TypeOK
      <4> QED BY <4>1, <4>2
    <3> QED BY <1>1, <2>2, <3>1 DEF PruneAcquire
  <2> QED BY <2>1, <2>2
<1>2. ASSUME KeepActive(p)
      PROVE  TypeOK'
  BY <1>2 DEF KeepActive
<1>3. ASSUME KeepLeases(p)
      PROVE  TypeOK'
  <2>1. {pinned[s] : s \in leases} \subseteq Version
    OBVIOUS
  <2> QED BY <1>3, <2>1 DEF KeepLeases
<1>4. ASSUME KeepRecent(p)
      PROVE  TypeOK'
  BY <1>4 DEF KeepRecent
<1>5. ASSUME RefFence(p)
      PROVE  TypeOK'
  BY <1>5 DEF RefFence
<1>6. ASSUME NEW v \in Version, RefLoad(p, v)
      PROVE  TypeOK'
  <2>1. CASE v \in gens
    <3>1. refs[p] \cup words[v] \in SUBSET Keyword /\ toLoad[p] \ {v} \in SUBSET Version
      OBVIOUS
    <3>2. refs' \in [Pruner -> SUBSET Keyword]
      BY <1>6, <2>1, <3>1, SMTT(30) DEF RefLoad
    <3>3. toLoad' \in [Pruner -> SUBSET Version]
      BY <1>6, <2>1, <3>1 DEF RefLoad
    <3> QED BY <1>6, <2>1, <3>2, <3>3 DEF RefLoad
  <2>2. CASE v \notin gens
    BY <1>6, <2>2 DEF RefLoad
  <2> QED BY <2>1, <2>2
<1>7. ASSUME Candidates(p)
      PROVE  TypeOK'
  BY <1>7 DEF Candidates
<1>8. ASSUME SendDelete(p)
      PROVE  TypeOK'
  <2>1. NextDeletes(p) \subseteq DeleteRequest
    BY DEF NextDeletes, Batches, DeleteRequest
  <2>2. CASE Holds(p)
    <3>1. PICK d \in NextDeletes(p) : deletes' = deletes \cup {d} /\ batch' = [batch EXCEPT ![p] = d]
      BY <1>8, <2>2 DEF SendDelete
    <3>2. deletes' \in SUBSET DeleteRequest /\ batch' \in [Pruner -> DeleteRequest]
      BY <2>1, <3>1
    <3> QED BY <1>8, <2>2, <3>2 DEF SendDelete
  <2>3. CASE ~Holds(p)
    BY <1>8, <2>3 DEF SendDelete
  <2> QED BY <2>2, <2>3
<1>9. ASSUME DeleteBatch(p)
      PROVE  TypeOK'
  BY <1>9 DEF DeleteBatch, RunDelete
<1>10. ASSUME PruneReturn(p)
       PROVE  TypeOK'
  BY <1>10 DEF PruneReturn, NoDelete, DeleteRequest
<1> QED BY <1>1, <1>2, <1>3, <1>4, <1>5, <1>6, <1>7, <1>8, <1>9, <1>10

(* Every step keeps the types. *)
LEMMA TypeStep ==
  ASSUME TypeOK, OpInv, [Next]_vars
  PROVE  TypeOK'
<1> USE DEF TypeOK
<1>1. ASSUME NEW d \in deletes, DeleteLate(d)
      PROVE  TypeOK'
  BY <1>1 DEF DeleteLate, RunDelete
<1>2. ASSUME NEW m \in Op \cup Snap, Expire(m)
      PROVE  TypeOK'
  BY <1>2 DEF Expire
<1>3. ASSUME MaintenanceExpires
      PROVE  TypeOK'
  BY <1>3 DEF MaintenanceExpires
<1>4. ASSUME NEW v \in Version, Age(v)
      PROVE  TypeOK'
  BY <1>4 DEF Age
<1>5. CASE UNCHANGED vars
  BY <1>5 DEF vars
<1>6. SUFFICES ASSUME Next PROVE TypeOK'
  BY <1>5
<1> HIDE DEF TypeOK
<1> QED
  BY <1>1, <1>2, <1>3, <1>4, <1>6, TypeWriterStep, TypeSnapshotStep, TypePruneStep
  DEF Next, WriterNext, SnapshotNext, PruneNext, RedisNext

-----------------------------------------------------------------------------
(***************************************************************************)
(* Who changes what.                                                       *)
(***************************************************************************)

(* Writers leave snapshots, pruners and tokens alone. *)
LEMMA WriterFootprint ==
  ASSUME NEW o \in Op, WriterNext(o)
  PROVE  UNCHANGED <<leases, tokenVars, snapVars, pruneVars>>
BY DEF WriterNext, AcquireWriter, Prepare, StageChunk, StageManifest, Retransmit, Staged,
       Commit, WriteFails, ResolveOperation

(* Snapshots only touch their leases. *)
LEMMA SnapshotFootprint ==
  ASSUME NEW s \in Snap, SnapshotNext(s)
  PROVE  UNCHANGED <<commitVars, recordVars, manifestVars, writers, tokenVars, writerVars,
                     pruneVars>>
BY DEF SnapshotNext, SnapshotAcquire, SnapshotManifest, ListStart, ListBucket, ListEnd,
       SnapshotClose

(* Pruners commit nothing and leave the other clients alone. *)
LEMMA PruneFootprint ==
  ASSUME NEW p \in Pruner, PruneNext(p)
  PROVE  UNCHANGED <<commitVars, manifestVars, writerVars, snapVars>>
BY DEF PruneNext, PruneReads, PruneAcquire, KeepActive, KeepLeases, KeepRecent, RefFence,
       RefLoad, Candidates, SendDelete, RunDelete, DeleteBatch, PruneReturn

(* So do time and late scripts. *)
LEMMA RedisFootprint ==
  ASSUME RedisNext
  PROVE  UNCHANGED <<commitVars, manifestVars, writers, leases, fence, writerVars, snapVars,
                     pruneVars>>
BY DEF RedisNext, DeleteLate, RunDelete, Expire, MaintenanceExpires, Age

(* Only the commit script moves the active version and writes receipts. *)
LEMMA CommitFrame ==
  ASSUME [Next]_vars
  PROVE  \/ UNCHANGED <<active, committed, receipts>>
         \/ \E o \in Op : Commit(o)
<1>1. ASSUME NEW o \in Op, WriterNext(o)
      PROVE  \/ UNCHANGED <<active, committed, receipts>>
             \/ Commit(o)
  BY <1>1 DEF WriterNext, AcquireWriter, Prepare, StageChunk, StageManifest, Retransmit,
         Staged, WriteFails, ResolveOperation, Return
<1> QED BY <1>1, SnapshotFootprint, PruneFootprint, RedisFootprint DEF Next, vars

(* Manifests are computed once. *)
LEMMA ManifestFrame ==
  ASSUME [Next]_vars
  PROVE  \/ UNCHANGED <<words, seq, changed>>
         \/ \E o \in Op : Prepare(o)
<1>1. ASSUME NEW o \in Op, WriterNext(o)
      PROVE  \/ UNCHANGED <<words, seq, changed>>
             \/ Prepare(o)
  BY <1>1 DEF WriterNext, AcquireWriter, StageChunk, StageManifest, Retransmit, Staged,
         Commit, WriteFails, ResolveOperation, Return
<1> QED BY <1>1, SnapshotFootprint, PruneFootprint, RedisFootprint DEF Next, vars

(* What was called, and against which version, is set once. *)
LEMMA CallFrame ==
  ASSUME [Next]_vars
  PROVE  \/ UNCHANGED <<request, expected>>
         \/ \E o \in Op, r \in Requests, e \in Version : AcquireWriter(o, r, e)
<1>1. ASSUME NEW o \in Op, WriterNext(o)
      PROVE  \/ UNCHANGED <<request, expected>>
             \/ \E r \in Requests, e \in Version : AcquireWriter(o, r, e)
  BY <1>1 DEF WriterNext, Prepare, StageChunk, StageManifest, Retransmit, Staged,
         Commit, WriteFails, ResolveOperation, Return
<1> QED BY <1>1, SnapshotFootprint, PruneFootprint, RedisFootprint DEF Next, vars

(* Records are staged, and deleted by the delete script. *)
LEMMA RecordFrame ==
  ASSUME [Next]_vars
  PROVE  \/ UNCHANGED <<gens, chunks>>
         \/ \E o \in Op, k \in Keyword : StageChunk(o, k)
         \/ \E o \in Op : StageManifest(o)
         \/ \E p \in Pruner : DeleteBatch(p)
         \/ \E d \in deletes : DeleteLate(d)
<1>1. ASSUME NEW o \in Op, WriterNext(o)
      PROVE  \/ UNCHANGED <<gens, chunks>>
             \/ \E k \in Keyword : StageChunk(o, k)
             \/ StageManifest(o)
  BY <1>1 DEF WriterNext, AcquireWriter, Prepare, Retransmit, Staged, Commit,
         WriteFails, ResolveOperation, Return
<1>2. ASSUME NEW p \in Pruner, PruneNext(p)
      PROVE  \/ UNCHANGED <<gens, chunks>>
             \/ DeleteBatch(p)
  BY <1>2 DEF PruneNext, PruneAcquire, KeepActive, KeepLeases, KeepRecent, RefFence,
         RefLoad, Candidates, SendDelete, PruneReturn, PruneReads
<1>3. ASSUME RedisNext
      PROVE  \/ UNCHANGED <<gens, chunks>>
             \/ \E d \in deletes : DeleteLate(d)
  BY <1>3 DEF RedisNext, Expire, MaintenanceExpires, Age
<1> QED BY <1>1, <1>2, <1>3, SnapshotFootprint DEF Next, vars

(* The scores of the generations registry. *)
LEMMA RecentFrame ==
  ASSUME [Next]_vars
  PROVE  \/ UNCHANGED recent
         \/ \E o \in Op : StageManifest(o)
         \/ \E o \in Op : Commit(o)
         \/ \E p \in Pruner : DeleteBatch(p)
         \/ \E d \in deletes : DeleteLate(d)
         \/ \E v \in Version : Age(v)
<1>1. ASSUME NEW o \in Op, WriterNext(o)
      PROVE  \/ UNCHANGED recent
             \/ StageManifest(o)
             \/ Commit(o)
  BY <1>1 DEF WriterNext, AcquireWriter, Prepare, StageChunk, Retransmit, Staged,
         WriteFails, ResolveOperation, Return
<1>2. ASSUME NEW p \in Pruner, PruneNext(p)
      PROVE  \/ UNCHANGED recent
             \/ DeleteBatch(p)
  BY <1>2 DEF PruneNext, PruneAcquire, KeepActive, KeepLeases, KeepRecent, RefFence,
         RefLoad, Candidates, SendDelete, PruneReturn, PruneReads
<1>3. ASSUME RedisNext
      PROVE  \/ UNCHANGED recent
             \/ \E d \in deletes : DeleteLate(d)
             \/ \E v \in Version : Age(v)
  BY <1>3 DEF RedisNext, Expire, MaintenanceExpires
<1> QED BY <1>1, <1>2, <1>3, SnapshotFootprint DEF Next, vars

(* Writer leases come and go with the calls, or are dropped by Prune. *)
LEMMA WriterFrame ==
  ASSUME [Next]_vars
  PROVE  \/ UNCHANGED <<writers, phase>>
         \/ \E o \in Op, r \in Requests, e \in Version : AcquireWriter(o, r, e)
         \/ \E o \in Op : Prepare(o)
         \/ \E o \in Op : Staged(o)
         \/ \E o \in Op : Commit(o)
         \/ \E o \in Op : WriteFails(o)
         \/ \E p \in Pruner : PruneAcquire(p)
<1>1. ASSUME NEW o \in Op, WriterNext(o)
      PROVE  \/ UNCHANGED <<writers, phase>>
             \/ \E r \in Requests, e \in Version : AcquireWriter(o, r, e)
             \/ Prepare(o)
             \/ Staged(o)
             \/ Commit(o)
             \/ WriteFails(o)
  BY <1>1 DEF WriterNext, StageChunk, StageManifest, Retransmit, ResolveOperation
<1>2. ASSUME NEW p \in Pruner, PruneNext(p)
      PROVE  \/ UNCHANGED <<writers, phase>>
             \/ PruneAcquire(p)
  BY <1>2 DEF PruneNext, KeepActive, KeepLeases, KeepRecent, RefFence, RefLoad,
         Candidates, SendDelete, DeleteBatch, PruneReturn, PruneReads, RunDelete
<1> QED BY <1>1, <1>2, SnapshotFootprint, RedisFootprint DEF Next, vars

(* The commit script is sent after preparation. *)
LEMMA SentFrame ==
  ASSUME [Next]_vars
  PROVE  \/ UNCHANGED sent
         \/ \E o \in Op : Prepare(o)
         \/ \E o \in Op : Staged(o)
<1>1. ASSUME NEW o \in Op, WriterNext(o)
      PROVE  \/ UNCHANGED sent
             \/ Prepare(o)
             \/ Staged(o)
  BY <1>1 DEF WriterNext, AcquireWriter, StageChunk, StageManifest, Retransmit, Commit,
         WriteFails, ResolveOperation, Return
<1> QED BY <1>1, SnapshotFootprint, PruneFootprint, RedisFootprint DEF Next, vars

(* What callers learn. *)
LEMMA ResultFrame ==
  ASSUME [Next]_vars
  PROVE  \/ UNCHANGED result
         \/ \E o \in Op, r \in Requests, e \in Version : AcquireWriter(o, r, e)
         \/ \E o \in Op : Staged(o)
         \/ \E o \in Op : Commit(o)
         \/ \E o \in Op : WriteFails(o)
         \/ \E o \in Op : ResolveOperation(o)
<1>1. ASSUME NEW o \in Op, WriterNext(o)
      PROVE  \/ UNCHANGED result
             \/ \E r \in Requests, e \in Version : AcquireWriter(o, r, e)
             \/ Staged(o)
             \/ Commit(o)
             \/ WriteFails(o)
             \/ ResolveOperation(o)
  BY <1>1 DEF WriterNext, Prepare, StageChunk, StageManifest, Retransmit
<1> QED BY <1>1, SnapshotFootprint, PruneFootprint, RedisFootprint DEF Next, vars

(* The staging pipeline. *)
LEMMA StageFrame ==
  ASSUME [Next]_vars
  PROVE  \/ UNCHANGED <<todo, todoGen, refused>>
         \/ \E o \in Op : Prepare(o)
         \/ \E o \in Op, k \in Keyword : StageChunk(o, k)
         \/ \E o \in Op : StageManifest(o)
         \/ \E o \in Op : Retransmit(o)
<1>1. ASSUME NEW o \in Op, WriterNext(o)
      PROVE  \/ UNCHANGED <<todo, todoGen, refused>>
             \/ Prepare(o)
             \/ \E k \in Keyword : StageChunk(o, k)
             \/ StageManifest(o)
             \/ Retransmit(o)
  BY <1>1 DEF WriterNext, AcquireWriter, Staged, Commit, WriteFails, ResolveOperation,
         Return
<1> QED BY <1>1, SnapshotFootprint, PruneFootprint, RedisFootprint DEF Next, vars

(* Snapshots and their leases. *)
LEMMA SnapFrame ==
  ASSUME [Next]_vars
  PROVE  \/ UNCHANGED <<sphase, pinned, unread, leases>>
         \/ \E s \in Snap : SnapshotAcquire(s)
         \/ \E s \in Snap : SnapshotManifest(s)
         \/ \E s \in Snap : ListStart(s)
         \/ \E s \in Snap, k \in Keyword : ListBucket(s, k)
         \/ \E s \in Snap : ListEnd(s)
         \/ \E s \in Snap : SnapshotClose(s)
         \/ \E p \in Pruner : PruneAcquire(p)
<1>1. ASSUME NEW s \in Snap, SnapshotNext(s)
      PROVE  \/ UNCHANGED <<sphase, pinned, unread, leases>>
             \/ SnapshotAcquire(s)
             \/ SnapshotManifest(s)
             \/ ListStart(s)
             \/ \E k \in Keyword : ListBucket(s, k)
             \/ ListEnd(s)
             \/ SnapshotClose(s)
  BY <1>1 DEF SnapshotNext
<1>2. ASSUME NEW p \in Pruner, PruneNext(p)
      PROVE  \/ UNCHANGED <<sphase, pinned, unread, leases>>
             \/ PruneAcquire(p)
  BY <1>2 DEF PruneNext, KeepActive, KeepLeases, KeepRecent, RefFence, RefLoad,
         Candidates, SendDelete, DeleteBatch, PruneReturn, PruneReads, RunDelete
<1> QED BY <1>1, <1>2, WriterFootprint, RedisFootprint DEF Next, vars

(* Deadlines. *)
LEMMA ExpiredFrame ==
  ASSUME [Next]_vars
  PROVE  \/ UNCHANGED expired
         \/ \E o \in Op : Staged(o)
         \/ \E o \in Op : Commit(o)
         \/ \E o \in Op : WriteFails(o)
         \/ \E s \in Snap : SnapshotClose(s)
         \/ \E p \in Pruner : PruneAcquire(p)
         \/ \E m \in Op \cup Snap : Expire(m)
<1>1. ASSUME NEW o \in Op, WriterNext(o)
      PROVE  \/ UNCHANGED expired
             \/ Staged(o)
             \/ Commit(o)
             \/ WriteFails(o)
  BY <1>1 DEF WriterNext, AcquireWriter, Prepare, StageChunk, StageManifest, Retransmit,
         ResolveOperation
<1>2. ASSUME NEW s \in Snap, SnapshotNext(s)
      PROVE  \/ UNCHANGED expired
             \/ SnapshotClose(s)
  BY <1>2 DEF SnapshotNext, SnapshotAcquire, SnapshotManifest, ListStart, ListBucket,
         ListEnd
<1>3. ASSUME NEW p \in Pruner, PruneNext(p)
      PROVE  \/ UNCHANGED expired
             \/ PruneAcquire(p)
  BY <1>3 DEF PruneNext, KeepActive, KeepLeases, KeepRecent, RefFence, RefLoad,
         Candidates, SendDelete, DeleteBatch, PruneReturn, PruneReads, RunDelete
<1>4. ASSUME RedisNext
      PROVE  \/ UNCHANGED expired
             \/ \E m \in Op \cup Snap : Expire(m)
  BY <1>4 DEF RedisNext, DeleteLate, MaintenanceExpires, Age, RunDelete
<1> QED BY <1>1, <1>2, <1>3, <1>4 DEF Next, vars

(* Maintenance tokens. *)
LEMMA TokenFrame ==
  ASSUME [Next]_vars
  PROVE  \/ UNCHANGED <<maintenance, fence, token>>
         \/ \E p \in Pruner : PruneAcquire(p)
         \/ \E p \in Pruner : PruneReturn(p)
         \/ MaintenanceExpires
<1>1. ASSUME NEW p \in Pruner, PruneNext(p)
      PROVE  \/ UNCHANGED <<maintenance, fence, token>>
             \/ PruneAcquire(p)
             \/ PruneReturn(p)
  BY <1>1 DEF PruneNext, KeepActive, KeepLeases, KeepRecent, RefFence, RefLoad,
         Candidates, SendDelete, DeleteBatch, PruneReads, RunDelete
<1>2. ASSUME RedisNext
      PROVE  \/ UNCHANGED <<maintenance, fence, token>>
             \/ MaintenanceExpires
  BY <1>2 DEF RedisNext, DeleteLate, Expire, Age, RunDelete
<1> QED BY <1>1, <1>2, WriterFootprint, SnapshotFootprint DEF Next, vars

(* The locals of Prune. *)
LEMMA PruneFrame ==
  ASSUME [Next]_vars
  PROVE  \/ UNCHANGED <<pphase, token, keep, toLoad, refs, dead, deadGens, batch>>
         \/ \E p \in Pruner : PruneAcquire(p)
         \/ \E p \in Pruner : KeepActive(p)
         \/ \E p \in Pruner : KeepLeases(p)
         \/ \E p \in Pruner : KeepRecent(p)
         \/ \E p \in Pruner : RefFence(p)
         \/ \E p \in Pruner, v \in Version : RefLoad(p, v)
         \/ \E p \in Pruner : Candidates(p)
         \/ \E p \in Pruner : SendDelete(p)
         \/ \E p \in Pruner : DeleteBatch(p)
         \/ \E p \in Pruner : PruneReturn(p)
<1>1. ASSUME NEW p \in Pruner, PruneNext(p)
      PROVE  \/ UNCHANGED <<pphase, token, keep, toLoad, refs, dead, deadGens, batch>>
             \/ PruneAcquire(p)
             \/ KeepActive(p)
             \/ KeepLeases(p)
             \/ KeepRecent(p)
             \/ RefFence(p)
             \/ \E v \in Version : RefLoad(p, v)
             \/ Candidates(p)
             \/ SendDelete(p)
             \/ DeleteBatch(p)
             \/ PruneReturn(p)
  BY <1>1 DEF PruneNext, PruneReads
<1> QED BY <1>1, WriterFootprint, SnapshotFootprint, RedisFootprint DEF Next, vars

(* Delete scripts are sent after a fence. *)
LEMMA DeletesFrame ==
  ASSUME [Next]_vars
  PROVE  \/ UNCHANGED deletes
         \/ \E p \in Pruner : SendDelete(p)
<1>1. ASSUME NEW p \in Pruner, PruneNext(p)
      PROVE  \/ UNCHANGED deletes
             \/ SendDelete(p)
  BY <1>1 DEF PruneNext, PruneAcquire, KeepActive, KeepLeases, KeepRecent, RefFence,
         RefLoad, Candidates, DeleteBatch, PruneReturn, PruneReads, RunDelete
<1> QED BY <1>1, WriterFootprint, SnapshotFootprint, RedisFootprint DEF Next, vars

-----------------------------------------------------------------------------
(***************************************************************************)
(* What cannot change again.                                               *)
(***************************************************************************)

(* A prepared operation stays prepared. *)
LEMMA PreparedGrows ==
  ASSUME TypeOK, [Next]_vars
  PROVE  Prepared \subseteq Prepared'
<1> USE DEF TypeOK, Prepared
<1>1. ASSUME NEW o \in Op, NEW r \in Requests, NEW e \in Version, AcquireWriter(o, r, e)
      PROVE  Prepared \subseteq Prepared'
  BY <1>1 DEF AcquireWriter
<1>2. ASSUME NEW o \in Op, Prepare(o)
      PROVE  Prepared \subseteq Prepared'
  BY <1>2 DEF Prepare
<1>3. ASSUME NEW o \in Op, Staged(o) \/ Commit(o) \/ WriteFails(o)
      PROVE  Prepared \subseteq Prepared'
  BY <1>3 DEF Staged, Commit, WriteFails, Return
<1>4. ASSUME NEW p \in Pruner, PruneAcquire(p)
      PROVE  Prepared \subseteq Prepared'
  BY <1>4 DEF PruneAcquire
<1>5. CASE UNCHANGED <<writers, phase>>
  BY <1>5
<1> QED BY <1>1, <1>2, <1>3, <1>4, <1>5, WriterFrame

(* The manifest of a prepared version is immutable. *)
LEMMA ManifestFixed ==
  ASSUME TypeOK, [Next]_vars, NEW v \in Prepared
  PROVE  words'[v] = words[v] /\ seq'[v] = seq[v]
<1>1. ASSUME NEW o \in Op, Prepare(o)
      PROVE  words'[v] = words[v] /\ seq'[v] = seq[v]
  <2>1. v # o /\ v \in Version
    BY <1>1, RequestAssumption DEF Prepare, Prepared, Version
  <2> QED BY <1>1, <2>1 DEF Prepare, TypeOK
<1>2. CASE UNCHANGED <<words, seq, changed>>
  BY <1>2
<1> QED BY <1>1, <1>2, ManifestFrame

(* A writer's lease that lapsed or was closed is never live again: only    *)
(* the acquire script of a new call adds one, outside maintenance.         *)
LEMMA WriterNotRevived ==
  ASSUME TypeOK, [Next]_vars, NEW o \in Op, LiveWriter(o)'
  PROVE  \/ LiveWriter(o)
         \/ \E r \in Requests, e \in Version : AcquireWriter(o, r, e) /\ maintenance = 0 /\ active = e
<1> USE DEF TypeOK, LiveWriter
<1>1. ASSUME NEW q \in Op, NEW r \in Requests, NEW e \in Version, AcquireWriter(q, r, e),
             ~LiveWriter(o)
      PROVE  q = o /\ maintenance = 0 /\ active = e
  BY <1>1 DEF AcquireWriter
<1>2. ASSUME NEW q \in Op, Staged(q) \/ Commit(q) \/ WriteFails(q)
      PROVE  LiveWriter(o)
  BY <1>2 DEF Staged, Commit, WriteFails, Return
<1>3. ASSUME NEW s \in Snap, SnapshotClose(s)
      PROVE  LiveWriter(o)
  BY <1>3 DEF SnapshotClose
<1>4. ASSUME NEW p \in Pruner, PruneAcquire(p)
      PROVE  LiveWriter(o)
  BY <1>4 DEF PruneAcquire
<1>5. ASSUME NEW m \in Op \cup Snap, Expire(m)
      PROVE  LiveWriter(o)
  BY <1>5 DEF Expire
<1>6. ASSUME NEW q \in Op, Prepare(q)
      PROVE  LiveWriter(o)
  BY <1>6 DEF Prepare
<1>7. CASE UNCHANGED <<writers, phase>> /\ UNCHANGED expired
  BY <1>7
<1> QED BY <1>1, <1>2, <1>3, <1>4, <1>5, <1>6, <1>7, WriterFrame, ExpiredFrame

(* So is a snapshot's, and a live lease pins what it pinned at first. *)
LEMMA LeaseNotRevived ==
  ASSUME TypeOK, [Next]_vars, NEW s \in Snap, LiveLease(s)'
  PROVE  \/ LiveLease(s) /\ pinned'[s] = pinned[s]
         \/ SnapshotAcquire(s) /\ maintenance = 0 /\ pinned'[s] = active
<1> USE DEF TypeOK, LiveLease
<1>1. ASSUME NEW t \in Snap, SnapshotAcquire(t)
      PROVE  \/ LiveLease(s) /\ pinned'[s] = pinned[s]
             \/ SnapshotAcquire(s) /\ maintenance = 0 /\ pinned'[s] = active
  BY <1>1 DEF SnapshotAcquire
<1>2. ASSUME NEW t \in Snap, \/ SnapshotManifest(t) \/ ListStart(t) \/ ListEnd(t) \/ SnapshotClose(t)
                             \/ \E k \in Keyword : ListBucket(t, k)
      PROVE  LiveLease(s) /\ pinned'[s] = pinned[s]
  BY <1>2 DEF SnapshotManifest, ListStart, ListBucket, ListEnd, SnapshotClose
<1>3. ASSUME NEW p \in Pruner, PruneAcquire(p)
      PROVE  LiveLease(s) /\ pinned'[s] = pinned[s]
  BY <1>3 DEF PruneAcquire
<1>4. ASSUME NEW q \in Op, Staged(q) \/ Commit(q) \/ WriteFails(q)
      PROVE  LiveLease(s) /\ pinned'[s] = pinned[s]
  BY <1>4 DEF Staged, Commit, WriteFails, Return
<1>5. ASSUME NEW m \in Op \cup Snap, Expire(m)
      PROVE  LiveLease(s) /\ pinned'[s] = pinned[s]
  BY <1>5 DEF Expire
<1>6. CASE UNCHANGED <<sphase, pinned, unread, leases>> /\ UNCHANGED expired
  BY <1>6
<1> QED BY <1>1, <1>2, <1>3, <1>4, <1>5, <1>6, SnapFrame, ExpiredFrame

(* A token that is in place was in place, or was granted in this step and  *)
(* is larger than every token before.                                      *)
LEMMA TokenMonotone ==
  ASSUME TypeOK, [Next]_vars
  PROVE  /\ fence <= fence'
         /\ \/ maintenance' \in {0, maintenance}
            \/ /\ maintenance' = fence + 1 /\ fence' = fence + 1
               /\ writers' = {} /\ \E p \in Pruner : PruneAcquire(p)
<1> USE DEF TypeOK
<1>1. ASSUME NEW p \in Pruner, PruneAcquire(p), maintenance # 0 \/ writers' # {}
      PROVE  UNCHANGED <<maintenance, fence>>
  BY <1>1 DEF PruneAcquire
<1>2. ASSUME NEW p \in Pruner, PruneAcquire(p), ~(maintenance # 0 \/ writers' # {})
      PROVE  maintenance' = fence + 1 /\ fence' = fence + 1 /\ writers' = {}
  BY <1>2 DEF PruneAcquire
<1>3. ASSUME NEW p \in Pruner, PruneReturn(p)
      PROVE  maintenance' \in {maintenance, 0} /\ fence' = fence
  BY <1>3 DEF PruneReturn
<1>4. ASSUME MaintenanceExpires
      PROVE  maintenance' = 0 /\ fence' = fence
  BY <1>4 DEF MaintenanceExpires
<1>5. fence \in Nat
  OBVIOUS
<1> HIDE DEF TypeOK
<1> QED BY <1>1, <1>2, <1>3, <1>4, <1>5, TokenFrame

-----------------------------------------------------------------------------
(***************************************************************************)
(* The parts of the invariant.                                             *)
(***************************************************************************)

(* Generations within retention are registered. *)
LEMMA RecentStored ==
  ASSUME StoreInv
  PROVE  recent \subseteq gens
BY DEF StoreInv, ReachableIntact, Reachable, Intact

(* Everything that names a version names a prepared one. *)
LEMMA PreparedStep ==
  ASSUME StoreInv, [Next]_vars
  PROVE  PreparedInv'
<1>0. Prepared \subseteq Prepared' /\ TypeOK
  BY PreparedGrows DEF StoreInv
<1>1. active' \in Prepared'
  <2>1. ASSUME NEW o \in Op, Commit(o)
        PROVE  active' \in Prepared'
    BY <1>0, <2>1 DEF Commit, Target, StoreInv, PreparedInv, OpInv
  <2> QED BY <1>0, <2>1, CommitFrame DEF StoreInv, PreparedInv
<1>2. gens' \subseteq Prepared'
  <2>1. ASSUME NEW o \in Op, StageManifest(o)
        PROVE  gens' \subseteq Prepared'
    BY <1>0, <2>1 DEF StageManifest, StoreInv, PreparedInv, OpInv
  <2>2. ASSUME NEW o \in Op, NEW k \in Keyword, StageChunk(o, k)
        PROVE  gens' = gens
    BY <2>2 DEF StageChunk
  <2>3. ASSUME NEW p \in Pruner, DeleteBatch(p)
        PROVE  gens' \subseteq gens
    BY <2>3 DEF DeleteBatch, RunDelete
  <2>4. ASSUME NEW d \in deletes, DeleteLate(d)
        PROVE  gens' \subseteq gens
    BY <2>4 DEF DeleteLate, RunDelete
  <2> QED BY <1>0, <2>1, <2>2, <2>3, <2>4, RecordFrame DEF StoreInv, PreparedInv
<1>3. ASSUME NEW s \in Snap
      PROVE  pinned'[s] \in Prepared'
  <2>1. ASSUME NEW t \in Snap, SnapshotAcquire(t)
        PROVE  pinned'[s] \in Prepared'
    BY <1>0, <2>1 DEF SnapshotAcquire, StoreInv, PreparedInv, TypeOK
  <2>2. ASSUME NEW t \in Snap, \/ SnapshotManifest(t) \/ ListStart(t) \/ ListEnd(t) \/ SnapshotClose(t)
                               \/ \E k \in Keyword : ListBucket(t, k)
        PROVE  pinned' = pinned
    BY <2>2 DEF SnapshotManifest, ListStart, ListBucket, ListEnd, SnapshotClose
  <2>3. ASSUME NEW p \in Pruner, PruneAcquire(p)
        PROVE  pinned' = pinned
    BY <2>3 DEF PruneAcquire
  <2> QED BY <1>0, <2>1, <2>2, <2>3, SnapFrame DEF StoreInv, PreparedInv
<1>4. ASSUME NEW o \in Op
      PROVE  expected'[o] \in Prepared'
  <2>1. ASSUME NEW q \in Op, NEW r \in Requests, NEW e \in Version, AcquireWriter(q, r, e)
        PROVE  expected'[o] \in Prepared'
    <3>1. expected'[o] \in {expected[o], active}
      BY <1>0, <2>1 DEF AcquireWriter, TypeOK
    <3> QED BY <1>0, <3>1 DEF StoreInv, PreparedInv
  <2> QED BY <1>0, <2>1, CallFrame DEF StoreInv, PreparedInv
<1>5. ASSUME NEW p \in Pruner
      PROVE  keep'[p] \subseteq Prepared'
  <2> USE <1>0 DEF StoreInv, PreparedInv
  <2>1. ASSUME NEW q \in Pruner, KeepActive(q)
        PROVE  keep'[p] \subseteq Prepared'
    BY <2>1 DEF KeepActive, TypeOK
  <2>2. ASSUME NEW q \in Pruner, KeepLeases(q)
        PROVE  keep'[p] \subseteq Prepared'
    <3>1. {pinned[s] : s \in leases} \subseteq Prepared
      BY DEF TypeOK
    <3> QED BY <2>2, <3>1 DEF KeepLeases, TypeOK
  <2>3. ASSUME NEW q \in Pruner, KeepRecent(q)
        PROVE  keep'[p] \subseteq Prepared'
    <3>1. keep[q] \cup recent \subseteq Prepared
      BY RecentStored
    <3> QED BY <2>3, <3>1 DEF KeepRecent, TypeOK
  <2>4. ASSUME NEW q \in Pruner, PruneReturn(q)
        PROVE  keep'[p] \subseteq Prepared'
    BY <2>4 DEF PruneReturn, TypeOK
  <2>5. ASSUME NEW q \in Pruner, \/ PruneAcquire(q) \/ RefFence(q) \/ Candidates(q) \/ SendDelete(q)
                                 \/ DeleteBatch(q) \/ \E v \in Version : RefLoad(q, v)
        PROVE  keep' = keep
    BY <2>5 DEF PruneAcquire, RefFence, RefLoad, Candidates, SendDelete, DeleteBatch, RunDelete
  <2> QED BY <2>1, <2>2, <2>3, <2>4, <2>5, PruneFrame
<1> QED BY <1>1, <1>2, <1>3, <1>4, <1>5 DEF PreparedInv

(* An operation that has not prepared anything has nothing in flight. *)
LEMMA OpStep ==
  ASSUME StoreInv, [Next]_vars
  PROVE  OpInv'
<1> DEFINE OpOK(o) ==
      /\ phase[o] = "idle" => request[o] = NoRequest /\ o \notin writers
      /\ phase[o] # "idle" /\ (phase[o] # "done" \/ sent[o]) => request[o] # NoRequest
      /\ o \notin Prepared => /\ words[o] = {} /\ todo[o] = {} /\ ~todoGen[o]
                              /\ ~changed[o] /\ ~sent[o]
      /\ phase[o] = "staging" => changed[o] /\ ~sent[o]
      /\ phase[o] = "committing" => sent[o]
      /\ o \in receipts => sent[o]
      /\ phase[o] # "done" => result[o] = "none"
<1>0. TypeOK /\ (\A o \in Op : OpOK(o)) /\ RequestAssumption
  BY RequestAssumption DEF StoreInv, OpInv
<1>1. SUFFICES ASSUME NEW o \in Op PROVE OpOK(o)'
  BY DEF OpInv
<1> USE <1>0 DEF TypeOK, Prepared, Version
<1>2. ASSUME NEW q \in Op, NEW r \in Requests, NEW e \in Version, AcquireWriter(q, r, e)
      PROVE  OpOK(o)'
  BY <1>2 DEF AcquireWriter
<1>3. ASSUME NEW q \in Op, Prepare(q)
      PROVE  OpOK(o)'
  BY <1>3 DEF Prepare
<1>4. ASSUME NEW q \in Op, NEW k \in Keyword, StageChunk(q, k)
      PROVE  OpOK(o)'
  BY <1>4 DEF StageChunk
<1>5. ASSUME NEW q \in Op, StageManifest(q)
      PROVE  OpOK(o)'
  BY <1>5 DEF StageManifest
<1>6. ASSUME NEW q \in Op, Retransmit(q)
      PROVE  OpOK(o)'
  BY <1>6 DEF Retransmit
<1>7. ASSUME NEW q \in Op, Staged(q)
      PROVE  OpOK(o)'
  BY <1>7 DEF Staged, Return
<1>8. ASSUME NEW q \in Op, Commit(q)
      PROVE  OpOK(o)'
  BY <1>8 DEF Commit, Return
<1>9. ASSUME NEW q \in Op, WriteFails(q)
      PROVE  OpOK(o)'
  BY <1>9 DEF WriteFails, Return
<1>10. ASSUME NEW q \in Op, ResolveOperation(q)
       PROVE  OpOK(o)'
  BY <1>10 DEF ResolveOperation
<1>11. ASSUME NEW p \in Pruner, PruneAcquire(p)
       PROVE  OpOK(o)'
  BY <1>11 DEF PruneAcquire
<1>12. ASSUME UNCHANGED <<writers, phase, request, sent, words, todo, todoGen, changed, receipts, result>>
       PROVE  OpOK(o)'
  BY <1>12
<1> HIDE <1>0 DEF TypeOK, Prepared, OpOK
<1> QED
  BY <1>2, <1>3, <1>4, <1>5, <1>6, <1>7, <1>8, <1>9, <1>10, <1>11, <1>12,
     CallFrame, WriterFrame, SentFrame, ManifestFrame, StageFrame, CommitFrame, ResultFrame

(* What an operation computed, and from what, stays. *)
LEMMA ComputeStep ==
  ASSUME StoreInv, [Next]_vars
  PROVE  ComputeInv'
<1> DEFINE ComputeOK(o) ==
      /\ changed[o] => /\ seq[o] = seq[expected[o]] + 1
                       /\ words[o] = Apply(request[o], words[expected[o]])
                       /\ words[o] # words[expected[o]]
      /\ sent[o] /\ ~changed[o] => Apply(request[o], words[expected[o]]) = words[expected[o]]
<1>0. TypeOK /\ OpInv /\ PreparedInv /\ (\A o \in Op : ComputeOK(o))
  BY DEF StoreInv, ComputeInv
<1>1. SUFFICES ASSUME NEW o \in Op PROVE ComputeOK(o)'
  BY DEF ComputeInv
<1>2. ASSUME NEW q \in Op, NEW r \in Requests, NEW e \in Version, AcquireWriter(q, r, e)
      PROVE  ComputeOK(o)'
  <2>1. q = o => ~changed'[o] /\ ~sent'[o]
    BY <1>0, <1>2, RequestAssumption DEF AcquireWriter, OpInv, Prepared
  <2>2. q # o => request'[o] = request[o] /\ expected'[o] = expected[o]
    BY <1>0, <1>2 DEF AcquireWriter, TypeOK
  <2>3. UNCHANGED <<words, seq, changed, sent>>
    BY <1>2 DEF AcquireWriter
  <2> QED BY <1>0, <2>1, <2>2, <2>3
<1>3. ASSUME NEW q \in Op, Prepare(q)
      PROVE  ComputeOK(o)'
  <2>1. expected[o] \in Prepared /\ expected[q] \in Prepared /\ q \notin Prepared
    BY <1>0, <1>3, RequestAssumption DEF PreparedInv, Prepare, Prepared
  <2>2. /\ words'[expected[o]] = words[expected[o]] /\ seq'[expected[o]] = seq[expected[o]]
        /\ UNCHANGED <<request, expected>>
    BY <1>0, <1>3, <2>1, ManifestFixed DEF Prepare
  <2>3. CASE q = o
    <3>1. q \in Version /\ ~changed[q] /\ ~sent[q]
      BY <1>0, <2>1 DEF OpInv, Version
    <3>2. CASE Apply(request[q], words[expected[q]]) = words[expected[q]]
      BY <1>0, <1>3, <2>2, <2>3, <3>1, <3>2 DEF Prepare, TypeOK
    <3>3. CASE Apply(request[q], words[expected[q]]) # words[expected[q]]
      <4>1. /\ words'[o] = Apply(request[o], words[expected[o]])
            /\ seq'[o] = seq[expected[o]] + 1 /\ changed'[o]
        BY <1>0, <1>3, <2>3, <3>1, <3>3 DEF Prepare, TypeOK
      <4> QED BY <2>2, <2>3, <3>3, <4>1
    <3> QED BY <3>2, <3>3
  <2>4. CASE q # o
    <3>1. /\ words'[o] = words[o] /\ seq'[o] = seq[o]
          /\ changed'[o] = changed[o] /\ sent'[o] = sent[o]
      BY <1>0, <1>3, <2>4 DEF Prepare, TypeOK, Version
    <3> QED BY <1>0, <2>2, <3>1
  <2> QED BY <2>3, <2>4
<1>4. ASSUME NEW q \in Op, Staged(q)
      PROVE  ComputeOK(o)'
  <2>1. UNCHANGED <<request, expected, words, seq, changed>>
    BY <1>4 DEF Staged
  <2>2. sent'[o] => sent[o] \/ changed[o]
    BY <1>0, <1>4 DEF Staged, OpInv, TypeOK
  <2> QED BY <1>0, <2>1, <2>2
<1>5. CASE UNCHANGED <<request, expected, words, seq, changed, sent>>
  BY <1>0, <1>5
<1> QED BY <1>2, <1>3, <1>4, <1>5, CallFrame, ManifestFrame, SentFrame

(* A delete script that runs leaves every reachable generation whole. *)
LEMMA DeleteSafe ==
  ASSUME StoreInv, NEW d \in deletes, RunDelete(d), NEW v \in Reachable
  PROVE  Intact(v)'
BY DEF StoreInv, RunDelete, DeleteInv, ReachableIntact, Intact

(* The delete scripts run only in maintenance, when no writer is live. *)
LEMMA DeleteAlone ==
  ASSUME StoreInv, NEW d \in deletes, RunDelete(d)
  PROVE  maintenance # 0 /\ \A o \in Op : ~LiveWriter(o)
BY DEF StoreInv, RunDelete, TokenInv, MaintenanceExcludesWriters, TypeOK

(* Both delete actions run a script that was sent. *)
LEMMA DeleteCases ==
  ASSUME StoreInv
  PROVE  /\ \A p \in Pruner : DeleteBatch(p) => \E d \in deletes : RunDelete(d) /\ d = batch[p]
         /\ \A d \in deletes : DeleteLate(d) => RunDelete(d)
BY DEF StoreInv, JobInv, DeleteBatch, DeleteLate

(* While a maintenance token is in place nothing becomes active, recent,   *)
(* pinned or otherwise reachable.                                          *)
LEMMA MaintenanceFreezes ==
  ASSUME StoreInv, [Next]_vars, maintenance # 0
  PROVE  /\ active' = active
         /\ recent' \subseteq recent
         /\ \A s \in Snap : LiveLease(s)' => LiveLease(s) /\ pinned'[s] = pinned[s]
         /\ Reachable' \subseteq Reachable
<1>0. TypeOK
  BY DEF StoreInv
<1>1. active' = active
  <2>1. ASSUME NEW o \in Op, Commit(o)
        PROVE  active' = active
    BY <2>1 DEF Commit, CommitReply
  <2> QED BY <2>1, CommitFrame
<1>2. recent' \subseteq recent
  <2>1. ASSUME NEW o \in Op, StageManifest(o) \/ Commit(o)
        PROVE  recent' = recent
    BY <2>1 DEF StageManifest, StageAllowed, Commit, CommitReply
  <2>2. ASSUME NEW d, RunDelete(d)
        PROVE  recent' \subseteq recent
    BY <2>2 DEF RunDelete
  <2>3. ASSUME NEW v \in Version, Age(v)
        PROVE  recent' \subseteq recent
    BY <2>3 DEF Age
  <2> QED BY <2>1, <2>2, <2>3, RecentFrame DEF DeleteBatch, DeleteLate
<1>3. ASSUME NEW s \in Snap, LiveLease(s)'
      PROVE  LiveLease(s) /\ pinned'[s] = pinned[s]
  BY <1>0, <1>3, LeaseNotRevived
<1> QED BY <1>1, <1>2, <1>3 DEF Reachable

(* Staging only adds records. *)
LEMMA StageGrows ==
  ASSUME [Next]_vars
  PROVE  \/ gens \subseteq gens' /\ chunks \subseteq chunks'
         \/ \E p \in Pruner : DeleteBatch(p)
         \/ \E d \in deletes : DeleteLate(d)
<1>1. ASSUME NEW o \in Op, NEW k \in Keyword, StageChunk(o, k)
      PROVE  gens \subseteq gens' /\ chunks \subseteq chunks'
  BY <1>1 DEF StageChunk
<1>2. ASSUME NEW o \in Op, StageManifest(o)
      PROVE  gens \subseteq gens' /\ chunks \subseteq chunks'
  BY <1>2 DEF StageManifest
<1> QED BY <1>1, <1>2, RecordFrame

(* A generation that was whole and reachable stays whole. *)
LEMMA IntactStays ==
  ASSUME StoreInv, [Next]_vars, NEW v \in Prepared, Intact(v),
         v \in Reachable \/ maintenance = 0
  PROVE  Intact(v)'
<1>1. TypeOK /\ words'[v] = words[v]
  BY ManifestFixed DEF StoreInv
<1>2. ASSUME NEW d \in deletes, RunDelete(d)
      PROVE  Intact(v)'
  BY <1>2, DeleteSafe, DeleteAlone
<1>3. CASE gens \subseteq gens' /\ chunks \subseteq chunks'
  BY <1>1, <1>3 DEF Intact
<1> QED BY <1>2, <1>3, StageGrows, DeleteCases

(* Prune never takes a record from a generation that is active, pinned or  *)
(* recent, and whatever becomes one of these is whole.                     *)
LEMMA ReachableStep ==
  ASSUME StoreInv, [Next]_vars
  PROVE  ReachableIntact'
<1>0. TypeOK /\ OpInv /\ PreparedInv /\ ReachableIntact /\ WriterIntact /\ StageInv
  BY DEF StoreInv
<1>1. ASSUME NEW v \in Reachable
      PROVE  Intact(v)'
  <2>1. Intact(v) /\ v \in Prepared
    BY <1>0 DEF ReachableIntact, Intact, PreparedInv
  <2> QED BY <2>1, IntactStays
<1>2. active' \in Reachable \/ Intact(active)'
  <2>1. ASSUME NEW o \in Op, Commit(o)
        PROVE  active' \in Reachable \/ Intact(active)'
    <3>1. CASE changed[o] /\ active' # active
      <4>1. active' = o /\ LiveWriter(o) /\ o \in gens
        BY <2>1, <3>1 DEF Commit, CommitReply, Target
      <4>2. words[o] \subseteq chunks
        BY <1>0, <4>1 DEF StageInv
      <4> QED BY <2>1, <4>1, <4>2 DEF Intact, Commit
    <3>2. CASE ~changed[o] \/ active' = active
      BY <2>1, <3>2 DEF Commit, CommitReply, Target, Reachable
    <3> QED BY <3>1, <3>2
  <2>2. active \in Reachable
    BY DEF Reachable
  <2> QED BY <2>1, <2>2, CommitFrame
<1>3. ASSUME NEW v \in recent'
      PROVE  v \in Reachable \/ Intact(v)'
  <2>1. ASSUME NEW o \in Op, StageManifest(o), v \notin recent
        PROVE  Intact(v)'
    <3>1. v = o /\ LiveWriter(o) /\ todo[o] = {} /\ gens' = gens \cup {o}
      BY <2>1, <1>3 DEF StageManifest, StageAllowed
    <3>2. words[o] \subseteq chunks
      BY <1>0, <3>1 DEF WriterIntact
    <3> QED BY <2>1, <3>1, <3>2 DEF Intact, StageManifest
  <2>2. ASSUME NEW o \in Op, Commit(o), v \notin recent
        PROVE  Intact(v)'
    <3>1. v = o /\ LiveWriter(o) /\ o \in gens
      BY <2>2, <1>3 DEF Commit, CommitReply, Target
    <3>2. words[o] \subseteq chunks
      BY <1>0, <3>1 DEF StageInv
    <3> QED BY <2>2, <3>1, <3>2 DEF Intact, Commit
  <2>3. ASSUME NEW d, RunDelete(d)
        PROVE  v \in recent
    BY <2>3, <1>3 DEF RunDelete
  <2>4. ASSUME NEW w \in Version, Age(w)
        PROVE  v \in recent
    BY <2>4, <1>3 DEF Age
  <2>5. v \in recent => v \in Reachable
    BY DEF Reachable
  <2> QED BY <1>3, <2>1, <2>2, <2>3, <2>4, <2>5, RecentFrame DEF DeleteBatch, DeleteLate
<1>4. ASSUME NEW s \in Snap, LiveLease(s)'
      PROVE  pinned'[s] \in Reachable
  BY <1>0, <1>4, LeaseNotRevived DEF Reachable
<1>5. ASSUME NEW v \in Reachable'
      PROVE  v \in Reachable \/ Intact(v)'
  <2>1. \/ v = active' \/ v \in recent'
        \/ \E s \in Snap : LiveLease(s)' /\ v = pinned'[s]
    BY <1>5 DEF Reachable
  <2> QED BY <1>2, <1>3, <1>4, <2>1
<1> QED BY <1>1, <1>5 DEF ReachableIntact

(* The two scripts that grant a writer's lease and a maintenance token     *)
(* exclude each other.                                                     *)
LEMMA MaintenanceStep ==
  ASSUME StoreInv, [Next]_vars
  PROVE  MaintenanceExcludesWriters'
<1>1. SUFFICES ASSUME NEW o \in Op, LiveWriter(o)'
               PROVE  maintenance' = 0
  BY DEF MaintenanceExcludesWriters
<1>2. TypeOK /\ MaintenanceExcludesWriters
  BY DEF StoreInv
<1>3. maintenance = 0
  BY <1>1, <1>2, WriterNotRevived DEF MaintenanceExcludesWriters
<1>4. writers' # {}
  BY <1>1 DEF LiveWriter
<1> QED BY <1>2, <1>3, <1>4, TokenMonotone

(* A live writer keeps what it builds on. *)
LEMMA WriterStep ==
  ASSUME StoreInv, [Next]_vars
  PROVE  WriterIntact'
<1>0. TypeOK /\ OpInv /\ PreparedInv /\ ReachableIntact /\ WriterIntact /\ MaintenanceExcludesWriters
  BY DEF StoreInv
<1>1. SUFFICES ASSUME NEW o \in Op, LiveWriter(o)'
               PROVE  Intact(expected[o])' /\ words'[o] \subseteq chunks' \cup todo'[o]
  BY DEF WriterIntact
<1>2. CASE ~LiveWriter(o)
  <2>1. PICK r \in Requests, e \in Version : AcquireWriter(o, r, e) /\ maintenance = 0 /\ active = e
    BY <1>0, <1>1, <1>2, WriterNotRevived
  <2>2. expected'[o] = active /\ words'[o] = {}
    BY <1>0, <2>1, RequestAssumption, SMTT(30) DEF AcquireWriter, OpInv, Prepared, TypeOK
  <2>3. Intact(active)
    BY <1>0 DEF ReachableIntact, Reachable
  <2> QED BY <2>1, <2>2, <2>3 DEF AcquireWriter, Intact
<1>3. CASE LiveWriter(o)
  <2>1. maintenance = 0
    BY <1>0, <1>3 DEF MaintenanceExcludesWriters
  <2>2. Intact(expected[o]) /\ words[o] \subseteq chunks \cup todo[o] /\ expected[o] \in Prepared
    BY <1>0, <1>3 DEF WriterIntact, PreparedInv
  <2>3. expected'[o] = expected[o]
    <3>1. ASSUME NEW q \in Op, NEW r \in Requests, NEW e \in Version, AcquireWriter(q, r, e)
          PROVE  expected'[o] = expected[o]
      BY <1>0, <1>3, <3>1 DEF AcquireWriter, OpInv, LiveWriter, TypeOK
    <3> QED BY <3>1, CallFrame
  <2>4. words'[expected[o]] = words[expected[o]] /\ Intact(expected[o])'
    <3>1. words'[expected[o]] = words[expected[o]]
      BY <1>0, <2>2, ManifestFixed
    <3>2. expected[o] \in gens' /\ words[expected[o]] \subseteq chunks'
      <4>1. gens \subseteq gens' /\ chunks \subseteq chunks'
        BY <1>3, StageGrows, DeleteCases, DeleteAlone
      <4> QED BY <2>2, <4>1 DEF Intact
    <3> QED BY <2>3, <3>1, <3>2 DEF Intact
  <2>5. chunks \subseteq chunks'
    BY <1>3, StageGrows, DeleteCases, DeleteAlone
  <2>6. words'[o] \subseteq chunks' \cup todo'[o]
    <3>1. ASSUME NEW q \in Op, Prepare(q)
          PROVE  words'[o] \subseteq chunks' \cup todo'[o]
      <4>1. CASE q = o
        <5>1. \/ words'[o] = words[o] /\ todo'[o] = todo[o]
              \/ todo'[o] = words'[o] \ words[expected[o]]
          BY <1>0, <3>1, <4>1 DEF Prepare, TypeOK, Version
        <5> QED BY <2>2, <2>5, <5>1 DEF Intact
      <4>2. CASE q # o
        BY <1>0, <2>2, <2>5, <3>1, <4>2 DEF Prepare, TypeOK, Version
      <4> QED BY <4>1, <4>2
    <3>2. ASSUME NEW q \in Op, NEW k \in Keyword, StageChunk(q, k)
          PROVE  words'[o] \subseteq chunks' \cup todo'[o]
      <4>1. CASE q = o
        BY <1>0, <1>3, <2>1, <2>2, <3>2, <4>1 DEF StageChunk, StageAllowed, TypeOK
      <4>2. CASE q # o
        BY <1>0, <2>2, <2>5, <3>2, <4>2 DEF StageChunk, TypeOK
      <4> QED BY <4>1, <4>2
    <3>3. ASSUME NEW q \in Op, StageManifest(q)
          PROVE  words'[o] \subseteq chunks' \cup todo'[o]
      BY <2>2, <2>5, <3>3 DEF StageManifest
    <3>4. ASSUME NEW q \in Op, Retransmit(q)
          PROVE  words'[o] \subseteq chunks' \cup todo'[o]
      <4>1. todo'[o] \in {todo[o], words[o] \ words[expected[o]]} /\ words' = words
        BY <1>0, <3>4 DEF Retransmit, TypeOK
      <4> QED BY <2>2, <2>5, <4>1 DEF Intact
    <3>5. CASE UNCHANGED <<words, todo>>
      BY <2>2, <2>5, <3>5
    <3> QED BY <3>1, <3>2, <3>3, <3>4, <3>5, ManifestFrame, StageFrame
  <2> QED BY <2>3, <2>4, <2>6
<1> QED BY <1>2, <1>3

(* A live writer has in Redis whatever the server executed of its pipeline. *)
LEMMA StageStep ==
  ASSUME StoreInv, [Next]_vars
  PROVE  StageInv'
<1>0. TypeOK /\ OpInv /\ PreparedInv /\ WriterIntact /\ StageInv /\ MaintenanceExcludesWriters
  BY DEF StoreInv
<1> DEFINE StagedOK(o) ==
      /\ o \in gens => words[o] \subseteq chunks
      /\ phase[o] = "staging" /\ ~todoGen[o] /\ ~refused[o] => o \in gens
      /\ sent[o] /\ changed[o] => o \in gens
<1>1. SUFFICES ASSUME NEW o \in Op, LiveWriter(o)'
               PROVE  StagedOK(o)'
  BY DEF StageInv
<1>2. CASE ~LiveWriter(o)
  <2>1. PICK r \in Requests, e \in Version : AcquireWriter(o, r, e) /\ maintenance = 0 /\ active = e
    BY <1>0, <1>1, <1>2, WriterNotRevived
  <2>2. o \notin gens /\ ~sent[o]
    BY <1>0, <2>1, RequestAssumption DEF AcquireWriter, PreparedInv, OpInv, Prepared
  <2> QED BY <1>0, <2>1, <2>2 DEF AcquireWriter, TypeOK
<1>3. CASE LiveWriter(o)
  <2>1. maintenance = 0 /\ StagedOK(o) /\ words[o] \subseteq chunks \cup todo[o]
    BY <1>0, <1>3 DEF MaintenanceExcludesWriters, StageInv, WriterIntact
  <2>2. gens \subseteq gens' /\ chunks \subseteq chunks'
    BY <1>3, StageGrows, DeleteCases, DeleteAlone
  <2>3. ASSUME NEW q \in Op, NEW r \in Requests, NEW e \in Version, AcquireWriter(q, r, e)
        PROVE  StagedOK(o)'
    BY <1>0, <1>3, <2>1, <2>3 DEF AcquireWriter, OpInv, LiveWriter, TypeOK
  <2>4. ASSUME NEW q \in Op, Prepare(q)
        PROVE  StagedOK(o)'
    <3>1. q \notin gens /\ ~changed[q] /\ ~sent[q] /\ gens' = gens /\ chunks' = chunks
      BY <1>0, <2>4, RequestAssumption DEF Prepare, PreparedInv, OpInv, Prepared
    <3>2. CASE q = o
      <4>1. ~(phase'[o] = "staging" /\ ~todoGen'[o]) /\ ~(sent'[o] /\ changed'[o])
        BY <1>0, <2>4, <3>1, <3>2 DEF Prepare, TypeOK
      <4> QED BY <3>1, <3>2, <4>1
    <3>3. CASE q # o
      <4>1. /\ words'[o] = words[o] /\ phase'[o] = phase[o] /\ todoGen'[o] = todoGen[o]
            /\ sent'[o] = sent[o] /\ changed'[o] = changed[o] /\ refused' = refused
        BY <1>0, <2>4, <3>3 DEF Prepare, TypeOK, Version
      <4> QED BY <2>1, <3>1, <4>1
    <3> QED BY <3>2, <3>3
  <2>5. ASSUME NEW q \in Op, NEW k \in Keyword, StageChunk(q, k)
        PROVE  StagedOK(o)'
    BY <1>0, <2>1, <2>2, <2>5 DEF StageChunk, TypeOK
  <2>6. ASSUME NEW q \in Op, StageManifest(q)
        PROVE  StagedOK(o)'
    <3>1. CASE q = o
      BY <1>0, <1>3, <2>1, <2>6, <3>1 DEF StageManifest, StageAllowed, TypeOK
    <3>2. CASE q # o
      BY <1>0, <2>1, <2>2, <2>6, <3>2 DEF StageManifest, TypeOK
    <3> QED BY <3>1, <3>2
  <2>7. ASSUME NEW q \in Op, Retransmit(q)
        PROVE  StagedOK(o)'
    BY <1>0, <2>1, <2>7 DEF Retransmit, TypeOK
  <2>8. ASSUME NEW q \in Op, Staged(q)
        PROVE  StagedOK(o)'
    BY <1>0, <2>1, <2>8 DEF Staged, Return, TypeOK
  <2>9. ASSUME NEW q \in Op, Commit(q) \/ WriteFails(q)
        PROVE  StagedOK(o)'
    BY <1>0, <2>1, <2>9 DEF Commit, WriteFails, Return, TypeOK
  <2>10. ASSUME NEW p \in Pruner, PruneAcquire(p)
         PROVE  StagedOK(o)'
    BY <2>1, <2>10 DEF PruneAcquire
  <2>11. CASE UNCHANGED <<gens, chunks, words, changed, phase, todoGen, refused, sent>>
    BY <2>1, <2>11
  <2>12. CASE \/ \E p \in Pruner : DeleteBatch(p)
              \/ \E d \in deletes : DeleteLate(d)
    BY <1>3, <2>12, DeleteCases, DeleteAlone
  <2> HIDE DEF StagedOK
  <2> QED BY <2>3, <2>4, <2>5, <2>6, <2>7, <2>8, <2>9, <2>10, <2>11, <2>12,
             RecordFrame, ManifestFrame, WriterFrame, StageFrame, SentFrame
<1> QED BY <1>2, <1>3

(* The committed number of a version is the one in its manifest, and calls *)
(* are made against committed versions.                                    *)
LEMMA CommitStep ==
  ASSUME StoreInv, [Next]_vars
  PROVE  CommitInv'
<1>0. TypeOK /\ OpInv /\ PreparedInv /\ CommitInv /\ Prepared \subseteq Prepared'
  BY PreparedGrows DEF StoreInv
<1>1. ASSUME NEW v \in Version
      PROVE  committed[v] > 0 => seq'[v] = seq[v] /\ v \in Prepared
  <2>1. committed[v] > 0 => v \in Prepared
    BY <1>0 DEF CommitInv, Version, Prepared
  <2> QED BY <1>0, <2>1, ManifestFixed
<1>2. ASSUME NEW o \in Op, Commit(o)
      PROVE  /\ \A v \in Version : committed'[v] \in {committed[v], seq'[v]}
             /\ \A v \in Version : committed'[v] >= committed[v]
             /\ \A q \in Op : committed'[q] > 0 => q \in receipts' /\ q \in Prepared
  <2>1. UNCHANGED seq /\ receipts \subseteq receipts'
    BY <1>2 DEF Commit
  <2>2. CASE UNCHANGED committed
    BY <1>0, <2>1, <2>2 DEF CommitInv, TypeOK
  <2>3. CASE committed' = [committed EXCEPT ![o] = seq[o]] /\ receipts' = receipts \cup {o} /\ o \notin receipts
    <3>1. o \in Prepared /\ committed[o] = 0 /\ o \in Version
      BY <1>0, <1>2, <2>3 DEF Commit, OpInv, CommitInv, TypeOK, Version
    <3> QED BY <1>0, <2>1, <2>3, <3>1 DEF CommitInv, TypeOK
  <2> QED BY <1>2, <2>2, <2>3 DEF Commit
<1>3. /\ \A v \in Version : committed'[v] \in {committed[v], seq'[v]}
      /\ \A v \in Version : committed'[v] >= committed[v]
      /\ \A q \in Op : committed'[q] > 0 => q \in receipts' /\ q \in Prepared
  <2>1. CASE UNCHANGED <<active, committed, receipts>>
    BY <1>0, <2>1 DEF CommitInv, TypeOK
  <2> QED BY <1>2, <2>1, CommitFrame
<1>4. ASSUME NEW o \in Op
      PROVE  committed'[expected'[o]] > 0
  <2>1. ASSUME NEW q \in Op, NEW r \in Requests, NEW e \in Version, AcquireWriter(q, r, e)
        PROVE  expected'[o] \in Version /\ committed[expected'[o]] > 0
    BY <1>0, <2>1, SMTT(30) DEF AcquireWriter, CommitInv, TypeOK
  <2>2. ASSUME UNCHANGED <<request, expected>>
        PROVE  expected'[o] \in Version /\ committed[expected'[o]] > 0
    BY <1>0, <2>2 DEF CommitInv, TypeOK
  <2>3. PICK w \in Version : w = expected'[o] /\ committed[w] > 0
    BY <2>1, <2>2, CallFrame
  <2>4. committed[w] \in Nat /\ committed'[w] \in Nat /\ committed'[w] >= committed[w]
    BY <1>0, <1>3, TypeStep DEF TypeOK
  <2> QED BY <2>3, <2>4
<1>5. ASSUME NEW v \in Version, committed'[v] > 0
      PROVE  committed'[v] = seq'[v]
  BY <1>0, <1>1, <1>3, <1>5 DEF CommitInv
<1> QED BY <1>0, <1>3, <1>4, <1>5 DEF CommitInv

(* The script that makes a version active gives it the next number. *)
LEMMA CommitNext ==
  ASSUME StoreInv, NEW o \in Op, Commit(o), active' # active
  PROVE  /\ active' = o /\ o \in Version
         /\ committed' = [committed EXCEPT ![o] = committed[active] + 1]
<1>1. TypeOK /\ ComputeInv /\ CommitInv
  BY DEF StoreInv
<1>2. changed[o] /\ active' = o /\ active = expected[o] /\ committed' = [committed EXCEPT ![o] = seq[o]]
  BY DEF Commit, CommitReply, Target
<1>3. seq[o] = seq[active] + 1 /\ committed[active] = seq[active]
  BY <1>1, <1>2 DEF ComputeInv, CommitInv, TypeOK
<1> QED BY <1>2, <1>3 DEF Version

(* Committed versions form one line that ends in the active one. *)
LEMMA CommitLineStep ==
  ASSUME StoreInv, [Next]_vars
  PROVE  CommitLine'
<1>0. TypeOK /\ CommitLine
  BY DEF StoreInv
<1>1. ASSUME NEW o \in Op, Commit(o), active' # active
      PROVE  CommitLine'
  <2>1. /\ active' = o /\ o \in Version
        /\ committed' = [committed EXCEPT ![o] = committed[active] + 1]
    BY <1>1, CommitNext
  <2>2. \A v \in Version : committed'[v] = IF v = o THEN committed[active] + 1 ELSE committed[v]
    BY <1>0, <2>1 DEF TypeOK
  <2> QED BY <1>0, <2>1, <2>2 DEF CommitLine, TypeOK
<1>2. ASSUME NEW o \in Op, Commit(o), active' = active
      PROVE  CommitLine'
  <2>1. committed' = committed
    <3>1. changed[o] /\ o \notin receipts /\ CommitReply(o) = "committed" => active = expected[o] /\ o = active
      BY <1>2 DEF Commit, CommitReply, Target
    <3>2. changed[o] => words[o] # words[expected[o]]
      BY DEF StoreInv, ComputeInv
    <3> QED BY <1>2, <3>1, <3>2 DEF Commit
  <2> QED BY <1>0, <1>2, <2>1 DEF CommitLine
<1>3. CASE UNCHANGED <<active, committed, receipts>>
  BY <1>0, <1>3 DEF CommitLine
<1> QED BY <1>1, <1>2, <1>3, CommitFrame

(* The commit script never finds its generation gone. *)
LEMMA ReplyNotMissing ==
  ASSUME StoreInv, NEW o \in Op, sent[o]
  PROVE  CommitReply(o) # "missing"
BY DEF StoreInv, StageInv, ReachableIntact, Reachable, Intact, CommitReply, Target

(* So no caller is told that the collection is corrupt. *)
LEMMA MissingStep ==
  ASSUME StoreInv, [Next]_vars
  PROVE  CommitNeverMissing'
<1>0. TypeOK /\ CommitNeverMissing
  BY DEF StoreInv
<1>1. ASSUME NEW o \in Op, NEW r \in Requests, NEW e \in Version, AcquireWriter(o, r, e)
      PROVE  CommitNeverMissing'
  BY <1>0, <1>1 DEF AcquireWriter, CommitNeverMissing, TypeOK
<1>2. ASSUME NEW o \in Op, Staged(o)
      PROVE  CommitNeverMissing'
  BY <1>0, <1>2 DEF Staged, Return, CommitNeverMissing, TypeOK
<1>3. ASSUME NEW o \in Op, Commit(o)
      PROVE  CommitNeverMissing'
  <2>1. CommitReply(o) # "missing"
    BY <1>3, ReplyNotMissing DEF Commit
  <2>2. result' = result \/ result' = [result EXCEPT ![o] = CommitReply(o)]
    BY <1>3 DEF Commit, Return
  <2> QED BY <1>0, <2>1, <2>2 DEF CommitNeverMissing, TypeOK
<1>4. ASSUME NEW o \in Op, WriteFails(o)
      PROVE  CommitNeverMissing'
  BY <1>0, <1>4 DEF WriteFails, Return, CommitNeverMissing, TypeOK
<1>5. ASSUME NEW o \in Op, ResolveOperation(o)
      PROVE  CommitNeverMissing'
  BY <1>0, <1>5 DEF ResolveOperation, CommitNeverMissing, TypeOK
<1>6. CASE UNCHANGED result
  BY <1>0, <1>6 DEF CommitNeverMissing
<1> QED BY <1>1, <1>2, <1>3, <1>4, <1>5, <1>6, ResultFrame

(* The number of the active version never decreases, and the number of a   *)
(* version a call was made against does not change.                        *)
LEMMA BehindStays ==
  ASSUME StoreInv, [Next]_vars, NEW v \in Version, committed[v] > 0,
         committed[v] < committed[active]
  PROVE  committed'[v] < committed'[active']
<1>0. TypeOK /\ CommitLine /\ CommitInv /\ OpInv
  BY DEF StoreInv
<1>1. ASSUME NEW o \in Op, Commit(o)
      PROVE  committed'[v] < committed'[active']
  <2>1. CASE active' # active
    <3>1. active' = o /\ committed' = [committed EXCEPT ![o] = committed[active] + 1]
      BY <1>1, <2>1, CommitNext
    <3>2. o \notin receipts
      BY <1>1, <2>1 DEF Commit
    <3>3. v # o
      BY <1>0, <3>2 DEF CommitInv
    <3> QED BY <1>0, <3>1, <3>3 DEF TypeOK, Version
  <2>2. CASE active' = active
    <3>1. committed'[v] \in {committed[v]} /\ committed'[active] = committed[active]
      <4>1. CASE UNCHANGED committed
        BY <4>1
      <4>2. CASE ~UNCHANGED committed
        <5>1. changed[o] /\ o = active /\ active = expected[o]
          BY <1>1, <2>2, <4>2 DEF Commit, CommitReply, Target
        <5>2. changed[o] => words[o] # words[expected[o]]
          BY DEF StoreInv, ComputeInv
        <5> QED BY <5>1, <5>2
      <4> QED BY <4>1, <4>2
    <3> QED BY <2>2, <3>1
  <2> QED BY <2>1, <2>2
<1>2. CASE UNCHANGED <<active, committed, receipts>>
  BY <1>2
<1> QED BY <1>1, <1>2, CommitFrame

(* A refused call stays refused: it cannot have sent the script, it lost   *)
(* its lease for good, or it is behind the active version for good.        *)
LEMMA RefusalStep ==
  ASSUME StoreInv, [Next]_vars
  PROVE  RefusalInv'
<1>0. /\ TypeOK /\ OpInv /\ PreparedInv /\ CommitInv /\ CommitLine /\ RefusalInv
      /\ MaintenanceExcludesWriters
  BY DEF StoreInv
<1> DEFINE Lost(o) == ~sent[o] \/ ~LiveWriter(o) \/ committed[expected[o]] < committed[active]
           RefusalOK(o) == /\ result[o] = "error" => ~sent[o]
                           /\ result[o] \in Refusals => Lost(o)
<1>1. SUFFICES ASSUME NEW o \in Op PROVE RefusalOK(o)'
  BY DEF RefusalInv
<1>2. ASSUME phase[o] # "idle"
      PROVE  /\ expected'[o] = expected[o]
             /\ LiveWriter(o)' => LiveWriter(o)
  <2>1. ASSUME NEW q \in Op, NEW r \in Requests, NEW e \in Version, AcquireWriter(q, r, e)
        PROVE  expected'[o] = expected[o] /\ ~AcquireWriter(o, r, e)
    BY <1>0, <1>2, <2>1 DEF AcquireWriter, TypeOK
  <2> QED BY <1>0, <1>2, <2>1, CallFrame, WriterNotRevived DEF AcquireWriter
<1>3. ASSUME phase[o] = "done"
      PROVE  sent'[o] = sent[o]
  <2>1. ASSUME NEW q \in Op, Prepare(q) \/ Staged(q)
        PROVE  sent'[o] = sent[o]
    BY <1>0, <1>3, <2>1 DEF Prepare, Staged, TypeOK
  <2> QED BY <2>1, SentFrame
<1>4. ASSUME phase[o] = "done", Lost(o)
      PROVE  Lost(o)'
  BY <1>0, <1>2, <1>3, <1>4, BehindStays DEF CommitInv, TypeOK
<1>5. ASSUME result'[o] = result[o]
      PROVE  RefusalOK(o)'
  <2>1. CASE result[o] = "none"
    BY <1>5, <2>1 DEF Refusals
  <2>2. CASE result[o] # "none"
    BY <1>0, <1>3, <1>4, <1>5, <2>2 DEF OpInv, RefusalInv
  <2> QED BY <2>1, <2>2
<1>6. ASSUME NEW q \in Op, NEW r \in Requests, NEW e \in Version, AcquireWriter(q, r, e)
      PROVE  RefusalOK(o)'
  <2>1. CASE q = o
    BY <1>0, <1>6, <2>1, RequestAssumption DEF AcquireWriter, OpInv, Prepared, Refusals, TypeOK
  <2>2. CASE q # o
    BY <1>0, <1>5, <1>6, <2>2 DEF AcquireWriter, TypeOK
  <2> QED BY <2>1, <2>2
<1>7. ASSUME NEW q \in Op, Staged(q)
      PROVE  RefusalOK(o)'
  <2>1. CASE q = o /\ refused[q]
    BY <1>0, <1>7, <2>1 DEF Staged, Return, OpInv, TypeOK, Refusals
  <2>2. CASE ~(q = o /\ refused[q])
    BY <1>0, <1>5, <1>7, <2>2 DEF Staged, Return, TypeOK
  <2> QED BY <2>1, <2>2
<1>8. ASSUME NEW q \in Op, Commit(q)
      PROVE  RefusalOK(o)'
  <2>1. CASE result'[o] = result[o]
    BY <1>5, <2>1
  <2>2. CASE result'[o] # result[o]
    <3>1. q = o /\ phase[o] = "committing" /\ result'[o] = CommitReply(o) /\ sent[o]
      BY <1>0, <1>8, <2>2 DEF Commit, Return, TypeOK
    <3>2. ASSUME CommitReply(o) # "committed"
          PROVE  UNCHANGED <<active, committed>> /\ Lost(o)
      <4>1. UNCHANGED <<active, committed>>
        BY <1>8, <3>1, <3>2 DEF Commit
      <4>2. CASE maintenance # 0 \/ ~LiveWriter(o)
        BY <1>0, <4>1, <4>2 DEF MaintenanceExcludesWriters
      <4>3. CASE maintenance = 0 /\ LiveWriter(o) /\ active # expected[o]
        <5>1. committed[expected[o]] # committed[active]
          BY <1>0, <4>3 DEF CommitLine, CommitInv, TypeOK
        <5>2. expected[o] \in Version /\ active \in Version
          BY <1>0 DEF TypeOK
        <5>3. committed[expected[o]] \in Nat /\ committed[active] \in Nat
          BY <1>0, <5>2 DEF TypeOK
        <5>4. committed[expected[o]] <= committed[active]
          BY <1>0, <5>2 DEF CommitLine
        <5>5. committed[expected[o]] < committed[active]
          BY <5>1, <5>3, <5>4
        <5> QED BY <4>1, <5>5
      <4>4. CASE maintenance = 0 /\ LiveWriter(o) /\ active = expected[o]
        BY <3>1, <3>2, <4>4, ReplyNotMissing DEF CommitReply
      <4> QED BY <4>2, <4>3, <4>4
    <3>3. UNCHANGED <<sent, expected>> /\ (LiveWriter(o)' => LiveWriter(o))
      BY <1>2, <1>8, <3>1 DEF Commit
    <3>4. CommitReply(o) # "error"
      BY DEF CommitReply
    <3> QED BY <3>1, <3>2, <3>3, <3>4 DEF Refusals
  <2> QED BY <2>1, <2>2
<1>9. ASSUME NEW q \in Op, WriteFails(q)
      PROVE  RefusalOK(o)'
  <2>1. CASE q = o
    BY <1>0, <1>9, <2>1 DEF WriteFails, Return, TypeOK, Refusals
  <2>2. CASE q # o
    BY <1>0, <1>5, <1>9, <2>2 DEF WriteFails, Return, TypeOK
  <2> QED BY <2>1, <2>2
<1>10. ASSUME NEW q \in Op, ResolveOperation(q)
       PROVE  RefusalOK(o)'
  <2>1. CASE q = o
    BY <1>0, <1>10, <2>1 DEF ResolveOperation, TypeOK, Refusals
  <2>2. CASE q # o
    BY <1>0, <1>5, <1>10, <2>2 DEF ResolveOperation, TypeOK
  <2> QED BY <2>1, <2>2
<1>11. CASE UNCHANGED result
  BY <1>5, <1>11
<1> HIDE DEF RefusalOK
<1> QED BY <1>6, <1>7, <1>8, <1>9, <1>10, <1>11, ResultFrame

(* What a caller was told stays true. *)
LEMMA OutcomeStep ==
  ASSUME StoreInv, [Next]_vars
  PROVE  OutcomeFinal'
<1>0. TypeOK /\ OpInv /\ OutcomeFinal /\ RefusalInv
  BY DEF StoreInv
<1> DEFINE OutcomeOK(o) == /\ result[o] \in Refusals \cup {"error"} => o \notin receipts
                           /\ result[o] = "committed" => o \in receipts
<1>1. SUFFICES ASSUME NEW o \in Op PROVE OutcomeOK(o)'
  BY DEF OutcomeFinal
<1>2. OutcomeOK(o)
  BY <1>0 DEF OutcomeFinal
<1>3. ASSUME phase[o] \in {"idle", "leased", "staging"}
      PROVE  o \notin receipts
  BY <1>0, <1>3, RequestAssumption DEF OpInv, Prepared
<1>4. ASSUME NEW q \in Op, NEW r \in Requests, NEW e \in Version, AcquireWriter(q, r, e)
      PROVE  OutcomeOK(o)'
  BY <1>0, <1>2, <1>3, <1>4 DEF AcquireWriter, TypeOK
<1>5. ASSUME NEW q \in Op, Staged(q)
      PROVE  OutcomeOK(o)'
  BY <1>0, <1>2, <1>3, <1>5 DEF Staged, Return, TypeOK
<1>6. ASSUME NEW q \in Op, WriteFails(q)
      PROVE  OutcomeOK(o)'
  <2>1. phase[q] \in {"leased", "staging", "committing"} /\ receipts' = receipts
        /\ result' = [result EXCEPT ![q] = IF sent[q] THEN "unknown" ELSE "error"]
    BY <1>6 DEF WriteFails, Return
  <2>2. phase[q] = "committing" => sent[q]
    BY <1>0 DEF OpInv
  <2> QED BY <1>0, <1>2, <1>3, <2>1, <2>2 DEF TypeOK, Refusals
<1>7. ASSUME NEW q \in Op, ResolveOperation(q)
      PROVE  OutcomeOK(o)'
  BY <1>0, <1>2, <1>7 DEF ResolveOperation, TypeOK, Refusals
<1>8. ASSUME NEW q \in Op, Commit(q)
      PROVE  OutcomeOK(o)'
  <2>1. CASE q # o
    <3>1. (o \in receipts' <=> o \in receipts) /\ result'[o] = result[o]
      BY <1>0, <1>8, <2>1 DEF Commit, Return, TypeOK
    <3> QED BY <1>2, <3>1
  <2>2. CASE q = o /\ result' = result
    <3>1. ASSUME CommitReply(o) = "committed", o \notin receipts
          PROVE  result[o] \notin Refusals \cup {"error"}
      <4>1. sent[o] /\ LiveWriter(o) /\ active = expected[o] /\ committed[active] \in Nat
        BY <1>0, <1>8, <2>2, <3>1 DEF Commit, CommitReply, TypeOK
      <4> QED BY <1>0, <4>1 DEF RefusalInv
    <3> QED BY <1>2, <1>8, <2>2, <3>1 DEF Commit
  <2>3. CASE q = o /\ result' # result
    <3>1. result'[o] = CommitReply(o)
      BY <1>0, <1>8, <2>3 DEF Commit, Return, TypeOK
    <3>2. CommitReply(o) = "committed" => o \in receipts'
      BY <1>8, <2>3 DEF Commit
    <3>3. CommitReply(o) # "committed" => o \notin receipts'
      BY <1>8, <2>3 DEF Commit, CommitReply
    <3>4. "committed" \notin Refusals \cup {"error"}
      BY DEF Refusals
    <3> QED BY <3>1, <3>2, <3>3, <3>4
  <2> QED BY <2>1, <2>2, <2>3
<1>9. CASE UNCHANGED <<result, receipts>>
  BY <1>2, <1>9
<1> HIDE DEF OutcomeOK
<1> QED BY <1>4, <1>5, <1>6, <1>7, <1>8, <1>9, ResultFrame, CommitFrame

(* What List still has to read is named by the manifest it pinned. *)
LEMMA ListStep ==
  ASSUME StoreInv, [Next]_vars
  PROVE  ListInv'
<1>0. TypeOK /\ PreparedInv /\ ListInv
  BY DEF StoreInv
<1>1. ASSUME NEW s \in Snap
      PROVE  words'[pinned[s]] = words[pinned[s]]
  BY <1>0, ManifestFixed DEF PreparedInv
<1>2. ASSUME NEW s \in Snap, SnapshotAcquire(s) \/ SnapshotManifest(s)
      PROVE  ListInv'
  BY <1>0, <1>1, <1>2, SMTT(30) DEF SnapshotAcquire, SnapshotManifest, ListInv, TypeOK
<1>3. ASSUME NEW s \in Snap, ListStart(s)
      PROVE  ListInv'
  BY <1>0, <1>1, <1>3 DEF ListStart, ListInv, TypeOK
<1>4. ASSUME NEW s \in Snap, NEW k \in Keyword, ListBucket(s, k)
      PROVE  ListInv'
  BY <1>0, <1>1, <1>4 DEF ListBucket, ListInv, TypeOK
<1>5. ASSUME NEW s \in Snap, ListEnd(s) \/ SnapshotClose(s)
      PROVE  ListInv'
  BY <1>0, <1>1, <1>5 DEF ListEnd, SnapshotClose, ListInv, TypeOK
<1>6. CASE UNCHANGED <<sphase, pinned, unread>>
  BY <1>0, <1>1, <1>6 DEF ListInv
<1> QED BY <1>2, <1>3, <1>4, <1>5, <1>6, SnapFrame DEF PruneAcquire

(* A snapshot whose lease is live never finds a record missing. *)
LEMMA SnapshotStep ==
  ASSUME StoreInv, [Next]_vars
  PROVE  SnapshotIntact'
<1>0. TypeOK /\ PreparedInv /\ ReachableIntact /\ ListInv /\ SnapshotIntact
  BY DEF StoreInv
<1>1. SUFFICES ASSUME NEW s \in Snap, LiveLease(s)'
               PROVE  sphase'[s] # "missing"
  BY DEF SnapshotIntact
<1>2. CASE SnapshotAcquire(s)
  BY <1>0, <1>2 DEF SnapshotAcquire, TypeOK
<1>3. CASE LiveLease(s)
  <2>1. Intact(pinned[s]) /\ sphase[s] # "missing"
    BY <1>0, <1>3 DEF ReachableIntact, Reachable, SnapshotIntact
  <2>2. ASSUME NEW t \in Snap, SnapshotManifest(t)
        PROVE  sphase'[s] # "missing"
    BY <1>0, <2>1, <2>2 DEF SnapshotManifest, Intact, TypeOK
  <2>3. ASSUME NEW t \in Snap, NEW k \in Keyword, ListBucket(t, k)
        PROVE  sphase'[s] # "missing"
    <3>1. t = s => k \in chunks
      BY <1>0, <2>1, <2>3 DEF ListBucket, ListInv, Intact
    <3> QED BY <1>0, <2>1, <2>3, <3>1 DEF ListBucket, TypeOK
  <2>4. ASSUME NEW t \in Snap, SnapshotAcquire(t) \/ ListStart(t) \/ ListEnd(t) \/ SnapshotClose(t)
        PROVE  sphase'[s] # "missing"
    BY <1>0, <2>1, <2>4 DEF SnapshotAcquire, ListStart, ListEnd, SnapshotClose, TypeOK
  <2>5. CASE UNCHANGED sphase
    BY <2>1, <2>5
  <2> QED BY <2>2, <2>3, <2>4, <2>5, SnapFrame DEF PruneAcquire
<1> QED BY <1>0, <1>1, <1>2, <1>3, LeaseNotRevived

(* Every token is handed out once, and every script carries one that was. *)
LEMMA TokenStep ==
  ASSUME StoreInv, [Next]_vars
  PROVE  TokenInv'
<1>0. TypeOK /\ TypeOK' /\ TokenInv /\ fence <= fence'
  BY TypeStep, TokenMonotone DEF StoreInv
<1>1. maintenance' <= fence'
  BY <1>0, TokenMonotone DEF TokenInv, TypeOK
<1> DEFINE TokensOK == /\ \A p \in Pruner : /\ token[p] <= fence
                                            /\ pphase[p] = "idle" => token[p] = 0
                                            /\ pphase[p] # "idle" => token[p] # 0
                       /\ \A p, q \in Pruner : p # q /\ token[p] = token[q] => token[p] = 0
<1>2. TokensOK'
  <2>1. ASSUME NEW p \in Pruner, PruneAcquire(p), UNCHANGED <<fence, pphase, token>>
        PROVE  TokensOK'
    BY <1>0, <2>1 DEF TokenInv
  <2>2. ASSUME NEW p \in Pruner, PruneAcquire(p), ~UNCHANGED <<fence, pphase, token>>
        PROVE  TokensOK'
    <3>1. /\ fence' = fence + 1 /\ token' = [token EXCEPT ![p] = fence + 1]
          /\ pphase' = [pphase EXCEPT ![p] = "active"]
      BY <2>2 DEF PruneAcquire
    <3>2. \A q \in Pruner : token[q] \in Nat /\ token[q] <= fence
      BY <1>0 DEF TokenInv, TypeOK
    <3>3. \A q \in Pruner : q # p => token'[q] = token[q] /\ pphase'[q] = pphase[q]
      BY <1>0, <3>1 DEF TypeOK
    <3>4. token'[p] = fence + 1 /\ pphase'[p] = "active" /\ fence \in Nat
      BY <1>0, <3>1 DEF TypeOK
    <3> QED BY <1>0, <3>1, <3>2, <3>3, <3>4 DEF TokenInv
  <2>3. ASSUME NEW p \in Pruner, PruneReturn(p)
        PROVE  TokensOK'
    <3>1. /\ fence' = fence /\ token' = [token EXCEPT ![p] = 0]
          /\ pphase' = [pphase EXCEPT ![p] = "idle"]
      BY <2>3 DEF PruneReturn
    <3> QED BY <1>0, <3>1 DEF TokenInv, TypeOK
  <2>4. ASSUME NEW p \in Pruner, \/ KeepActive(p) \/ KeepLeases(p) \/ KeepRecent(p) \/ RefFence(p)
                                 \/ (\E v \in Version : RefLoad(p, v)) \/ Candidates(p)
                                 \/ SendDelete(p) \/ DeleteBatch(p)
        PROVE  TokensOK'
    <3>1. /\ UNCHANGED <<fence, token>> /\ pphase[p] # "idle"
          /\ \E ph : pphase' = [pphase EXCEPT ![p] = ph] /\ ph # "idle"
      BY <2>4 DEF PruneReads, KeepActive, KeepLeases, KeepRecent, RefFence, RefLoad, Candidates,
                  SendDelete, DeleteBatch, RunDelete
    <3> QED BY <1>0, <3>1 DEF TokenInv, TypeOK
  <2>5. CASE UNCHANGED <<pphase, token, fence>>
    BY <1>0, <2>5 DEF TokenInv
  <2>6. MaintenanceExpires => UNCHANGED <<pphase, token, fence>>
    BY DEF MaintenanceExpires
  <2> HIDE DEF TokensOK
  <2> QED BY <2>1, <2>2, <2>3, <2>4, <2>5, <2>6, TokenFrame, PruneFrame
<1>3. ASSUME NEW d \in deletes'
      PROVE  d.token # 0 /\ d.token <= fence'
  <2>1. CASE d \in deletes
    <3>1. d.token \in Nat /\ fence \in Nat /\ fence' \in Nat /\ d.token # 0 /\ d.token <= fence
      BY <1>0, <2>1 DEF TokenInv, TypeOK, DeleteRequest
    <3> QED BY <1>0, <3>1
  <2>2. CASE d \notin deletes
    <3>1. PICK p \in Pruner : SendDelete(p)
      BY <1>3, <2>2, DeletesFrame
    <3>2. d \in NextDeletes(p) /\ pphase[p] = "delete" /\ fence' = fence
      BY <1>3, <2>2, <3>1 DEF SendDelete
    <3>3. d.token = token[p]
      BY <3>2 DEF NextDeletes
    <3> QED BY <1>0, <3>2, <3>3 DEF TokenInv
  <2> QED BY <2>1, <2>2
<1> QED BY <1>1, <1>2, <1>3 DEF TokenInv

(* A pruner at work that holds its token held it before. *)
LEMMA HoldsStays ==
  ASSUME StoreInv, [Next]_vars, NEW p \in Pruner, Holds(p)', token'[p] = token[p],
         pphase[p] # "idle"
  PROVE  Holds(p) /\ maintenance # 0
<1>1. token[p] # 0 /\ token[p] <= fence /\ token[p] \in Nat /\ fence \in Nat
  BY DEF StoreInv, TokenInv, TypeOK
<1>2. maintenance' = token[p]
  BY DEF Holds
<1> QED BY <1>1, <1>2, TokenMonotone DEF StoreInv, Holds

(* How the locals of a pruner hang together. *)
LEMMA JobStep ==
  ASSUME StoreInv, [Next]_vars
  PROVE  JobInv'
<1>0. TypeOK /\ TokenInv /\ JobInv /\ PreparedInv
  BY DEF StoreInv
<1> DEFINE Early(p) == pphase[p] \in {"active", "leases", "gens", "refs", "load"} =>
                         \A d \in deletes : d.token # token[p]
           RefsOK(p) == pphase[p] \in {"refs", "load", "delete", "deleting"} =>
                          /\ toLoad[p] \subseteq keep[p]
                          /\ \A v \in keep[p] \ toLoad[p] : words[v] \subseteq refs[p]
                          /\ deadGens[p] \cap keep[p] = {}
           DeadOK(p) == pphase[p] \in {"delete", "deleting"} => toLoad[p] = {} /\ dead[p] \cap refs[p] = {}
           BatchOK(p) == pphase[p] = "deleting" => batch[p] \in deletes
           JobOK(p) == Early(p) /\ RefsOK(p) /\ DeadOK(p) /\ BatchOK(p)
<1>1. SUFFICES ASSUME NEW p \in Pruner PROVE JobOK(p)'
  BY DEF JobInv
<1>2. JobOK(p) /\ keep[p] \subseteq Prepared
  BY <1>0 DEF JobInv, PreparedInv
<1>3. \A v \in Prepared : words'[v] = words[v]
  BY <1>0, ManifestFixed
<1> DEFINE locals == <<pphase[p], token[p], keep[p], toLoad[p], refs[p], dead[p], deadGens[p], batch[p]>>
<1>4. ASSUME UNCHANGED locals, UNCHANGED deletes
      PROVE  JobOK(p)'
  BY <1>2, <1>3, <1>4
<1>5. ASSUME NEW q \in Pruner, PruneAcquire(q)
      PROVE  JobOK(p)'
  <2>1. CASE q = p /\ pphase' # pphase
    <3>1. /\ pphase'[p] = "active" /\ token'[p] = fence + 1 /\ deletes' = deletes
      BY <1>0, <1>5, <2>1 DEF PruneAcquire, TypeOK
    <3>2. \A d \in deletes : d.token # fence + 1
      BY <1>0 DEF TokenInv, TypeOK, DeleteRequest
    <3> QED BY <3>1, <3>2
  <2>2. CASE q # p \/ pphase' = pphase
    BY <1>0, <1>4, <1>5, <2>2 DEF PruneAcquire, TypeOK
  <2> QED BY <2>1, <2>2
<1>6. ASSUME NEW q \in Pruner, KeepActive(q) \/ KeepLeases(q)
      PROVE  JobOK(p)'
  <2>1. CASE q = p
    <3>1. pphase[p] \in {"active", "leases"} /\ pphase'[p] \in {"leases", "gens"} /\ UNCHANGED <<token, deletes>>
      BY <1>0, <1>6, <2>1 DEF KeepActive, KeepLeases, PruneReads, TypeOK
    <3> QED BY <1>2, <3>1
  <2>2. CASE q # p
    BY <1>0, <1>4, <1>6, <2>2 DEF KeepActive, KeepLeases, PruneReads, TypeOK
  <2> QED BY <2>1, <2>2
<1>7. ASSUME NEW q \in Pruner, KeepRecent(q)
      PROVE  JobOK(p)'
  <2>1. CASE q = p
    <3>1. /\ pphase[p] = "gens" /\ pphase'[p] = "refs" /\ UNCHANGED <<token, deletes>>
          /\ keep'[p] = keep[p] \cup recent /\ toLoad'[p] = keep[p] \cup recent
          /\ deadGens'[p] = gens \ (keep[p] \cup recent)
      BY <1>0, <1>7, <2>1 DEF KeepRecent, PruneReads, TypeOK
    <3> QED BY <1>2, <3>1
  <2>2. CASE q # p
    BY <1>0, <1>4, <1>7, <2>2 DEF KeepRecent, PruneReads, TypeOK
  <2> QED BY <2>1, <2>2
<1>8. ASSUME NEW q \in Pruner, RefFence(q)
      PROVE  JobOK(p)'
  <2>1. CASE q = p
    <3>1. /\ pphase[p] = "refs" /\ pphase'[p] \in {"load", "failed"}
          /\ UNCHANGED <<token, deletes, keep, toLoad, refs, deadGens>>
      BY <1>0, <1>8, <2>1 DEF RefFence, PruneReads, TypeOK
    <3> QED BY <1>2, <1>3, <3>1
  <2>2. CASE q # p
    BY <1>0, <1>4, <1>8, <2>2 DEF RefFence, PruneReads, TypeOK
  <2> QED BY <2>1, <2>2
<1>9. ASSUME NEW q \in Pruner, NEW v \in Version, RefLoad(q, v)
      PROVE  JobOK(p)'
  <2>1. CASE q = p /\ v \in gens
    <3>1. /\ pphase[p] = "load" /\ pphase'[p] = "refs"
          /\ UNCHANGED <<token, deletes, keep, deadGens, words>>
          /\ refs'[p] = refs[p] \cup words[v] /\ toLoad'[p] = toLoad[p] \ {v}
      BY <1>0, <1>9, <2>1 DEF RefLoad, PruneReads, TypeOK
    <3> QED BY <1>2, <3>1
  <2>2. CASE q = p /\ v \notin gens
    <3>1. pphase'[p] = "failed"
      BY <1>0, <1>9, <2>2 DEF RefLoad, PruneReads, TypeOK
    <3> QED BY <3>1
  <2>3. CASE q # p
    BY <1>0, <1>4, <1>9, <2>3 DEF RefLoad, PruneReads, TypeOK
  <2> QED BY <2>1, <2>2, <2>3
<1>10. ASSUME NEW q \in Pruner, Candidates(q)
       PROVE  JobOK(p)'
  <2>1. CASE q = p
    <3>1. /\ pphase[p] = "refs" /\ pphase'[p] = "delete" /\ toLoad[p] = {}
          /\ UNCHANGED <<token, deletes, keep, toLoad, refs, deadGens>>
          /\ dead'[p] = chunks \ refs[p]
      BY <1>0, <1>10, <2>1 DEF Candidates, PruneReads, TypeOK
    <3> QED BY <1>2, <1>3, <3>1
  <2>2. CASE q # p
    BY <1>0, <1>4, <1>10, <2>2 DEF Candidates, PruneReads, TypeOK
  <2> QED BY <2>1, <2>2
<1>11. ASSUME NEW q \in Pruner, SendDelete(q)
       PROVE  JobOK(p)'
  <2>0. \A d \in deletes' : d \in deletes \/ d.token = token[q]
    BY <1>11 DEF SendDelete, NextDeletes
  <2>1. CASE q = p
    <3>1. /\ pphase[p] = "delete" /\ pphase'[p] \in {"deleting", "failed"}
          /\ UNCHANGED <<token, keep, toLoad, refs, dead, deadGens>>
          /\ pphase'[p] = "deleting" => batch'[p] \in deletes'
      BY <1>0, <1>11, <2>1 DEF SendDelete, TypeOK
    <3> QED BY <1>2, <1>3, <3>1
  <2>2. CASE q # p
    <3>1. UNCHANGED locals /\ deletes \subseteq deletes' /\ token[q] # 0
      BY <1>0, <1>11, <2>2 DEF SendDelete, TypeOK, TokenInv
    <3>2. token[p] # token[q]
      BY <1>0, <2>2, <3>1 DEF TokenInv
    <3> QED BY <1>2, <1>3, <2>0, <3>1, <3>2
  <2> QED BY <2>1, <2>2
<1>12. ASSUME NEW q \in Pruner, DeleteBatch(q)
       PROVE  JobOK(p)'
  <2>1. CASE q = p
    <3>1. /\ pphase[p] = "deleting" /\ pphase'[p] = "delete"
          /\ UNCHANGED <<token, deletes, keep, toLoad, refs>>
          /\ dead'[p] \subseteq dead[p] /\ deadGens'[p] \subseteq deadGens[p]
      BY <1>0, <1>12, <2>1 DEF DeleteBatch, RunDelete, TypeOK
    <3> QED BY <1>2, <1>3, <3>1
  <2>2. CASE q # p
    BY <1>0, <1>4, <1>12, <2>2 DEF DeleteBatch, RunDelete, TypeOK
  <2> QED BY <2>1, <2>2
<1>13. ASSUME NEW q \in Pruner, PruneReturn(q)
       PROVE  JobOK(p)'
  <2>1. CASE q = p
    <3>1. pphase'[p] = "idle"
      BY <1>0, <1>13, <2>1 DEF PruneReturn, TypeOK
    <3> QED BY <3>1
  <2>2. CASE q # p
    BY <1>0, <1>4, <1>13, <2>2 DEF PruneReturn, TypeOK
  <2> QED BY <2>1, <2>2
<1>14. CASE UNCHANGED <<pphase, token, keep, toLoad, refs, dead, deadGens, batch>> /\ UNCHANGED deletes
  BY <1>4, <1>14
<1> HIDE DEF JobOK
<1> QED BY <1>5, <1>6, <1>7, <1>8, <1>9, <1>10, <1>11, <1>12, <1>13, <1>14, PruneFrame, DeletesFrame

(* What a pruner that still holds its token knows at each of its steps.    *)
(* While it holds it, the collection can only forget: nothing becomes      *)
(* active, pinned or recent, and no script of another token deletes.       *)
LEMMA KeepStep ==
  ASSUME StoreInv, [Next]_vars
  PROVE  KeepInv'
<1>0. /\ TypeOK /\ TokenInv /\ KeepInv /\ JobInv /\ PreparedInv /\ ReachableIntact
      /\ MaintenanceExcludesWriters
  BY DEF StoreInv
<1> DEFINE
      KeepOK(p) ==
        /\ pphase[p] \in {"leases", "gens", "refs", "load", "delete", "deleting"} => active \in keep[p]
        /\ pphase[p] \in {"gens", "refs", "load", "delete", "deleting"} =>
             \A s \in Snap : LiveLease(s) => pinned[s] \in keep[p]
        /\ pphase[p] \in {"refs", "load", "delete", "deleting"} => recent \subseteq keep[p]
        /\ pphase[p] \in {"active", "leases"} => \A s \in leases : pinned[s] \in gens
        /\ pphase[p] \in {"leases", "gens", "refs", "load"} => keep[p] \subseteq gens
<1>1. SUFFICES ASSUME NEW p \in Pruner, Holds(p)'
               PROVE  KeepOK(p)'
  BY DEF KeepInv
<1>2. CASE pphase[p] = "idle"
  <2>1. CASE pphase'[p] = "idle"
    BY <2>1
  <2>2. CASE pphase'[p] # "idle"
    <3>1. ASSUME NEW q \in Pruner,
                 \/ KeepActive(q) \/ KeepLeases(q) \/ KeepRecent(q) \/ RefFence(q)
                 \/ (\E v \in Version : RefLoad(q, v)) \/ Candidates(q)
                 \/ SendDelete(q) \/ DeleteBatch(q) \/ PruneReturn(q)
          PROVE  pphase'[p] = "idle"
      <4>1. pphase[q] # "idle" /\ \E ph : pphase' = [pphase EXCEPT ![q] = ph]
        BY <3>1 DEF PruneReads, KeepActive, KeepLeases, KeepRecent, RefFence, RefLoad,
                    Candidates, SendDelete, DeleteBatch, RunDelete, PruneReturn
      <4> QED BY <1>0, <1>2, <4>1 DEF TypeOK
    <3>2. PICK q \in Pruner : PruneAcquire(q)
      BY <1>2, <2>2, <3>1, PruneFrame
    <3>3. pphase'[p] = "active" /\ leases' = leases \ expired /\ UNCHANGED <<pinned, gens>>
      BY <1>0, <1>2, <2>2, <3>2 DEF PruneAcquire, TypeOK
    <3>4. \A s \in leases' : s \in Snap /\ LiveLease(s)
      BY <1>0, <3>3 DEF LiveLease, TypeOK
    <3>5. \A s \in leases' : pinned'[s] \in gens'
      BY <1>0, <3>3, <3>4 DEF ReachableIntact, Reachable, Intact
    <3> QED BY <3>3, <3>5
  <2> QED BY <2>1, <2>2
<1>3. CASE pphase[p] # "idle"
  <2>1. token'[p] \in {token[p], 0}
    <3>1. ASSUME NEW q \in Pruner, PruneAcquire(q) \/ PruneReturn(q)
          PROVE  token'[p] \in {token[p], 0}
      BY <1>0, <1>3, <3>1 DEF PruneAcquire, PruneReturn, TypeOK
    <3> QED BY <3>1, TokenFrame DEF MaintenanceExpires
  <2>2. CASE pphase'[p] = "idle"
    BY <2>2
  <2>3. CASE pphase'[p] # "idle"
    <3>1. token'[p] = token[p]
      <4>1. TokenInv'
        BY TokenStep
      <4> QED BY <2>1, <2>3, <4>1 DEF TokenInv
    <3>2. Holds(p) /\ maintenance # 0 /\ KeepOK(p)
      BY <1>0, <1>1, <1>3, <3>1, HoldsStays DEF KeepInv
    <3>3. /\ active' = active /\ recent' \subseteq recent
          /\ \A s \in Snap : LiveLease(s)' => LiveLease(s) /\ pinned'[s] = pinned[s]
      BY <3>2, MaintenanceFreezes
    <3>4. leases' \subseteq leases /\ \A s \in leases' : pinned'[s] = pinned[s]
      <4>1. ASSUME NEW s \in Snap, SnapshotAcquire(s)
            PROVE  FALSE
        BY <3>2, <4>1 DEF SnapshotAcquire
      <4>2. ASSUME NEW s \in Snap, \/ SnapshotManifest(s) \/ ListStart(s) \/ ListEnd(s) \/ SnapshotClose(s)
                                   \/ \E k \in Keyword : ListBucket(s, k)
            PROVE  leases' \subseteq leases /\ pinned' = pinned
        BY <4>2 DEF SnapshotManifest, ListStart, ListBucket, ListEnd, SnapshotClose
      <4>3. ASSUME NEW q \in Pruner, PruneAcquire(q)
            PROVE  leases' \subseteq leases /\ pinned' = pinned
        BY <4>3 DEF PruneAcquire
      <4> QED BY <4>1, <4>2, <4>3, SnapFrame
    <3>5. pphase[p] \in {"active", "leases", "gens", "refs", "load"} => gens \subseteq gens'
      <4>1. ASSUME NEW d \in deletes, RunDelete(d)
            PROVE  d.token = token[p]
        BY <3>2, <4>1 DEF RunDelete, Holds
      <4> QED BY <1>0, <4>1, StageGrows, DeleteCases DEF JobInv
    <3>6. CASE pphase'[p] = pphase[p] /\ keep'[p] = keep[p]
      BY <3>2, <3>3, <3>4, <3>5, <3>6
    <3>7. ASSUME NEW q \in Pruner, PruneAcquire(q)
          PROVE  pphase'[p] = pphase[p] /\ keep'[p] = keep[p]
      BY <1>0, <1>3, <3>7 DEF PruneAcquire, TypeOK
    <3>8. ASSUME NEW q \in Pruner, PruneReturn(q)
           PROVE  pphase'[p] = pphase[p] /\ keep'[p] = keep[p]
      BY <1>0, <2>3, <3>8 DEF PruneReturn, TypeOK
    <3>9. ASSUME NEW q \in Pruner, KeepActive(q)
           PROVE  KeepOK(p)'
      <4>1. CASE q = p
        <5>1. /\ pphase[p] = "active" /\ pphase'[p] = "leases" /\ keep'[p] = {active}
          BY <1>0, <3>9, <4>1 DEF KeepActive, PruneReads, TypeOK
        <5>2. active \in gens
          BY <1>0 DEF ReachableIntact, Reachable, Intact
        <5> QED BY <3>2, <3>3, <3>4, <3>5, <5>1, <5>2
      <4>2. CASE q # p
        BY <1>0, <3>6, <3>9, <4>2 DEF KeepActive, PruneReads, TypeOK
      <4> QED BY <4>1, <4>2
    <3>10. ASSUME NEW q \in Pruner, KeepLeases(q)
           PROVE  KeepOK(p)'
      <4>1. CASE q = p
        <5>1. /\ pphase[p] = "leases" /\ pphase'[p] = "gens"
              /\ keep'[p] = keep[p] \cup {pinned[s] : s \in leases}
          BY <1>0, <3>10, <4>1 DEF KeepLeases, PruneReads, TypeOK
        <5>2. keep'[p] \subseteq gens
          BY <3>2, <5>1
        <5>3. \A s \in Snap : LiveLease(s)' => pinned'[s] \in keep'[p]
          BY <3>3, <5>1 DEF LiveLease
        <5> QED BY <3>2, <3>3, <3>5, <5>1, <5>2, <5>3
      <4>2. CASE q # p
        BY <1>0, <3>6, <3>10, <4>2 DEF KeepLeases, PruneReads, TypeOK
      <4> QED BY <4>1, <4>2
    <3>11. ASSUME NEW q \in Pruner, KeepRecent(q)
           PROVE  KeepOK(p)'
      <4>1. CASE q = p
        <5>1. /\ pphase[p] = "gens" /\ pphase'[p] = "refs" /\ keep'[p] = keep[p] \cup recent
          BY <1>0, <3>11, <4>1 DEF KeepRecent, PruneReads, TypeOK
        <5> QED BY <3>2, <3>3, <3>5, <5>1, RecentStored
      <4>2. CASE q # p
        BY <1>0, <3>6, <3>11, <4>2 DEF KeepRecent, PruneReads, TypeOK
      <4> QED BY <4>1, <4>2
    <3>12. ASSUME NEW q \in Pruner, \/ RefFence(q) \/ (\E v \in Version : RefLoad(q, v)) \/ Candidates(q)
                                    \/ SendDelete(q) \/ DeleteBatch(q)
           PROVE  KeepOK(p)'
      <4>1. keep' = keep /\ (q # p => pphase'[p] = pphase[p])
        BY <1>0, <3>12 DEF RefFence, RefLoad, Candidates, SendDelete, DeleteBatch, RunDelete,
                           PruneReads, TypeOK
      <4>2. CASE q = p
        <5>1. \/ pphase'[p] = "failed"
              \/ pphase[p] \in {"refs", "load"} /\ pphase'[p] \in {"refs", "load", "delete"}
              \/ pphase[p] \in {"delete", "deleting"} /\ pphase'[p] \in {"delete", "deleting"}
          BY <1>0, <3>12, <4>2 DEF RefFence, RefLoad, Candidates, SendDelete, DeleteBatch,
                                   PruneReads, TypeOK
        <5> QED BY <3>2, <3>3, <3>5, <4>1, <5>1
      <4>3. CASE q # p
        BY <3>6, <4>1, <4>3
      <4> QED BY <4>2, <4>3
    <3>13. CASE UNCHANGED <<pphase, token, keep, toLoad, refs, dead, deadGens, batch>>
      BY <3>6, <3>13
    <3> HIDE DEF KeepOK
    <3> QED BY <3>6, <3>7, <3>8, <3>9, <3>10, <3>11, <3>12, <3>13, PruneFrame
  <2> QED BY <2>2, <2>3
<1> QED BY <1>2, <1>3

(* A delete script whose token is in place names nothing reachable. *)
LEMMA DeleteStep ==
  ASSUME StoreInv, [Next]_vars
  PROVE  DeleteInv'
<1>0. TypeOK /\ TokenInv /\ KeepInv /\ JobInv /\ PreparedInv /\ ReachableIntact /\ DeleteInv
  BY DEF StoreInv
<1>1. SUFFICES ASSUME NEW d \in deletes', maintenance' = d.token, NEW v \in Reachable'
               PROVE  v \notin d.gens /\ words'[v] \cap d.chunks = {}
  BY DEF DeleteInv
<1>2. d.token # 0
  BY <1>1, TokenStep DEF TokenInv
<1>3. ASSUME v \in Reachable
      PROVE  words'[v] = words[v]
  BY <1>0, <1>3, ManifestFixed DEF ReachableIntact, Intact, PreparedInv
<1>4. CASE d \in deletes
  <2>1. d.token <= fence /\ d.token \in Nat /\ fence \in Nat
    BY <1>0, <1>4 DEF TokenInv, TypeOK, DeleteRequest
  <2>2. maintenance = d.token
    BY <1>0, <1>1, <1>2, <2>1, TokenMonotone
  <2>3. v \in Reachable
    BY <1>1, <1>2, <2>2, MaintenanceFreezes
  <2> QED BY <1>0, <1>3, <1>4, <2>2, <2>3 DEF DeleteInv
<1>5. CASE d \notin deletes
  <2>1. PICK p \in Pruner : SendDelete(p)
    BY <1>1, <1>5, DeletesFrame
  <2>2. /\ pphase[p] = "delete" /\ Holds(p) /\ d \in NextDeletes(p)
        /\ UNCHANGED <<active, recent, pinned, leases, expired, words>>
    BY <1>1, <1>5, <2>1 DEF SendDelete
  <2>3. v \in Reachable
    BY <1>1, <2>2 DEF Reachable, LiveLease
  <2>4. v \in keep[p]
    BY <1>0, <2>2, <2>3 DEF KeepInv, Reachable
  <2>5. words[v] \subseteq refs[p] /\ dead[p] \cap refs[p] = {} /\ v \notin deadGens[p]
    BY <1>0, <2>2, <2>4 DEF JobInv
  <2>6. d.chunks \subseteq dead[p] /\ d.gens \subseteq deadGens[p]
    BY <2>2 DEF NextDeletes, Batches
  <2> QED BY <1>3, <2>3, <2>5, <2>6
<1> QED BY <1>4, <1>5

-----------------------------------------------------------------------------
(***************************************************************************)
(* The theorems.                                                           *)
(***************************************************************************)

(* The invariant holds of a collection that initialize has just created. *)
LEMMA StoreInit ==
  ASSUME Init
  PROVE  StoreInv
<1>1. TypeOK
  BY TypeInit
<1> USE RequestAssumption DEF Init, Version
<1>2. PreparedInv /\ OpInv /\ ComputeInv
  BY DEF PreparedInv, Prepared, OpInv, ComputeInv
<1>3. ReachableIntact
  BY DEF ReachableIntact, Reachable, Intact, LiveLease
<1>4. WriterIntact /\ StageInv /\ MaintenanceExcludesWriters
  BY DEF WriterIntact, StageInv, MaintenanceExcludesWriters, LiveWriter
<1>5. CommitInv /\ CommitLine
  <2>1. /\ committed[Genesis] = 1 /\ seq[Genesis] = 1 /\ active = Genesis /\ Genesis \in Version
        /\ \A v \in Version : v # Genesis => committed[v] = 0
    OBVIOUS
  <2>2. \A o \in Op : expected[o] = Genesis /\ o # Genesis /\ o \in Version
    OBVIOUS
  <2> HIDE DEF Init, Version
  <2>3. CommitInv
    BY <2>1, <2>2 DEF CommitInv
  <2>4. CommitLine
    BY <2>1, <2>2 DEF CommitLine
  <2> QED BY <2>3, <2>4
<1>6. OutcomeFinal /\ CommitNeverMissing /\ RefusalInv
  BY DEF OutcomeFinal, CommitNeverMissing, RefusalInv, Refusals
<1>7. SnapshotIntact /\ ListInv
  BY DEF SnapshotIntact, ListInv
<1>8. TokenInv /\ KeepInv /\ JobInv /\ DeleteInv
  BY DEF TokenInv, KeepInv, JobInv, DeleteInv
<1> QED BY <1>1, <1>2, <1>3, <1>4, <1>5, <1>6, <1>7, <1>8 DEF StoreInv

(* Every step of every client, of Redis and of time preserves it. *)
LEMMA StoreStep ==
  ASSUME StoreInv, [Next]_vars
  PROVE  StoreInv'
<1>1. TypeOK'
  BY TypeStep DEF StoreInv
<1> QED
  BY <1>1, PreparedStep, OpStep, ComputeStep, ReachableStep, WriterStep, StageStep,
     MaintenanceStep, CommitStep, CommitLineStep, OutcomeStep, MissingStep, RefusalStep,
     SnapshotStep, ListStep, TokenStep, KeepStep, JobStep, DeleteStep DEF StoreInv

(* The storage protocol keeps its invariant, whatever the clients, the     *)
(* network and the clock do.                                               *)
THEOREM StoreCorrect == Spec => []StoreInv
<1>1. Init => StoreInv
  BY StoreInit
<1>2. StoreInv /\ [Next]_vars => StoreInv'
  BY StoreStep
<1> QED BY <1>1, <1>2, PTL DEF Spec

(* Every variable always holds values of its kind. *)
THEOREM TypeCorrect == Spec => []TypeOK
<1>1. StoreInv => TypeOK
  BY DEF StoreInv
<1> QED BY <1>1, StoreCorrect, PTL

(* Prune never takes a record from a generation that is active, pinned by  *)
(* a live lease or within retention, however long it was paused and        *)
(* wherever it stopped.                                                    *)
THEOREM PruneSafe == Spec => []ReachableIntact
<1>1. StoreInv => ReachableIntact
  BY DEF StoreInv
<1> QED BY <1>1, StoreCorrect, PTL

(* A writer with a live lease finds the version it was called against and  *)
(* what it staged.                                                         *)
THEOREM WritersSafe == Spec => []WriterIntact
<1>1. StoreInv => WriterIntact
  BY DEF StoreInv
<1> QED BY <1>1, StoreCorrect, PTL

(* No maintenance token is in place while a writer's lease is live: the    *)
(* two Lua scripts that grant them exclude each other, also when leases    *)
(* are renewed late and tokens expire.                                     *)
THEOREM MaintenanceExclusive == Spec => []MaintenanceExcludesWriters
<1>1. StoreInv => MaintenanceExcludesWriters
  BY DEF StoreInv
<1> QED BY <1>1, StoreCorrect, PTL

(* A snapshot whose lease is live reads every record of its generation. *)
THEOREM SnapshotsSafe == Spec => []SnapshotIntact
<1>1. StoreInv => SnapshotIntact
  BY DEF StoreInv
<1> QED BY <1>1, StoreCorrect, PTL

(* What change() reports never turns out wrong, however late or often its  *)
(* scripts run.                                                            *)
THEOREM OutcomesFinal == Spec => []OutcomeFinal
<1>1. StoreInv => OutcomeFinal
  BY DEF StoreInv
<1> QED BY <1>1, StoreCorrect, PTL

(* change() never reports a corrupt collection: v3CommitScript finds the   *)
(* manifest that was staged for it whenever it gets as far as to look.     *)
THEOREM CommitFindsManifest == Spec => []CommitNeverMissing
<1>1. StoreInv => CommitNeverMissing
  BY DEF StoreInv
<1> QED BY <1>1, StoreCorrect, PTL

(* Committed versions form one line that ends in the active one. *)
THEOREM CommitsOrdered == Spec => []CommitLine
<1>1. StoreInv => CommitLine
  BY DEF StoreInv
<1> QED BY <1>1, StoreCorrect, PTL

(* A Prune that holds its token can load every generation it keeps, also   *)
(* after another one stopped half way.                                     *)
THEOREM PruneProgress == Spec => []PruneNeverStuck
<1>1. StoreInv => PruneNeverStuck
  BY DEF StoreInv, KeepInv, JobInv, PruneNeverStuck
<1> QED BY <1>1, StoreCorrect, PTL

(* The store implements the dictionary of VersionedDictionary: a call is   *)
(* submitted when its writer's lease is granted and takes effect when the  *)
(* commit script writes its receipt; nothing else changes the dictionary.  *)
THEOREM StoreImplementsDictionary == Spec => ImplementsDictionary
<1> DEFINE dict == <<request, active, words[active], committed[active], receipts>>
<1>1. Init => Dictionary!Init
  BY DEF Init, Dictionary!Init, Version
<1>2. ASSUME StoreInv, [Next]_vars
      PROVE  Dictionary!Next \/ UNCHANGED dict
  <2>0. TypeOK /\ OpInv /\ PreparedInv /\ ComputeInv
    BY <1>2 DEF StoreInv
  <2>1. words'[active] = words[active]
    BY <1>2, <2>0, ManifestFixed DEF PreparedInv
  <2>2. ASSUME NEW o \in Op, NEW r \in Requests, NEW e \in Version, AcquireWriter(o, r, e)
        PROVE  Dictionary!Next \/ UNCHANGED dict
    <3>1. UNCHANGED <<active, words, committed, receipts>> /\ request[o] = NoRequest
      BY <2>0, <2>2 DEF AcquireWriter, OpInv
    <3>2. request' = request \/ request' = [request EXCEPT ![o] = r]
      BY <2>2 DEF AcquireWriter
    <3> QED BY <3>1, <3>2 DEF Dictionary!Next, Dictionary!Submit
  <2>3. ASSUME NEW o \in Op, Commit(o)
        PROVE  Dictionary!Next \/ UNCHANGED dict
    <3>1. UNCHANGED <<words, request>>
      BY <2>3 DEF Commit
    <3>2. CASE UNCHANGED receipts
      <4>1. UNCHANGED <<active, committed>>
        BY <2>3, <3>2 DEF Commit
      <4> QED BY <3>1, <3>2, <4>1
    <3>3. CASE receipts' # receipts
      <4>1. /\ o \notin receipts /\ receipts' = receipts \cup {o} /\ active = expected[o]
            /\ active' = Target(o) /\ sent[o]
        BY <2>3, <3>3 DEF Commit, CommitReply
      <4>2. request[o] # NoRequest
        BY <2>0, <4>1, RequestAssumption DEF OpInv, Prepared
      <4>3. words'[active'] = Apply(request[o], words[active])
        BY <2>0, <3>1, <4>1 DEF ComputeInv, Target
      <4>4. CASE changed[o]
        <5>1. active' = o /\ words[o] # words[active]
          BY <2>0, <4>1, <4>4 DEF ComputeInv, Target
        <5>2. committed'[active'] = committed[active] + 1
          BY <1>2, <2>0, <2>3, <5>1, CommitNext DEF TypeOK
        <5> QED
          BY <3>1, <4>1, <4>2, <4>3, <5>1, <5>2
          DEF Dictionary!Next, Dictionary!Write, Dictionary!Apply, Apply
      <4>5. CASE ~changed[o]
        <5>1. active' = active /\ committed' = committed
          BY <2>3, <4>1, <4>5 DEF Commit, Target
        <5> QED
          BY <3>1, <4>1, <4>2, <4>3, <5>1
          DEF Dictionary!Next, Dictionary!Write, Dictionary!Apply, Apply
      <4> QED BY <4>4, <4>5
    <3> QED BY <3>2, <3>3
  <2>4. CASE UNCHANGED <<request, expected>> /\ UNCHANGED <<active, committed, receipts>>
    BY <2>1, <2>4
  <2> QED BY <1>2, <2>2, <2>3, <2>4, CallFrame, CommitFrame
<1>3. StoreInv /\ [Next]_vars => [Dictionary!Next]_(Dictionary!dictVars)
  BY <1>2 DEF Dictionary!dictVars
<1> QED BY <1>1, <1>3, StoreCorrect, PTL DEF Spec, ImplementsDictionary, Dictionary!Spec
=============================================================================
