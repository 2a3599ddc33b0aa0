--------------------------- MODULE VersionedShards ---------------------------
(***************************************************************************)
(* The sharded layout of a V3 collection: pkg/acor/versioned_shards.go and *)
(* the sharded paths of versioned_write.go, versioned_snapshot.go and      *)
(* versioned_prune.go.                                                     *)
(*                                                                         *)
(* A sharded generation is a record in the collection's own Redis slot     *)
(* that names one manifest per shard; each shard keeps its manifests, its  *)
(* chunks and a mirror of the writer leases, the maintenance token and the *)
(* fence in a slot of its own, usually on another Redis node. No script    *)
(* spans two slots, so every operation is a sequence of scripts, and every *)
(* script is one action here.                                              *)
(*                                                                         *)
(* Time is not counted and the nodes' clocks are not compared: a lease or  *)
(* a token ends in an action of its own at any moment, in each slot        *)
(* separately. That action also stands for the ZREM of a closing lease and *)
(* for the release scripts of Prune. An operation may fail after any step, *)
(* and a mirror script may be executed long after its client gave up.      *)
(***************************************************************************)
EXTENDS Naturals, FiniteSets, FiniteSetsExt

CONSTANTS
  Keyword,    \* keywords, each the only one of its bucket
  Bucket,     \* v3BucketNumber, a function on Keyword
  MaxShards,  \* v3MaxShardCount
  Counts,     \* the shard counts callers ask for; 1 is the legacy layout
  Requests,   \* the calls writers make
  MaxOps,     \* bound on the calls that create or change the collection
  MaxLive,    \* bound on the calls in progress when a change begins
  MaxPrunes,  \* bound on the maintenance tokens granted
  MaxEvents,  \* bound on what happens to calls: failures, deadlines, renewals
  Reader      \* snapshots

ASSUME ShardAssumption ==
  /\ MaxShards \in Nat \ {0} /\ MaxOps \in Nat /\ MaxPrunes \in Nat
  /\ Bucket \in [Keyword -> Nat]
  /\ Counts \subseteq {n \in 1 .. MaxShards : MaxShards % n = 0}
  /\ Requests \subseteq [mode : {"add", "remove", "replace"}, words : SUBSET Keyword]
  /\ \A req \in Requests : IsFiniteSet(req.words)

Op == 1 .. MaxOps         \* a call, the version and the manifests it writes
Token == 1 .. MaxPrunes   \* a call of Prune, by the token it was granted
Global == MaxShards       \* the collection's own slot
Shard == 0 .. MaxShards - 1
Slot == 0 .. MaxShards

VARIABLES
  \* in the collection's slot
  meta,         \* the shard count recorded in meta, 0 before the collection exists
  active,       \* active, 0 before the collection exists
  gens,         \* versions with a gen: record
  leases,       \* the version each snapshot's lease pins, 0 without one
  \* in every slot
  chunks,       \* keywords with a chunk: record
  manifests,    \* manifests, by the version that wrote them
  writers,      \* live members of writers
  maintenance,  \* the maintenance token, 0 when absent
  fence,        \* the fence
  \* writing calls
  phase,        \* where the call is
  expected,     \* the version it was made against
  draft,        \* the manifest it prepares; then what gen:<v> holds
  fresh,        \* the chunks it stages
  step,         \* what it still has to do in each slot
  mail,         \* mirror scripts on their way to a shard
  \* calls of Prune
  pphase, keep, deadGens, deadChunks, deadManifests, sweep, goal,
  \* history
  born,         \* the fence when the call acquired its lease
  swept,        \* the highest token ever granted maintenance of a shard
  events        \* how often a call failed, or was overtaken by a deadline or a renewal

storeVars == <<meta, active, gens, leases>>
recordVars == <<chunks, manifests>>
tokenVars == <<maintenance, fence, swept>>
planVars == <<expected, draft, fresh>>
opVars == <<phase, planVars, step>>
pruneVars == <<pphase, keep, deadGens, deadChunks, deadManifests, sweep, goal>>
histVars == <<born, events>>
vars == <<storeVars, recordVars, writers, tokenVars, opVars, mail, pruneVars, histVars>>

(* Every bucket lives on one shard; the legacy layout keeps all of them in *)
(* the collection's slot.                                                  *)
Home(k, n) == IF n = 1 THEN Global ELSE Bucket[k] % n

ShardsOf(n) == IF n = 1 THEN {} ELSE 0 .. n - 1

(* The manifest of an empty dictionary in n shards, written by version i. *)
EmptyDraft(n, i) ==
  [n |-> n, shards |-> [s \in Shard |-> IF s \in ShardsOf(n) THEN i ELSE 0], words |-> {}, count |-> 0]

NoDraft == EmptyDraft(1, 0)

(* What the shard manifest written by version i for shard s lists. *)
Listed(i, s) == {k \in draft[i].words : Home(k, draft[i].n) = s}

(* The entries of the shard manifests that version v names, one by one. *)
Entries(v) == UNION {{s} \X Listed(draft[v].shards[s], s) : s \in ShardsOf(draft[v].n)}

(* loadManifest: the record and every shard manifest it names must be      *)
(* there, list only buckets routed to their shard, and add up to the       *)
(* recorded count.                                                         *)
Loads(v) ==
  LET d == draft[v] IN
  /\ v \in gens
  /\ \A s \in ShardsOf(d.n) :
       /\ d.shards[s] \in manifests[s]
       /\ \A k \in Listed(d.shards[s], s) : Bucket[k] % d.n = s
  /\ d.n > 1 => Cardinality(Entries(v)) = d.count

(* The keywords of a loaded manifest. *)
Named(v) ==
  IF draft[v].n = 1 THEN draft[v].words
  ELSE UNION {Listed(draft[v].shards[s], s) : s \in ShardsOf(draft[v].n)}

(* A bucket is read through the slot its manifest gives. *)
Stored(k, n) == k \in chunks[Home(k, n)]

Init ==
  /\ meta = 0 /\ active = 0 /\ gens = {} /\ leases = [r \in Reader |-> 0]
  /\ chunks = [p \in Slot |-> {}]
  /\ manifests = [p \in Slot |-> {}]
  /\ writers = [p \in Slot |-> {}]
  /\ maintenance = [p \in Slot |-> 0]
  /\ fence = [p \in Slot |-> 0]
  /\ phase = [o \in Op |-> "idle"]
  /\ expected = [o \in Op |-> 0]
  /\ draft = [o \in Op |-> NoDraft]
  /\ fresh = [o \in Op |-> {}]
  /\ step = [o \in Op |-> [p \in Slot |-> "none"]]
  /\ mail = {}
  /\ pphase = [t \in Token |-> "idle"]
  /\ keep = [t \in Token |-> {}]
  /\ deadGens = [t \in Token |-> {}]
  /\ deadChunks = [t \in Token |-> {}]
  /\ deadManifests = [t \in Token |-> {}]
  /\ sweep = [t \in Token |-> {}]
  /\ goal = [t \in Token |-> "none"]
  /\ born = [o \in Op |-> 0]
  /\ swept = [p \in Slot |-> 0]
  /\ events = 0

(* Something happens to a call that its own course does not bring. *)
Event == events < MaxEvents /\ events' = events + 1

(* Calls are numbered in the order in which they begin. *)
Begins(o) ==
  /\ phase[o] = "idle"
  /\ \A i \in Op : i < o => phase[i] # "idle"

-----------------------------------------------------------------------------
(* OpenVersioned on a collection that may not exist yet.                   *)

(* initialManifest looks for meta: opening a collection that exists        *)
(* changes nothing. A new one in the legacy layout needs no manifests.     *)
InitialManifest(o, n) ==
  /\ Begins(o)
  /\ meta = 0
  /\ draft' = [draft EXCEPT ![o] = EmptyDraft(n, o)]
  /\ phase' = [phase EXCEPT ![o] = IF n = 1 THEN "create" ELSE "seed"]
  /\ step' = [step EXCEPT ![o] = [p \in Slot |-> IF p \in ShardsOf(n) THEN "manifest" ELSE "none"]]
  /\ UNCHANGED <<storeVars, recordVars, writers, tokenVars, expected, fresh, mail, pruneVars, histVars>>

Unstaged(o) == {p \in Slot : step[o][p] # "none"}

(* It seeds the shards in order, without a lease, unless one is being      *)
(* swept.                                                                  *)
SeedShard(o) ==
  LET s == Min(Unstaged(o)) IN
  /\ phase[o] = "seed"
  /\ Unstaged(o) # {}
  /\ maintenance[s] = 0
  /\ manifests' = [manifests EXCEPT ![s] = @ \cup {o}]
  /\ step' = [step EXCEPT ![o][s] = "none"]
  /\ phase' = [phase EXCEPT ![o] = IF Unstaged(o) = {s} THEN "create" ELSE @]
  /\ UNCHANGED <<storeVars, chunks, writers, tokenVars, planVars, mail, pruneVars, histVars>>

(* initialize: one script creates the collection, or finds it created. *)
Create(o) ==
  /\ phase[o] = "create"
  /\ \/ /\ meta = 0
        /\ meta' = draft[o].n /\ active' = o /\ gens' = gens \cup {o}
     \/ meta # 0 /\ UNCHANGED <<meta, active, gens>>
  /\ phase' = [phase EXCEPT ![o] = "done"]
  /\ UNCHANGED <<leases, recordVars, writers, tokenVars, planVars, step, mail, pruneVars, histVars>>

-----------------------------------------------------------------------------
(* Writing calls: change and Reshard.                                      *)

(* acquire: the writer lease, refused during maintenance and when the      *)
(* expected version is not active.                                         *)
Acquire(o) ==
  /\ Begins(o)
  /\ Cardinality({i \in Op : phase[i] \notin {"idle", "done"}}) < MaxLive
  /\ meta # 0
  /\ maintenance[Global] = 0
  /\ writers' = [writers EXCEPT ![Global] = @ \cup {o}]
  /\ expected' = [expected EXCEPT ![o] = active]
  /\ born' = [born EXCEPT ![o] = fence[Global]]
  /\ phase' = [phase EXCEPT ![o] = "plan"]
  /\ UNCHANGED <<storeVars, recordVars, tokenVars, draft, fresh, step, mail, pruneVars, events>>

(* prepareCommit: what is left to stage for the next manifest, slot by     *)
(* slot. A call that changes nothing goes straight to its commit.          *)
Prepared(o, next, stages, changedShards, changed) ==
  /\ draft' = [draft EXCEPT ![o] = IF changed THEN next ELSE draft[expected[o]]]
  /\ fresh' = [fresh EXCEPT ![o] = IF changed THEN stages ELSE {}]
  /\ phase' = [phase EXCEPT ![o] = IF changed THEN "stage" ELSE "unchanged"]
  /\ step' = [step EXCEPT ![o] = [p \in Slot |->
                IF changed /\ p \in changedShards THEN "mirror"
                ELSE IF changed /\ next.n = 1 /\ p = Global /\ stages # {} THEN "chunks" ELSE "none"]]
  /\ UNCHANGED <<storeVars, recordVars, writers, tokenVars, expected, mail, pruneVars, histVars>>

(* change reads the buckets it touches through the expected manifest and   *)
(* writes back those that differ; v3NextManifest gives every shard with    *)
(* such a bucket a new manifest and keeps the others.                      *)
Change(o, req) ==
  LET old == draft[expected[o]]
      before == Named(expected[o])
      after == [add |-> before \cup req.words, remove |-> before \ req.words,
                replace |-> req.words][req.mode]
      touched == (after \ before) \cup (before \ after)
      changedShards == {Home(k, old.n) : k \in touched} \ {Global}
  IN
  /\ phase[o] = "plan"
  /\ Loads(expected[o])
  /\ \A k \in before : (req.mode = "replace" \/ k \in req.words) => Stored(k, old.n)
  /\ Prepared(o, [n |-> old.n, words |-> after,
                  shards |-> [s \in Shard |-> IF s \in changedShards THEN o ELSE old.shards[s]],
                  count |-> (old.count + Cardinality(after \ before)) - Cardinality(before \ after)],
              after \ before, changedShards, touched # {})

(* Reshard copies every bucket to its home in the new layout. *)
Reshard(o, n) ==
  LET old == draft[expected[o]]
      words == Named(expected[o])
  IN
  /\ phase[o] = "plan"
  /\ Loads(expected[o])
  /\ n # old.n => \A k \in words : Stored(k, old.n)
  /\ Prepared(o, [n |-> n, words |-> words, count |-> old.count,
                  shards |-> [s \in Shard |-> IF s \in ShardsOf(n) THEN o ELSE 0]],
              words, ShardsOf(n), n # old.n)

(* The deadline script of mirrorWriter reads the lease and the fence in    *)
(* the collection's slot; what it read travels to the shard. The renewal   *)
(* of a live lease repeats it for every shard mirrored before.             *)
ReadDeadline(o, s) ==
  /\ step[o][s] # "none"
  /\ IF step[o][s] = "mirror" THEN UNCHANGED events ELSE Event
  /\ maintenance[Global] = 0
  /\ o \in writers[Global]
  /\ mail' = mail \cup {[op |-> o, shard |-> s, fence |-> fence[Global]]}
  /\ UNCHANGED <<storeVars, recordVars, writers, tokenVars, opVars, pruneVars, born>>

(* Mutant of MirrorAccepted: the shard's fence is not compared. *)
MirrorAcceptedUnfenced(m) == maintenance[m.shard] = 0

(* The conditions of the mirror script on what was read before. *)
MirrorAccepted(m) == maintenance[m.shard] = 0 /\ fence[m.shard] <= m.fence

(* The chunks a call stages in a slot. *)
Stages(o, p) == {k \in fresh[o] : Home(k, draft[o].n) = p}

(* The mirror script reaches the shard, whatever became of its client; one *)
(* that is refused, late for its deadline or lost just never does.         *)
Mirror(m) ==
  /\ MirrorAccepted(m)
  /\ fence' = [fence EXCEPT ![m.shard] = m.fence]
  /\ writers' = [writers EXCEPT ![m.shard] = @ \cup {m.op}]
  /\ step' = [step EXCEPT ![m.op][m.shard] = 
                IF @ # "mirror" THEN @ ELSE IF Stages(m.op, m.shard) = {} THEN "manifest" ELSE "chunks"]
  /\ mail' = mail \ {m}
  /\ UNCHANGED <<storeVars, recordVars, maintenance, swept, phase, planVars, pruneVars, histVars>>

(* The conditions of v3StageScript in the slot it runs in. *)
MayStage(o, p) == maintenance[p] = 0 /\ o \in writers[p]

(* stageBatch in one slot: the chunks, then the shard's manifest. *)
StageChunks(o, p) ==
  /\ step[o][p] = "chunks"
  /\ MayStage(o, p)
  /\ chunks' = [chunks EXCEPT ![p] = @ \cup Stages(o, p)]
  /\ step' = [step EXCEPT ![o][p] = IF p = Global THEN "staged" ELSE "manifest"]
  /\ UNCHANGED <<storeVars, manifests, writers, tokenVars, phase, planVars, mail, pruneVars, histVars>>

StageManifest(o, s) ==
  /\ phase[o] = "stage"
  /\ step[o][s] = "manifest"
  /\ MayStage(o, s)
  /\ manifests' = [manifests EXCEPT ![s] = @ \cup {o}]
  /\ step' = [step EXCEPT ![o][s] = "staged"]
  /\ UNCHANGED <<storeVars, chunks, writers, tokenVars, phase, planVars, mail, pruneVars, histVars>>

(* Mutant of AllStaged: the first goroutine to return is enough. *)
AnyStaged(o) == \E p \in Slot : step[o][p] = "staged"

(* Every goroutine of stageAll has returned without an error. *)
AllStaged(o) == \A p \in Slot : step[o][p] \in {"none", "staged"}

(* The generation record is staged last. A sharded one is read back whole  *)
(* before it is committed.                                                 *)
StageGeneration(o) ==
  /\ phase[o] = "stage"
  /\ AllStaged(o)
  /\ MayStage(o, Global)
  /\ gens' = gens \cup {o}
  /\ phase' = [phase EXCEPT ![o] = IF draft[o].n = 1 THEN "commit" ELSE "check"]
  /\ UNCHANGED <<meta, active, leases, recordVars, writers, tokenVars, planVars, step, mail, pruneVars, histVars>>

CheckGeneration(o) ==
  /\ phase[o] = "check"
  /\ Loads(o)
  /\ phase' = [phase EXCEPT ![o] = "commit"]
  /\ UNCHANGED <<storeVars, recordVars, writers, tokenVars, planVars, step, mail, pruneVars, histVars>>

(* The call is left, and its locals with it. *)
Leaves(o, next) ==
  /\ phase' = [phase EXCEPT ![o] = next]
  /\ step' = [step EXCEPT ![o] = [p \in Slot |-> "none"]]
  /\ expected' = [expected EXCEPT ![o] = 0]
  /\ fresh' = [fresh EXCEPT ![o] = {}]
  /\ draft' = [draft EXCEPT ![o] = IF o \in gens THEN @ ELSE NoDraft]

(* v3CommitScript, in the collection's slot alone. *)
Commit(o) ==
  /\ phase[o] \in {"commit", "unchanged"}
  /\ maintenance[Global] = 0
  /\ o \in writers[Global]
  /\ active = expected[o]
  /\ \/ /\ phase[o] = "commit" /\ o \in gens
        /\ active' = o /\ meta' = draft[o].n
     \/ phase[o] = "unchanged" /\ UNCHANGED <<active, meta>>
  /\ Leaves(o, "close")
  /\ UNCHANGED <<gens, leases, recordVars, writers, tokenVars, mail, pruneVars, histVars>>

(* A refused script, a failed read or a lost reply: the call returns an    *)
(* error and closes its lease. Or its process dies.                        *)
Fails(o) ==
  /\ phase[o] \notin {"idle", "close", "unmirror", "done"}
  /\ Event
  /\ \E next \in {"close", "done"} : Leaves(o, next)
  /\ UNCHANGED <<storeVars, recordVars, writers, tokenVars, mail, pruneVars, born>>

(* close removes the lease, then its mirrors. *)
CloseLease(o) ==
  /\ phase[o] = "close"
  /\ writers' = [writers EXCEPT ![Global] = @ \ {o}]
  /\ phase' = [phase EXCEPT ![o] = "unmirror"]
  /\ UNCHANGED <<storeVars, recordVars, tokenVars, planVars, step, mail, pruneVars, histVars>>

CloseMirrors(o) ==
  /\ phase[o] = "unmirror"
  /\ writers' = [p \in Slot |-> writers[p] \ {o}]
  /\ phase' = [phase EXCEPT ![o] = "done"]
  /\ UNCHANGED <<storeVars, recordVars, tokenVars, planVars, step, mail, pruneVars, histVars>>

(* The deadline of a lease passes, in some of the slots that hold it.      *)
(* Under a call that is still running this is an event.                    *)
LeaseExpires(o, slots) ==
  /\ \A p \in slots : o \in writers[p]
  /\ IF phase[o] = "done" THEN UNCHANGED events ELSE Event
  /\ writers' = [p \in Slot |-> IF p \in slots THEN writers[p] \ {o} ELSE writers[p]]
  /\ UNCHANGED <<storeVars, recordVars, tokenVars, opVars, mail, pruneVars, born>>

-----------------------------------------------------------------------------
(* Snapshots.                                                              *)

OpenSnapshot(r) ==
  /\ leases[r] = 0
  /\ meta # 0 /\ maintenance[Global] = 0
  /\ leases' = [leases EXCEPT ![r] = active]
  /\ UNCHANGED <<meta, active, gens, recordVars, writers, tokenVars, opVars, mail, pruneVars, histVars>>

SnapshotEnds(r) ==
  /\ leases[r] # 0
  /\ leases' = [leases EXCEPT ![r] = 0]
  /\ UNCHANGED <<meta, active, gens, recordVars, writers, tokenVars, opVars, mail, pruneVars, histVars>>

-----------------------------------------------------------------------------
(* Prune. A call is known by its token.                                    *)

ClientVars == <<storeVars, writers, opVars, mail, histVars>>

(* The call ends, and its locals with it. *)
PruneReturns(t) ==
  /\ pphase' = [pphase EXCEPT ![t] = "done"]
  /\ keep' = [keep EXCEPT ![t] = {}]
  /\ deadGens' = [deadGens EXCEPT ![t] = {}]
  /\ deadChunks' = [deadChunks EXCEPT ![t] = {}]
  /\ deadManifests' = [deadManifests EXCEPT ![t] = {}]
  /\ sweep' = [sweep EXCEPT ![t] = {}]
  /\ goal' = [goal EXCEPT ![t] = "none"]

PruneAcquire(t) ==
  /\ pphase[t] = "idle"
  /\ meta # 0
  /\ maintenance[Global] = 0 /\ writers[Global] = {}
  /\ t = fence[Global] + 1
  /\ fence' = [fence EXCEPT ![Global] = t]
  /\ maintenance' = [maintenance EXCEPT ![Global] = t]
  /\ pphase' = [pphase EXCEPT ![t] = "keep"]
  /\ UNCHANGED <<ClientVars, recordVars, swept, keep, deadGens, deadChunks, deadManifests, sweep, goal>>

(* pruneKeep: the active version, those a lease pins, and those of the     *)
(* last day, whichever they are.                                           *)
PruneKeep(t, recent) ==
  /\ pphase[t] = "keep"
  /\ keep' = [keep EXCEPT ![t] = ({active} \cup recent \cup {leases[r] : r \in Reader}) \ {0}]
  /\ deadGens' = [deadGens EXCEPT ![t] = gens \ keep'[t]]
  /\ pphase' = [pphase EXCEPT ![t] = "refs"]
  /\ UNCHANGED <<ClientVars, recordVars, tokenVars, deadChunks, deadManifests, sweep, goal>>

(* What pruneReferences finds the kept generations refer to in a slot. *)
ChunkRefs(kept, p) == UNION {{k \in Named(v) : Home(k, draft[v].n) = p} : v \in kept}
ManifestRefs(kept, s) == {draft[v].shards[s] : v \in {u \in kept : s \in ShardsOf(draft[u].n)}}

(* Every kept generation must load, under the token. The dead chunks of    *)
(* the collection's slot are listed next.                                  *)
PruneReferences(t) ==
  /\ pphase[t] = "refs"
  /\ maintenance[Global] = t
  /\ \A v \in keep[t] : Loads(v)
  /\ deadChunks' = [deadChunks EXCEPT ![t] = chunks[Global] \ ChunkRefs(keep[t], Global)]
  /\ pphase' = [pphase EXCEPT ![t] = IF deadChunks'[t] # {} THEN "globalChunks" ELSE "generations"]
  /\ UNCHANGED <<ClientVars, recordVars, tokenVars, keep, deadGens, deadManifests, sweep, goal>>

PruneGlobalChunks(t) ==
  /\ pphase[t] = "globalChunks"
  /\ maintenance[Global] = t
  /\ chunks' = [chunks EXCEPT ![Global] = @ \ deadChunks[t]]
  /\ pphase' = [pphase EXCEPT ![t] = "generations"]
  /\ UNCHANGED <<ClientVars, manifests, tokenVars, keep, deadGens, deadChunks, deadManifests, sweep, goal>>

PruneGenerations(t) ==
  /\ pphase[t] = "generations"
  /\ deadGens[t] # {} => maintenance[Global] = t
  /\ gens' = gens \ deadGens[t]
  /\ pphase' = [pphase EXCEPT ![t] = "discover"]
  /\ UNCHANGED <<meta, active, leases, writers, opVars, mail, histVars, recordVars, tokenVars, keep, deadGens,
                 deadChunks, deadManifests, sweep, goal>>

(* pruneShards: under the token, the shards that hold anything. *)
PruneDiscover(t) ==
  /\ pphase[t] = "discover"
  /\ maintenance[Global] = t
  /\ sweep' = [sweep EXCEPT ![t] = {s \in Shard : chunks[s] \cup manifests[s] \cup writers[s] # {}}]
  /\ goal' = [goal EXCEPT ![t] = "list"]
  /\ pphase' = [pphase EXCEPT ![t] = "shards"]
  /\ UNCHANGED <<ClientVars, recordVars, tokenVars, keep, deadGens, deadChunks, deadManifests>>

(* The shards are swept in order. *)
Front(t) == Min(sweep[t])

(* pruneShardFence grants the token maintenance of the shard. *)
PruneGrant(t) ==
  LET s == Front(t) IN
  /\ pphase[t] \in {"shards", "grant"}
  /\ sweep[t] # {}
  /\ fence[s] <= t
  /\ maintenance[s] \in {0, t}
  /\ writers[s] = {}
  /\ fence' = [fence EXCEPT ![s] = t]
  /\ maintenance' = [maintenance EXCEPT ![s] = t]
  /\ swept' = [swept EXCEPT ![s] = IF @ < t THEN t ELSE @]
  /\ pphase' = [pphase EXCEPT ![t] = "renew"]
  /\ UNCHANGED <<ClientVars, recordVars, keep, deadGens, deadChunks, deadManifests, sweep, goal>>

(* Mutant of Renewed: the grant of the shard alone is trusted. *)
RenewedUnchecked(t) == maintenance[Front(t)] = t

(* Then the token must still be the collection's. *)
Renewed(t) == maintenance[Global] = t

PruneRenew(t) ==
  /\ pphase[t] = "renew"
  /\ Renewed(t)
  /\ pphase' = [pphase EXCEPT ![t] = goal[t]]
  /\ UNCHANGED <<ClientVars, recordVars, tokenVars, keep, deadGens, deadChunks, deadManifests, sweep, goal>>

(* The work left in a shard after one part of it, and the next shard. *)
Proceed(t, dead, deadM) ==
  LET rest == sweep[t] \ {Front(t)}
      next == IF dead # {} THEN "chunks" ELSE IF deadM # {} THEN "manifests" ELSE "list"
  IN
  /\ deadChunks' = [deadChunks EXCEPT ![t] = dead]
  /\ deadManifests' = [deadManifests EXCEPT ![t] = deadM]
  /\ goal' = [goal EXCEPT ![t] = next]
  /\ sweep' = [sweep EXCEPT ![t] = IF next = "list" THEN rest ELSE @]
  /\ pphase' = [pphase EXCEPT ![t] = IF next = "list" THEN "shards" ELSE "grant"]
  /\ UNCHANGED <<ClientVars, tokenVars, keep, deadGens>>

(* pruneCandidates for the chunks and the manifests of the shard. *)
PruneList(t) ==
  LET s == Front(t) IN
  /\ pphase[t] = "list"
  /\ Proceed(t, chunks[s] \ ChunkRefs(keep[t], s), manifests[s] \ ManifestRefs(keep[t], s))
  /\ UNCHANGED recordVars

(* The delete script in the shard checks the shard's own token. *)
PruneChunks(t) ==
  LET s == Front(t) IN
  /\ pphase[t] = "chunks"
  /\ maintenance[s] = t
  /\ chunks' = [chunks EXCEPT ![s] = @ \ deadChunks[t]]
  /\ Proceed(t, {}, deadManifests[t])
  /\ UNCHANGED manifests

PruneManifests(t) ==
  LET s == Front(t) IN
  /\ pphase[t] = "manifests"
  /\ maintenance[s] = t
  /\ manifests' = [manifests EXCEPT ![s] = @ \ deadManifests[t]]
  /\ Proceed(t, {}, {})
  /\ UNCHANGED chunks

(* The sweep is over when no shard is left. *)
PruneSwept(t) ==
  /\ pphase[t] = "shards" /\ sweep[t] = {}
  /\ PruneReturns(t)
  /\ UNCHANGED <<ClientVars, recordVars, tokenVars>>

(* A refused script, a generation that does not load, or a crash. *)
PruneFails(t) ==
  /\ pphase[t] \notin {"idle", "done"}
  /\ Event
  /\ PruneReturns(t)
  /\ UNCHANGED <<storeVars, recordVars, writers, tokenVars, opVars, mail, born>>

(* The release scripts: in the shard that was swept before going on to the *)
(* next, and in every slot when Prune returns.                             *)
Releases(t, p) == pphase[t] = "done" \/ (p # Global /\ pphase[t] = "shards")

(* The token is released, or expires, in some of the slots that hold it. *)
TokenEnds(t, slots) ==
  /\ \A p \in slots : maintenance[p] = t
  /\ IF \A p \in slots : Releases(t, p) THEN UNCHANGED events ELSE Event
  /\ maintenance' = [p \in Slot |-> IF p \in slots THEN 0 ELSE maintenance[p]]
  /\ UNCHANGED <<storeVars, recordVars, writers, fence, swept, opVars, mail, pruneVars, born>>

-----------------------------------------------------------------------------
OpNext(o) ==
  \/ \E n \in Counts : InitialManifest(o, n)
  \/ SeedShard(o) \/ Create(o)
  \/ Acquire(o)
  \/ \E req \in Requests : Change(o, req)
  \/ \E n \in Counts : Reshard(o, n)
  \/ \E s \in Shard : ReadDeadline(o, s) \/ StageManifest(o, s)
  \/ \E p \in Slot : StageChunks(o, p)
  \/ \E slots \in SUBSET Slot \ {{}} : LeaseExpires(o, slots)
  \/ StageGeneration(o) \/ CheckGeneration(o) \/ Commit(o)
  \/ Fails(o) \/ CloseLease(o) \/ CloseMirrors(o)

PruneNext(t) ==
  \/ PruneAcquire(t)
  \/ \E recent \in SUBSET gens : PruneKeep(t, recent)
  \/ PruneReferences(t) \/ PruneGlobalChunks(t) \/ PruneGenerations(t)
  \/ PruneDiscover(t) \/ PruneGrant(t) \/ PruneRenew(t)
  \/ PruneList(t) \/ PruneChunks(t) \/ PruneManifests(t)
  \/ PruneSwept(t) \/ PruneFails(t)
  \/ \E slots \in SUBSET Slot \ {{}} : TokenEnds(t, slots)

Next ==
  \/ \E o \in Op : OpNext(o)
  \/ \E m \in mail : Mirror(m)
  \/ \E r \in Reader : OpenSnapshot(r) \/ SnapshotEnds(r)
  \/ \E t \in Token : PruneNext(t)

Spec == Init /\ [][Next]_vars

-----------------------------------------------------------------------------
(* The active version and every version a snapshot pins can be read whole, *)
(* and read back as the dictionary their writer meant, whatever layout     *)
(* each was written in and whatever sweep of an older token is still going *)
(* on: pruneShardFence renews the collection's token after the grant of    *)
(* the shard, and the shard's grant and mirrored leases exclude each other.*)
PinnedReads ==
  \A v \in ({active} \cup {leases[r] : r \in Reader}) \ {0} :
    /\ Loads(v)
    /\ Named(v) = draft[v].words
    /\ \A k \in Named(v) : Stored(k, draft[v].n)

(* Every generation record has all its shard manifests, committed or not,  *)
(* so that pruneReferences never meets one it cannot load: stageAll waits  *)
(* for every shard, and a sweep deletes the record before the shards.      *)
GenerationsLoad == \A v \in gens : Loads(v)

(* A shard that was ever granted to a token holds no lease of a writer     *)
(* that began before that token: a mirror script delayed past the sweep is *)
(* refused by the shard's fence alone, whatever its clock says.            *)
LateMirrorRefused == \A s \in Shard : \A o \in writers[s] : swept[s] <= born[o]

-----------------------------------------------------------------------------
(* The invariant, part by part. *)
OpPhase    == {"idle", "seed", "create", "plan", "stage", "check", "commit", "unchanged",
               "close", "unmirror", "done"}
Step       == {"none", "mirror", "chunks", "manifest", "staged"}
PrunePhase == {"idle", "keep", "refs", "globalChunks", "generations", "discover", "shards",
               "grant", "renew", "list", "chunks", "manifests", "done"}
Draft == [n : 1 .. MaxShards, shards : [Shard -> 0 .. MaxOps], words : SUBSET Keyword, count : Nat]

(* Every variable has values of its kind. *)
TypeOK ==
  /\ meta \in Nat /\ active \in 0 .. MaxOps /\ gens \subseteq Op /\ leases \in [Reader -> 0 .. MaxOps]
  /\ chunks \in [Slot -> SUBSET Keyword] /\ manifests \in [Slot -> SUBSET Op]
  /\ writers \in [Slot -> SUBSET Op]
  /\ maintenance \in [Slot -> Nat] /\ fence \in [Slot -> Nat] /\ swept \in [Slot -> Nat]
  /\ phase \in [Op -> OpPhase] /\ expected \in [Op -> 0 .. MaxOps] /\ draft \in [Op -> Draft]
  /\ fresh \in [Op -> SUBSET Keyword] /\ step \in [Op -> [Slot -> Step]]
  /\ mail \subseteq [op : Op, shard : Shard, fence : Nat]
  /\ pphase \in [Token -> PrunePhase] /\ goal \in [Token -> {"none", "list", "chunks", "manifests"}]
  /\ keep \in [Token -> SUBSET Op] /\ deadGens \in [Token -> SUBSET Op]
  /\ deadChunks \in [Token -> SUBSET Keyword] /\ deadManifests \in [Token -> SUBSET Op]
  /\ sweep \in [Token -> SUBSET Shard]
  /\ born \in [Op -> Nat]

(* Writers and maintenance exclude each other, in the collection's slot    *)
(* and in every shard, and the fences order them.                          *)
FenceInv ==
  /\ \A p \in Slot : maintenance[p] # 0 => maintenance[p] = fence[p] /\ writers[p] = {}
  /\ \A s \in Shard : swept[s] <= fence[s] /\ fence[s] <= fence[Global]
  /\ \A t \in Token : pphase[t] # "idle" => t <= fence[Global]
  /\ \A o \in Op : born[o] <= fence[Global]
  /\ \A o \in writers[Global] : born[o] = fence[Global]
  /\ \A p \in Slot : \A o \in writers[p] : phase[o] \notin {"idle", "seed", "create"}
  /\ \A m \in mail : m.fence = born[m.op] /\ phase[m.op] \notin {"idle", "seed", "create"}
  /\ meta = 0 =>
       writers[Global] = {} /\ (\A p \in Slot : maintenance[p] = 0) /\ (\A t \in Token : pphase[t] = "idle")

(* A call that has left changes its manifest no more. *)
Sealed(o) == phase[o] \in {"close", "unmirror", "done"}

(* A writer that may still commit. *)
Live(o) == o \in writers[Global] /\ phase[o] \in {"plan", "stage", "check", "commit"}

Part(d, p) == {k \in d.words : Home(k, d.n) = p}

(* The shard manifests a version names list its words, and nothing is left *)
(* that would change them.                                                 *)
Coherent(v) ==
  LET d == draft[v] IN
  /\ IsFiniteSet(d.words) /\ d.count = Cardinality(d.words)
  /\ \A s \in ShardsOf(d.n) :
       LET i == d.shards[s] IN i \in Op /\ (i = v \/ Sealed(i)) /\ Listed(i, s) = Part(d, s)

Complete(v) == \A s \in ShardsOf(draft[v].n) : draft[v].shards[s] \in manifests[s]
Readable(v) == \A k \in draft[v].words : Stored(k, draft[v].n)

Pinned == ({active} \cup {leases[r] : r \in Reader}) \ {0}

(* The versions that are read, by snapshots or to write their successor,   *)
(* and those that a commit may bring forth.                                *)
Settled == Pinned \cup {expected[o] : o \in {i \in Op : Live(i) /\ phase[i] = "plan"}}
Relied == Settled \cup {o \in Op : Live(o) /\ phase[o] \in {"check", "commit"}}

(* Every record names manifests that are there, and what is relied upon    *)
(* has all its chunks.                                                     *)
WholeInv ==
  /\ \A v \in gens : Coherent(v) /\ Complete(v) /\ phase[v] \in {"check", "commit", "close", "unmirror", "done"}
  /\ \A v \in Relied : v \in gens /\ Readable(v)
  /\ \A v \in Settled : Sealed(v)
  /\ active = 0 <=> meta = 0
  /\ meta = 0 => gens = {} /\ \A r \in Reader : leases[r] = 0

(* A new collection's manifests, until somebody has created it. *)
SeedInv ==
  \A o \in Op : phase[o] \in {"seed", "create"} =>
    LET d == draft[o] IN
    /\ d.words = {} /\ d.count = 0
    /\ \A s \in ShardsOf(d.n) : d.shards[s] = o /\ (meta = 0 /\ step[o][s] = "none" => o \in manifests[s])
    /\ phase[o] = "create" => \A p \in Slot : step[o][p] = "none"

(* What a live call has staged so far in a slot. *)
Staged(o, p) ==
  LET part == Part(draft[o], p) IN
  /\ step[o][p] \in {"none", "staged"} =>
       part \subseteq chunks[p] /\ (p \in ShardsOf(draft[o].n) => draft[o].shards[p] \in manifests[p])
  /\ step[o][p] = "manifest" => part \subseteq chunks[p]
  /\ step[o][p] \in {"mirror", "chunks"} => part \ fresh[o] \subseteq chunks[p]
  /\ step[o][p] \notin {"none", "staged"} /\ p # Global => draft[o].shards[p] = o

StageInv ==
  \A o \in Op : Live(o) /\ phase[o] = "stage" => Coherent(o) /\ \A p \in Slot : Staged(o, p)

(* A sweep that still holds its token keeps what it has to. *)
Keeps(t) ==
  /\ Pinned \subseteq keep[t] /\ keep[t] \subseteq gens
  /\ IF pphase[t] \in {"refs", "globalChunks", "generations"}
       THEN deadGens[t] = gens \ keep[t] ELSE gens = keep[t]
  /\ pphase[t] = "globalChunks" => \A v \in keep[t] : Part(draft[v], Global) \cap deadChunks[t] = {}
  /\ goal[t] \in {"chunks", "manifests"} => \A v \in keep[t] :
       /\ Part(draft[v], Front(t)) \cap deadChunks[t] = {}
       /\ Front(t) \in ShardsOf(draft[v].n) => draft[v].shards[Front(t)] \notin deadManifests[t]

KeepInv ==
  \A t \in Token : maintenance[Global] = t /\ pphase[t] \notin {"idle", "keep", "done"} => Keeps(t)

(* What a sweep is about to delete in a shard is nobody's. *)
Harmless(t, s) ==
  /\ \A v \in gens : s \in ShardsOf(draft[v].n) => draft[v].shards[s] \notin deadManifests[t]
  /\ \A v \in Relied : Part(draft[v], s) \cap deadChunks[t] = {}
  /\ \A o \in Op : Live(o) /\ phase[o] = "stage" =>
       \/ step[o][s] = "mirror" /\ (Part(draft[o], s) \ fresh[o]) \cap deadChunks[t] = {}
       \/ /\ step[o][s] = "none" /\ Part(draft[o], s) \cap deadChunks[t] = {}
          /\ s \in ShardsOf(draft[o].n) => draft[o].shards[s] \notin deadManifests[t]

(* That holds for one that has its shard, also when it has lost the        *)
(* collection meanwhile.                                                   *)
Sweeps(t) ==
  /\ pphase[t] \in {"grant", "renew", "list", "chunks", "manifests"} => sweep[t] # {}
  /\ pphase[t] \in {"list", "chunks", "manifests"} => goal[t] = pphase[t]
  /\ goal[t] = "none" <=> pphase[t] \notin {"shards", "grant", "renew", "list", "chunks", "manifests"}
  /\ \A s \in Shard : pphase[t] \in {"chunks", "manifests"} /\ s = Front(t) /\ maintenance[s] = t => Harmless(t, s)

SweepInv == \A t \in Token : Sweeps(t)

(* Everything the properties rest on. *)
ShardInv ==
  /\ TypeOK /\ FenceInv /\ WholeInv /\ SeedInv /\ StageInv /\ KeepInv /\ SweepInv
  /\ LateMirrorRefused
=============================================================================
