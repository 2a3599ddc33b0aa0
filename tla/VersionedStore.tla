--------------------------- MODULE VersionedStore ---------------------------
(***************************************************************************)
(* The storage protocol of a V3 collection in its legacy (one slot)        *)
(* layout: pkg/acor/versioned_write.go, versioned_snapshot.go and          *)
(* versioned_prune.go over the Redis scripts they evaluate.                *)
(*                                                                         *)
(* Writers stage immutable records under a lease and swap the active       *)
(* version with one compare-and-set script. Snapshots pin a generation     *)
(* with a lease. Prune deletes what nothing can reach, under a fenced      *)
(* maintenance token. Every Redis command is one action, every action of a *)
(* client one command or its reply: clients stop, are paused for any time, *)
(* lose replies and have commands executed late or twice.                  *)
(*                                                                         *)
(* Time is not counted. A deadline (a lease's ZSET score, the PX of the    *)
(* maintenance key, the retention of a generation) passes in an action of  *)
(* its own, at any moment after it was set: renewing a live lease or token *)
(* only puts that moment off. So the results hold for every duration,      *)
(* every renewal pattern and a Redis clock that jumps.                     *)
(***************************************************************************)
EXTENDS VersionedTypes, FiniteSets

CONSTANTS
  Snap,        \* snapshots; each is opened at most once
  Pruner,      \* processes that call Prune
  PruneBatch,  \* v3PruneBatch, the records one delete script names
  MaxPrunes    \* bound on the number of granted maintenance tokens

ASSUME StoreAssumption ==
  /\ Op \cap Snap = {}
  /\ PruneBatch \in Nat \ {0}
  /\ MaxPrunes \in Nat

VARIABLES
  \* Redis
  active,       \* active
  gens,         \* versions with a gen:<v> record (and a member of generations)
  recent,       \* those whose score in generations is within the retention time
  words,        \* the keywords the manifest of each version names
  seq,          \* the sequence number in the manifest of each version
  chunks,       \* keywords with a chunk:<hash> record (and a member of chunks)
  committed,    \* committed:<v>, 0 when absent
  receipts,     \* operations with an op:<id> record
  writers,      \* members of the writers ZSET, by operation
  leases,       \* members of the leases ZSET, by snapshot
  expired,      \* the members of either whose deadline has passed
  maintenance,  \* the maintenance token, 0 when the key is absent
  fence,        \* the fence counter
  \* writing clients, by operation
  request,      \* the call
  phase,        \* where change() is
  expected,     \* the version the call was made against
  changed,      \* whether the call changes the dictionary
  todo,         \* staged chunks the server has not executed yet
  todoGen,      \* whether the staged manifest is still to be executed
  refused,      \* whether some staging command was refused
  sent,         \* whether the commit script was sent
  result,       \* what the caller of change() knows
  \* snapshots
  sphase, pinned, unread,
  \* pruners
  pphase,       \* where Prune is; then its locals
  token,        \* the maintenance token it was granted, 0 outside a call
  keep,         \* the generations it keeps
  toLoad,       \* those it has not loaded yet
  refs,         \* the chunks the loaded ones name
  dead,         \* chunks it is still to delete
  deadGens,     \* generations it is still to delete
  batch,        \* the delete script it waits for
  deletes       \* every delete script sent so far

commitVars   == <<active, committed, receipts>>
recordVars   == <<gens, recent, chunks>>
manifestVars == <<words, seq>>
leaseVars    == <<writers, leases, expired>>
tokenVars    == <<maintenance, fence>>
redisVars    == <<commitVars, recordVars, manifestVars, leaseVars, tokenVars>>

callVars     == <<request, expected>>
stageVars    == <<changed, todo, todoGen, refused>>
writerVars   == <<callVars, phase, stageVars, sent, result>>

snapVars     == <<sphase, pinned, unread>>
refVars      == <<keep, toLoad, refs>>
deadVars     == <<dead, deadGens, batch>>
pruneVars    == <<pphase, token, refVars, deadVars, deletes>>
vars         == <<redisVars, writerVars, snapVars, pruneVars>>

(* Definite replies of the commit script other than the receipt. *)
Refusals == {"maintenance", "expired", "conflict", "missing"}

DeleteRequest == [token : Nat, chunks : SUBSET Keyword, gens : SUBSET Version]

NoDelete == [token |-> 0, chunks |-> {}, gens |-> {}]

(* A lease entry counts while it is in its ZSET with a future deadline. *)
LiveWriter(o) == o \in writers /\ o \notin expired
LiveLease(s) == s \in leases /\ s \notin expired

(* The version an operation asks the commit script to make active. *)
Target(o) == IF changed[o] THEN o ELSE expected[o]

Init ==
  /\ active = Genesis
  /\ gens = {Genesis}
  /\ recent = {Genesis}
  /\ words = [v \in Version |-> IF v = Genesis THEN InitialWords ELSE {}]
  /\ seq = [v \in Version |-> IF v = Genesis THEN 1 ELSE 0]
  /\ chunks = InitialWords
  /\ committed = [v \in Version |-> IF v = Genesis THEN 1 ELSE 0]
  /\ receipts = {}
  /\ writers = {}
  /\ leases = {}
  /\ expired = {}
  /\ maintenance = 0
  /\ fence = 0
  /\ request = [o \in Op |-> NoRequest]
  /\ phase = [o \in Op |-> "idle"]
  /\ expected = [o \in Op |-> Genesis]
  /\ changed = [o \in Op |-> FALSE]
  /\ todo = [o \in Op |-> {}]
  /\ todoGen = [o \in Op |-> FALSE]
  /\ refused = [o \in Op |-> FALSE]
  /\ sent = [o \in Op |-> FALSE]
  /\ result = [o \in Op |-> "none"]
  /\ sphase = [s \in Snap |-> "idle"]
  /\ pinned = [s \in Snap |-> Genesis]
  /\ unread = [s \in Snap |-> {}]
  /\ pphase = [p \in Pruner |-> "idle"]
  /\ token = [p \in Pruner |-> 0]
  /\ keep = [p \in Pruner |-> {}]
  /\ toLoad = [p \in Pruner |-> {}]
  /\ refs = [p \in Pruner |-> {}]
  /\ dead = [p \in Pruner |-> {}]
  /\ deadGens = [p \in Pruner |-> {}]
  /\ batch = [p \in Pruner |-> NoDelete]
  /\ deletes = {}

-----------------------------------------------------------------------------
(***************************************************************************)
(* Writing: Replace, AddMany and RemoveMany.                               *)
(***************************************************************************)

(* acquire(ctx, expected, writer): the caller names any version it once    *)
(* saw committed.                                                          *)
AcquireWriter(o, r, e) ==
  /\ phase[o] = "idle"
  /\ committed[e] > 0
  /\ IF maintenance = 0 /\ active = e
       THEN /\ request' = [request EXCEPT ![o] = r]
            /\ expected' = [expected EXCEPT ![o] = e]
            /\ writers' = writers \cup {o}
            /\ phase' = [phase EXCEPT ![o] = "leased"]
            /\ UNCHANGED result
       ELSE /\ phase' = [phase EXCEPT ![o] = "done"]
            /\ result' = [result EXCEPT ![o] = IF maintenance # 0 THEN "maintenance" ELSE "conflict"]
            /\ UNCHANGED <<writers, callVars>>
  /\ UNCHANGED <<commitVars, recordVars, manifestVars, leases, expired, tokenVars,
                 stageVars, sent, snapVars, pruneVars>>

(* A call returns. Its deferred l.close removes the lease, unless that     *)
(* ZREM is lost or the process stopped before it: then the lease stays     *)
(* until its deadline.                                                     *)
Return(o, r) ==
  /\ phase' = [phase EXCEPT ![o] = "done"]
  /\ result' = [result EXCEPT ![o] = r]
  /\ writers' \in {writers, writers \ {o}}
  /\ expired' = expired \cap (writers' \cup leases)

(* The buckets change() reads before it computes the next dictionary. *)
Affected(o) ==
  IF request[o].mode = "replace" THEN words[expected[o]]
  ELSE words[expected[o]] \cap request[o].words

(* Mutant of Prepare: next.Sequence++ is missing. *)
PrepareSameSequence(o) ==
  LET old == words[expected[o]]
      new == Apply(request[o], old)
  IN
  /\ phase[o] = "leased" /\ expected[o] \in gens /\ Affected(o) \subseteq chunks
  /\ new # old
  /\ words' = [words EXCEPT ![o] = new]
  /\ seq' = [seq EXCEPT ![o] = seq[expected[o]]]
  /\ changed' = [changed EXCEPT ![o] = TRUE]
  /\ todo' = [todo EXCEPT ![o] = new \ old]
  /\ todoGen' = [todoGen EXCEPT ![o] = TRUE]
  /\ phase' = [phase EXCEPT ![o] = "staging"]
  /\ UNCHANGED <<sent, commitVars, recordVars, leaseVars, tokenVars, callVars, refused,
                 result, snapVars, pruneVars>>

(* change() reads the manifest and the affected buckets of its expected    *)
(* version, applies the call and sends the changed buckets' chunks and the *)
(* new manifest in one pipeline; a call that changes nothing goes straight *)
(* to commit.                                                              *)
Prepare(o) ==
  LET old == words[expected[o]]
      new == Apply(request[o], old)
  IN
  /\ phase[o] = "leased"
  /\ expected[o] \in gens
  /\ Affected(o) \subseteq chunks
  /\ IF new = old
       THEN /\ phase' = [phase EXCEPT ![o] = "committing"]
            /\ sent' = [sent EXCEPT ![o] = TRUE]
            /\ UNCHANGED <<manifestVars, changed, todo, todoGen>>
       ELSE /\ words' = [words EXCEPT ![o] = new]
            /\ seq' = [seq EXCEPT ![o] = seq[expected[o]] + 1]
            /\ changed' = [changed EXCEPT ![o] = TRUE]
            /\ todo' = [todo EXCEPT ![o] = new \ old]
            /\ todoGen' = [todoGen EXCEPT ![o] = TRUE]
            /\ phase' = [phase EXCEPT ![o] = "staging"]
            /\ UNCHANGED sent
  /\ UNCHANGED <<commitVars, recordVars, leaseVars, tokenVars, callVars, refused,
                 result, snapVars, pruneVars>>

(* v3StageScript lets a command through while its writer's lease is live   *)
(* and nobody holds the maintenance token.                                 *)
StageAllowed(o) == maintenance = 0 /\ LiveWriter(o)

(* The server executes the pipeline in order, chunks before the manifest,  *)
(* whether or not the client still waits for it; a refused command does    *)
(* not stop the ones behind it.                                            *)
StageChunk(o, k) ==
  /\ k \in todo[o]
  /\ todo' = [todo EXCEPT ![o] = @ \ {k}]
  /\ IF StageAllowed(o)
       THEN chunks' = chunks \cup {k} /\ UNCHANGED refused
       ELSE refused' = [refused EXCEPT ![o] = TRUE] /\ UNCHANGED chunks
  /\ UNCHANGED <<commitVars, gens, recent, manifestVars, leaseVars, tokenVars, callVars,
                 phase, changed, todoGen, sent, result, snapVars, pruneVars>>

StageManifest(o) ==
  /\ todoGen[o] /\ todo[o] = {}
  /\ todoGen' = [todoGen EXCEPT ![o] = FALSE]
  /\ IF StageAllowed(o)
       THEN /\ gens' = gens \cup {o}
            /\ recent' = IF o \in gens THEN recent ELSE recent \cup {o}
            /\ UNCHANGED refused
       ELSE refused' = [refused EXCEPT ![o] = TRUE] /\ UNCHANGED <<gens, recent>>
  /\ UNCHANGED <<commitVars, chunks, manifestVars, leaseVars, tokenVars, callVars, phase,
                 changed, todo, sent, result, snapVars, pruneVars>>

(* The Redis client resends a pipeline whose replies were lost. *)
Retransmit(o) ==
  /\ phase[o] = "staging"
  /\ todo' = [todo EXCEPT ![o] = words[o] \ words[expected[o]]]
  /\ todoGen' = [todoGen EXCEPT ![o] = TRUE]
  /\ refused' = [refused EXCEPT ![o] = FALSE]
  /\ UNCHANGED <<callVars, phase, changed, sent, result, redisVars, snapVars,
                 pruneVars>>

(* stageBatch has all its replies: either every record is staged and the   *)
(* commit script is sent, or the caller gets ErrLeaseExpired.              *)
Staged(o) ==
  /\ phase[o] = "staging"
  /\ ~todoGen[o]
  /\ IF refused[o]
       THEN Return(o, "expired") /\ UNCHANGED sent
       ELSE /\ phase' = [phase EXCEPT ![o] = "committing"]
            /\ sent' = [sent EXCEPT ![o] = TRUE]
            /\ UNCHANGED <<writers, expired, result>>
  /\ UNCHANGED <<commitVars, recordVars, manifestVars, leases, tokenVars, callVars,
                 stageVars, snapVars, pruneVars>>

(* Mutant of CommitReply: the active version is not compared. *)
CommitReplyBlind(o) ==
  IF o \in receipts THEN "committed"
  ELSE IF maintenance # 0 THEN "maintenance"
  ELSE IF ~LiveWriter(o) THEN "expired"
  ELSE IF Target(o) \notin gens THEN "missing"
  ELSE "committed"

(* Mutant of CommitReply: the receipt is looked up last. *)
CommitReplyLateReceipt(o) ==
  IF maintenance # 0 THEN "maintenance"
  ELSE IF ~LiveWriter(o) THEN "expired"
  ELSE IF active # expected[o] THEN "conflict"
  ELSE IF Target(o) \notin gens THEN "missing"
  ELSE "committed"

(* The first check of v3CommitScript that fails, or "committed". *)
CommitReply(o) ==
  IF o \in receipts THEN "committed"
  ELSE IF maintenance # 0 THEN "maintenance"
  ELSE IF ~LiveWriter(o) THEN "expired"
  ELSE IF active # expected[o] THEN "conflict"
  ELSE IF Target(o) \notin gens THEN "missing"
  ELSE "committed"

(* v3CommitScript. Its answer reaches the caller, or the script runs with  *)
(* nobody to answer: late, after the caller gave up, or again, because the *)
(* transport retried it.                                                   *)
Commit(o) ==
  /\ sent[o]
  /\ IF CommitReply(o) = "committed" /\ o \notin receipts
       THEN /\ receipts' = receipts \cup {o}
            /\ active' = Target(o)
            /\ IF changed[o]
                 THEN /\ committed' = [committed EXCEPT ![o] = seq[o]]
                      /\ recent' = recent \cup {o}
                 ELSE UNCHANGED <<committed, recent>>
       ELSE UNCHANGED <<commitVars, recent>>
  /\ \/ phase[o] = "committing" /\ Return(o, CommitReply(o))
     \/ UNCHANGED <<writers, expired, phase, result>>
  /\ UNCHANGED <<gens, chunks, manifestVars, leases, tokenVars, callVars, stageVars,
                 sent, snapVars, pruneVars>>

(* A read or the pipeline fails, the caller's context ends or its process  *)
(* stops; once the commit script is out the outcome is ErrCommitUnknown.   *)
WriteFails(o) ==
  /\ phase[o] \in {"leased", "staging", "committing"}
  /\ Return(o, IF sent[o] THEN "unknown" ELSE "error")
  /\ UNCHANGED <<commitVars, recordVars, manifestVars, leases, tokenVars, callVars,
                 stageVars, sent, snapVars, pruneVars>>

(* ResolveOperation finds the receipt of an operation whose outcome is     *)
(* unknown; a missing receipt teaches the caller nothing.                  *)
ResolveOperation(o) ==
  /\ result[o] = "unknown"
  /\ o \in receipts
  /\ result' = [result EXCEPT ![o] = "committed"]
  /\ UNCHANGED <<callVars, phase, stageVars, sent, redisVars, snapVars, pruneVars>>

-----------------------------------------------------------------------------
(***************************************************************************)
(* Snapshots and their reads.                                              *)
(***************************************************************************)

(* Snapshot pins whatever is active ... *)
SnapshotAcquire(s) ==
  /\ sphase[s] = "idle"
  /\ maintenance = 0
  /\ leases' = leases \cup {s}
  /\ pinned' = [pinned EXCEPT ![s] = active]
  /\ sphase' = [sphase EXCEPT ![s] = "pinned"]
  /\ UNCHANGED <<commitVars, recordVars, manifestVars, writers, expired, tokenVars,
                 writerVars, unread, pruneVars>>

(* ... then reads its manifest. *)
SnapshotManifest(s) ==
  /\ sphase[s] = "pinned"
  /\ sphase' = [sphase EXCEPT ![s] = IF pinned[s] \in gens THEN "open" ELSE "missing"]
  /\ UNCHANGED <<redisVars, writerVars, pinned, unread, pruneVars>>

(* List and all check the lease, read bucket after bucket and check again. *)
ListStart(s) ==
  /\ sphase[s] = "open"
  /\ sphase' = [sphase EXCEPT ![s] = IF LiveLease(s) THEN "reading" ELSE "expired"]
  /\ unread' = [unread EXCEPT ![s] = words[pinned[s]]]
  /\ UNCHANGED <<redisVars, writerVars, pinned, pruneVars>>

ListBucket(s, k) ==
  /\ sphase[s] = "reading"
  /\ k \in unread[s]
  /\ unread' = [unread EXCEPT ![s] = @ \ {k}]
  /\ sphase' = [sphase EXCEPT ![s] = IF k \in chunks THEN "reading" ELSE "missing"]
  /\ UNCHANGED <<redisVars, writerVars, pinned, pruneVars>>

ListEnd(s) ==
  /\ sphase[s] = "reading"
  /\ unread[s] = {}
  /\ sphase' = [sphase EXCEPT ![s] = IF LiveLease(s) THEN "open" ELSE "expired"]
  /\ UNCHANGED <<redisVars, writerVars, pinned, unread, pruneVars>>

(* Close, or the end of the process that held the snapshot. *)
SnapshotClose(s) ==
  /\ sphase[s] \in {"pinned", "open", "reading"}
  /\ sphase' = [sphase EXCEPT ![s] = "closed"]
  /\ leases' \in {leases, leases \ {s}}
  /\ expired' = expired \cap (writers \cup leases')
  /\ UNCHANGED <<commitVars, recordVars, manifestVars, writers, tokenVars, writerVars,
                 pinned, unread, pruneVars>>

-----------------------------------------------------------------------------
(***************************************************************************)
(* Prune.                                                                  *)
(***************************************************************************)

(* Mutant of PruneAcquire: writers at work are not counted. *)
PruneAcquireBusy(p) ==
  /\ pphase[p] = "idle" /\ fence < MaxPrunes /\ maintenance = 0
  /\ writers' = writers \ expired
  /\ leases' = leases \ expired
  /\ expired' = {}
  /\ fence' = fence + 1
  /\ maintenance' = fence + 1
  /\ token' = [token EXCEPT ![p] = fence + 1]
  /\ pphase' = [pphase EXCEPT ![p] = "active"]
  /\ UNCHANGED <<commitVars, recordVars, manifestVars, writerVars, snapVars, refVars,
                 deadVars, deletes>>

(* The acquire script drops expired leases, and grants a new token unless  *)
(* a writer is left or somebody holds one.                                 *)
PruneAcquire(p) ==
  /\ pphase[p] = "idle"
  /\ fence < MaxPrunes
  /\ writers' = writers \ expired
  /\ leases' = leases \ expired
  /\ expired' = {}
  /\ IF maintenance # 0 \/ writers' # {}
       THEN UNCHANGED <<tokenVars, pphase, token>>
       ELSE /\ fence' = fence + 1
            /\ maintenance' = fence + 1
            /\ token' = [token EXCEPT ![p] = fence + 1]
            /\ pphase' = [pphase EXCEPT ![p] = "active"]
  /\ UNCHANGED <<commitVars, recordVars, manifestVars, writerVars, snapVars, refVars,
                 deadVars, deletes>>

(* A step of Prune that changes nothing in Redis. *)
PruneReads(p, from, to) ==
  /\ pphase[p] = from
  /\ pphase' = [pphase EXCEPT ![p] = to]
  /\ UNCHANGED <<redisVars, writerVars, snapVars, token, deletes>>

(* pruneKeep reads the active version, ... *)
KeepActive(p) ==
  /\ PruneReads(p, "active", "leases")
  /\ keep' = [keep EXCEPT ![p] = {active}]
  /\ UNCHANGED <<toLoad, refs, deadVars>>

(* Mutant of KeepLeases: pinned generations are not kept. *)
KeepLeasesNone(p) ==
  /\ PruneReads(p, "leases", "gens")
  /\ UNCHANGED <<refVars, deadVars>>

(* ... the leases the acquire script left, ... *)
KeepLeases(p) ==
  /\ PruneReads(p, "leases", "gens")
  /\ keep' = [keep EXCEPT ![p] = keep[p] \cup {pinned[s] : s \in leases}]
  /\ UNCHANGED <<toLoad, refs, deadVars>>

(* Mutants of KeepRecent: the recent ones are not kept; the ones that are  *)
(* kept are deleted too.                                                   *)
KeepRecentNone(p) ==
  /\ PruneReads(p, "gens", "refs")
  /\ toLoad' = [toLoad EXCEPT ![p] = keep[p]]
  /\ deadGens' = [deadGens EXCEPT ![p] = gens \ keep[p]]
  /\ UNCHANGED <<keep, refs, dead, batch>>

KeepRecentAllDead(p) ==
  /\ PruneReads(p, "gens", "refs")
  /\ keep' = [keep EXCEPT ![p] = keep[p] \cup recent]
  /\ toLoad' = [toLoad EXCEPT ![p] = keep[p] \cup recent]
  /\ deadGens' = [deadGens EXCEPT ![p] = gens]
  /\ UNCHANGED <<refs, dead, batch>>

(* ... and the generations: the recent ones are kept too, the others that  *)
(* are not kept will be deleted.                                           *)
KeepRecent(p) ==
  /\ PruneReads(p, "gens", "refs")
  /\ keep' = [keep EXCEPT ![p] = keep[p] \cup recent]
  /\ toLoad' = [toLoad EXCEPT ![p] = keep[p] \cup recent]
  /\ deadGens' = [deadGens EXCEPT ![p] = gens \ (keep[p] \cup recent)]
  /\ UNCHANGED <<refs, dead, batch>>

(* fence: the token is still in place, and its time starts again. *)
Holds(p) == maintenance = token[p]

(* pruneReferences: for every generation kept, fence, then load it. *)
RefFence(p) ==
  /\ toLoad[p] # {}
  /\ PruneReads(p, "refs", IF Holds(p) THEN "load" ELSE "failed")
  /\ UNCHANGED <<refVars, deadVars>>

RefLoad(p, v) ==
  /\ v \in toLoad[p]
  /\ IF v \in gens
       THEN /\ PruneReads(p, "load", "refs")
            /\ refs' = [refs EXCEPT ![p] = refs[p] \cup words[v]]
            /\ toLoad' = [toLoad EXCEPT ![p] = toLoad[p] \ {v}]
       ELSE PruneReads(p, "load", "failed") /\ UNCHANGED <<refs, toLoad>>
  /\ UNCHANGED <<keep, deadVars>>

(* pruneCandidates: the chunks that no generation kept refers to. *)
Candidates(p) ==
  /\ toLoad[p] = {}
  /\ PruneReads(p, "refs", "delete")
  /\ dead' = [dead EXCEPT ![p] = chunks \ refs[p]]
  /\ UNCHANGED <<refVars, deadGens, batch>>

(* The next records of a list, as many as one script takes. *)
Batches(ids) ==
  {b \in SUBSET ids : Cardinality(b) = PruneBatch \/ (b = ids /\ Cardinality(b) < PruneBatch)}

(* pruneDelete works off the chunks, then the generations. *)
NextDeletes(p) ==
  IF dead[p] # {}
    THEN {[token |-> token[p], chunks |-> b, gens |-> {}] : b \in Batches(dead[p])}
    ELSE {[token |-> token[p], chunks |-> {}, gens |-> b] : b \in Batches(deadGens[p])}

(* For each batch: fence, then send the script. *)
SendDelete(p) ==
  /\ pphase[p] = "delete"
  /\ dead[p] # {} \/ deadGens[p] # {}
  /\ IF Holds(p)
       THEN \E d \in NextDeletes(p) :
              /\ deletes' = deletes \cup {d}
              /\ batch' = [batch EXCEPT ![p] = d]
              /\ pphase' = [pphase EXCEPT ![p] = "deleting"]
       ELSE pphase' = [pphase EXCEPT ![p] = "failed"] /\ UNCHANGED <<batch, deletes>>
  /\ UNCHANGED <<redisVars, writerVars, snapVars, token, refVars, dead, deadGens>>

(* Mutant of RunDelete: the token is not compared. *)
RunDeleteUnfenced(d) ==
  /\ chunks' = chunks \ d.chunks
  /\ gens' = gens \ d.gens
  /\ recent' = recent \ d.gens
  /\ UNCHANGED <<commitVars, manifestVars, leaseVars, tokenVars, writerVars, snapVars,
                 token, refVars, batch, deletes>>

(* The delete script: it runs only while its token is in place. *)
RunDelete(d) ==
  /\ maintenance = d.token
  /\ chunks' = chunks \ d.chunks
  /\ gens' = gens \ d.gens
  /\ recent' = recent \ d.gens
  /\ UNCHANGED <<commitVars, manifestVars, leaseVars, tokenVars, writerVars, snapVars,
                 token, refVars, batch, deletes>>

(* The script runs and its answer takes the pruner to the next batch. *)
DeleteBatch(p) ==
  /\ pphase[p] = "deleting"
  /\ RunDelete(batch[p])
  /\ dead' = [dead EXCEPT ![p] = dead[p] \ batch[p].chunks]
  /\ deadGens' = [deadGens EXCEPT ![p] = deadGens[p] \ batch[p].gens]
  /\ pphase' = [pphase EXCEPT ![p] = "delete"]

(* A script runs after its sender gave up on it, or runs again. *)
DeleteLate(d) ==
  /\ d \in deletes
  /\ RunDelete(d)
  /\ UNCHANGED <<pphase, dead, deadGens>>

(* Prune returns: nothing is left to delete, a command failed or was       *)
(* refused, or the process stopped. The deferred release gives the token   *)
(* back if it is still in place; when it is lost, or never sent, the token *)
(* stays until its time is over.                                           *)
PruneReturn(p) ==
  /\ pphase[p] # "idle"
  /\ pphase' = [pphase EXCEPT ![p] = "idle"]
  /\ maintenance' \in {maintenance, IF Holds(p) THEN 0 ELSE maintenance}
  /\ token' = [token EXCEPT ![p] = 0]
  /\ keep' = [keep EXCEPT ![p] = {}]
  /\ toLoad' = [toLoad EXCEPT ![p] = {}]
  /\ refs' = [refs EXCEPT ![p] = {}]
  /\ dead' = [dead EXCEPT ![p] = {}]
  /\ deadGens' = [deadGens EXCEPT ![p] = {}]
  /\ batch' = [batch EXCEPT ![p] = NoDelete]
  /\ UNCHANGED <<commitVars, recordVars, manifestVars, leaseVars, fence, writerVars,
                 snapVars, deletes>>

-----------------------------------------------------------------------------
(***************************************************************************)
(* Time.                                                                   *)
(***************************************************************************)

(* The deadline of a lease passes. renew() extends a live lease and never  *)
(* revives another, so it only delays this step.                           *)
Expire(m) ==
  /\ m \in (writers \cup leases) \ expired
  /\ expired' = expired \cup {m}
  /\ UNCHANGED <<commitVars, recordVars, manifestVars, writers, leases, tokenVars,
                 writerVars, snapVars, pruneVars>>

(* The maintenance key reaches its PX. *)
MaintenanceExpires ==
  /\ maintenance # 0
  /\ maintenance' = 0
  /\ UNCHANGED <<commitVars, recordVars, manifestVars, leaseVars, fence, writerVars,
                 snapVars, pruneVars>>

(* A generation leaves the retention window. *)
Age(v) ==
  /\ v \in recent
  /\ recent' = recent \ {v}
  /\ UNCHANGED <<commitVars, gens, chunks, manifestVars, leaseVars, tokenVars, writerVars,
                 snapVars, pruneVars>>

WriterNext(o) ==
  \/ \E r \in Requests, e \in Version : AcquireWriter(o, r, e)
  \/ Prepare(o)
  \/ \E k \in Keyword : StageChunk(o, k)
  \/ StageManifest(o)
  \/ Retransmit(o)
  \/ Staged(o)
  \/ Commit(o)
  \/ WriteFails(o)
  \/ ResolveOperation(o)

SnapshotNext(s) ==
  \/ SnapshotAcquire(s)
  \/ SnapshotManifest(s)
  \/ ListStart(s)
  \/ \E k \in Keyword : ListBucket(s, k)
  \/ ListEnd(s)
  \/ SnapshotClose(s)

PruneNext(p) ==
  \/ PruneAcquire(p)
  \/ KeepActive(p)
  \/ KeepLeases(p)
  \/ KeepRecent(p)
  \/ RefFence(p)
  \/ \E v \in Version : RefLoad(p, v)
  \/ Candidates(p)
  \/ SendDelete(p)
  \/ DeleteBatch(p)
  \/ PruneReturn(p)

RedisNext ==
  \/ \E d \in deletes : DeleteLate(d)
  \/ \E m \in Op \cup Snap : Expire(m)
  \/ MaintenanceExpires
  \/ \E v \in Version : Age(v)

Next ==
  \/ \E o \in Op : WriterNext(o)
  \/ \E s \in Snap : SnapshotNext(s)
  \/ \E p \in Pruner : PruneNext(p)
  \/ RedisNext

Spec == Init /\ [][Next]_vars

-----------------------------------------------------------------------------
(***************************************************************************)
(* Properties.                                                             *)
(***************************************************************************)

(* Every variable holds values of its kind. *)
TypeOK ==
  /\ active \in Version
  /\ gens \in SUBSET Version
  /\ recent \in SUBSET Version
  /\ words \in [Version -> SUBSET Keyword]
  /\ seq \in [Version -> Nat]
  /\ chunks \in SUBSET Keyword
  /\ committed \in [Version -> Nat]
  /\ receipts \in SUBSET Op
  /\ writers \in SUBSET Op
  /\ leases \in SUBSET Snap
  /\ expired \in SUBSET (Op \cup Snap)
  /\ maintenance \in Nat
  /\ fence \in Nat
  /\ request \in [Op -> Requests \cup {NoRequest}]
  /\ phase \in [Op -> {"idle", "leased", "staging", "committing", "done"}]
  /\ expected \in [Op -> Version]
  /\ changed \in [Op -> BOOLEAN]
  /\ todo \in [Op -> SUBSET Keyword]
  /\ todoGen \in [Op -> BOOLEAN]
  /\ refused \in [Op -> BOOLEAN]
  /\ sent \in [Op -> BOOLEAN]
  /\ result \in [Op -> Refusals \cup {"none", "committed", "unknown", "error"}]
  /\ sphase \in [Snap -> {"idle", "pinned", "open", "reading", "missing", "expired", "closed"}]
  /\ pinned \in [Snap -> Version]
  /\ unread \in [Snap -> SUBSET Keyword]
  /\ pphase \in [Pruner -> {"idle", "active", "leases", "gens", "refs", "load", "delete",
                            "deleting", "failed"}]
  /\ token \in [Pruner -> Nat]
  /\ keep \in [Pruner -> SUBSET Version]
  /\ toLoad \in [Pruner -> SUBSET Version]
  /\ refs \in [Pruner -> SUBSET Keyword]
  /\ dead \in [Pruner -> SUBSET Keyword]
  /\ deadGens \in [Pruner -> SUBSET Version]
  /\ batch \in [Pruner -> DeleteRequest]
  /\ deletes \in SUBSET DeleteRequest

(* A generation whose manifest and chunks can all be read. *)
Intact(v) == v \in gens /\ words[v] \subseteq chunks

(* What Prune must retain: the active generation, the pinned ones and the  *)
(* ones prepared recently.                                                 *)
Reachable == {active} \cup {pinned[s] : s \in {t \in Snap : LiveLease(t)}} \cup recent

(* Prune, even one that was paused, lost its token or stopped half way,    *)
(* never takes a record from a generation that is active, pinned by a live *)
(* lease or within retention.                                              *)
ReachableIntact == \A v \in Reachable : Intact(v)

(* The records a live writer builds on stay: the version it was called     *)
(* against, though another writer may have replaced it meanwhile, and      *)
(* what it staged itself.                                                  *)
WriterIntact ==
  \A o \in Op : LiveWriter(o) =>
    /\ Intact(expected[o])
    /\ words[o] \subseteq chunks \cup todo[o]

(* A snapshot whose lease is live never finds a record missing. *)
SnapshotIntact == \A s \in Snap : sphase[s] = "missing" => ~LiveLease(s)

(* No writer with a live lease is at work while a maintenance token is in  *)
(* place: the two scripts that grant them exclude each other.              *)
MaintenanceExcludesWriters == maintenance # 0 => \A o \in Op : ~LiveWriter(o)

(* What a caller was told stays true however late its scripts run: a call  *)
(* that failed never takes effect, one that succeeded has its receipt.     *)
OutcomeFinal ==
  \A o \in Op :
    /\ result[o] \in Refusals \cup {"error"} => o \notin receipts
    /\ result[o] = "committed" => o \in receipts

(* The commit script never finds its generation gone: everything staged by *)
(* a writer that is still entitled to commit is there.                     *)
CommitNeverMissing == \A o \in Op : result[o] # "missing"

(* Committed versions form one line that ends in the active one, so        *)
(* WaitForVersion may compare sequence numbers.                            *)
CommitLine ==
  /\ committed[active] > 0
  /\ \A v \in Version : committed[v] <= committed[active]
  /\ \A v, w \in Version : committed[v] > 0 /\ committed[v] = committed[w] => v = w

(* A Prune that holds its token finds every generation it decided to keep, *)
(* also after an earlier one stopped between its deletions.                *)
PruneNeverStuck ==
  \A p \in Pruner :
    pphase[p] \in {"refs", "load"} /\ Holds(p) => toLoad[p] \subseteq gens

(***************************************************************************)
(* The inductive invariant behind them.                                    *)
(***************************************************************************)

(* Versions whose manifest is fixed: it may be read, kept and relied on. *)
Prepared == {Genesis} \cup {o \in Op : phase[o] \notin {"idle", "leased"}}

PreparedInv ==
  /\ active \in Prepared
  /\ gens \subseteq Prepared
  /\ \A s \in Snap : pinned[s] \in Prepared
  /\ \A o \in Op : expected[o] \in Prepared
  /\ \A p \in Pruner : keep[p] \subseteq Prepared

(* An operation that has not prepared anything has nothing in flight. *)
OpInv ==
  \A o \in Op :
    /\ phase[o] = "idle" => request[o] = NoRequest /\ o \notin writers
    /\ phase[o] # "idle" /\ (phase[o] # "done" \/ sent[o]) => request[o] # NoRequest
    /\ o \notin Prepared => /\ words[o] = {} /\ todo[o] = {} /\ ~todoGen[o]
                            /\ ~changed[o] /\ ~sent[o]
    /\ phase[o] = "staging" => changed[o] /\ ~sent[o]
    /\ phase[o] = "committing" => sent[o]
    /\ o \in receipts => sent[o]
    /\ phase[o] # "done" => result[o] = "none"

(* What an operation computed, and from what. *)
ComputeInv ==
  \A o \in Op :
    /\ changed[o] => /\ seq[o] = seq[expected[o]] + 1
                     /\ words[o] = Apply(request[o], words[expected[o]])
                     /\ words[o] # words[expected[o]]
    /\ sent[o] /\ ~changed[o] => Apply(request[o], words[expected[o]]) = words[expected[o]]

(* A live writer has in Redis whatever the server executed of its pipeline. *)
StageInv ==
  \A o \in Op : LiveWriter(o) =>
    /\ o \in gens => words[o] \subseteq chunks
    /\ phase[o] = "staging" /\ ~todoGen[o] /\ ~refused[o] => o \in gens
    /\ sent[o] /\ changed[o] => o \in gens

CommitInv ==
  /\ \A v \in Version : committed[v] > 0 => committed[v] = seq[v]
  /\ \A o \in Op : /\ committed[expected[o]] > 0
                   /\ committed[o] > 0 => o \in receipts /\ o \in Prepared

(* Why a refused call stays refused. *)
RefusalInv ==
  \A o \in Op :
    /\ result[o] = "error" => ~sent[o]
    /\ result[o] \in Refusals =>
         ~sent[o] \/ ~LiveWriter(o) \/ committed[expected[o]] < committed[active]

(* What List still has to read is named by the manifest it pinned. *)
ListInv ==
  \A s \in Snap : sphase[s] = "reading" => unread[s] \subseteq words[pinned[s]]

(* Tokens are handed out once. *)
TokenInv ==
  /\ maintenance <= fence
  /\ \A p \in Pruner : /\ token[p] <= fence
                       /\ pphase[p] = "idle" => token[p] = 0
                       /\ pphase[p] # "idle" => token[p] # 0
  /\ \A p, q \in Pruner : p # q /\ token[p] = token[q] => token[p] = 0
  /\ \A d \in deletes : d.token # 0 /\ d.token <= fence

(* What a pruner that still holds its token knows at each of its steps. *)
KeepInv ==
  \A p \in Pruner : Holds(p) =>
    /\ pphase[p] \in {"leases", "gens", "refs", "load", "delete", "deleting"} =>
         active \in keep[p]
    /\ pphase[p] \in {"gens", "refs", "load", "delete", "deleting"} =>
         \A s \in Snap : LiveLease(s) => pinned[s] \in keep[p]
    /\ pphase[p] \in {"refs", "load", "delete", "deleting"} => recent \subseteq keep[p]
    /\ pphase[p] \in {"active", "leases"} => \A s \in leases : pinned[s] \in gens
    /\ pphase[p] \in {"leases", "gens", "refs", "load"} => keep[p] \subseteq gens

(* How the locals of a pruner hang together, whether it holds its token or *)
(* not.                                                                    *)
JobInv ==
  \A p \in Pruner :
    /\ pphase[p] \in {"active", "leases", "gens", "refs", "load"} =>
         \A d \in deletes : d.token # token[p]
    /\ pphase[p] \in {"refs", "load", "delete", "deleting"} =>
         /\ toLoad[p] \subseteq keep[p]
         /\ \A v \in keep[p] \ toLoad[p] : words[v] \subseteq refs[p]
         /\ deadGens[p] \cap keep[p] = {}
    /\ pphase[p] \in {"delete", "deleting"} => toLoad[p] = {} /\ dead[p] \cap refs[p] = {}
    /\ pphase[p] = "deleting" => batch[p] \in deletes

(* A delete script whose token is in place names nothing reachable. *)
DeleteInv ==
  \A d \in deletes : maintenance = d.token =>
    \A v \in Reachable : v \notin d.gens /\ words[v] \cap d.chunks = {}

(* All of it is preserved by every step, and it implies every invariant    *)
(* above: what a client is entitled to (leases, tokens, receipts) always   *)
(* matches what Redis holds.                                               *)
StoreInv ==
  /\ TypeOK
  /\ PreparedInv
  /\ OpInv
  /\ ComputeInv
  /\ ReachableIntact
  /\ WriterIntact
  /\ StageInv
  /\ MaintenanceExcludesWriters
  /\ CommitInv
  /\ CommitLine
  /\ OutcomeFinal
  /\ CommitNeverMissing
  /\ RefusalInv
  /\ SnapshotIntact
  /\ ListInv
  /\ TokenInv
  /\ KeepInv
  /\ JobInv
  /\ DeleteInv

(* The store implements one dictionary that whole operations change, each  *)
(* against the dictionary it replaces and at most once: no update is lost  *)
(* and no retry is applied twice.                                          *)
Dictionary == INSTANCE VersionedDictionary WITH
  version <- active, dictionary <- words[active], sequence <- committed[active],
  applied <- receipts

ImplementsDictionary == Dictionary!Spec
=============================================================================
