# A TLA+ model of acor

acor keeps Aho-Corasick dictionaries in Redis and serves searches from engines
built locally. This directory holds specifications of its concurrent parts, the
TLC configurations that check them on small instances, and TLAPS proofs of the
results that matter most. Source paths below are relative to the repository.

## The system

### Components, their state and operations

| Component | State | Operations |
|---|---|---|
| V3 write and commit (`pkg/acor/versioned_write.go`) | Redis: `active`, `gen:<v>` + `generations`, `chunk:<h>` + `chunks`, `committed:<v>`, `op:<id>`, `writers` | Replace, Add(Many), Remove(Many), Reshard, CopyV2, ResolveOperation |
| V3 leases and snapshots (`versioned_snapshot.go`) | Redis: `leases`; locally the lease table | acquire, check, renew, close; Snapshot, List, Diff |
| V3 prune (`versioned_prune.go`) | Redis: `maintenance`, `fence` | Prune: keep, references, candidates, deletion in batches |
| V3 serving (`versioned.go`, `versioned_reuse.go`, `versioned_search.go`) | installed engine, wake channel, subscription, status | OpenVersioned, refresh, refreshLoop, WaitForVersion, searches, Close |
| V3 shards (`versioned_shards.go`) | per shard: records, mirrored writers, own maintenance and fence | mirrorWriter, shard fences, sweep |
| V2 store (`v2_*.go`, `batch*.go`) | Redis: one trie hash with a version, one outputs hash | Add, Remove, AddMany, RemoveMany, Flush with compare-and-set and retry |
| V2 trie cache (`cache.go`, `pubsub.go`, `invalidation.go`) | cached engine, valid flag, self-published ids | loadEngine, invalidate, publish, listen |
| Preset engine (`redis_backed*.go`) | engine, keyword set, version, stale flag, generation | writes, ensureValid, reload, poll, listen, Close |
| V1 and migration (`v1_ops.go`, `migration.go`) | Redis: keyword set, prefix index, an output key per prefix, migration lock | find, flush (writes are refused); MigrateV1ToV2, RollbackToV1 |
| Facade (`acor.go`, `batch.go`) | which operations an instance runs | Create, Close, AddMany, RemoveMany |
| Match engines (`internal/engine`) | a trie with failure links, a DFA, a double array; immutable once built | build; Find, FindSet, FindIndex, Contains, MatchString, Stream |
| Searches (`matches.go`, `scan.go`, `rewrite.go`, `parallel.go`, `context_ops.go`) | one call's window, budgets and workers | FindMatches, Scan, ReplaceText, MaskText, FindParallel, FindIndexParallel |
| Servers and CLI (`server`, `internal/app/acor`) | none of their own | translate requests |

### How they interact, and what is hard

All V3 clients share one Redis. Every write of theirs is a Lua script, so a
single script is atomic, but every operation is several scripts:

* a **writer** takes a lease, reads its expected version, stages records, and
  commits with a compare-and-set of `active`. It can be paused anywhere, lose
  any reply, or have a script executed late or twice;
* a **snapshot** pins a generation by a lease and reads bucket after bucket. The
  lease may run out between two reads;
* **Prune** takes a maintenance token that excludes new leases, decides what to
  keep, and deletes the rest in batches, each fenced by the token. The token can
  expire while the pruner works, and another pruner or a writer may start;
* the **serving** side learns of commits by pub/sub (lossy), by a wake-up from
  its own writes, and by polling; it builds a new engine and installs it whole;
* in the **sharded layout** one generation is spread over Redis slots with their
  own clocks and no common script. Writer leases are mirrored into the shards,
  the token of a pruner is granted shard by shard, and either may be late.

V1 and V2 instances share the keys of their schema. V2 writes are one
compare-and-set script over two hashes; V1 is changed key by key, and a migration
moves a collection from one schema to the other while instances of both are open.

What makes each component correct:

* writes: whole operations, none lost, none applied twice, and a caller is never
  told something that later turns out wrong;
* snapshots: a live lease protects every record of its generation;
* prune: nothing active, pinned or recent loses a record; a crash half way does
  not block the next prune;
* serving: the served generation never goes back, is always complete, and
  catches up with every commit; Close leaves nothing behind;
* shards: a generation record never names a shard manifest that is missing, and
  no late lease or late sweep meets the other;
* V2: no write is lost under contention; caches eventually show every write; the
  trie and the outputs agree;
* migration: at every moment one of the schemas holds every keyword;
* engines and searches: exactly the occurrences a naive search finds, in the
  promised order, and an honest answer when a limit was met.

PROJECT.json lists the hazards line by line, with the properties that cover
them.

## Modules

| Module | Models | Role |
|---|---|---|
| `VersionedTypes` | requests, versions, `v3Apply` | parameters shared by the V3 modules |
| `VersionedDictionary` | what a V3 collection promises its writers | abstract specification |
| `VersionedStore` | `versioned_write.go`, `versioned_snapshot.go`, `versioned_prune.go`, legacy layout | detailed protocol, properties, inductive invariant |
| `VersionedStoreProofs` | | TLAPS proofs about `VersionedStore` |
| `MCVersionedStore` | | instances for TLC |
| `VersionedServing` | `versioned.go`, `versioned_reuse.go` and the lease table of `versioned_snapshot.go` | one collection's refresh loop, waits, status and Close; safety, inductive invariant, liveness |
| `VersionedServingProofs` | | TLAPS proofs about `VersionedServing` |
| `MCVersionedServing` | | symmetry for TLC |
| `V2Store` | `v2_transaction.go`, `v2_lua.go`, `v2_plan.go`, `batch_atomic.go`: the write path of a V2 collection | actions that a module with a local view composes |
| `PresetEngine` | `redis_backed.go`, `redis_backed_ops.go`, `applyCommittedWrite` | V2 writes together with nodes that serve from a preset engine |
| `PresetEngineProofs` | | TLAPS proofs about `PresetEngine` and the write path |
| `MCPresetEngine` | | requests for TLC |
| `VersionedShards` | `versioned_shards.go` and the sharded paths of write, snapshot and prune | creation, changes, resharding, snapshots and the sweep over several slots |
| `VersionedShardsProofs` | | TLAPS proofs about `VersionedShards` |
| `MCVersionedShards` | | two shards and requests for TLC |
| `Collection` | `acor.go`, `batch.go`, `v1_ops.go`, `v2_ops.go`, `cache.go`, `pubsub.go`, `invalidation.go`, `migration.go` | instances without a preset on one collection: both schemas, the cache, batches, migration and rollback |
| `CollectionProofs` | | TLAPS proofs about `Collection` |
| `MCCollection` | | calls for TLC |
| `MatchEngines` | `internal/engine` without the composite | building and querying the three engines, against a naive matcher; inductive invariants of building and of a query |
| `MatchEnginesProofs` | | TLAPS proofs about `MatchEngines` |
| `MCMatchEngines` | | dictionaries for TLC |
| `TextSearch` | `scan.go`, `rewrite.go`, `matches.go`, `parallel.go`, `context_ops.go`, `engine_composite.go` | one search call on a loaded engine; safety, inductive invariant |
| `SearchOrder` | sorting and running sums, as the searches use them | operators of `TextSearch` and `MatchEngines` |
| `SearchOrderProofs` | | TLAPS proofs about these operators, and induction over numbers and finite sets |
| `TextSearchProofs` | | TLAPS proofs about `TextSearch` |
| `MCTextSearch` | | engines, texts and options for TLC |

`PresetEngine` composes `V2Store` with local engines, and `VersionedStore`
implements `VersionedDictionary`. `VersionedServing` takes the line of commits
from `VersionedStore`, `TextSearch` takes the output chains of an engine from
`MatchEngines`: each rests on what the other one shows. `VersionedShards` repeats
the store's protocol with the slots apart and with less detail per slot.

### VersionedStore and the code

State. The Redis variables are the keys of the collection: `active`, `gens` and
`words`/`seq` (which `gen:<v>` records exist, and what their manifests say),
`chunks`, `committed`, `receipts` (`op:<id>`), the two lease ZSETs `writers` and
`leases` with the set `expired` of members whose deadline passed, `maintenance`
and `fence`. The client variables are the locals of `change`, of a `Snapshot` and
of `Prune`.

Actions. Each is one Redis command together with what its client does before
the next one:

| Action | Code |
|---|---|
| `AcquireWriter`, `SnapshotAcquire` | the script of `acquire` |
| `Prepare` | `change` up to the staging pipeline, `prepareCommit`, `v3NextManifest` |
| `StageChunk`, `StageManifest` | one execution of `v3StageScript`, in pipeline order |
| `Retransmit` | the pipeline is sent again |
| `Staged` | `stageBatch` evaluates its replies |
| `Commit` | one execution of `v3CommitScript`, with or without its reply arriving |
| `WriteFails` | any error return of `change`; `ErrCommitUnknown` once the commit was sent |
| `ResolveOperation` | `ResolveOperation` finds a receipt |
| `SnapshotManifest`, `ListStart`, `ListBucket`, `ListEnd`, `SnapshotClose` | `Snapshot`, `List`/`all` with its two lease checks, `Close` |
| `PruneAcquire` | the acquire script of `Prune` |
| `KeepActive`, `KeepLeases`, `KeepRecent` | the three reads of `pruneKeep` |
| `RefFence`, `RefLoad` | `pruneReferences` |
| `Candidates` | `pruneCandidates` |
| `SendDelete`, `DeleteBatch`, `DeleteLate` | `pruneDeleteAt`: fence, script with answer, script executed late or again |
| `PruneReturn` | every return of `Prune`, with its deferred release executed or lost |
| `Expire`, `MaintenanceExpires`, `Age` | a deadline passes |

Abstractions.

* Time is not counted. A deadline passes in an action of its own at any moment
  after it was set. Renewal (`renew`, `fence`) only delays that moment, so it has
  no action. The results hold for every duration and for a Redis clock that
  jumps. `pruneKeep` judges recency by the time the token was granted; the model
  may age a generation at any time, which includes that.
* An operation's id, the version it creates and its lease member are one value;
  all three are fresh random ids in the code.
* Every keyword is alone in its bucket and its chunk is named by it. Writers
  that touch the same keyword share the chunk, as content addressing makes them
  do. Checksums, JSON and the splitting of a bucket into chunks are left out.
* A client that stops is a client that returns and whose deferred release is
  lost, so `Return`, `PruneReturn` and `SnapshotClose` have both outcomes.
* The acquire script always reaches its client. If its reply is lost the code
  leaves an orphan lease, which delays Prune by at most one lease duration.
  `VersionedServing` has such leases (`GrantLost`).

### VersionedServing and the code

`VersionedStore` has any number of clients and no engine. `VersionedServing`
looks at the other side: one open collection, whose dictionary is the line of
generations that others (and it) commit. That the committed versions form such a
line, and that a lease protects what it pins, is proved about `VersionedStore`
(`CommitsOrdered`, `SnapshotsSafe`), so a version is its sequence number here and
a read of a pinned generation yields its keywords or an error.

| Action | Code |
|---|---|
| `Commit` | any client's commit script, with its PUBLISH arriving or not; `signal()` for an own one |
| `MaintenanceStarts`, `MaintenanceEnds`, `Expire` | another client's Prune; a lease that was not renewed in time |
| `AcquireCheck`, `AcquireLease`, `AcquireRegister`, `CallerReleases` | `acquire` for a Snapshot or a writing call, and `v3Lease.close` |
| `SelectTick`, `SelectNotified`, `Debounced`, `LoopStops` | the two selects of `refreshLoop` and the drain |
| `RefreshCheck` ... `RefreshRelease`, `RefreshFails` | `refresh`, one action per Redis command; `Finish` is `recordRefreshResult` and, for the first refresh, the rest of `OpenVersioned` |
| `WaitStart`, `WaitReturns`, `WaitClosed`, `WaitCanceled` | `WaitForVersion` |
| `RenewStops` | `renewLoop` sees the canceled context; renewal itself only delays `Expire` |
| `Close`, `CloseWaited`, `CloseLease`, `CloseClient` | `Close`: `closed`/`cancel`, `wg.Wait` and what follows it, each ZREM, `client.Close` |

Abstractions.

* `closed` and the canceled context are one moment. What another goroutine does
  in between, or has in flight, may therefore still succeed or fail after it:
  every action of the refresher allows both.
* The first engine is built by `OpenVersioned` with the caller's context; nobody
  else has the collection then, so `Close` and calls start after it.
* The refresher's leases have one name. A new one takes the place of an orphan,
  so `LeaseAccounted` speaks of the newest.
* Each keyword is alone in its bucket; two manifests describe a bucket alike when
  both have the keyword or both lack it, which is what equal checksums mean.
* A Boolean stands for `LastError`; counters, times and shard numbers of the
  status are left out.
* Failed commands, lapsed leases and maintenance periods are counted together
  and bounded by `MaxFaults`. For the liveness properties this says that faults
  stop at some point; while they do not, nothing can be promised.

### V2Store, PresetEngine and the code

`V2Store` has the writing calls of any number of nodes and no local view.
`line` is everything that was ever written, in order; the trie hash holds its
last element, and a version is the position of what it stamps (in the code a
random or clock stamp; only its equality is used). `PresetEngine` adds the nodes
in `Presets`, which serve from an engine; the other nodes only write.

| Action | Code |
|---|---|
| `Start`, `ReadSnapshot`, `ReadUnchanged` | the calls of `redis_backed_ops.go`, `v2_ops.go` and `batch_atomic.go` up to the plan; a flush has no snapshot |
| `RunScript`, `Conflict`, `LastConflict` | `commitV2Write` with `v2WriteScript`, or `flushV2Keys`; `retryOnConflict` |
| `ReplyLostFails`, `ReplyLostResends`, `WriteFails` | the command failed, with or without effect; the client may resend it |
| `ApplyBegin`, `ApplyInstall`, `ApplySkips` | `applyCommittedWrite` before and after it builds without the lock |
| `Publish`, `Invalidate` | `publishInvalidate`; the listener with `handleInvalidation` and `markStale` |
| `PollRead`, `PollApply` | `pollVersion` |
| `ReloadStart`, `ReloadBegin`, `ReloadRead`, `ReloadInstall`, `ReloadAgain`, `ReloadFails` | `ensureValid`, `runReload` and the loop of `reloadFromRedis` |
| `Subscribe` | the end of `newRedisBacked`, which loads first and subscribes then |

Abstractions.

* `ac.generation` is only compared for equality with a copy of it. The model
  keeps, for each node, the set `upToDate` of those whose copy still equals it:
  an increment empties the set, taking a copy enters it.
* A node's own message may be handled like a foreign one (its id was forgotten
  or is older than `selfSkipTTL`), so `Publish` may put it into the node's own
  inbox. Messages are handled in any order.
* `missed` records, for the properties only, that something was written that a
  node is never told of: a lost message, a lost reply, a write before the node
  subscribed.
* All searches that wait for one reload are one; when the last one is canceled
  the reload fails.
* Prefixes and outputs are functions of the keywords and are written with them.

### VersionedShards and the code

State. `meta`, `active`, `gens` and `leases` are keys of the collection's slot;
`chunks`, `manifests`, `writers`, `maintenance` and `fence` exist in every slot,
the collection's own being `Global`. `draft[o]` is the manifest that call `o`
prepares and, once `o` is in `gens`, the content of `gen:<o>`. `step[o][p]` is
where the goroutine of `stageAll` for slot `p` is. A call of Prune is known by
the token (the fence) it was granted.

| Action | Code |
|---|---|
| `InitialManifest`, `SeedShard`, `Create` | `OpenVersioned` of a collection that may be new: `initialManifest`, `initialize` |
| `Acquire`, `Change`, `Reshard` | the lease, and the two ways to prepare a commit with `v3NextManifest` or `reshardBuckets` |
| `ReadDeadline`, `Mirror` | the two scripts of `mirrorWriter`, in two slots; `mail` holds what the first one read. Renewal repeats them |
| `StageChunks`, `StageManifest`, `StageGeneration`, `CheckGeneration` | `stageAll` with a goroutine per shard, then the generation record, then `loadManifest` of it |
| `Commit`, `Fails`, `CloseLease`, `CloseMirrors` | `commit`; any error or the end of the process; `v3Lease.close` |
| `OpenSnapshot`, `SnapshotEnds` | a snapshot's lease |
| `PruneAcquire` ... `PruneGenerations` | `Prune` and `pruneLocked` in the collection's slot |
| `PruneDiscover`, `PruneGrant`, `PruneRenew`, `PruneList`, `PruneChunks`, `PruneManifests`, `PruneSwept` | `pruneShards`, `pruneShardFence` with its two scripts, `pruneShard` |
| `LeaseExpires`, `TokenEnds` | a deadline passes, or a release arrives, in any subset of the slots |

Abstractions.

* The clocks of the nodes are not compared: a lease or a token ends in each slot
  separately, at any moment. Under a call that still runs this counts as one of
  the `MaxEvents`, as failures and renewals do.
* `pruneKeep` keeps what is a day old or less; the model keeps any set of
  generations besides the active and the leased ones.
* Keywords are alone in their buckets, deletions of a shard are one batch (the
  batches, retransmissions and late deletions are `VersionedStore`'s subject).
* A mirror script that is refused, lost or past its deadline has no action: it
  stays in `mail` or the call fails.
* `pruneShards` looks for occupied shards in batches of 64, each under the token;
  `PruneDiscover` does so once. No property depends on which shards are found.

### Collection and the code

Each goroutine makes one call at a time, and `pc` is the Redis command it will
send next. The V1 schema is three sets (keyword set, prefix index, states with an
output key), the V2 schema the trie hash with a version and the outputs hash.

| Action | Code |
|---|---|
| `InitCheck`, `InitWrite`, `InitV1`, `Open`, `Close`, `Crash` | `createOriginal`, `init`, `Close`; the end of a process |
| `FindReads`, `LoadLock`, `LoadFetch`, `LoadSet` | `find` and `findIndex` of both schemas, with and without a cache; `loadEngine` and `loadCache` |
| `WriteRefused`, `WriteEmpty`, `WriteReads`, `Commit`, `CommitUnanswered`, `Conflict`, `Flush`, `Publish` | the writes: screening, snapshot and plan, `v2WriteScript`, retries, `flushV2Keys`, `publishInvalidate` |
| `Listen` | the listener of a cached instance |
| `V1FlushReads` ... `V1FlushWords` | `flush` of V1, key by key |
| `MigrateLock` ... `MigrateRelease`, `LockExpires` | `MigrateV1ToV2`, one action per command, dry runs and `KeepOldKeys` included |
| `RollbackChecks`, `RollbackDeletes`, `RollbackUnanswered` | `RollbackToV1`, whose DEL may be executed without an answer |
| `Fails`, `MigrateFails`, `MigrateUnanswered` | a command without effect, or without an answer |

AddMany and RemoveMany, best effort and transactional, have one control flow:
`Candidates` and its neighbours are `screenBatch`, `First` decides what is refused
before anything is read, `BatchResult` and `BatchError` are their two ends. In
PROJECT.json each of the four functions stands at one of these definitions.

Abstractions.

* No keyword is a prefix or suffix of another, so an outputs hash is the set of
  the keywords it lists. An add then rewrites the outputs of its own states and
  leaves the rest, a remove rewrites all, as the script does.
* `engineMemo` is keyed by a digest of what was read, so a search without a cache
  searches what it reads.
* `Orderly` is an assumption about operators. It forbids, and nothing else:
  creating a V2 instance while there is no V2 trie, next to any other call (`init`
  and `initTrie` check for the trie and then write an empty one, over whatever a
  first write or a migration put there meanwhile); `RollbackToV1`, which takes no
  lock, next to any other call, or with another instance still open on V2; a V1
  flush, key by key, next to any other call; and a write through an instance
  whose `RollbackToV1` deleted the trie and returned an error because the answer
  was lost (the instance stays on V2, over a trie that is gone). The code takes no
  precaution against these and says nothing that promises it. Opening an
  instance on a collection that exists, or a V1 instance, next to other calls is
  allowed. With `Orderly` set to FALSE TLC soon finds a keyword lost.
* `Slow` says whether a migration may outlast its lock. The code gives no
  guarantee that it does not: the lifetime is fixed at 300 seconds, nothing renews
  it, and the release deletes the lock without asking whose it is. What the code
  says of the lock, `OneMigration`, is therefore the run `migration_lock`, with
  `Slow` set to TRUE, and it is violated. The run `collection` sets `Slow` to
  FALSE: it asks what crashes, lost answers and interleavings do to a collection
  while the lock lasts. Two migrations side by side do lose keywords
  (`KeywordsKept` fails with `Slow` set to TRUE).
* A lost answer is a fault. `BatchAccounted` speaks of calls whose script was
  answered; what `batchPlanner` says of errors is under Findings. A
  migration whose transaction was executed without an answer reports an error.
* `doomed` are the keywords that some call was asked to take away, and they stay
  doomed: `KeywordsKept` does not speak of a keyword that was taken away and added
  again. `SearchAgrees` does. It exempts only `torn`, the keywords of a V1
  flush, which may be cut short between two keys and migrated in that state.

### MatchEngines and the code

A behaviour builds one engine from one dictionary and runs one query. Trie nodes
are named by the string that reaches them; the double array keeps its real
positions, bases and checks, because packing them is what can go wrong.

| Action | Code |
|---|---|
| `InsertKeyword`, `StartLinks`, `MapLink`, `MapReady` | `memEfficientEngine.buildFromSequence`, queues in any map order; the root filter, with any confusion a Bloom filter may have |
| `SpeedLink`, `SpeedRootRow`, `SpeedRow`, `SpeedReady` | `speedEngine.buildFromKeywords`: sorted queue, rows in breadth-first order |
| `StartPlacing`, `Place`, `DatRootLinks`, `DatLink`, `BuildBand` | `doubleArrayTrie.buildFromKeywords`, `findBase`, `computeFailLinks`, `buildDFABand` |
| `Ask`, and one action per engine and kind of query | the scan loops; each action is one rune |

A walk over failure links (`Walk`) is a recursive function over the states, sorted
children are `Sorted`, and `PlaceChildren` is the loop body of `buildFromKeywords`
for one parent.

Left out: that a packed entry has 30 bits for its state (guarded by a panic), the
growth policy of the arrays (an absent entry is zero, as a grown one is), the
separate loop for ASCII texts (a byte is a rune there; a byte of another rune is
outside every ASCII alphabet and resets the automaton like the rune), the
bitset and slice variants of `setCollector`, and keywords of invalid UTF-8, of
which several may be one path of runes (`engine_output.go`): a keyword is its
runes here.

### TextSearch and the code

| Action | Code |
|---|---|
| `StartScan`, `ReadRune`, `Emit`, `EmitDone`, `Flush`, `Drain`, `ScanEnds` | `Scan`: `scanOptions`, `sourceScanner.next`, `emit`, the window, `scanSource` |
| `Measure`, `Measured`, `Write`, `Written` | the two loops of `renderRewrite`: its size arithmetic, match by match, and the text it builds |
| `StartMatches`, `KeepMatch`, `MatchesEnd` | `findMatches` with `filterWholeWord`, and the loop of `leftmostLongest` |
| `StartSplit`, `SplitChunk`, `SplitAutoChunk`, `SplitAutoEnds` | the parallel searches up to the loops of `splitChunks` and `splitAutoChunks` |
| `ChunkStarts`, `ChunkEnds`, `ChunkCanceled`, `Merge` | `scanChunks` and what its callers do with a chunk; the merges |

Every loop is an action that takes one turn of it, so that what a loop has done so
far can be stated as an invariant. A rewritten text is the sequence of its pieces,
each copied from the text or standing for a match. An engine is given by its dictionaries, one per shard of a composite; what it
reports at a rune is the merge of the shards' chains (`NextShard`, which is
`emitCompositeQueue`), and the whole-text calls sort the shards' matches
(`matches`); a set with an order stands for a sorted slice. A match is the span of
its rune offsets: the keyword and the byte offsets follow from it. Runes have a
folding and a width, so that normalization and sizes are not the identity.

## Runs

All runs of `MCVersionedStore` use two keywords, an initial dictionary of one of
them, and `PruneBatch` 1, so that a prune needs several batches and can stop or
lose its token between them. Calls are finite in number, so the system stops
when all have returned: deadlock is not checked.

| Run | Instance | Shows |
|---|---|---|
| `store_writers` | 2 writers, 1 pruner, one grant; one call adds, one replaces everything | `StoreInv` (the inductive invariant), `ReachableIntact`, `WriterIntact`, `MaintenanceExcludesWriters`, `CommitNeverMissing`, `CommitLine`, `OutcomeFinal`, `ImplementsDictionary` |
| `store_readers` | 1 writer, 1 snapshot, 1 process that prunes twice | `SnapshotIntact`, `PruneNeverStuck` |
| `serving` | 2 generations, 1 waiter, 1 caller, 1 fault, under fairness | `ServingInv` (the inductive invariant), `ServingExact`, `WaitKept`, `StatusOrdered`, `StatusHonest`, `LeaseAccounted`, `NothingAfterClose`, `CatchesUp`, `WaitEnds`, `CloseReturns` |
| `preset_engine` | a node with engine and poller, a peer, 2 calls of 4 kinds, 2 attempts, 2 faults, under fairness | `PresetInv` (the inductive invariant), `ReadYourWrites`, `WritesWhole`, `PollerRepairs`, `ReloadEnds` |
| `preset_notified` | a node without poller, a peer, one call on each, no fault | violation of `Notified`, see Findings |
| `shards` | 2 shards, layouts of 1 and 2, 3 calls one after the other, 1 token, 1 snapshot, 2 events | `PinnedReads`, `GenerationsLoad`, `LateMirrorRefused` |
| `collection` | 3 instances, 6 calls of 8 kinds, 2 keywords, 2 attempts, 2 faults | `KeywordsKept`, `SearchAgrees`, `BatchAccounted` |
| `migration_lock` | 2 instances that migrate, 4 calls, no fault, a lock that may expire at any time | violation of `OneMigration`, see Findings |
| `cache_told` | a cached instance that searches, one that writes, 4 calls, no fault | violation of `CacheTold`, see Findings |
| `engines` | every dictionary of 2 keywords of up to 3 runes and 5 chosen ones, every text of up to 4 runes, every query | `FailureLinksRight`, `DoubleArrayIsTheTrie`, `AnswerRight` |
| `text_search` | 4 engines, every text of up to 5 runes and 5 longer ones, 8 scans, 8 ways to split | `ScanExact`, `WindowBounded`, `WorkLimitHonest`, `RewriteSized`, `ParallelExact` |
| `parallel_overlap` | texts of up to 6 runes, chunks of 4 with an overlap of 3 | violation of `OverlapProtects`, see Findings |

Why the bounds are enough: the conflicts of the protocol are between two
parties (writer and writer, writer and pruner, reader and pruner, pruner and
pruner), and each run has the two parties and one generation to lose. Two grants
let a prune meet what an interrupted one left. A paused pruner beside its
successor is beyond the runs and covered by the proofs. On the serving side two
generations let a refresh see one version and pin the next, reuse or download
its bucket, and fail before or after a version was reported to a waiter; a fault
lets a refresh fail anywhere or a lease be lost on either side of its
registration. Longer lines of commits and more faults are covered by the proofs,
for everything but liveness. Nodes of a V2 collection meet only in Redis and in
their inboxes,
so one node with an engine and one that writes show every interleaving of the
two; two calls conflict, overtake each other or follow each other on one node;
two faults let a message and then the reload of the poller fail. The proofs
remove the bounds. `ShardInv`, `CollectionInv` and `SearchInv`, the inductive
invariants of the other proved modules, hold on the instances of `shards`,
`collection` and `text_search` as well;
the runs list only the properties they are there for.

In `shards` three calls are what it takes to create, change and reshard a
collection, and to leave a generation that a sweep must take away; two events let
a lease or a token end early in some slots and the call that held it fail, or a
renewal travel while its writer is done. A new call begins when the one before it
has ended (`MaxLive` 1), but a call that ended leaves its mirrors, its late
scripts and its records, and a sweep runs beside everything. Calls that run side
by side and several tokens are checked in the legacy layout only and covered by
the proofs here. In
`collection` six calls open three instances and make three more calls, so that
two migrations, a migration and a batch on another instance, or a migration, its
rollback and another one meet; a dead process can be followed by a lost answer. A
dictionary of two keywords has every way in which one keyword can be inside,
before, after or across another within three runes; four runes of text leave room
for a match, a mismatch inside a longer one and the next match.


Deadlock is not checked in the serving run either: a closed collection stops.
Nor is it in the others: when the calls have returned and the engine is
current, or the text is read, nothing has to happen.

Fairness (`Fairness` of `VersionedServing`). Weak fairness for the refresher, for
`renewLoop`, for the stages of Close and for waiters: the Go scheduler runs
goroutines that can run, the poll ticker ticks, commands end by their timeouts.
Weak fairness for the end of maintenance: its key has a lifetime. Strong
fairness for `LoopStops`: the loop comes to a select again and again, and Go's
select chooses among ready cases at random, so it does not pass over the
canceled context for ever. Nothing is assumed of commits, calls, cancellations,
message delivery or the call of Close. `CatchesUp` therefore rests on the ticker
alone: the mutant that removes it violates the property. The three liveness
properties say what does not last for ever (`[]<>`); since commits stay in the line
and stages of Close follow each other, that is the same as "leads to".

Fairness of `PresetEngine`. Weak fairness for a node's reload once it runs and
for its poller: goroutines that can run do, and the ticker ticks. Nothing is
assumed of writers, of message delivery or of searches, which alone start
reloads. `PollerRepairs` therefore says "stale or current", not "current". Calls
are finite in number; under an endless stream of foreign writes the loop of
`reloadFromRedis` may start over for ever, and `ReloadEnds` does not say
otherwise: it shows that the poller does not cause that.

## Findings

`preset_notified`. `applyCommittedWrite` takes the generation it will compare
when it starts, not when its write committed. In between a peer can read that
write, commit a newer one and publish, and the listener can handle the message.
`applyCommittedWrite` then counts the generation up itself, finds it unchanged
after the build, installs the older snapshot and clears `stale`. The invalidation
is lost although it arrived, and without `InvalidationPollInterval` nothing marks
the engine again until the next write. The comment in the function says that a
later write, invalidation or completed reload owns the newer state. For the same
reason two overlapping writes of one node may be installed in the wrong order:
`ReadYourWrites` holds for nodes that make one writing call at a time (`Serial`)
only. With a poller both heal (`PollerRepairs`).

`cache_told`. `loadCache` fetches the outputs hash and then calls `cache.set`,
which takes the lock of the cache and marks it valid. A write that is committed
after the fetch can be announced before that lock is taken; the listener clears
the flag, and `cache.set` raises it again over the older keywords. Nothing compares versions or polls here, so the instance
serves them until somebody writes again, although `acor.go` says that all
instances reload on their next Find. Nothing has to be lost or fail for this.

`migration_lock`. `ErrMigrationInProg` is documented with "Only one migration can
run at a time". The lock behind it is set once, for 300 seconds, and a migration
that reads and writes key by key neither renews nor checks it. When it expires, a
second instance takes it and both migrate. The first release then deletes the
lock of the other one, so a third may follow. The later of two transactions may
hold what was collected while the earlier one deleted the V1 keys.

Without a run: `batchPlanner` says of both its methods that an error means nothing
was written. `commitV2Write` returns an error when it gets no answer to its
script, whether or not it was executed. A caller who trusts the comment repeats the
batch, finds its keywords present, and is told that nothing changed; the
invalidation of the first attempt was never published.

`parallel_overlap`. `splitChunks` steps back by `Overlap` from the end of a chunk,
unless that would not move forward: then the next chunk starts at the end itself,
without any overlap. A word boundary can shorten a chunk by half, so this happens
for overlaps smaller than the chunk size, and a keyword across the cut is missed.
The documentation asks for an overlap of at least the longest keyword and names
longer keywords as the only ones that can be missed. `AutoOverlap` has no such gap
(`ParallelExact`).

## Proofs

`VersionedStoreProofs` proves, for every number of operations, snapshots,
pruners, keywords and grants, and every batch size:

| Theorem | States |
|---|---|
| `StoreCorrect` | `Spec => []StoreInv` |
| `TypeCorrect` | `[]TypeOK` |
| `PruneSafe` | `[]ReachableIntact` |
| `WritersSafe` | `[]WriterIntact` |
| `MaintenanceExclusive` | `[]MaintenanceExcludesWriters` |
| `SnapshotsSafe` | `[]SnapshotIntact` |
| `OutcomesFinal` | `[]OutcomeFinal` |
| `CommitFindsManifest` | `[]CommitNeverMissing` |
| `CommitsOrdered` | `[]CommitLine` |
| `PruneProgress` | `[]PruneNeverStuck` |
| `StoreImplementsDictionary` | `Spec => ImplementsDictionary` |

Assumptions: `RequestAssumption` and `StoreAssumption` (identifiers of
operations and snapshots are distinct from each other and from the first
version, the batch size is positive). TLC evaluates both in every run.

The argument. None of the properties is inductive alone: that Prune is safe
depends on what a paused pruner believes, which depends on what writers may do
while a token is in place. `StoreInv` strengthens them with

* `PreparedInv`: manifests that anything refers to are fixed;
* `OpInv`, `ComputeInv`: what an operation has in flight and what it was computed
  from;
* `StageInv`: whatever Redis executed for a live writer is still there, because a
  deletion needs a token and a token excludes live writers;
* `CommitInv`, `RefusalInv`: why a refused commit stays refused, namely because
  its lease is gone for good or the active version has moved past its expected
  one, and versions never come back;
* `TokenInv`, `KeepInv`, `JobInv`, `DeleteInv`: tokens are handed out once; a
  pruner that still holds its token has a current view, so each script that can
  still run with that token names nothing reachable.

The refinement maps `version` to `active`, `dictionary` to the keywords of the
active manifest, `sequence` to the committed number of the active version and
`applied` to the receipts. `AcquireWriter` is `Submit`, the first successful
`Commit` of an operation is `Write`, everything else stutters.

`VersionedServingProofs` proves, for any sets of keywords, callers and waiters
and any bounds, from `ServingAssumption` (the refresher is no caller, the bounds
are numbers):

| Theorem | States |
|---|---|
| `ServingCorrect` | `Spec => []ServingInv` |
| `ServesWholeGenerations` | `[]ServingExact` |
| `ReadAfterWait` | `[]WaitKept` |
| `StatusInOrder` | `[]StatusOrdered` |
| `StatusRight` | `[]StatusHonest` |
| `LeasesAccounted` | `[]LeaseAccounted` |
| `CloseLeavesNothing` | `[]NothingAfterClose` |

`ServingInv` adds two parts to the properties. `JobInv` says what the refresh
under way works on: its pinned generation is committed and not older than the
installed one (only the refresher installs), status shows it as active before it
is built, and the candidate is that generation. The last point rests on
`BucketsMakeGeneration`: given an exact engine, any mixture of reused and
downloaded buckets is the pinned generation. `LifeInv` says what is over at each
stage of Close: from the moment the lease table is copied no lease enters it,
because registration looks at `closed` under the same lock.

`PresetEngineProofs` proves, for any nodes, calls, requests and bounds, from
`V2Assumption` and `PresetAssumption`:

| Theorem | States |
|---|---|
| `WriteInvariant` | `Spec => []WriteInv` |
| `WritesAreWhole` | `Spec => WritesWhole` |
| `PresetInvariant` | `Serial` implies `Spec => []PresetInv` |
| `OwnWritesServed` | `Serial` implies `Spec => []ReadYourWrites` |

`WriteInv` says that a plan is the request applied to the snapshot whose version
the call holds. Versions keep their keywords, so the comparison in the script
makes it the plan for what is stored. `PresetInv` adds that on a node which
writes one call at a time commits grow from call to call (`InstallsForward`),
and that neither the engine, unless it is marked, nor a reload that will be
installed is older than a write the engine was told of (`EnginesForward`):
`ApplyBegin` disqualifies every reload that may have read before it.

`VersionedShardsProofs` proves, for any number of shards, layouts, calls, sweeps,
snapshots, keywords and events, from `ShardAssumption` (the counts divide the
number of shards, a request names finitely many words):

| Theorem | States |
|---|---|
| `ShardsCorrect` | `Spec => []ShardInv` |
| `PinnedReadable` | `[]PinnedReads` |
| `RecordsLoad` | `[]GenerationsLoad` |
| `LateMirrors` | `[]LateMirrorRefused` |

The argument. No script spans two slots, so what holds in a shard has to follow
from what was true in the collection's slot some time ago. `ShardInv` says how:

* `FenceInv`: in every slot a token and a lease exclude each other; a shard's fence
  is never ahead of the collection's and never behind a token the shard was granted;
  a live lease, and what a mirror script carries, was read under the fence its
  writer began with. `LateMirrorRefused` follows, without looking at any clock.
* `WholeInv`: a record names manifests that list exactly its words and were
  written by itself or by calls that have left (`Coherent`, `Complete`), and what
  is read, planned on or about to be committed has its chunks. A manifest that
  has a record, or whose call has left, never changes (lemma `Frozen`).
* `SeedInv`, `StageInv`: what a new collection and a live writer have put into each
  slot. `Follows` describes the plans of change and Reshard alike: a shard is
  either written anew or its part is the expected version's.
* `KeepInv`: a sweep that still has the collection's token keeps all that is
  pinned, and after it deleted the records nothing else has one.
* `SweepInv`: a sweep that is about to delete in a shard it holds, even if it lost
  the collection's token since, deletes what nobody needs (`Harmless`). This is
  true when the token is renewed after the grant, and stays true: whoever begins
  later has to be mirrored into the shard before it writes there, which the grant
  forbids, and what it takes over unwritten belongs to versions that were kept.
  The last point is why `Harmless` speaks of calls that still have to mirror.

`LoadsWhole` shows that such a record passes `loadManifest`, the count of its
entries included (`EntriesCount`, a bijection between words and entries).

`CollectionProofs` proves, for any instances, goroutines, keywords, requests,
retries and faults, from `CollectionAssumption`:

| Theorem | States |
|---|---|
| `CollectionCorrect` | `Orderly` and not `Slow` imply `Spec => []CollectionInv` |
| `NothingLost` | the same for `KeywordsKept` |
| `HashesAgree` | the same for `SearchAgrees` |
| `BatchesHonest` | `Orderly` implies `Spec => []BatchAccounted` |

`Orderly` and `Slow` are the conditions described above under Collection. They are
hypotheses, and necessary ones: TLC violates `KeywordsKept` without the first and
without the second. That a migration keeps its lock is an assumption about how long
it takes, so no theorem claims it; what a batch reports does not
depend on it. `CollectionInv` adds which call may be at which command
(`CallInv`) and next to which other (`AloneInv`), that the lock is the migration's
until it releases it (`LockInv`), when a V2 trie exists and what a plan for it was
made from (`TrieInv`), that it has no outputs while it is absent, and
who relies on that (`AbsentInv`), that the V1
keys agree but for a flush that was cut short (`V1Inv`), that what a migration has
collected is what V1 still holds (`MigrationInv`), and what a batch wrote while it
still runs (`WroteInv`). A plan whose version is the stored one was made from the
stored keywords, so the script changes what the batch will report.

`TextSearchProofs` proves, for any dictionaries (finite, one shard or many), any
texts, foldings and rune widths, any options and limits and any number of
workers, from `SearchAssumption`:

| Theorem | States |
|---|---|
| `SearchInvariant` | `Spec => []SearchInv` |
| `ScanIsExact` | `[]ScanExact` |
| `WorkLimitIsHonest` | `[]WorkLimitHonest` |
| `WindowIsBounded` | `[]WindowBounded` |
| `RewriteIsSized` | `[]RewriteSized` |
| `ParallelIsExact` | `[]ParallelExact` |

`SearchAssumption` says that a keyword is in one shard only (it is routed there),
that a mask rune has a width, and that rewrites ask for the leftmost-longest
selection, as `rewrite` does. What the properties compare with is a search by
definition: the set of all occurrences. `SearchInv` relates each loop to it:

* `StreamInv`: the candidates counted are the occurrences that were shown
  (`Seen`): those that end before the current rune, and at the rune those that
  have left the shards' chains. The merge serves the longest first (`NextMatch`),
  so at each moment the shown ones are a beginning of the scan order.
  `WorkLimitHonest` is then a matter of cardinalities.
* `WindowInv`, `DisjointInv`, `GreedyInv`: a pending start is within reach of the
  longest keyword; each occurrence that was shown is selected, beaten by a selected
  one, or not better than the pending candidate of its start; whatever is pending
  or still to come starts after every selected match. The last point is where
  `Ripe` is needed: an occurrence not shown yet ends later than the current rune,
  hence starts past a start from which the longest keyword was read.
* `SelectInv`, the same for the sorted pass of `leftmostLongest`.
* `ExactInv`: a scan that stops at its limit has a beginning of the right selection.
  That there is such a selection, although nobody computes the rest of it, is
  `SelectionCompletes`: every beginning that is right so far can be completed to
  the selection the definition asks for. It is proved start
  by start, by induction.
* `RewriteInv`: the size so far is the length of the text up to the cursor plus
  what the matches up to there add or take away (`Grown`); while the text is
  written its pieces join without gap and have that size. A size that is refused
  is too large because the rest of the text cannot shrink below what is counted
  (`NotFits`); the division for masks is exact at the boundary (`MaskRoom`).
* `ChunkInv`: every start before the splitter's cursor is owned by a chunk that
  reaches as far as a keyword from there can (`Owned`), and each slot holds its
  chunk's answer or nothing. An occurrence in a chunk, shifted, is one in the text
  and the other way round (`OccurrenceShifts`), whichever worker found it when.

`MatchEnginesProofs` proves, for any dictionaries (finite, of any runes and
lengths, the empty keyword included), any order of the map iterations and any
depth of the band, from `EngineConstants`:

| Theorem | States |
|---|---|
| `BuildInvariant` | `Spec => []BuildInv` |
| `FailureLinks` | `[]FailureLinksRight` |
| `DoubleArray` | `[]DoubleArrayIsTheTrie` |
| `EngineInvariant` | `Spec => []EngineInv` |
| `Answers` | `[]AnswerRight` |

The three engines name their states differently and compute the links in their own
way, so `BuildInv` speaks of nodes and maps them to states with `StateOf`:

* `TrieInv`: the nodes are the prefixes of the keywords inserted so far.
* `QueueInv`: the queue is a frontier. No node of it is above another, everything
  below one of its nodes waits, and it is ordered level by level: what does not
  wait is at most one level below any node of the queue (`Layered`). Replacing a
  node by its children keeps all three and frees exactly the children
  (`QueueStep`), in whatever order they are listed.
* `SlotInv`: every node that does not wait has a slot, alone; `check` there names
  its parent's slot, and the parent's base and the rune's code lead to it. The slots
  that `findBase` returns are free (`FindBaseFacts`, with the existence of a first
  base that fits), and codes are unique in the alphabet, so nobody's slot is
  overwritten (`SlotsGrow`).
* `LinkInv`: every node that does not wait is linked to its longest proper suffix;
  the others still hold the value the array was made with.

That a child's link comes out right is `WalkStops`: the walk from a state stops at
the longest suffix of it among the states where a walk may stop. It needs the
links of all shallower nodes, which `Layered` gives, and it shows on the way that
the recursive function is defined there, since every link leads to a shorter word.
`ChildSuffix` turns the stop into the child's longest suffix: a proper suffix of
`sc` that is a node is the root or `uc` for a suffix `u` of `s` with a child `c`.
The double array walks over positions instead; `GotoFacts` says that its lookups
are the trie's.

`EngineInv` adds what a query needs to `BuildInv`:

* `OutInv`: the output link of a node that does not wait leads to the longest keyword
  that the node properly ends with, and to nothing if there is none. The link is
  taken from the failure link's state, which is shallower and therefore done, and
  ends with the same shorter keywords (`OutLinkRight`). By induction over the
  length of nodes, a chain lists exactly the keywords a state ends with, the
  longest first (`ChainListed`).
* `OrderInv`, `RowInv`: the rows of the Speed engine are filled level by level, so the
  row of a failure link is there when it is copied; an entry of a row, of the Speed
  engine or of the band, is the longest suffix of the state and the rune that is
  a node, with its output flag.
* `ScanInv`: the root filter passes every first rune, and the cursor is the longest
  suffix of the text that is a node. The text is not needed beyond the cursor: a node
  that the longer text ends with is, without its last rune, one that the cursor ends
  with (`StepLongest`, `StateIsEnough`). A rune outside the alphabet leads to the
  root (`Outside`). `MapStepRight`, `SpeedStepRight` and `BalancedStepRight`
  show that the three kinds of step do this.
* `AnswerInv`: `AnswerRight`, and for a scan that goes on: Contains has found nothing,
  FindSet has collected what is on the chains of the states it marked, the matches
  have not reached the caller's limit.

One more rune adds to the reference exactly the matches that end at it, after all
others and the longest first (`MatchesGrow`, `OccurrencesGrow`), so every answer
grows by the chain of the state: the keywords by the chain itself, the first
occurrences by the keywords of the chain that are new (`FirstJoin`), the starts of a
keyword by one number that is greater than all before (`StartsGrow`). That the
answers are equal as sequences follows from there being one list of a set in a
strict order (`ListsUnique`).

The lemmas on numbers and orders are in `SearchOrderProofs`. The prover cannot instantiate
an induction theorem that takes a predicate, but it can use the existence of a
least element of a set of numbers (`LeastNat`, from `WFMin`), and an induction
over numbers or over the size of a finite set is then a statement about the set of
counterexamples (`SetInduction`). In this way running sums exist and are what
their definition says (`SumsExist`, `PartialSums`), a finite set has a greatest
element, and sorting by counting predecessors gives each element one place
(`Places`).

Only model-checked:

* liveness under fairness, which the prover does not support: `CatchesUp`,
  `WaitEnds`, `CloseReturns`, `PollerRepairs`, `ReloadEnds`;
* the four violations under Findings, which are counterexamples.

## What is left

Every invariant that a passing run checks is proved; the liveness properties are not.

Not modelled, and why:

* `CopyV2`: a read of a V2 collection followed by Replace, both modelled.
* Suggest, Info, Diff, Debug, statistics and memory estimates: they read and
  change nothing. The prefixes of a V2 trie serve only Suggest.
* Page cursors and limits of `Snapshot.List`: arguments of reads.
* Which shard engines a refresh reuses (`versioned_reuse.go`): the decision is by
  equal checksums, as for buckets, which `VersionedServing` has.
* FindStream hands on what the engine emits, FindMany runs a search per text, and
  the search methods of `versioned_search.go` and of `redis_backed_ops.go` forward
  to the engine that `VersionedServing` and `PresetEngine` are about.
* Cancellation of engine builds (`build_context.go`): the partial engine is
  dropped.
* Options, Redis topologies, the Redis client and its retries: checks of
  arguments; what retries do to a command is in the models as a fault.
* The HTTP and gRPC servers and the command line: translation of requests,
  without state that outlives one; generated protobuf code, tools, benchmarks and
  examples.
