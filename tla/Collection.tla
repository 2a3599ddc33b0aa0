----------------------------- MODULE Collection -----------------------------
(***************************************************************************)
(* AhoCorasick instances without a Preset on one Redis collection: Create  *)
(* and its schema setup (acor.go), the V1 and V2 operations behind one     *)
(* interface (v1_ops.go, v2_ops.go), batches (batch.go), the trie cache    *)
(* and its invalidations (cache.go, invalidation.go, pubsub.go), and       *)
(* MigrateV1ToV2 and RollbackToV1 (migration.go).                          *)
(*                                                                         *)
(* A goroutine makes one call at a time on its instance. An outputs hash   *)
(* is the set of the keywords it lists: keywords are taken not to be       *)
(* prefixes or suffixes of each other. A version is a fresh stamp. The     *)
(* digest of engineMemo identifies what was read, so that an instance      *)
(* without a cache searches what it reads. The :nodes hash, which nothing  *)
(* reads, is left out.                                                     *)
(***************************************************************************)
EXTENDS Naturals, Sequences

CONSTANTS
  Proc, Node,   \* goroutines and the instances
  At,           \* the instance of a goroutine
  Raw, Keyword, \* keywords as callers write them, and normalized
  Norm,         \* normalizeKeyword; Blank for a keyword of spaces
  Blank, Root,  \* no keyword; the empty prefix of a V1 trie
  Existing,     \* what a V1 collection holds at the start
  Requests,     \* the calls each goroutine may make
  NoRequest, Free,
  MaxRetries,   \* maxRetries
  MaxCalls, MaxFaults,
  Orderly,      \* whether operators keep to the order OrderlyStart asks for
  Slow          \* whether a migration may take longer than migrationLockTTL

How ==
  {"v1", "v2", "v2cached",     \* create: SchemaVersion and EnableCache
   "single", "best", "whole",  \* add and remove: one keyword, or the mode of a batch
   "dry", "keep", "plain"}     \* migrate: DryRun and KeepOldKeys

RequestType ==
  [op  : {"create", "close", "find", "add", "remove", "flush", "migrate", "rollback"},
   raw : Seq(Raw),
   how : How]

ASSUME CollectionAssumption ==
  /\ At \in [Proc -> Node]
  /\ Blank \notin Keyword /\ Root \notin Keyword
  /\ Norm \in [Raw -> Keyword \cup {Blank}]
  /\ Existing \subseteq Keyword
  /\ \A p \in Proc : Requests[p] \subseteq RequestType
  /\ Free \notin Proc
  /\ MaxRetries \in Nat \ {0} /\ MaxCalls \in Nat /\ MaxFaults \in Nat
  /\ Orderly \in BOOLEAN /\ Slow \in BOOLEAN

VARIABLES
  v1words, v1states, v1outs, \* V1: the keyword set, the prefix index, the states with output
  trie, outputs,             \* V2: the trie hash (version 0 when it is absent) and the outputs hash
  stamp,                     \* the last version handed out
  lock,                      \* who set the migration lock
  temp,                      \* migrations whose temporary keys exist
  mode,                      \* what operations an instance runs
  engine, valid,             \* trieCache
  inbox,                     \* publishers whose invalidation an instance has yet to handle
  pc, req, tries, result,    \* a goroutine's call
  mine,                      \* its local variables
  kept, doomed,              \* keywords somebody stored, and asked to take away
  torn,                      \* keywords that a flush of V1 deletes key after key
  untold,                    \* whether a change was made that nobody is told of
  wrote,                     \* what a call's script replaced, and by what
  calls, faults

v1Vars    == <<v1words, v1states, v1outs>>
v2Vars    == <<trie, outputs, stamp>>
lockVars  == <<lock, temp>>
nodeVars  == <<mode, engine, valid, inbox>>
callVars  == <<pc, req, tries, result, mine, wrote>>
wordVars  == <<kept, doomed, torn, untold>>
vars == <<v1Vars, v2Vars, lockVars, nodeVars, callVars, wordVars, calls, faults>>

NoLocals == [ver |-> 0, words |-> {}, states |-> {}, outs |-> {}, todo |-> {}]
NoResult == [status |-> "none", changed |-> {}, skipped |-> {}, failed |-> {}]
NoWrite  == [lost |-> FALSE, old |-> {}, new |-> {}]

Init ==
  /\ v1words = Existing
  /\ v1states = Existing \cup {Root}
  /\ v1outs = Existing
  /\ trie = [ver |-> 0, words |-> {}]
  /\ outputs = {}
  /\ stamp = 0
  /\ lock = Free
  /\ temp = {}
  /\ mode = [n \in Node |-> "closed"]
  /\ engine = [n \in Node |-> {}]
  /\ valid = [n \in Node |-> FALSE]
  /\ inbox = [n \in Node |-> {}]
  /\ pc = [p \in Proc |-> "idle"]
  /\ req = [p \in Proc |-> NoRequest]
  /\ tries = [p \in Proc |-> 0]
  /\ result = [p \in Proc |-> NoResult]
  /\ mine = [p \in Proc |-> NoLocals]
  /\ wrote = [p \in Proc |-> NoWrite]
  /\ kept = Existing
  /\ doomed = {}
  /\ torn = {}
  /\ untold = FALSE
  /\ calls = 0
  /\ faults = 0

-----------------------------------------------------------------------------
Fault == faults < MaxFaults /\ faults' = faults + 1

(* The next command of a call. *)
Goes(p, to) == pc' = [pc EXCEPT ![p] = to]

(* A call returns r. *)
Returns(p, r) ==
  /\ Goes(p, "idle")
  /\ result' = [result EXCEPT ![p] = r]
  /\ mine' = [mine EXCEPT ![p] = NoLocals]
  /\ tries' = [tries EXCEPT ![p] = 0]

Status(s) == [NoResult EXCEPT !.status = s]

(* screenBatch: the places of blank keywords, of repetitions, of the rest. *)
Blanks(s)     == {i \in DOMAIN s : Norm[s[i]] = Blank}
Repeats(s)    == {i \in DOMAIN s \ Blanks(s) : \E j \in 1..(i - 1) : Norm[s[j]] = Norm[s[i]]}
Candidates(s) == DOMAIN s \ (Blanks(s) \cup Repeats(s))
Words(s)      == {Norm[s[i]] : i \in Candidates(s)}

(* partitionApplied: what a batch reports once applied was written. *)
BatchResult(s, applied) ==
  LET changed == {i \in Candidates(s) : Norm[s[i]] \in applied}
  IN [status |-> "ok", changed |-> changed,
      skipped |-> Repeats(s) \cup (Candidates(s) \ changed), failed |-> Blanks(s)]

(* A batch that is best effort reports the error of each keyword. *)
BatchError(r) ==
  IF r.how = "best"
  THEN [status |-> "ok", changed |-> {}, skipped |-> Repeats(r.raw),
        failed |-> Blanks(r.raw) \cup Candidates(r.raw)]
  ELSE Status("error")

-----------------------------------------------------------------------------
Busy(p) == pc[p] # "idle"

(* What the code leaves to its operators: nobody creates the trie of a V2  *)
(* collection, rolls back, or flushes V1 next to another call, no instance *)
(* stays on V2 across a rollback, and one whose rollback deleted the trie  *)
(* and got no answer is not written to until there is a trie again.        *)
Alone(r, n) ==
  \/ r.op = "rollback"
  \/ r.op = "create" /\ r.how # "v1" /\ trie.ver = 0
  \/ r.op = "flush" /\ mode[n] = "v1"

OrderlyStart(p, r) ==
  /\ Alone(r, At[p]) => \A q \in Proc \ {p} : ~Busy(q)
  /\ \A q \in Proc \ {p} : Busy(q) => ~Alone(req[q], At[q])
  /\ r.op = "rollback" => \A n \in Node \ {At[p]} : mode[n] \in {"closed", "v1"}
  /\ r.op \in {"add", "remove", "flush"} => mode[At[p]] = "v1" \/ trie.ver # 0

(* An instance is created once; MigrateV1ToV2, RollbackToV1 and Close      *)
(* replace fields that other calls on it read without a lock.              *)
MayStart(p, r) ==
  /\ r.op = "create" <=> mode[At[p]] = "closed"
  /\ r.op \in {"create", "close", "migrate", "rollback"} =>
       \A q \in Proc \ {p} : At[q] = At[p] => ~Busy(q)
  /\ \A q \in Proc \ {p} : At[q] = At[p] /\ Busy(q) =>
       req[q].op \notin {"create", "close", "migrate", "rollback"}
  /\ Orderly => OrderlyStart(p, r)

(* Where a call begins: what it does before its first command. *)
First(p, r) ==
  LET n == At[p]
      write == IF (mode[n] = "v1" /\ r.raw # <<>>) \/ (r.how = "whole" /\ Blanks(r.raw) # {}) THEN "refused"
               ELSE IF Candidates(r.raw) = {} THEN "empty" ELSE "reading"
  IN [create   |-> IF r.how = "v1" THEN "rooting" ELSE "checking",
      close    |-> "closing",
      find     |-> IF mode[n] = "v1" THEN "v1find"
                   ELSE IF mode[n] = "v2" THEN "fetching"
                   ELSE IF valid[n] THEN "hit" ELSE "locking",
      add      |-> write,
      remove   |-> write,
      flush    |-> IF mode[n] = "v1" THEN "v1flush" ELSE "flushing",
      migrate  |-> "acquiring",
      rollback |-> "rollcheck"][r.op]

(* What r takes away. A rollback loses what V1 does not hold. *)
Takes(r) ==
  IF r.op = "remove" THEN Words(r.raw)
  ELSE IF r.op = "flush" THEN Keyword
  ELSE IF r.op = "rollback" THEN Keyword \ v1words
  ELSE {}

(* What r deletes key after key. *)
Tears(r, n) == IF r.op = "flush" /\ mode[n] = "v1" THEN v1words ELSE {}

Start(p) ==
  \E r \in Requests[p] :
    /\ ~Busy(p) /\ calls < MaxCalls
    /\ MayStart(p, r)
    /\ calls' = calls + 1
    /\ req' = [req EXCEPT ![p] = r]
    /\ Goes(p, First(p, r))
    /\ result' = [result EXCEPT ![p] = NoResult]
    /\ wrote' = [wrote EXCEPT ![p] = NoWrite]
    /\ doomed' = doomed \cup Takes(r)
    /\ torn' = torn \cup Tears(r, At[p])
    /\ UNCHANGED <<v1Vars, v2Vars, lockVars, nodeVars, tries, mine, kept, untold, faults>>

-----------------------------------------------------------------------------
(* createOriginal and init for V2: is there a trie? *)
InitCheck(p) ==
  /\ pc[p] = "checking"
  /\ Goes(p, IF trie.ver = 0 THEN "initing" ELSE "opening")
  /\ UNCHANGED <<v1Vars, v2Vars, lockVars, nodeVars, req, tries, result, mine, wrote,
                 wordVars, calls, faults>>

(* No: HSET of emptyTrieFields, whatever was written since. *)
InitWrite(p) ==
  /\ pc[p] = "initing"
  /\ trie' = [ver |-> stamp + 1, words |-> {}]
  /\ stamp' = stamp + 1
  /\ Goes(p, "opening")
  /\ UNCHANGED <<v1Vars, outputs, lockVars, nodeVars, req, tries, result, mine, wrote,
                 wordVars, calls, faults>>

(* init for V1 adds the empty prefix. *)
InitV1(p) ==
  /\ pc[p] = "rooting"
  /\ v1states' = v1states \cup {Root}
  /\ Goes(p, "opening")
  /\ UNCHANGED <<v1words, v1outs, v2Vars, lockVars, nodeVars, req, tries, result, mine, wrote,
                 wordVars, calls, faults>>

(* startCacheListener, and Create returns. *)
Open(p) ==
  /\ pc[p] = "opening"
  /\ mode' = [mode EXCEPT ![At[p]] = req[p].how]
  /\ Returns(p, Status("ok"))
  /\ UNCHANGED <<v1Vars, v2Vars, lockVars, engine, valid, inbox, req, wrote, wordVars,
                 calls, faults>>

(* An instance is gone: its cache and its subscription with it. *)
Gone(n) ==
  /\ mode' = [mode EXCEPT ![n] = "closed"]
  /\ engine' = [engine EXCEPT ![n] = {}]
  /\ valid' = [valid EXCEPT ![n] = FALSE]
  /\ inbox' = [inbox EXCEPT ![n] = {}]

Close(p) ==
  /\ pc[p] = "closing"
  /\ Gone(At[p])
  /\ Returns(p, Status("ok"))
  /\ UNCHANGED <<v1Vars, v2Vars, lockVars, req, wrote, wordVars, calls, faults>>

(* The process of an instance dies. *)
Crash(n) ==
  /\ \E p \in Proc : At[p] = n /\ Busy(p)
  /\ Fault
  /\ Gone(n)
  /\ pc' = [p \in Proc |-> IF At[p] = n THEN "idle" ELSE pc[p]]
  /\ mine' = [p \in Proc |-> IF At[p] = n THEN NoLocals ELSE mine[p]]
  /\ tries' = [p \in Proc |-> IF At[p] = n THEN 0 ELSE tries[p]]
  /\ untold' = (untold \/ \E p \in Proc : At[p] = n /\ pc[p] = "publishing")
  /\ UNCHANGED <<v1Vars, v2Vars, lockVars, req, result, wrote, kept, doomed, torn, calls>>

-----------------------------------------------------------------------------
(* Searches without a cache read the keywords, and write nothing. *)
FindReads(p) ==
  /\ pc[p] \in {"v1find", "fetching", "hit"}
  /\ Returns(p, Status("ok"))
  /\ UNCHANGED <<v1Vars, v2Vars, lockVars, nodeVars, req, wrote, wordVars, calls, faults>>

(* loadEngine after a miss: one goroutine at a time loads the cache, and   *)
(* the one that comes after it finds it loaded.                            *)
LoadLock(p) ==
  /\ pc[p] = "locking"
  /\ \A q \in Proc : At[q] = At[p] => pc[q] \notin {"loading", "loaded"}
  /\ IF valid[At[p]] THEN Returns(p, Status("ok"))
                     ELSE Goes(p, "loading") /\ UNCHANGED <<tries, result, mine>>
  /\ UNCHANGED <<v1Vars, v2Vars, lockVars, nodeVars, req, wrote, wordVars, calls, faults>>

(* fetchTrieData ... *)
LoadFetch(p) ==
  /\ pc[p] = "loading"
  /\ mine' = [mine EXCEPT ![p] = [NoLocals EXCEPT !.outs = outputs]]
  /\ Goes(p, "loaded")
  /\ UNCHANGED <<v1Vars, v2Vars, lockVars, nodeVars, req, tries, result, wrote, wordVars,
                 calls, faults>>

(* ... and cache.set, whatever happened since. *)
LoadSet(p) ==
  /\ pc[p] = "loaded"
  /\ engine' = [engine EXCEPT ![At[p]] = mine[p].outs]
  /\ valid' = [valid EXCEPT ![At[p]] = TRUE]
  /\ Returns(p, Status("ok"))
  /\ UNCHANGED <<v1Vars, v2Vars, lockVars, mode, inbox, req, wrote, wordVars, calls, faults>>

(* The listener of a cached instance handles a foreign invalidation. *)
Listen(n) ==
  \E q \in inbox[n] :
    /\ inbox' = [inbox EXCEPT ![n] = inbox[n] \ {q}]
    /\ valid' = [valid EXCEPT ![n] = FALSE]
    /\ UNCHANGED <<v1Vars, v2Vars, lockVars, mode, engine, callVars, wordVars, calls, faults>>

-----------------------------------------------------------------------------
(* V1 takes no writes, and a transaction no blank keyword. *)
WriteRefused(p) ==
  /\ pc[p] = "refused"
  /\ Returns(p, BatchError(req[p]))
  /\ UNCHANGED <<v1Vars, v2Vars, lockVars, nodeVars, req, wrote, wordVars, calls, faults>>

WriteEmpty(p) ==
  /\ pc[p] = "empty"
  /\ Returns(p, BatchResult(req[p].raw, {}))
  /\ UNCHANGED <<v1Vars, v2Vars, lockVars, nodeVars, req, wrote, wordVars, calls, faults>>

(* planAddMany and planRemoveMany. *)
Plan(r, words) == IF r.op = "add" THEN words \cup Words(r.raw) ELSE words \ Words(r.raw)

(* The words that a plan changes. *)
Changed(r, words) ==
  IF r.op = "add" THEN Words(r.raw) \ words ELSE Words(r.raw) \cap words

(* readTrieSnapshot, and the plan. *)
WriteReads(p) ==
  /\ pc[p] = "reading"
  /\ IF Changed(req[p], trie.words) = {}
       THEN Returns(p, BatchResult(req[p].raw, {}))
       ELSE /\ mine' = [mine EXCEPT ![p] = [NoLocals EXCEPT !.ver = trie.ver, !.words = trie.words]]
            /\ Goes(p, "planned")
            /\ UNCHANGED <<tries, result>>
  /\ UNCHANGED <<v1Vars, v2Vars, lockVars, nodeVars, req, wrote, wordVars, calls, faults>>

(* Mutant of Wins: versions are not compared. *)
WinsAlways(p) == TRUE

(* v2WriteScript writes unless the trie has another version. *)
Wins(p) == trie.ver \in {0, mine[p].ver}

(* Mutant of ScriptWrites: an add replaces only the trie. *)
ScriptWritesTrie(p) ==
  LET new == Plan(req[p], mine[p].words) IN
  /\ pc[p] = "planned" /\ Wins(p)
  /\ trie' = [ver |-> stamp + 1, words |-> new]
  /\ stamp' = stamp + 1
  /\ outputs' = IF req[p].op = "add" THEN outputs ELSE new
  /\ kept' = IF req[p].op = "add" THEN kept \cup Words(req[p].raw) ELSE kept

(* It replaces the trie. An add rewrites the outputs of its own states, a  *)
(* remove all of them.                                                     *)
ScriptWrites(p) ==
  LET new == Plan(req[p], mine[p].words) IN
  /\ pc[p] = "planned" /\ Wins(p)
  /\ trie' = [ver |-> stamp + 1, words |-> new]
  /\ stamp' = stamp + 1
  /\ outputs' = IF req[p].op = "add" THEN outputs \cup new ELSE new
  /\ kept' = IF req[p].op = "add" THEN kept \cup Words(req[p].raw) ELSE kept

(* The script is answered. *)
Commit(p) ==
  /\ ScriptWrites(p)
  /\ wrote' = [wrote EXCEPT ![p] =
                 [lost |-> wrote[p].lost, old |-> trie.words, new |-> trie'.words]]
  /\ Goes(p, "publishing")
  /\ UNCHANGED <<v1Vars, lockVars, nodeVars, req, tries, result, mine, doomed, torn, untold,
                 calls, faults>>

(* Its answer is lost: the call fails, or the client sends it again. *)
CommitUnanswered(p) ==
  /\ ScriptWrites(p)
  /\ Fault
  /\ wrote' = [wrote EXCEPT ![p] =
                 [lost |-> TRUE, old |-> trie.words, new |-> trie'.words]]
  /\ untold' = TRUE
  /\ Returns(p, BatchError(req[p])) \/ UNCHANGED <<pc, tries, result, mine>>
  /\ UNCHANGED <<v1Vars, lockVars, nodeVars, req, doomed, torn, calls>>

(* The script refuses, and retryOnConflict starts over or gives up. *)
Conflict(p) ==
  /\ pc[p] = "planned" /\ ~Wins(p)
  /\ IF tries[p] + 1 < MaxRetries
       THEN /\ Goes(p, "reading")
            /\ tries' = [tries EXCEPT ![p] = tries[p] + 1]
            /\ mine' = [mine EXCEPT ![p] = NoLocals]
            /\ UNCHANGED result
       ELSE Returns(p, BatchError(req[p]))
  /\ UNCHANGED <<v1Vars, v2Vars, lockVars, nodeVars, req, wrote, wordVars, calls, faults>>

(* flushV2Keys. *)
Flush(p) ==
  /\ pc[p] = "flushing"
  /\ trie' = [ver |-> stamp + 1, words |-> {}]
  /\ stamp' = stamp + 1
  /\ outputs' = {}
  /\ Goes(p, "publishing")
  /\ UNCHANGED <<v1Vars, lockVars, nodeVars, req, tries, result, mine, wrote, wordVars,
                 calls, faults>>

(* Instances whose listener runs. *)
Listening == {n \in Node : mode[n] = "v2cached"}

WriteDone(p) ==
  IF req[p].op = "flush" THEN Status("ok")
  ELSE BatchResult(req[p].raw, Changed(req[p], mine[p].words))

(* publishInvalidate: the message reaches the others that listen, unless   *)
(* it is lost, and the cache of the instance itself is invalidated. Its    *)
(* own message it skips, or not when that comes late.                      *)
Publish(p) ==
  /\ pc[p] = "publishing"
  /\ \E told \in SUBSET Listening :
       /\ IF Listening \ {At[p]} \subseteq told THEN UNCHANGED <<faults, untold>>
                                             ELSE Fault /\ untold' = TRUE
       /\ inbox' = [n \in Node |-> IF n \in told THEN inbox[n] \cup {p} ELSE inbox[n]]
  /\ valid' = [valid EXCEPT ![At[p]] = FALSE]
  /\ Returns(p, WriteDone(p))
  /\ UNCHANGED <<v1Vars, v2Vars, lockVars, mode, engine, req, wrote, kept, doomed, torn, calls>>

-----------------------------------------------------------------------------
(* flush of V1 deletes key after key: the outputs of every keyword, then   *)
(* the prefixes, then the keywords.                                        *)
V1FlushReads(p) ==
  /\ pc[p] = "v1flush"
  /\ mine' = [mine EXCEPT ![p] = [NoLocals EXCEPT !.todo = v1words]]
  /\ Goes(p, "v1outs")
  /\ UNCHANGED <<v1Vars, v2Vars, lockVars, nodeVars, req, tries, result, wrote, wordVars,
                 calls, faults>>

V1FlushWord(p) ==
  /\ pc[p] = "v1outs"
  /\ \E w \in mine[p].todo :
       /\ v1outs' = v1outs \ {w}
       /\ mine' = [mine EXCEPT ![p] = [mine[p] EXCEPT !.todo = mine[p].todo \ {w}]]
  /\ UNCHANGED <<v1words, v1states, v2Vars, lockVars, nodeVars, pc, req, tries, result, wrote,
                 wordVars, calls, faults>>

V1FlushPrefixes(p) ==
  /\ pc[p] = "v1outs" /\ mine[p].todo = {}
  /\ v1states' = {}
  /\ Goes(p, "v1words")
  /\ UNCHANGED <<v1words, v1outs, v2Vars, lockVars, nodeVars, req, tries, result, mine, wrote,
                 wordVars, calls, faults>>

V1FlushWords(p) ==
  /\ pc[p] = "v1words"
  /\ v1words' = {}
  /\ Returns(p, Status("ok"))
  /\ UNCHANGED <<v1states, v1outs, v2Vars, lockVars, nodeVars, req, wrote, wordVars,
                 calls, faults>>

(* A command fails without effect, and the call returns the error. *)
Fails(p) ==
  /\ pc[p] \in {"checking", "initing", "rooting", "opening", "v1find", "fetching", "loading",
                "reading", "planned", "flushing", "v1flush", "v1outs", "v1words",
                "acquiring", "rollcheck", "rolling"}
  /\ Fault
  /\ Returns(p, BatchError(req[p]))
  /\ UNCHANGED <<v1Vars, v2Vars, lockVars, nodeVars, req, wrote, wordVars, calls>>

-----------------------------------------------------------------------------
(* acquireMigrationLock. A lost answer leaves the lock behind. *)
MigrateLock(p) ==
  /\ pc[p] = "acquiring" /\ lock = Free
  /\ lock' = p
  /\ \/ Goes(p, "mtrie") /\ UNCHANGED <<tries, result, mine, faults>>
     \/ Fault /\ Returns(p, Status("error"))
  /\ UNCHANGED <<v1Vars, v2Vars, temp, nodeVars, req, wrote, wordVars, calls>>

MigrateRefused(p) ==
  /\ pc[p] = "acquiring" /\ lock # Free
  /\ Returns(p, Status("inProgress"))
  /\ UNCHANGED <<v1Vars, v2Vars, lockVars, nodeVars, req, wrote, wordVars, calls, faults>>

(* The phases between the lock and its release. *)
Migrating == {"mtrie", "mprefix", "mwords", "mstates", "mouts", "mwrite", "mcommit"}

(* The migration is over, with or without success. *)
Ends(p, status) ==
  /\ Goes(p, "releasing")
  /\ result' = [result EXCEPT ![p] = Status(status)]

(* Mutant of MigrateChecks: it does not ask for a V2 collection. *)
MigrateChecksV1(p) ==
  /\ \/ /\ pc[p] = "mtrie"
        /\ Goes(p, "mprefix") /\ UNCHANGED result
     \/ /\ pc[p] = "mprefix"
        /\ IF v1states = {} THEN Ends(p, "noData") ELSE Goes(p, "mwords") /\ UNCHANGED result
  /\ UNCHANGED <<v1Vars, v2Vars, lockVars, nodeVars, req, tries, mine, wrote, wordVars,
                 calls, faults>>

(* Is there a V2 collection already, is there a V1 collection at all? *)
MigrateChecks(p) ==
  /\ \/ /\ pc[p] = "mtrie"
        /\ IF trie.ver # 0 THEN Ends(p, "alreadyV2") ELSE Goes(p, "mprefix") /\ UNCHANGED result
     \/ /\ pc[p] = "mprefix"
        /\ IF v1states = {} THEN Ends(p, "noData") ELSE Goes(p, "mwords") /\ UNCHANGED result
  /\ UNCHANGED <<v1Vars, v2Vars, lockVars, nodeVars, req, tries, mine, wrote, wordVars,
                 calls, faults>>

(* Keywords and prefixes are read, then the outputs of each prefix. *)
MigrateCollects(p) ==
  /\ \/ /\ pc[p] = "mwords"
        /\ mine' = [mine EXCEPT ![p] = [NoLocals EXCEPT !.words = v1words]]
        /\ Goes(p, "mstates") /\ UNCHANGED result
     \/ /\ pc[p] = "mstates"
        /\ mine' = [mine EXCEPT ![p] = [mine[p] EXCEPT !.states = v1states, !.todo = v1states]]
        /\ Goes(p, "mouts") /\ UNCHANGED result
     \/ /\ pc[p] = "mouts"
        /\ \E w \in mine[p].todo :
             mine' = [mine EXCEPT ![p] = [mine[p] EXCEPT !.todo = mine[p].todo \ {w},
                                            !.outs = mine[p].outs \cup ({w} \cap v1outs)]]
        /\ UNCHANGED <<pc, result>>
     \/ /\ pc[p] = "mouts" /\ mine[p].todo = {}
        /\ IF req[p].how = "dry" THEN Ends(p, "dryRun") ELSE Goes(p, "mwrite") /\ UNCHANGED result
        /\ UNCHANGED mine
  /\ UNCHANGED <<v1Vars, v2Vars, lockVars, nodeVars, req, tries, wrote, wordVars, calls, faults>>

(* The temporary keys are written. *)
MigrateWrites(p) ==
  /\ pc[p] = "mwrite"
  /\ temp' = temp \cup {p}
  /\ Goes(p, "mcommit")
  /\ UNCHANGED <<v1Vars, v2Vars, lock, nodeVars, req, tries, result, mine, wrote, wordVars,
                 calls, faults>>

(* The transaction: the V1 keys are deleted unless they are kept, and the  *)
(* temporary keys renamed. There is no key for empty outputs.              *)
Swap(p) ==
  LET m == mine[p] IN
  /\ trie' = [ver |-> stamp + 1, words |-> m.words]
  /\ stamp' = stamp + 1
  /\ outputs' = IF m.outs # {} THEN m.outs ELSE outputs
  /\ IF req[p].how = "keep" THEN UNCHANGED v1Vars
       ELSE v1words' = {} /\ v1states' = {} /\ v1outs' = v1outs \ m.states
  /\ temp' = temp \ {p}

MigrateCommits(p) ==
  /\ pc[p] = "mcommit"
  /\ Swap(p)
  /\ untold' = TRUE
  /\ Ends(p, "success")
  /\ mode' = [mode EXCEPT ![At[p]] = IF mode[At[p]] = "v1" THEN "v2" ELSE mode[At[p]]]
  /\ UNCHANGED <<lock, engine, valid, inbox, req, tries, mine, wrote, kept, doomed, torn,
                 calls, faults>>

(* Its answer is lost: an error, and the instance stays on V1. *)
MigrateUnanswered(p) ==
  /\ pc[p] = "mcommit"
  /\ Fault
  /\ Swap(p)
  /\ untold' = TRUE
  /\ Ends(p, "error")
  /\ UNCHANGED <<lock, nodeVars, req, tries, mine, wrote, kept, doomed, torn, calls>>

(* A command fails; the temporary keys are deleted, if that succeeds. *)
MigrateFails(p) ==
  /\ pc[p] \in Migrating
  /\ Fault
  /\ temp' \in {temp, temp \ {p}}
  /\ Ends(p, "error")
  /\ UNCHANGED <<v1Vars, v2Vars, lock, nodeVars, req, tries, mine, wrote, wordVars, calls>>

(* releaseMigrationLock deletes the lock, whoever set it. It may fail. *)
MigrateRelease(p) ==
  /\ pc[p] = "releasing"
  /\ \/ lock' = Free /\ UNCHANGED faults
     \/ UNCHANGED lock /\ Fault
  /\ Returns(p, result[p])
  /\ UNCHANGED <<v1Vars, v2Vars, temp, nodeVars, req, wrote, wordVars, calls>>

(* migrationLockTTL passes, for a migration that is over or for one that   *)
(* runs: nothing renews the lock.                                          *)
LockExpires ==
  /\ lock # Free
  /\ Slow \/ pc[lock] \notin Migrating \cup {"releasing"}
  /\ lock' = Free
  /\ UNCHANGED <<v1Vars, v2Vars, temp, nodeVars, callVars, wordVars, calls, faults>>

-----------------------------------------------------------------------------
(* RollbackToV1: are there V1 keywords? *)
RollbackChecks(p) ==
  /\ pc[p] = "rollcheck"
  /\ IF v1words # {} THEN Goes(p, "rolling") /\ UNCHANGED <<tries, result, mine>>
                      ELSE Returns(p, Status("error"))
  /\ UNCHANGED <<v1Vars, v2Vars, lockVars, nodeVars, req, wrote, wordVars, calls, faults>>

(* The V2 keys are deleted. *)
Deleted == trie' = [ver |-> 0, words |-> {}] /\ outputs' = {}

(* The instance drops its cache. *)
RollbackDeletes(p) ==
  LET n == At[p] IN
  /\ pc[p] = "rolling"
  /\ Deleted
  /\ mode' = [mode EXCEPT ![n] = "v1"]
  /\ engine' = [engine EXCEPT ![n] = {}]
  /\ valid' = [valid EXCEPT ![n] = FALSE]
  /\ inbox' = [inbox EXCEPT ![n] = {}]
  /\ untold' = TRUE
  /\ Returns(p, Status("ok"))
  /\ UNCHANGED <<v1Vars, stamp, lockVars, req, wrote, kept, doomed, torn, calls, faults>>

(* The answer is lost: an error, and the instance stays on V2. *)
RollbackUnanswered(p) ==
  /\ pc[p] = "rolling"
  /\ Fault
  /\ Deleted
  /\ untold' = TRUE
  /\ Returns(p, Status("error"))
  /\ UNCHANGED <<v1Vars, stamp, lockVars, nodeVars, req, wrote, kept, doomed, torn, calls>>

-----------------------------------------------------------------------------
Step(p) ==
  \/ Start(p) \/ InitCheck(p) \/ InitWrite(p) \/ InitV1(p) \/ Open(p) \/ Close(p) \/ Fails(p)
  \/ FindReads(p) \/ LoadLock(p) \/ LoadFetch(p) \/ LoadSet(p)
  \/ WriteRefused(p) \/ WriteEmpty(p) \/ WriteReads(p) \/ Commit(p) \/ CommitUnanswered(p)
  \/ Conflict(p) \/ Flush(p) \/ Publish(p)
  \/ V1FlushReads(p) \/ V1FlushWord(p) \/ V1FlushPrefixes(p) \/ V1FlushWords(p)
  \/ MigrateLock(p) \/ MigrateRefused(p) \/ MigrateChecks(p) \/ MigrateCollects(p)
  \/ MigrateWrites(p) \/ MigrateCommits(p) \/ MigrateUnanswered(p) \/ MigrateFails(p)
  \/ MigrateRelease(p) \/ RollbackChecks(p) \/ RollbackDeletes(p) \/ RollbackUnanswered(p)

Next ==
  \/ \E p \in Proc : Step(p)
  \/ \E n \in Node : Listen(n) \/ Crash(n)
  \/ LockExpires

Spec == Init /\ [][Next]_vars

-----------------------------------------------------------------------------
V1Has(w) == w \in v1words \cap v1states \cap v1outs
V2Has(w) == trie.ver # 0 /\ w \in trie.words \cap outputs

(* Whatever crashes, fails, is retried or runs twice, a keyword that was   *)
(* stored and that nobody asked to take away is found and listed in one of *)
(* the two schemas: a migration never leaves a moment in which neither     *)
(* holds it.                                                               *)
KeywordsKept == \A w \in kept \ doomed : V1Has(w) \/ V2Has(w)

(* Find, which reads the outputs, and Suggest and Info, which read the     *)
(* trie, agree on what a V2 collection holds, whatever was added, removed, *)
(* flushed, migrated or rolled back before: but for the keywords of a      *)
(* flush of V1, which may be cut short between two keys and migrated then. *)
SearchAgrees == trie.ver # 0 => outputs \ torn = trie.words \ torn

(* "Only one migration can run at a time", says the comment on             *)
(* ErrMigrationInProg.                                                     *)
OneMigration ==
  \A p, q \in Proc : pc[p] \in Migrating /\ pc[q] \in Migrating => p = q

(* A batch that returned accounts for every keyword it was given once, and *)
(* what it reports as changed is what it changed in Redis, unless an       *)
(* answer was lost.                                                        *)
BatchAccounted ==
  \A p \in Proc :
    LET r == result[p]  s == req[p].raw  w == wrote[p] IN
    (/\ ~Busy(p) /\ req[p] # NoRequest /\ req[p].op \in {"add", "remove"} /\ r.status = "ok") =>
      /\ r.changed \cup r.skipped \cup r.failed = DOMAIN s
      /\ r.changed \cap r.skipped = {} /\ r.changed \cap r.failed = {} /\ r.skipped \cap r.failed = {}
      /\ w.lost \/ {Norm[s[i]] : i \in r.changed} =
           IF req[p].op = "add" THEN w.new \ w.old ELSE w.old \ w.new

(* "When any instance modifies the collection, all instances receive an    *)
(* invalidation message and reload on next Find()": a valid cache that is  *)
(* not what is stored has an invalidation to handle or a writer about to   *)
(* send one, unless an answer or a message was lost.                       *)
CacheTold ==
  \A n \in Node :
    valid[n] /\ engine[n] # outputs =>
      untold \/ inbox[n] # {} \/ \E p \in Proc : pc[p] = "publishing"
-----------------------------------------------------------------------------
(* The invariant, part by part. The phases of the calls: *)
CreatePhase   == {"checking", "initing", "rooting", "opening"}
FindPhase     == {"v1find", "fetching", "hit", "locking", "loading", "loaded"}
WritePhase    == {"refused", "empty", "reading", "planned"}
V1FlushPhase  == {"v1flush", "v1outs", "v1words"}
RollbackPhase == {"rollcheck", "rolling"}
Phase == {"idle", "closing", "flushing", "publishing", "acquiring", "releasing"}
         \cup CreatePhase \cup FindPhase \cup WritePhase \cup V1FlushPhase \cup Migrating
         \cup RollbackPhase

Statuses == {"none", "ok", "error", "inProgress", "alreadyV2", "noData", "dryRun", "success"}
Results == [status : Statuses, changed : SUBSET Nat, skipped : SUBSET Nat, failed : SUBSET Nat]
Locals  == [ver : Nat, words : SUBSET Keyword, states : SUBSET (Keyword \cup {Root}),
            outs : SUBSET Keyword, todo : SUBSET (Keyword \cup {Root})]

(* Every variable has values of its kind. *)
TypeOK ==
  /\ v1words \subseteq Keyword /\ v1outs \subseteq Keyword /\ v1states \subseteq Keyword \cup {Root}
  /\ trie \in [ver : Nat, words : SUBSET Keyword] /\ outputs \subseteq Keyword /\ stamp \in Nat
  /\ lock \in Proc \cup {Free}
  /\ mode \in [Node -> How \cup {"closed"}]
  /\ pc \in [Proc -> Phase]
  /\ req \in [Proc -> RequestType \cup {NoRequest}]
  /\ result \in [Proc -> Results]
  /\ mine \in [Proc -> Locals]
  /\ wrote \in [Proc -> [lost : BOOLEAN, old : SUBSET Keyword, new : SUBSET Keyword]]
  /\ kept \subseteq Keyword /\ doomed \subseteq Keyword /\ torn \subseteq doomed

(* A call is where its request brings it, on an instance of the right kind. *)
CallOK(p) ==
  LET op == req[p].op
      m == mode[At[p]]
  IN
  /\ req[p] \in Requests[p]
  /\ op = "create" <=> m = "closed"
  /\ pc[p] \in CreatePhase => op = "create"
  /\ pc[p] \in {"checking", "initing"} => req[p].how # "v1"
  /\ pc[p] = "rooting" => req[p].how = "v1"
  /\ pc[p] = "closing" => op = "close"
  /\ pc[p] \in FindPhase => op = "find"
  /\ pc[p] \in WritePhase => op \in {"add", "remove"}
  /\ pc[p] \in {"reading", "planned", "flushing", "publishing"} => m # "v1"
  /\ pc[p] = "publishing" => op \in {"add", "remove", "flush"}
  /\ pc[p] \in V1FlushPhase => op = "flush" /\ m = "v1"
  /\ pc[p] = "flushing" => op = "flush"
  /\ pc[p] \in Migrating \cup {"acquiring", "releasing"} => op = "migrate"
  /\ pc[p] \in RollbackPhase => op = "rollback"

CallInv == \A p \in Proc : Busy(p) => CallOK(p)

(* Which calls run next to each other. *)
AloneInv ==
  /\ \A p, q \in Proc : p # q /\ Busy(p) /\ Busy(q) =>
       /\ ~Alone(req[p], At[p])
       /\ At[p] = At[q] => req[p].op \notin {"create", "close", "migrate"}
  /\ \A p \in Proc : pc[p] \in RollbackPhase =>
       \A n \in Node \ {At[p]} : mode[n] \in {"closed", "v1"}

(* The lock is the migration's until it has released it. *)
LockInv == \A p \in Proc : pc[p] \in Migrating \cup {"releasing"} => lock = p

(* A V2 trie exists when it is written to, and a plan that has its version *)
(* was made from its words.                                                *)
TrieInv ==
  /\ trie.ver <= stamp
  /\ \A p \in Proc :
       /\ pc[p] \in {"reading", "planned", "flushing"} => trie.ver # 0
       /\ pc[p] = "planned" =>
            /\ mine[p].ver <= stamp
            /\ mine[p].ver = trie.ver => mine[p].words = trie.words

(* There is none when a migration or a new instance goes by its absence.   *)
AbsentInv ==
  /\ trie.ver = 0 => outputs = {}
  /\ \A p \in Proc : pc[p] \in {"initing"} \cup (Migrating \ {"mtrie"}) => trie.ver = 0

(* The V1 keys agree, but for a flush that was cut short, and a call that  *)
(* takes keywords away has said so.                                        *)
V1Inv ==
  /\ v1words \ torn = v1outs \ torn
  /\ v1words \ torn \subseteq v1states
  /\ v1states # {} => Root \in v1states
  /\ \A p \in Proc : pc[p] \in V1FlushPhase => v1words \subseteq torn
  /\ \A p \in Proc : Busy(p) =>
       /\ req[p].op = "remove" => Words(req[p].raw) \subseteq doomed
       /\ req[p].op = "flush" => Keyword \subseteq doomed
       /\ req[p].op = "rollback" => Keyword \ v1words \subseteq doomed

(* What a migration has read so far is what V1 holds. *)
MigrationInv ==
  \A p \in Proc : LET m == mine[p] IN
    /\ pc[p] \in Migrating \ {"mtrie", "mprefix"} => v1states # {}
    /\ pc[p] \in {"mstates", "mouts", "mwrite", "mcommit"} => m.words = v1words
    /\ pc[p] = "mstates" => m.outs = {}
    /\ pc[p] \in {"mouts", "mwrite", "mcommit"} =>
         /\ m.states = v1states /\ m.todo \subseteq v1states
         /\ m.outs = (v1states \ m.todo) \cap v1outs
    /\ pc[p] \in {"mwrite", "mcommit"} => m.todo = {}

(* What a batch wrote, while it runs. *)
WroteInv ==
  \A p \in Proc : Busy(p) /\ req[p].op \in {"add", "remove"} =>
    /\ result[p].status = "none"
    /\ pc[p] # "publishing" => wrote[p].lost \/ wrote[p] = NoWrite
    /\ pc[p] = "publishing" =>
         \/ wrote[p].lost
         \/ wrote[p].old = mine[p].words /\ wrote[p].new = Plan(req[p], mine[p].words)

(* Everything the properties rest on, as long as operators keep to the     *)
(* order OrderlyStart asks for and no migration outlives its lock: crashes,*)
(* lost answers, conflicts and calls that overlap disturb none of it.      *)
CollectionInv ==
  /\ TypeOK /\ CallInv /\ AloneInv /\ LockInv /\ TrieInv /\ AbsentInv /\ V1Inv /\ MigrationInv
  /\ WroteInv /\ KeywordsKept /\ SearchAgrees /\ BatchAccounted
=============================================================================
