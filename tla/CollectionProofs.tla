-------------------------- MODULE CollectionProofs --------------------------
(***************************************************************************)
(* Proofs about Collection, for any goroutines, instances, keywords,       *)
(* requests and bounds. Each part of CollectionInv has a lemma that says   *)
(* which of the other parts keep it; most steps are quiet, and are dealt   *)
(* with together through Moves, the graph of the phases of a call.         *)
(***************************************************************************)
EXTENDS Collection, TLAPS

USE DEF v1Vars, v2Vars, lockVars, nodeVars, callVars, wordVars

(* Where the call of a request begins. *)
LEMMA FirstPhase ==
  ASSUME NEW p \in Proc, NEW r \in RequestType
  PROVE  /\ First(p, r) \in Phase \ ({"idle", "publishing", "releasing", "initing", "opening", "planned"} \cup Migrating)
         /\ r.op = "create" => First(p, r) = (IF r.how = "v1" THEN "rooting" ELSE "checking")
         /\ r.op = "close" => First(p, r) = "closing"
         /\ r.op = "find" => First(p, r) \in FindPhase
         /\ r.op \in {"add", "remove"} =>
              First(p, r) \in {"refused", "empty"} \/ (First(p, r) = "reading" /\ mode[At[p]] # "v1")
         /\ r.op = "flush" => First(p, r) = (IF mode[At[p]] = "v1" THEN "v1flush" ELSE "flushing")
         /\ r.op = "migrate" => First(p, r) = "acquiring"
         /\ r.op = "rollback" => First(p, r) = "rollcheck"
<1> DEFINE n == At[p]
           write == IF (mode[n] = "v1" /\ r.raw # <<>>) \/ (r.how = "whole" /\ Blanks(r.raw) # {}) THEN "refused"
               ELSE IF Candidates(r.raw) = {} THEN "empty" ELSE "reading"
<1>1. write \in {"refused", "empty"} \/ (write = "reading" /\ mode[At[p]] # "v1")
  BY DEF Candidates
<1>2. r.op \in {"create", "close", "find", "add", "remove", "flush", "migrate", "rollback"}
  BY DEF RequestType
<1>3. /\ r.op = "create" => First(p, r) = (IF r.how = "v1" THEN "rooting" ELSE "checking")
      /\ r.op = "close" => First(p, r) = "closing"
      /\ r.op = "find" => First(p, r) = (IF mode[n] = "v1" THEN "v1find"
                   ELSE IF mode[n] = "v2" THEN "fetching"
                   ELSE IF valid[n] THEN "hit" ELSE "locking")
      /\ r.op \in {"add", "remove"} => First(p, r) = write
      /\ r.op = "flush" => First(p, r) = (IF mode[At[p]] = "v1" THEN "v1flush" ELSE "flushing")
      /\ r.op = "migrate" => First(p, r) = "acquiring"
      /\ r.op = "rollback" => First(p, r) = "rollcheck"
  BY DEF First
<1> HIDE DEF write
<1> QED BY <1>1, <1>2, <1>3 DEF Phase, CreatePhase, FindPhase, WritePhase, V1FlushPhase, RollbackPhase, Migrating

(* The words of a request are keywords. *)
LEMMA WordsType ==
  ASSUME NEW r \in RequestType
  PROVE  Words(r.raw) \subseteq Keyword
<1>1. r.raw \in Seq(Raw)
  BY DEF RequestType
<1>2. \A i \in Candidates(r.raw) : r.raw[i] \in Raw /\ Norm[r.raw[i]] # Blank
  BY <1>1 DEF Candidates, Blanks
<1> QED BY <1>2, CollectionAssumption DEF Words

(* So is what it takes away. *)
LEMMA TakesType ==
  ASSUME NEW r \in RequestType
  PROVE  Takes(r) \subseteq Keyword
BY WordsType DEF Takes

(* The locals of a call at its start. *)
LEMMA LocalsStart ==
  /\ NoLocals \in Locals
  /\ NoLocals.words = {} /\ NoLocals.states = {} /\ NoLocals.outs = {} /\ NoLocals.todo = {}
BY DEF NoLocals, Locals

(* Start, spelled out. *)
LEMMA StartFrame ==
  ASSUME NEW p \in Proc, TypeOK, Start(p)
  PROVE  \E r \in Requests[p] :
           /\ r \in RequestType /\ ~Busy(p) /\ MayStart(p, r)
           /\ req' = [req EXCEPT ![p] = r]
           /\ pc' = [pc EXCEPT ![p] = First(p, r)]
           /\ result' = [result EXCEPT ![p] = NoResult]
           /\ wrote' = [wrote EXCEPT ![p] = NoWrite]
           /\ doomed' = doomed \cup Takes(r) /\ Takes(r) \subseteq Keyword
           /\ torn' = torn \cup Tears(r, At[p]) /\ Tears(r, At[p]) \subseteq Takes(r)
           /\ UNCHANGED <<v1Vars, v2Vars, lockVars, nodeVars, tries, mine, kept>>
<1>1. \A r \in Requests[p] : r \in RequestType
  BY CollectionAssumption
<1>2. \A r \in Requests[p] : Tears(r, At[p]) \subseteq Takes(r)
  BY DEF Tears, Takes, TypeOK
<1> QED BY <1>1, <1>2, TakesType DEF Start, Goes

-----------------------------------------------------------------------------
(* Quiet steps change neither the collection nor the kind of an instance:  *)
(* a call of p reads, takes or releases the lock, publishes, or returns.   *)
Quiet(p) ==
  \/ InitCheck(p) \/ Fails(p) \/ FindReads(p) \/ LoadLock(p) \/ LoadFetch(p) \/ LoadSet(p)
  \/ WriteRefused(p) \/ WriteEmpty(p) \/ WriteReads(p) \/ Conflict(p) \/ Publish(p)
  \/ V1FlushReads(p) \/ MigrateLock(p) \/ MigrateRefused(p) \/ MigrateChecks(p)
  \/ MigrateCollects(p) \/ MigrateWrites(p) \/ MigrateFails(p) \/ MigrateRelease(p)
  \/ RollbackChecks(p)

(* Local steps change the collection perhaps, but of the calls only that   *)
(* of p.                                                                   *)
Local(p) ==
  \/ Quiet(p) \/ InitWrite(p) \/ InitV1(p) \/ Commit(p) \/ CommitUnanswered(p) \/ Flush(p)
  \/ V1FlushWord(p) \/ V1FlushPrefixes(p) \/ V1FlushWords(p) \/ MigrateUnanswered(p)
  \/ RollbackUnanswered(p)

(* Where such a step takes a call, and what it has then seen. *)
Moves(a, b) ==
  \/ b = "idle"
  \/ a \in {"initing", "rooting"} /\ b = "opening"
  \/ a = "planned" /\ b \in {"planned", "publishing"}
  \/ a = "flushing" /\ b = "publishing"
  \/ a = "v1outs" /\ b \in {"v1outs", "v1words"}
  \/ a = "checking" /\ b = "initing" /\ trie.ver = 0
  \/ a = "checking" /\ b = "opening" /\ trie.ver # 0
  \/ a = "locking" /\ b = "loading"
  \/ a = "loading" /\ b = "loaded"
  \/ a = "reading" /\ b = "planned"
  \/ a = "planned" /\ b = "reading"
  \/ a = "v1flush" /\ b = "v1outs"
  \/ a = "acquiring" /\ b = "mtrie"
  \/ a = "mtrie" /\ b = "mprefix" /\ trie.ver = 0
  \/ a = "mprefix" /\ b = "mwords" /\ v1states # {}
  \/ a = "mwords" /\ b = "mstates"
  \/ a = "mstates" /\ b = "mouts"
  \/ a = "mouts" /\ b \in {"mouts", "mwrite"}
  \/ a = "mwrite" /\ b = "mcommit"
  \/ a \in Migrating /\ b = "releasing"
  \/ a = "rollcheck" /\ b = "rolling"

(* Nothing the properties are about changes in a quiet step. *)
LEMMA QuietFrame ==
  ASSUME NEW p \in Proc, Quiet(p)
  PROVE  UNCHANGED <<v1Vars, v2Vars, mode, req, wrote, kept, doomed, torn>>
BY Zenon DEF Quiet, InitCheck, Fails, FindReads, LoadLock, LoadFetch, LoadSet, WriteRefused,
   WriteEmpty, WriteReads, Conflict, Publish, V1FlushReads, MigrateLock, MigrateRefused,
   MigrateChecks, MigrateCollects, MigrateWrites, MigrateFails, MigrateRelease, RollbackChecks

(* The call moves along. *)
LEMMA QuietMoves ==
  ASSUME NEW p \in Proc, TypeOK, Quiet(p)
  PROVE  pc[p] # "idle" /\ \E to \in Phase : pc' = [pc EXCEPT ![p] = to] /\ Moves(pc[p], to)
<1> DEFINE Goal == pc[p] # "idle" /\ \E to \in Phase : Goes(p, to) /\ Moves(pc[p], to)
<1> USE DEF Moves, Phase, CreatePhase, FindPhase, WritePhase, V1FlushPhase, RollbackPhase, Migrating
<1>1. (InitCheck(p) \/ Fails(p) \/ FindReads(p) \/ LoadLock(p) \/ LoadFetch(p) \/ LoadSet(p)) => Goal
  BY DEF InitCheck, Fails, FindReads, LoadLock, LoadFetch, LoadSet, Returns
<1>2. (WriteRefused(p) \/ WriteEmpty(p) \/ WriteReads(p) \/ Conflict(p) \/ Publish(p)) => Goal
  BY DEF WriteRefused, WriteEmpty, WriteReads, Conflict, Publish, Returns
<1>3. (V1FlushReads(p) \/ MigrateLock(p) \/ MigrateRefused(p) \/ MigrateWrites(p)) => Goal
  BY DEF V1FlushReads, MigrateLock, MigrateRefused, MigrateWrites, Returns
<1>4. (MigrateChecks(p) \/ MigrateFails(p) \/ MigrateRelease(p) \/ RollbackChecks(p)) => Goal
  BY DEF MigrateChecks, MigrateFails, MigrateRelease, RollbackChecks, Returns, Ends
<1>5. MigrateCollects(p) => Goal
  <2>1. pc[p] = "mouts" => pc = [pc EXCEPT ![p] = "mouts"]
    BY DEF TypeOK
  <2> QED BY <2>1, Zenon DEF MigrateCollects, Goes, Ends
<1> QED BY <1>1, <1>2, <1>3, <1>4, <1>5 DEF Quiet, Goes

(* A call that has the first trie to write opens nothing before. *)
LEMMA QuietCreate ==
  ASSUME NEW p \in Proc, TypeOK, Quiet(p), pc[p] \in {"initing", "rooting"}
  PROVE  pc'[p] = "idle"
<1>1. Fails(p)
  BY DEF Quiet, InitCheck, FindReads, LoadLock, LoadFetch, LoadSet, WriteRefused, WriteEmpty,
     WriteReads, Conflict, Publish, V1FlushReads, MigrateLock, MigrateRefused, MigrateChecks,
     MigrateCollects, MigrateWrites, MigrateFails, MigrateRelease, RollbackChecks, Migrating
<1> QED BY <1>1 DEF Fails, Returns, Goes, TypeOK

(* So it does in a step that changes the collection. *)
LEMMA LocalMoves ==
  ASSUME NEW p \in Proc, TypeOK, Local(p)
  PROVE  /\ UNCHANGED <<mode, req>> /\ pc[p] # "idle"
         /\ \E to \in Phase : pc' = [pc EXCEPT ![p] = to] /\ Moves(pc[p], to)
<1> DEFINE Goal == /\ UNCHANGED <<mode, req>> /\ pc[p] # "idle"
                   /\ \E to \in Phase : Goes(p, to) /\ Moves(pc[p], to)
<1> USE DEF Moves, Phase, CreatePhase, FindPhase, WritePhase, V1FlushPhase, RollbackPhase, Migrating
<1>1. Quiet(p) => Goal
  BY QuietFrame, QuietMoves DEF Goes
<1>2. (InitWrite(p) \/ InitV1(p) \/ Commit(p) \/ Flush(p)) => Goal
  BY DEF InitWrite, InitV1, Commit, ScriptWrites, Flush
<1>3. (V1FlushPrefixes(p) \/ V1FlushWords(p) \/ MigrateUnanswered(p) \/ RollbackUnanswered(p)) => Goal
  BY DEF V1FlushPrefixes, V1FlushWords, MigrateUnanswered, RollbackUnanswered, Returns, Ends
<1>4. (V1FlushWord(p) \/ CommitUnanswered(p)) => Goal
  <2>1. pc = [pc EXCEPT ![p] = pc[p]]
    BY DEF TypeOK
  <2> QED BY <2>1, Zenon DEF V1FlushWord, CommitUnanswered, ScriptWrites, Returns, Goes
<1> QED BY <1>1, <1>2, <1>3, <1>4 DEF Local, Goes

(* It touches no locals but its own. *)
LEMMA QuietLocals ==
  ASSUME NEW p \in Proc, TypeOK, Quiet(p)
  PROVE  \A q \in Proc \ {p} : mine'[q] = mine[q] /\ result'[q] = result[q]
<1>1. /\ \E m : mine' = mine \/ mine' = [mine EXCEPT ![p] = m]
      /\ \E r : result' = result \/ result' = [result EXCEPT ![p] = r]
  BY Zenon DEF Quiet, InitCheck, Fails, FindReads, LoadLock, LoadFetch, LoadSet, WriteRefused,
     WriteEmpty, WriteReads, Conflict, Publish, V1FlushReads, MigrateLock, MigrateRefused,
     MigrateChecks, MigrateCollects, MigrateWrites, MigrateFails, MigrateRelease, RollbackChecks,
     Returns, Ends
<1> QED BY <1>1 DEF TypeOK

(* readTrieSnapshot: a plan starts from the trie as it is. *)
LEMMA PlannedRead ==
  ASSUME NEW p \in Proc, TypeOK, Quiet(p), pc'[p] = "planned"
  PROVE  mine'[p].ver = trie.ver /\ mine'[p].words = trie.words
<1>1. WriteReads(p)
  BY QuietMoves DEF Quiet, InitCheck, Fails, FindReads, LoadLock, LoadFetch, LoadSet, WriteRefused,
     WriteEmpty, Conflict, Publish, V1FlushReads, MigrateLock, MigrateRefused,
     MigrateChecks, MigrateCollects, MigrateWrites, MigrateFails, MigrateRelease, RollbackChecks,
     Returns, Ends, Goes, TypeOK, Moves
<1>2. mine' = [mine EXCEPT ![p] = [NoLocals EXCEPT !.ver = trie.ver, !.words = trie.words]]
  BY <1>1 DEF WriteReads, Returns, Goes, TypeOK
<1>3. /\ [NoLocals EXCEPT !.ver = trie.ver, !.words = trie.words].ver = trie.ver
      /\ [NoLocals EXCEPT !.ver = trie.ver, !.words = trie.words].words = trie.words
  BY LocalsStart DEF Locals
<1> QED BY <1>2, <1>3 DEF TypeOK

(* A call that must be alone is. *)
LEMMA Solo ==
  ASSUME CallInv, AloneInv, NEW p \in Proc,
         pc[p] \in RollbackPhase \cup V1FlushPhase \/ (pc[p] = "initing" /\ trie.ver = 0)
  PROVE  \A q \in Proc \ {p} : pc[q] = "idle"
<1>1. Busy(p) /\ Alone(req[p], At[p])
  BY DEF CallInv, CallOK, Busy, Alone, CreatePhase, RollbackPhase, V1FlushPhase
<1> QED BY <1>1 DEF AloneInv, Busy

(* So is one that needs its instance, among the calls on that. *)
LEMMA SoloNode ==
  ASSUME CallInv, AloneInv, NEW p \in Proc,
         pc[p] \in Migrating \cup CreatePhase \cup {"acquiring", "releasing", "closing"}
  PROVE  \A q \in Proc \ {p} : At[q] = At[p] => pc[q] = "idle"
<1>1. Busy(p) /\ req[p].op \in {"create", "close", "migrate"}
  BY DEF CallInv, CallOK, Busy, Migrating, CreatePhase
<1> QED BY <1>1 DEF AloneInv, Busy

(* The steps there are. *)
LEMMA NextCases ==
  ASSUME [Next]_vars
  PROVE  \/ \E p \in Proc :
               \/ Start(p) \/ Quiet(p) \/ InitWrite(p) \/ InitV1(p) \/ Open(p) \/ Close(p)
               \/ Commit(p) \/ CommitUnanswered(p) \/ Flush(p) \/ V1FlushWord(p)
               \/ V1FlushPrefixes(p) \/ V1FlushWords(p) \/ MigrateCommits(p)
               \/ MigrateUnanswered(p) \/ RollbackDeletes(p) \/ RollbackUnanswered(p)
         \/ \E n \in Node : Crash(n)
         \/ UNCHANGED <<v1Vars, v2Vars, mode, pc, req, mine, result, wrote, kept, doomed, torn>>
BY Zenon DEF Next, Step, Quiet, Listen, LockExpires, vars

-----------------------------------------------------------------------------
(* A step takes a call only to a phase of its request. *)
LEMMA CallStep ==
  ASSUME TypeOK, CallInv, AloneInv, [Next]_vars
  PROVE  CallInv'
<1>1. ASSUME NEW p \in Proc, Start(p)
      PROVE  CallInv'
  <2>1. PICK r \in Requests[p] :
           /\ r \in RequestType /\ MayStart(p, r) /\ UNCHANGED mode
           /\ req' = [req EXCEPT ![p] = r] /\ pc' = [pc EXCEPT ![p] = First(p, r)]
    BY <1>1, StartFrame
  <2>2. /\ pc'[p] = First(p, r) /\ req'[p] = r
        /\ \A q \in Proc \ {p} : pc'[q] = pc[q] /\ req'[q] = req[q]
    BY <2>1 DEF TypeOK
  <2>3. r.op \in {"create", "close", "find", "add", "remove", "flush", "migrate", "rollback"}
    BY <2>1 DEF RequestType
  <2>4. CallOK(p)'
    BY <2>1, <2>2, <2>3, FirstPhase, SMTT(30)
    DEF MayStart, CallOK, Phase, CreatePhase, FindPhase, WritePhase, V1FlushPhase, RollbackPhase, Migrating
  <2>5. ASSUME NEW q \in Proc \ {p}, Busy(q)'
        PROVE  CallOK(q)'
    BY <2>1, <2>2, <2>5 DEF CallInv, CallOK, Busy
  <2> QED BY <2>4, <2>5 DEF CallInv
<1>2. ASSUME NEW p \in Proc, Local(p)
      PROVE  CallInv'
  <2>1. UNCHANGED <<mode, req>> /\ pc[p] # "idle"
    BY <1>2, LocalMoves
  <2>2. PICK to \in Phase : pc' = [pc EXCEPT ![p] = to] /\ Moves(pc[p], to)
    BY <1>2, LocalMoves
  <2>3. Busy(p)' => CallOK(p)'
    BY <2>1, <2>2 DEF TypeOK, CallInv, CallOK, Busy, Moves, CreatePhase, FindPhase,
       WritePhase, V1FlushPhase, RollbackPhase, Migrating
  <2>4. ASSUME NEW q \in Proc \ {p}, Busy(q)'
        PROVE  CallOK(q)'
    BY <2>1, <2>2, <2>4 DEF TypeOK, CallInv, CallOK, Busy
  <2> QED BY <2>3, <2>4 DEF CallInv
<1>3. ASSUME NEW p \in Proc, Open(p) \/ Close(p) \/ MigrateCommits(p) \/ RollbackDeletes(p)
      PROVE  CallInv'
  <2>1. /\ UNCHANGED req /\ \E m : mode' = [mode EXCEPT ![At[p]] = m]
        /\ pc[p] # "idle" /\ \E to \in {"idle", "releasing"} : pc' = [pc EXCEPT ![p] = to]
    BY <1>3, Zenon DEF Open, Close, MigrateCommits, RollbackDeletes, Gone, Returns, Ends, Goes
  <2>2. \A q \in Proc \ {p} : At[q] = At[p] => pc[q] = "idle"
    BY <1>3, Solo, SoloNode DEF Open, Close, MigrateCommits, RollbackDeletes, CreatePhase, RollbackPhase, Migrating
  <2>3. Busy(p)' => CallOK(p)'
    <3>1. CASE Open(p) \/ Close(p) \/ RollbackDeletes(p)
      BY <3>1 DEF Open, Close, RollbackDeletes, Returns, Goes, Busy, TypeOK
    <3>2. CASE MigrateCommits(p)
      <4>1. /\ pc'[p] = "releasing" /\ req'[p] = req[p] /\ mode'[At[p]] \in {mode[At[p]], "v2"}
        BY <2>1, <3>2, CollectionAssumption DEF MigrateCommits, Ends, Goes, TypeOK
      <4>2. CallOK(p) /\ pc[p] = "mcommit"
        BY <3>2 DEF MigrateCommits, CallInv, Busy
      <4> QED BY <4>1, <4>2 DEF CallOK, CreatePhase, FindPhase, WritePhase, V1FlushPhase,
                  RollbackPhase, Migrating
    <3> QED BY <1>3, <3>1, <3>2
  <2>4. ASSUME NEW q \in Proc \ {p}, Busy(q)'
        PROVE  CallOK(q)'
    <3>1. pc'[q] = pc[q] /\ req'[q] = req[q] /\ mode'[At[q]] = mode[At[q]]
      BY <2>1, <2>2, <2>4, CollectionAssumption DEF Busy, TypeOK
    <3> QED BY <2>4, <3>1 DEF CallInv, CallOK, Busy
  <2> QED BY <2>3, <2>4 DEF CallInv
<1>4. ASSUME NEW n \in Node, Crash(n)
      PROVE  CallInv'
  BY <1>4, CollectionAssumption DEF Crash, Gone, CallInv, CallOK, Busy, TypeOK
<1>5. CASE UNCHANGED <<v1Vars, v2Vars, mode, pc, req, mine, result, wrote, kept, doomed, torn>>
  BY <1>5 DEF CallInv, CallOK, Busy
<1> QED BY <1>1, <1>2, <1>3, <1>4, <1>5, NextCases DEF Local

(* Of these, only a rollback deletes the trie. *)
LEMMA TrieStays ==
  ASSUME NEW p \in Proc, TypeOK, Local(p), ~RollbackUnanswered(p)
  PROVE  trie'.ver = 0 => trie.ver = 0
<1>1. CASE Quiet(p)
  BY <1>1, QuietFrame
<1>2. CASE ~Quiet(p)
  <2>1. trie' = trie \/ \E s : trie' = [ver |-> stamp + 1, words |-> s]
    BY <1>2, Zenon DEF Local, InitWrite, InitV1, Commit, CommitUnanswered, ScriptWrites, Flush,
       V1FlushWord, V1FlushPrefixes, V1FlushWords, MigrateUnanswered, Swap
  <2> QED BY <2>1 DEF TypeOK
<1> QED BY <1>1, <1>2

(* Calls that need the collection, or their instance, to themselves have it. *)
LEMMA AloneStep ==
  ASSUME Orderly, TypeOK, CallInv, AloneInv, [Next]_vars
  PROVE  AloneInv'
<1>1. ASSUME NEW p \in Proc, Start(p)
      PROVE  AloneInv'
  <2>1. PICK r \in Requests[p] :
           /\ r \in RequestType /\ MayStart(p, r) /\ UNCHANGED <<mode, trie>>
           /\ req' = [req EXCEPT ![p] = r] /\ pc' = [pc EXCEPT ![p] = First(p, r)]
    BY <1>1, StartFrame
  <2>2. /\ pc'[p] = First(p, r) /\ req'[p] = r
        /\ \A q \in Proc \ {p} : pc'[q] = pc[q] /\ req'[q] = req[q]
    BY <2>1 DEF TypeOK
  <2>3. First(p, r) \in RollbackPhase => \A n \in Node \ {At[p]} : mode[n] \in {"closed", "v1"}
    <3>1. r.op \in {"create", "close", "find", "add", "remove", "flush", "migrate", "rollback"}
      BY <2>1 DEF RequestType
    <3>2. First(p, r) \in RollbackPhase => r.op = "rollback"
      BY <2>1, <3>1, FirstPhase DEF FindPhase, RollbackPhase
    <3> QED BY <2>1, <3>2 DEF MayStart, OrderlyStart
  <2>4. \A q \in Proc \ {p} : Busy(q) =>
          /\ ~Alone(r, At[p]) /\ ~Alone(req[q], At[q])
          /\ At[q] = At[p] => /\ r.op \notin {"create", "close", "migrate"}
                             /\ req[q].op \notin {"create", "close", "migrate"}
    BY <2>1 DEF MayStart, OrderlyStart
  <2>5. /\ \A q \in Proc \ {p} : Busy(q)' <=> Busy(q)
        /\ \A q \in Proc \ {p} : Alone(req[q], At[q])' <=> Alone(req[q], At[q])
        /\ Alone(req[p], At[p])' <=> Alone(r, At[p])
    BY <2>1, <2>2 DEF Busy, Alone
  <2> QED BY <2>1, <2>2, <2>3, <2>4, <2>5 DEF AloneInv
<1>2. ASSUME NEW p \in Proc, Local(p), ~RollbackUnanswered(p)
      PROVE  AloneInv'
  <2>1. UNCHANGED <<mode, req>> /\ pc[p] # "idle"
    BY <1>2, LocalMoves
  <2>2. PICK to \in Phase : pc' = [pc EXCEPT ![p] = to] /\ Moves(pc[p], to)
    BY <1>2, LocalMoves
  <2>3. to \in RollbackPhase => pc[p] \in RollbackPhase
    BY <2>2 DEF Moves, RollbackPhase
  <2>4. \A q \in Proc : Alone(req[q], At[q])' => Alone(req[q], At[q])
    <3>1. trie'.ver = 0 => trie.ver = 0
      BY <1>2, TrieStays
    <3> QED BY <2>1, <3>1 DEF Alone
  <2> QED BY <2>1, <2>2, <2>3, <2>4 DEF AloneInv, Busy, TypeOK
<1>3. ASSUME NEW p \in Proc, RollbackDeletes(p) \/ RollbackUnanswered(p)
      PROVE  AloneInv'
  <2>1. \A q \in Proc \ {p} : pc[q] = "idle"
    BY <1>3, Solo DEF RollbackDeletes, RollbackUnanswered, RollbackPhase
  <2>2. pc' = [pc EXCEPT ![p] = "idle"]
    BY <1>3 DEF RollbackDeletes, RollbackUnanswered, Returns, Goes
  <2>3. \A q \in Proc : pc'[q] = "idle"
    BY <2>1, <2>2 DEF TypeOK
  <2> QED BY <2>3 DEF AloneInv, Busy, RollbackPhase
<1>4. ASSUME NEW p \in Proc, Open(p) \/ Close(p) \/ MigrateCommits(p)
      PROVE  AloneInv'
  <2>1. /\ UNCHANGED req /\ \E m : mode' = [mode EXCEPT ![At[p]] = m]
        /\ pc[p] # "idle" /\ \E to \in {"idle", "releasing"} : pc' = [pc EXCEPT ![p] = to]
    BY <1>4, Zenon DEF Open, Close, MigrateCommits, Gone, Returns, Ends, Goes
  <2>2. \A q \in Proc : Busy(q) => pc[q] \notin RollbackPhase
    BY <1>4, Solo DEF Open, Close, MigrateCommits, Busy, RollbackPhase
  <2>3. trie'.ver = 0 => trie.ver = 0
    BY <1>4 DEF Open, Close, MigrateCommits, Swap, TypeOK
  <2>4. \A q \in Proc \ {p} : At[q] = At[p] => pc[q] = "idle"
    BY <1>4, SoloNode DEF Open, Close, MigrateCommits, CreatePhase, Migrating
  <2>5. ASSUME NEW q \in Proc \ {p}, pc[q] # "idle"
        PROVE  pc'[q] = pc[q] /\ req'[q] = req[q] /\ mode'[At[q]] = mode[At[q]]
    BY <2>1, <2>4, <2>5, CollectionAssumption DEF TypeOK
  <2>6. ASSUME NEW q \in Proc \ {p}, pc[q] # "idle"
        PROVE  ~Alone(req[q], At[q])'
    <3>1. ~Alone(req[q], At[q])
      BY <2>1, <2>6 DEF AloneInv, Busy
    <3> QED BY <2>3, <2>5, <2>6, <3>1 DEF Alone
  <2>7. pc'[p] # "idle" => ~Alone(req[p], At[p])'
    <3>1. pc'[p] # "idle" => MigrateCommits(p)
      BY <1>4 DEF Open, Close, Returns, Goes, TypeOK
    <3>2. MigrateCommits(p) => req'[p].op = "migrate"
      BY <2>1 DEF MigrateCommits, CallInv, CallOK, Busy, Migrating
    <3> QED BY <3>1, <3>2 DEF Alone
  <2>8. \A q \in Proc : pc'[q] \notin RollbackPhase /\ (pc'[q] # "idle" => pc[q] # "idle")
    BY <2>1, <2>2 DEF Busy, TypeOK, RollbackPhase
  <2> QED BY <2>1, <2>6, <2>7, <2>8 DEF AloneInv, Busy
<1>5. ASSUME NEW n \in Node, Crash(n)
      PROVE  AloneInv'
  <2>1. /\ UNCHANGED <<req, trie>> /\ mode' = [mode EXCEPT ![n] = "closed"]
        /\ \A q \in Proc : pc'[q] \in {"idle", pc[q]}
    BY <1>5 DEF Crash, Gone
  <2>2. \A q \in Proc : Alone(req[q], At[q])' => Alone(req[q], At[q])
    BY <2>1, CollectionAssumption DEF Alone, TypeOK
  <2> QED BY <2>1, <2>2 DEF AloneInv, Busy, TypeOK, RollbackPhase
<1>6. CASE UNCHANGED <<v1Vars, v2Vars, mode, pc, req, mine, result, wrote, kept, doomed, torn>>
  BY <1>6 DEF AloneInv, Alone, Busy
<1> QED BY <1>1, <1>2, <1>3, <1>4, <1>5, <1>6, NextCases DEF Local


-----------------------------------------------------------------------------
(* The results calls report. *)
LEMMA StatusType ==
  ASSUME NEW s \in Statuses
  PROVE  Status(s) \in Results /\ Status(s).status = s
<1>1. NoResult \in Results
  BY DEF NoResult, Results, Statuses
<1> QED BY <1>1 DEF Status, Results

(* So are those of batches. *)
LEMMA BatchTypes ==
  ASSUME NEW r \in RequestType, NEW applied
  PROVE  BatchResult(r.raw, applied) \in Results /\ BatchError(r) \in Results
<1>1. DOMAIN r.raw \subseteq Nat
  BY DEF RequestType
<1>2. Blanks(r.raw) \subseteq Nat /\ Repeats(r.raw) \subseteq Nat /\ Candidates(r.raw) \subseteq Nat
  BY <1>1 DEF Blanks, Repeats, Candidates
<1>3. BatchResult(r.raw, applied) \in Results
  BY <1>2 DEF BatchResult, Results, Statuses
<1>4. BatchError(r) \in Results
  <2>1. CASE r.how = "best"
    BY <1>2, <2>1 DEF BatchError, Results, Statuses
  <2>2. CASE r.how # "best"
    BY <2>2, StatusType DEF BatchError, Statuses
  <2> QED BY <2>1, <2>2
<1> QED BY <1>3, <1>4

(* Calls that run were asked for. *)
Called == \A p \in Proc : Busy(p) => req[p] \in RequestType

(* A call in a phase of its request was. *)
LEMMA CallsAsked == CallInv => Called
BY CollectionAssumption DEF CallInv, CallOK, Called

(* What a quiet step leaves in the locals and the result of its call. *)
LEMMA QuietTypes ==
  ASSUME NEW p \in Proc, TypeOK, Called, Quiet(p)
  PROVE  mine' \in [Proc -> Locals] /\ result' \in [Proc -> Results]
<1> DEFINE Goal == mine' \in [Proc -> Locals] /\ result' \in [Proc -> Results]
<1>1. req[p] \in RequestType
  <2>1. Busy(p)
    BY QuietMoves DEF Busy
  <2> QED BY <2>1 DEF Called
<1>2. /\ mine \in [Proc -> Locals] /\ result \in [Proc -> Results]
      /\ NoLocals \in Locals /\ mine[p] \in Locals
  BY LocalsStart DEF TypeOK
<1>3. ASSUME NEW r \in Results, Returns(p, r)
      PROVE  Goal
  BY <1>2, <1>3 DEF Returns
<1>4. Fails(p) \/ WriteRefused(p) => Goal
  BY <1>1, <1>3, BatchTypes DEF Fails, WriteRefused
<1>5. WriteEmpty(p) => Goal
  BY <1>1, <1>3, BatchTypes DEF WriteEmpty
<1>6. Publish(p) => Goal
  <2>1. WriteDone(p) \in Results
    BY <1>1, BatchTypes, StatusType DEF WriteDone, Statuses
  <2> QED BY <1>3, <2>1 DEF Publish
<1>7. FindReads(p) \/ LoadLock(p) \/ LoadSet(p) \/ MigrateRefused(p) \/ RollbackChecks(p) => Goal
  <2>1. Status("ok") \in Results /\ Status("inProgress") \in Results /\ Status("error") \in Results
    BY StatusType DEF Statuses
  <2> QED BY <1>2, <1>3, <2>1 DEF FindReads, LoadLock, LoadSet, MigrateRefused, RollbackChecks
<1>8. InitCheck(p) \/ MigrateWrites(p) => Goal
  BY <1>2 DEF InitCheck, MigrateWrites
<1>9. MigrateLock(p) \/ MigrateRelease(p) => Goal
  <2>1. Status("error") \in Results /\ result[p] \in Results
    BY <1>2, StatusType DEF Statuses
  <2> QED BY <1>2, <1>3, <2>1 DEF MigrateLock, MigrateRelease
<1>10. LoadFetch(p) \/ V1FlushReads(p) => Goal
  <2>1. [NoLocals EXCEPT !.outs = outputs] \in Locals /\ [NoLocals EXCEPT !.todo = v1words] \in Locals
    BY <1>2 DEF TypeOK, Locals
  <2> QED BY <1>2, <2>1 DEF LoadFetch, V1FlushReads
<1>11. WriteReads(p) => Goal
  <2>1. [NoLocals EXCEPT !.ver = trie.ver, !.words = trie.words] \in Locals
    BY <1>2 DEF TypeOK, Locals
  <2> QED BY <1>1, <1>2, <1>3, <2>1, BatchTypes DEF WriteReads
<1>12. Conflict(p) => Goal
  BY <1>1, <1>2, <1>3, BatchTypes DEF Conflict
<1>13. ASSUME NEW s \in Statuses, Ends(p, s)
       PROVE  result' \in [Proc -> Results]
  BY <1>2, <1>13, StatusType DEF Ends
<1>14. MigrateChecks(p) \/ MigrateFails(p) => Goal
  <2>1. "alreadyV2" \in Statuses /\ "noData" \in Statuses /\ "error" \in Statuses
    BY DEF Statuses
  <2> QED BY <1>2, <1>13, <2>1 DEF MigrateChecks, MigrateFails
<1>15. MigrateCollects(p) => Goal
  <2>1. [NoLocals EXCEPT !.words = v1words] \in Locals
    BY <1>2 DEF TypeOK, Locals
  <2>2. [mine[p] EXCEPT !.states = v1states, !.todo = v1states] \in Locals
    BY <1>2 DEF TypeOK, Locals
  <2>3. ASSUME NEW w \in mine[p].todo
        PROVE  [mine[p] EXCEPT !.todo = mine[p].todo \ {w},
                                !.outs = mine[p].outs \cup ({w} \cap v1outs)] \in Locals
    BY <1>2 DEF TypeOK, Locals
  <2>4. "dryRun" \in Statuses
    BY DEF Statuses
  <2>5. CASE pc[p] = "mwords"
    BY <1>2, <2>1, <2>5 DEF MigrateCollects
  <2>6. CASE pc[p] = "mstates"
    BY <1>2, <2>2, <2>6 DEF MigrateCollects
  <2>7. CASE pc[p] = "mouts"
    <3>1. CASE mine' = mine /\ (Ends(p, "dryRun") \/ UNCHANGED result)
      BY <1>2, <1>13, <2>4, <3>1
    <3>2. CASE UNCHANGED result /\ \E w \in mine[p].todo : mine' = [mine EXCEPT ![p] =
                [mine[p] EXCEPT !.todo = mine[p].todo \ {w}, !.outs = mine[p].outs \cup ({w} \cap v1outs)]]
      BY <1>2, <2>3, <3>2
    <3> QED BY <2>7, <3>1, <3>2, Zenon DEF MigrateCollects
  <2> QED BY <2>5, <2>6, <2>7, Zenon DEF MigrateCollects
<1> QED BY <1>4, <1>5, <1>6, <1>7, <1>8, <1>9, <1>10, <1>11, <1>12, <1>14, <1>15 DEF Quiet

(* Of the local steps, MigrateLock and MigrateRelease change the lock. *)
LEMMA LockFrame ==
  ASSUME NEW p \in Proc, Local(p)
  PROVE  UNCHANGED lock \/ MigrateLock(p) \/ MigrateRelease(p)
BY Zenon DEF Local, Quiet, InitCheck, InitWrite, InitV1, Fails, FindReads,
   LoadLock, LoadFetch, LoadSet, WriteRefused, WriteEmpty, WriteReads, Commit, CommitUnanswered,
   Conflict, Flush, Publish, V1FlushReads, V1FlushWord, V1FlushPrefixes, V1FlushWords,
   MigrateRefused, MigrateChecks, MigrateCollects, MigrateWrites, MigrateUnanswered,
   MigrateFails, RollbackChecks, RollbackUnanswered

(* Every step keeps the types. *)
LEMMA TypeStep ==
  ASSUME TypeOK, Called, [Next]_vars
  PROVE  TypeOK'
<1>1. lock' \in Proc \cup {Free}
  <2>1. ASSUME NEW p \in Proc, Local(p)
        PROVE  lock' \in Proc \cup {Free}
    BY <2>1, LockFrame DEF MigrateLock, MigrateRelease, TypeOK
  <2>2. ASSUME NEW p \in Proc, Start(p) \/ Open(p) \/ Close(p) \/ MigrateCommits(p) \/ RollbackDeletes(p)
        PROVE  UNCHANGED lock
    BY <2>2, Zenon DEF Start, Open, Close, MigrateCommits, RollbackDeletes
  <2>3. ASSUME NEW n \in Node, Listen(n) \/ Crash(n)
        PROVE  UNCHANGED lock
    BY <2>3, Zenon DEF Listen, Crash
  <2>4. LockExpires \/ UNCHANGED vars => lock' \in {Free, lock}
    BY DEF LockExpires, vars
  <2> QED BY <2>1, <2>2, <2>3, <2>4 DEF Next, Step, Local, Quiet, TypeOK
<1> DEFINE Others ==
      /\ v1words \subseteq Keyword /\ v1outs \subseteq Keyword /\ v1states \subseteq Keyword \cup {Root}
      /\ trie \in [ver : Nat, words : SUBSET Keyword] /\ outputs \subseteq Keyword /\ stamp \in Nat
      /\ wrote \in [Proc -> [lost : BOOLEAN, old : SUBSET Keyword, new : SUBSET Keyword]]
      /\ kept \subseteq Keyword /\ doomed \subseteq Keyword /\ torn \subseteq doomed
    Calls ==
      /\ mode \in [Node -> How \cup {"closed"}]
      /\ pc \in [Proc -> Phase] /\ req \in [Proc -> RequestType \cup {NoRequest}]
      /\ result \in [Proc -> Results] /\ mine \in [Proc -> Locals]
<1>2. Others /\ Calls
  BY DEF TypeOK
<1>3. ASSUME Others', Calls'
      PROVE  TypeOK'
  BY <1>1, <1>3 DEF TypeOK
<1>4. \A p \in Proc : Busy(p) => req[p] \in RequestType
  BY DEF Called
<1>5. ASSUME NEW p \in Proc, Start(p)
      PROVE  Others' /\ Calls'
  <2>1. PICK r \in Requests[p] :
           /\ r \in RequestType
           /\ req' = [req EXCEPT ![p] = r]
           /\ pc' = [pc EXCEPT ![p] = First(p, r)]
           /\ result' = [result EXCEPT ![p] = NoResult]
           /\ wrote' = [wrote EXCEPT ![p] = NoWrite]
           /\ doomed' = doomed \cup Takes(r) /\ Takes(r) \subseteq Keyword
           /\ torn' = torn \cup Tears(r, At[p]) /\ Tears(r, At[p]) \subseteq Takes(r)
           /\ UNCHANGED <<v1Vars, v2Vars, lockVars, nodeVars, mine, kept>>
    BY <1>5, StartFrame
  <2>2. First(p, r) \in Phase /\ NoResult \in Results
        /\ NoWrite \in [lost : BOOLEAN, old : SUBSET Keyword, new : SUBSET Keyword]
    BY <2>1, FirstPhase DEF NoResult, Results, NoWrite, Statuses
  <2> QED BY <1>2, <2>1, <2>2
<1>6. ASSUME NEW p \in Proc, Quiet(p)
      PROVE  Others' /\ Calls'
  <2>1. /\ UNCHANGED <<v1Vars, v2Vars, mode, req, wrote, kept, doomed, torn>>
        /\ mine' \in [Proc -> Locals] /\ result' \in [Proc -> Results]
        /\ \E to \in Phase : pc' = [pc EXCEPT ![p] = to]
    BY <1>6, QuietFrame, QuietTypes, QuietMoves
  <2> QED BY <1>2, <2>1
<1>7. ASSUME NEW p \in Proc, Local(p)
      PROVE  UNCHANGED <<mode, req>> /\ pc' \in [Proc -> Phase]
  <2>1. UNCHANGED <<mode, req>> /\ \E to \in Phase : pc' = [pc EXCEPT ![p] = to]
    BY <1>7, LocalMoves
  <2> QED BY <1>2, <2>1
<1>8. Status("ok") \in Results /\ Status("error") \in Results /\ Status("success") \in Results
      /\ NoLocals \in Locals /\ result \in [Proc -> Results] /\ mine \in [Proc -> Locals]
      /\ \A p \in Proc : mine[p] \in Locals
  BY <1>2, StatusType, LocalsStart DEF Statuses
<1>16. ASSUME NEW p \in Proc, NEW r \in Results, Returns(p, r)
      PROVE  result' \in [Proc -> Results] /\ mine' \in [Proc -> Locals]
  BY <1>8, <1>16 DEF Returns
<1>9. ASSUME NEW p \in Proc, InitWrite(p) \/ InitV1(p) \/ Flush(p) \/ V1FlushPrefixes(p) \/ V1FlushWords(p)
      PROVE  Others' /\ Calls'
  <2>1. UNCHANGED <<mode, req>> /\ pc' \in [Proc -> Phase]
    BY <1>7, <1>9 DEF Local
  <2>2. Others'
    BY <1>2, <1>9 DEF InitWrite, InitV1, Flush, V1FlushPrefixes, V1FlushWords
  <2>3. result' \in [Proc -> Results] /\ mine' \in [Proc -> Locals]
    BY <1>8, <1>9, <1>16 DEF InitWrite, InitV1, Flush, V1FlushPrefixes, V1FlushWords
  <2> QED BY <1>2, <2>1, <2>2, <2>3
<1>10. ASSUME NEW p \in Proc, V1FlushWord(p)
       PROVE  Others' /\ Calls'
  <2>1. PICK w \in mine[p].todo :
          /\ v1outs' = v1outs \ {w}
          /\ mine' = [mine EXCEPT ![p] = [mine[p] EXCEPT !.todo = mine[p].todo \ {w}]]
    BY <1>10, Zenon DEF V1FlushWord
  <2>2. [mine[p] EXCEPT !.todo = mine[p].todo \ {w}] \in Locals
    BY <1>8 DEF Locals
  <2>3. UNCHANGED <<v1words, v1states, v2Vars, lockVars, nodeVars, pc, req, tries, result, wrote, wordVars>>
    BY <1>10, Zenon DEF V1FlushWord
  <2> QED BY <1>2, <2>1, <2>2, <2>3
<1>11. ASSUME NEW p \in Proc, Commit(p) \/ CommitUnanswered(p)
       PROVE  Others' /\ Calls'
  <2>1. UNCHANGED <<mode, req>> /\ pc' \in [Proc -> Phase]
    BY <1>7, <1>11 DEF Local
  <2>2. Busy(p) /\ req[p] \in RequestType
    BY <1>4, <1>11 DEF Commit, CommitUnanswered, ScriptWrites, Busy
  <2>3. Words(req[p].raw) \subseteq Keyword /\ Plan(req[p], mine[p].words) \subseteq Keyword
    BY <1>2, <2>2, WordsType DEF Plan, Locals
  <2>4. trie' \in [ver : Nat, words : SUBSET Keyword] /\ stamp' \in Nat /\ outputs' \subseteq Keyword
        /\ kept' \subseteq Keyword
    BY <1>2, <1>11, <2>3 DEF Commit, CommitUnanswered, ScriptWrites
  <2>5. UNCHANGED <<v1Vars, doomed, torn>>
    BY <1>11 DEF Commit, CommitUnanswered
  <2>6. wrote' \in [Proc -> [lost : BOOLEAN, old : SUBSET Keyword, new : SUBSET Keyword]]
    <3>1. /\ wrote[p].lost \in BOOLEAN /\ trie.words \subseteq Keyword /\ trie'.words \subseteq Keyword
          /\ wrote \in [Proc -> [lost : BOOLEAN, old : SUBSET Keyword, new : SUBSET Keyword]]
      BY <1>2, <2>4
    <3>2. \E b \in BOOLEAN : wrote' = [wrote EXCEPT ![p] = [lost |-> b, old |-> trie.words, new |-> trie'.words]]
      BY <1>11, <3>1, Zenon DEF Commit, CommitUnanswered
    <3> QED BY <3>1, <3>2
  <2>7. result' \in [Proc -> Results] /\ mine' \in [Proc -> Locals]
    BY <1>8, <1>11, <1>16, <2>2, BatchTypes DEF Commit, CommitUnanswered
  <2> QED BY <1>2, <2>1, <2>4, <2>5, <2>6, <2>7
<1>12. ASSUME NEW p \in Proc, MigrateCommits(p) \/ MigrateUnanswered(p)
       PROVE  Others' /\ Calls'
  <2>1. Others'
    <3>1. mine[p].words \subseteq Keyword /\ mine[p].outs \subseteq Keyword
      BY <1>2 DEF Locals
    <3>2. Swap(p) /\ UNCHANGED <<wrote, kept, doomed, torn>>
      BY <1>12 DEF MigrateCommits, MigrateUnanswered
    <3> QED BY <1>2, <3>1, <3>2 DEF Swap
  <2>2. UNCHANGED <<req, mine>> /\ pc' \in [Proc -> Phase] /\ result' \in [Proc -> Results]
    <3>1. UNCHANGED <<req, mine>> /\ (Ends(p, "success") \/ Ends(p, "error"))
      BY <1>12, Zenon DEF MigrateCommits, MigrateUnanswered
    <3>2. result' \in [Proc -> Results]
      BY <1>8, <3>1 DEF Ends
    <3>3. pc' \in [Proc -> Phase]
      BY <1>2, <3>1 DEF Ends, Goes, Phase
    <3> QED BY <3>1, <3>2, <3>3
  <2>3. mode' \in [Node -> How \cup {"closed"}]
    BY <1>2, <1>12 DEF MigrateCommits, MigrateUnanswered, How
  <2> QED BY <1>2, <2>1, <2>2, <2>3
<1>13. ASSUME NEW p \in Proc, Open(p) \/ Close(p) \/ RollbackDeletes(p) \/ RollbackUnanswered(p)
       PROVE  Others' /\ Calls'
  <2>1. Busy(p) /\ req[p].how \in How
    BY <1>4, <1>13 DEF Open, Close, RollbackDeletes, RollbackUnanswered, Busy, RequestType
  <2>2. Others'
    BY <1>2, <1>13 DEF Open, Close, RollbackDeletes, RollbackUnanswered, Deleted
  <2>3. mode' \in [Node -> How \cup {"closed"}]
    BY <1>2, <1>13, <2>1 DEF Open, Close, RollbackDeletes, RollbackUnanswered, Gone, How
  <2>4. UNCHANGED req /\ pc' \in [Proc -> Phase] /\ result' \in [Proc -> Results] /\ mine' \in [Proc -> Locals]
    <3>1. UNCHANGED req /\ (Returns(p, Status("ok")) \/ Returns(p, Status("error")))
      BY <1>13, Zenon DEF Open, Close, RollbackDeletes, RollbackUnanswered
    <3> QED BY <1>2, <1>8, <1>16, <3>1 DEF Returns, Goes, Phase
  <2> QED BY <1>2, <2>2, <2>3, <2>4
<1>14. ASSUME NEW n \in Node, Crash(n)
       PROVE  Others' /\ Calls'
  BY <1>2, <1>8, <1>14 DEF Crash, Gone, Phase
<1>15. CASE UNCHANGED <<v1Vars, v2Vars, mode, pc, req, mine, result, wrote, kept, doomed, torn>>
  BY <1>2, <1>3, <1>15
<1> QED BY <1>3, <1>5, <1>6, <1>9, <1>10, <1>11, <1>12, <1>13, <1>14, <1>15, NextCases

(* The lock is set by the migration that runs, and by no other: a migration *)
(* that is refused or fails leaves the lock of another alone.               *)
LEMMA LockStep ==
  ASSUME ~Slow, TypeOK, LockInv, [Next]_vars
  PROVE  LockInv'
<1> DEFINE Held == Migrating \cup {"releasing"}
<1>1. ASSUME NEW p \in Proc, Start(p)
      PROVE  LockInv'
  <2>1. \E r \in RequestType : pc' = [pc EXCEPT ![p] = First(p, r)] /\ UNCHANGED lock
    BY <1>1, StartFrame
  <2>2. \A r \in RequestType : First(p, r) \notin Held
    BY FirstPhase
  <2> QED BY <2>1, <2>2 DEF LockInv, TypeOK
<1>2. ASSUME NEW p \in Proc, MigrateLock(p)
      PROVE  LockInv'
  <2>1. \A q \in Proc : pc[q] \notin Held
    BY <1>2, CollectionAssumption DEF MigrateLock, LockInv
  <2>2. lock' = p /\ \E to \in Phase : pc' = [pc EXCEPT ![p] = to]
    BY <1>2 DEF MigrateLock, Returns, Goes, Phase, Migrating
  <2> QED BY <2>1, <2>2 DEF LockInv, TypeOK
<1>3. ASSUME NEW p \in Proc, MigrateRelease(p)
      PROVE  LockInv'
  <2>1. lock = p /\ pc' = [pc EXCEPT ![p] = "idle"]
    BY <1>3 DEF MigrateRelease, Returns, Goes, LockInv
  <2>2. \A q \in Proc : pc'[q] \notin Held
    BY <2>1 DEF LockInv, TypeOK, Migrating
  <2> QED BY <2>2 DEF LockInv
<1>4. ASSUME NEW p \in Proc, Local(p), ~MigrateLock(p), ~MigrateRelease(p)
      PROVE  LockInv'
  <2>1. UNCHANGED lock
    BY <1>4, LockFrame
  <2>2. PICK to \in Phase : pc' = [pc EXCEPT ![p] = to] /\ Moves(pc[p], to)
    BY <1>4, LocalMoves
  <2>3. pc[p] = "acquiring" => to = "idle"
    <3>1. pc[p] = "acquiring" => Fails(p) \/ MigrateRefused(p)
      BY <1>4 DEF Local, Quiet, InitCheck, InitWrite, InitV1, FindReads,
         LoadLock, LoadFetch, LoadSet, WriteRefused, WriteEmpty, WriteReads, Commit, CommitUnanswered,
         ScriptWrites, Conflict, Flush, Publish, V1FlushReads, V1FlushWord, V1FlushPrefixes, V1FlushWords,
         MigrateChecks, MigrateCollects, MigrateWrites, MigrateUnanswered,
         MigrateFails, RollbackChecks, RollbackUnanswered, Migrating
    <3>2. Fails(p) \/ MigrateRefused(p) => pc'[p] = "idle"
      BY DEF Fails, MigrateRefused, Returns, Goes, TypeOK
    <3> QED BY <2>2, <3>1, <3>2 DEF TypeOK
  <2>4. to \in Held => pc[p] \in Held
    BY <2>2, <2>3 DEF Moves, Migrating
  <2> QED BY <2>1, <2>2, <2>4 DEF LockInv, TypeOK
<1>5. ASSUME NEW p \in Proc, Open(p) \/ Close(p) \/ MigrateCommits(p) \/ RollbackDeletes(p)
      PROVE  LockInv'
  BY <1>5 DEF Open, Close, MigrateCommits, RollbackDeletes, Returns, Ends, Goes, LockInv, TypeOK, Migrating
<1>6. ASSUME NEW n \in Node, Crash(n)
      PROVE  LockInv'
  BY <1>6 DEF Crash, LockInv, Migrating
<1>7. CASE LockExpires
  BY <1>7 DEF LockExpires, LockInv
<1>8. ASSUME NEW n \in Node, Listen(n)
      PROVE  LockInv'
  BY <1>8 DEF Listen, LockInv
<1>9. CASE UNCHANGED vars
  BY <1>9 DEF vars, LockInv
<1> QED
  BY <1>1, <1>2, <1>3, <1>4, <1>5, <1>6, <1>7, <1>8, <1>9 DEF Next, Step, Local, Quiet

(* The trie is there for those who write to it, and the version check of   *)
(* v2WriteScript stands for a check of all its words.                      *)
LEMMA TrieStep ==
  ASSUME Orderly, TypeOK, CallInv, AloneInv, TrieInv, [Next]_vars
  PROVE  TrieInv'
<1> DEFINE Writing == {"reading", "planned", "flushing"}
           Planned(q) == /\ mine[q].ver <= stamp
                         /\ mine[q].ver = trie.ver => mine[q].words = trie.words
<1>1. ASSUME NEW p \in Proc, Start(p)
      PROVE  TrieInv'
  <2>1. PICK r \in RequestType :
           /\ MayStart(p, r) /\ req' = [req EXCEPT ![p] = r] /\ pc' = [pc EXCEPT ![p] = First(p, r)]
           /\ UNCHANGED <<v2Vars, mode, mine>>
    BY <1>1, StartFrame
  <2>2. First(p, r) # "planned"
    BY FirstPhase
  <2>3. First(p, r) \in Writing => trie.ver # 0
    <3>1. r.op \in {"create", "close", "find", "add", "remove", "flush", "migrate", "rollback"}
      BY DEF RequestType
    <3>2. First(p, r) \in Writing => r.op \in {"add", "remove", "flush"} /\ mode[At[p]] # "v1"
      BY <3>1, FirstPhase DEF FindPhase
    <3> QED BY <2>1, <3>2 DEF MayStart, OrderlyStart
  <2> QED BY <2>1, <2>2, <2>3 DEF TrieInv, TypeOK
<1>2. ASSUME NEW p \in Proc, Quiet(p)
      PROVE  TrieInv'
  <2>1. UNCHANGED v2Vars
    BY <1>2, QuietFrame
  <2>2. PICK to \in Phase : pc' = [pc EXCEPT ![p] = to] /\ Moves(pc[p], to)
    BY <1>2, QuietMoves
  <2>3. to = "planned" => mine'[p].ver = trie.ver /\ mine'[p].words = trie.words
    BY <1>2, <2>2, PlannedRead DEF TypeOK
  <2>4. \A q \in Proc \ {p} : mine'[q] = mine[q]
    BY <1>2, QuietLocals
  <2>5. to \in Writing => trie.ver # 0
    BY <2>2 DEF Moves, TrieInv
  <2> QED BY <2>1, <2>2, <2>3, <2>4, <2>5 DEF TrieInv, TypeOK
<1>3. ASSUME NEW p \in Proc, trie'.ver = stamp + 1, stamp' = stamp + 1,
             \A q \in Proc : pc'[q] = "planned" => pc[q] = "planned" /\ mine'[q] = mine[q]
      PROVE  TrieInv'
  <2>1. ASSUME NEW q \in Proc, pc'[q] = "planned"
        PROVE  mine'[q].ver <= stamp' /\ mine'[q].ver # trie'.ver
    <3>1. mine[q].ver \in Nat /\ mine[q].ver <= stamp /\ mine'[q] = mine[q] /\ stamp \in Nat
      BY <1>3, <2>1 DEF TrieInv, TypeOK, Locals
    <3> QED BY <1>3, <3>1
  <2>2. trie'.ver <= stamp' /\ trie'.ver # 0
    BY <1>3 DEF TypeOK
  <2> QED BY <2>1, <2>2 DEF TrieInv
<1>4. ASSUME NEW p \in Proc, InitWrite(p) \/ Flush(p)
      PROVE  TrieInv'
  <2>1. /\ trie'.ver = stamp + 1 /\ stamp' = stamp + 1 /\ UNCHANGED mine
        /\ \E to \in {"opening", "publishing"} : pc' = [pc EXCEPT ![p] = to]
    BY <1>4 DEF InitWrite, Flush, Goes
  <2> QED BY <1>3, <2>1 DEF TypeOK
<1>5. ASSUME NEW p \in Proc, Commit(p) \/ CommitUnanswered(p)
      PROVE  TrieInv'
  <2>1. trie'.ver = stamp + 1 /\ stamp' = stamp + 1
    BY <1>5 DEF Commit, CommitUnanswered, ScriptWrites
  <2>2. /\ \E to \in {"idle", "planned", "publishing"} : pc' = [pc EXCEPT ![p] = to]
        /\ \A q \in Proc \ {p} : mine'[q] = mine[q]
        /\ pc'[p] = "planned" => pc[p] = "planned" /\ mine' = mine
    BY <1>5 DEF Commit, CommitUnanswered, ScriptWrites, Returns, Goes, TypeOK
  <2> QED BY <1>3, <2>1, <2>2 DEF TypeOK
<1>6. ASSUME NEW p \in Proc, MigrateCommits(p) \/ MigrateUnanswered(p)
      PROVE  TrieInv'
  <2>1. /\ trie'.ver = stamp + 1 /\ stamp' = stamp + 1 /\ UNCHANGED mine
        /\ pc' = [pc EXCEPT ![p] = "releasing"]
    BY <1>6 DEF MigrateCommits, MigrateUnanswered, Swap, Ends, Goes
  <2> QED BY <1>3, <2>1 DEF TypeOK
<1>7. ASSUME NEW p \in Proc, InitV1(p) \/ V1FlushWord(p) \/ V1FlushPrefixes(p) \/ V1FlushWords(p)
                             \/ Open(p) \/ Close(p)
      PROVE  TrieInv'
  <2>1. UNCHANGED v2Vars /\ \A q \in Proc \ {p} : pc'[q] = pc[q] /\ mine'[q] = mine[q]
    BY <1>7 DEF InitV1, V1FlushWord, V1FlushPrefixes, V1FlushWords, Open, Close, Returns, Goes, TypeOK
  <2>2. pc'[p] \in {"opening", "v1outs", "v1words", "idle"}
    BY <1>7 DEF InitV1, V1FlushWord, V1FlushPrefixes, V1FlushWords, Open, Close, Returns, Goes, TypeOK
  <2> QED BY <2>1, <2>2 DEF TrieInv, TypeOK
<1>8. ASSUME NEW p \in Proc, RollbackDeletes(p) \/ RollbackUnanswered(p)
      PROVE  TrieInv'
  <2>1. \A q \in Proc \ {p} : pc[q] = "idle"
    BY <1>8, Solo DEF RollbackDeletes, RollbackUnanswered, RollbackPhase
  <2>2. pc' = [pc EXCEPT ![p] = "idle"] /\ trie'.ver = 0 /\ UNCHANGED stamp
    BY <1>8 DEF RollbackDeletes, RollbackUnanswered, Deleted, Returns, Goes
  <2>3. \A q \in Proc : pc'[q] = "idle"
    BY <2>1, <2>2 DEF TypeOK
  <2> QED BY <2>2, <2>3 DEF TrieInv, TypeOK
<1>9. ASSUME NEW n \in Node, Crash(n)
      PROVE  TrieInv'
  <2>1. /\ UNCHANGED v2Vars
        /\ \A q \in Proc : pc'[q] = "idle" \/ (pc'[q] = pc[q] /\ mine'[q] = mine[q])
    BY <1>9 DEF Crash
  <2> QED BY <2>1 DEF TrieInv
<1>10. CASE UNCHANGED <<v1Vars, v2Vars, mode, pc, req, mine, result, wrote, kept, doomed, torn>>
  BY <1>10 DEF TrieInv
<1> QED
  BY <1>1, <1>2, <1>4, <1>5, <1>6, <1>7, <1>8, <1>9, <1>10, NextCases

(* It is absent for those who go by its absence: a migration keeps the     *)
(* others out by its lock, the first Create by being alone.                *)
LEMMA AbsentStep ==
  ASSUME TypeOK, CallInv, AloneInv, LockInv, TrieInv, AbsentInv, [Next]_vars
  PROVE  AbsentInv'
<1> DEFINE Absent == {"initing"} \cup (Migrating \ {"mtrie"})
<1>1. ASSUME NEW p \in Proc, Start(p)
      PROVE  AbsentInv'
  <2>1. PICK r \in RequestType : pc' = [pc EXCEPT ![p] = First(p, r)] /\ UNCHANGED v2Vars
    BY <1>1, StartFrame
  <2>2. First(p, r) \notin {"initing"} \cup Migrating
    BY FirstPhase
  <2> QED BY <2>1, <2>2 DEF AbsentInv, TypeOK
<1>2. ASSUME NEW p \in Proc, Quiet(p)
      PROVE  AbsentInv'
  <2>1. UNCHANGED v2Vars
    BY <1>2, QuietFrame
  <2>2. PICK to \in Phase : pc' = [pc EXCEPT ![p] = to] /\ Moves(pc[p], to)
    BY <1>2, QuietMoves
  <2>3. to \in Absent => trie.ver = 0
    BY <2>2 DEF Moves, AbsentInv, Migrating
  <2> QED BY <2>1, <2>2, <2>3 DEF AbsentInv, TypeOK
<1>3. ASSUME trie'.ver # 0, \A q \in Proc : pc'[q] \notin Absent
      PROVE  AbsentInv'
  BY <1>3 DEF AbsentInv
<1>4. ASSUME NEW p \in Proc, InitWrite(p)
      PROVE  AbsentInv'
  <2>1. \A q \in Proc \ {p} : pc[q] = "idle"
    BY <1>4, Solo DEF InitWrite, AbsentInv
  <2>2. pc' = [pc EXCEPT ![p] = "opening"] /\ trie'.ver # 0
    BY <1>4 DEF InitWrite, Goes, TypeOK
  <2> QED BY <1>3, <2>1, <2>2 DEF TypeOK, Migrating
<1>5. ASSUME NEW p \in Proc, Commit(p) \/ CommitUnanswered(p) \/ Flush(p)
      PROVE  AbsentInv'
  <2>1. trie.ver # 0
    BY <1>5 DEF Commit, CommitUnanswered, ScriptWrites, Flush, TrieInv
  <2>2. trie'.ver # 0
    BY <1>5 DEF Commit, CommitUnanswered, ScriptWrites, Flush, TypeOK
  <2>3. \E to \in {"idle", "planned", "publishing"} : pc' = [pc EXCEPT ![p] = to]
    BY <1>5 DEF Commit, CommitUnanswered, ScriptWrites, Flush, Returns, Goes, TypeOK
  <2>4. \A q \in Proc : pc'[q] \notin Absent
    BY <2>1, <2>3 DEF AbsentInv, TypeOK, Migrating
  <2> QED BY <1>3, <2>2, <2>4
<1>6. ASSUME NEW p \in Proc, MigrateCommits(p) \/ MigrateUnanswered(p)
      PROVE  AbsentInv'
  <2>1. trie'.ver # 0 /\ pc' = [pc EXCEPT ![p] = "releasing"] /\ pc[p] = "mcommit"
    BY <1>6 DEF MigrateCommits, MigrateUnanswered, Swap, Ends, Goes, TypeOK
  <2>2. ASSUME NEW q \in Proc \ {p}, pc[q] = "initing"
        PROVE  FALSE
    BY <2>1, <2>2, Solo DEF AbsentInv
  <2>3. \A q \in Proc \ {p} : pc[q] \notin Migrating
    BY <2>1 DEF LockInv, Migrating
  <2> QED BY <1>3, <2>1, <2>2, <2>3 DEF TypeOK, Migrating
<1>7. ASSUME NEW p \in Proc, InitV1(p) \/ V1FlushWord(p) \/ V1FlushPrefixes(p) \/ V1FlushWords(p)
                             \/ Open(p) \/ Close(p)
      PROVE  AbsentInv'
  <2>1. UNCHANGED v2Vars /\ \A q \in Proc \ {p} : pc'[q] = pc[q]
    BY <1>7 DEF InitV1, V1FlushWord, V1FlushPrefixes, V1FlushWords, Open, Close, Returns, Goes, TypeOK
  <2>2. pc'[p] \in {"opening", "v1outs", "v1words", "idle"}
    BY <1>7 DEF InitV1, V1FlushWord, V1FlushPrefixes, V1FlushWords, Open, Close, Returns, Goes, TypeOK
  <2> QED BY <2>1, <2>2 DEF AbsentInv, TypeOK, Migrating
<1>8. ASSUME NEW p \in Proc, RollbackDeletes(p) \/ RollbackUnanswered(p)
      PROVE  AbsentInv'
  BY <1>8 DEF RollbackDeletes, RollbackUnanswered, Deleted, AbsentInv
<1>9. ASSUME NEW n \in Node, Crash(n)
      PROVE  AbsentInv'
  <2>1. UNCHANGED v2Vars /\ \A q \in Proc : pc'[q] = "idle" \/ pc'[q] = pc[q]
    BY <1>9 DEF Crash
  <2> QED BY <2>1 DEF AbsentInv, Migrating
<1>10. CASE UNCHANGED <<v1Vars, v2Vars, mode, pc, req, mine, result, wrote, kept, doomed, torn>>
  BY <1>10 DEF AbsentInv
<1> QED
  BY <1>1, <1>2, <1>4, <1>5, <1>6, <1>7, <1>8, <1>9, <1>10, NextCases


-----------------------------------------------------------------------------
(* The steps that change the V1 keys. *)
V1Writes(p) ==
  \/ InitV1(p) \/ V1FlushWord(p) \/ V1FlushPrefixes(p) \/ V1FlushWords(p)
  \/ MigrateCommits(p) \/ MigrateUnanswered(p)

(* The others leave them, the requests, and what was asked to be taken     *)
(* away, and no call begins.                                               *)
LEMMA V1Frame ==
  ASSUME TypeOK, [Next]_vars, \A p \in Proc : ~Start(p) /\ ~V1Writes(p)
  PROVE  /\ UNCHANGED <<v1Vars, req, doomed, torn>>
         /\ \A q \in Proc : /\ pc'[q] # "idle" => pc[q] # "idle"
                            /\ pc'[q] \in V1FlushPhase => pc[q] \in V1FlushPhase
<1> DEFINE Goal == /\ UNCHANGED <<v1Vars, req, doomed, torn>>
                   /\ \A q \in Proc : /\ pc'[q] # "idle" => pc[q] # "idle"
                                      /\ pc'[q] \in V1FlushPhase => pc[q] \in V1FlushPhase
<1>1. ASSUME NEW p \in Proc, Quiet(p)
      PROVE  Goal
  <2>1. UNCHANGED <<v1Vars, req, doomed, torn>>
    BY <1>1, QuietFrame
  <2>2. pc[p] # "idle" /\ \E to : pc' = [pc EXCEPT ![p] = to] /\ Moves(pc[p], to)
    BY <1>1, QuietMoves
  <2> QED BY <2>1, <2>2 DEF TypeOK, Moves, V1FlushPhase
<1>2. ASSUME NEW p \in Proc, InitWrite(p) \/ Commit(p) \/ CommitUnanswered(p) \/ Flush(p)
                             \/ RollbackUnanswered(p)
      PROVE  Goal
  <2>1. UNCHANGED <<v1Vars, req, doomed, torn>>
    BY <1>2, Zenon DEF InitWrite, Commit, CommitUnanswered, Flush, RollbackUnanswered
  <2>2. pc[p] # "idle" /\ \E to \in Phase : pc' = [pc EXCEPT ![p] = to] /\ Moves(pc[p], to)
    BY <1>2, LocalMoves DEF Local
  <2> QED BY <2>1, <2>2 DEF TypeOK, Moves, V1FlushPhase
<1>3. ASSUME NEW p \in Proc, Open(p) \/ Close(p) \/ RollbackDeletes(p)
      PROVE  Goal
  <2>1. UNCHANGED <<v1Vars, req, doomed, torn>> /\ pc' = [pc EXCEPT ![p] = "idle"]
    BY <1>3, Zenon DEF Open, Close, RollbackDeletes, Returns, Goes
  <2> QED BY <2>1 DEF TypeOK, V1FlushPhase
<1>4. ASSUME NEW n \in Node, Crash(n)
      PROVE  Goal
  BY <1>4 DEF Crash, V1FlushPhase
<1>5. CASE UNCHANGED <<v1Vars, v2Vars, mode, pc, req, mine, result, wrote, kept, doomed, torn>>
  BY <1>5
<1> QED BY <1>1, <1>2, <1>3, <1>4, <1>5, NextCases DEF V1Writes

(* The transaction of a migration follows a complete reading of V1, which  *)
(* no other migration and no call that is to be alone has disturbed.       *)
LEMMA SwapReads ==
  ASSUME TypeOK, CallInv, AloneInv, LockInv, MigrationInv,
         NEW p \in Proc, MigrateCommits(p) \/ MigrateUnanswered(p)
  PROVE  /\ pc[p] = "mcommit" /\ Swap(p) /\ UNCHANGED <<req, mine, kept, doomed, torn, wrote>>
         /\ pc' = [pc EXCEPT ![p] = "releasing"]
         /\ mine[p].words = v1words /\ mine[p].states = v1states /\ mine[p].outs = v1states \cap v1outs
         /\ \A q \in Proc \ {p} : pc[q] \notin Migrating \cup RollbackPhase \cup V1FlushPhase
<1>1. /\ pc[p] = "mcommit" /\ Swap(p) /\ UNCHANGED <<req, mine, kept, doomed, torn, wrote>>
      /\ pc' = [pc EXCEPT ![p] = "releasing"]
  BY Zenon DEF MigrateCommits, MigrateUnanswered, Ends, Goes
<1>2. /\ mine[p].words = v1words /\ mine[p].states = v1states /\ mine[p].todo = {}
      /\ mine[p].outs = (v1states \ mine[p].todo) \cap v1outs
  BY <1>1 DEF MigrationInv
<1>3. mine[p].outs = v1states \cap v1outs
  BY <1>2
<1>4. ASSUME NEW q \in Proc \ {p}, pc[q] \in RollbackPhase \cup V1FlushPhase
      PROVE  FALSE
  BY <1>1, <1>4, Solo
<1>5. \A q \in Proc \ {p} : pc[q] \notin Migrating
  BY <1>1 DEF LockInv, Migrating
<1> QED BY <1>1, <1>2, <1>3, <1>4, <1>5

(* The V1 keys keep agreeing with each other. *)
LEMMA V1Step ==
  ASSUME TypeOK, CallInv, AloneInv, LockInv, V1Inv, MigrationInv, [Next]_vars
  PROVE  V1Inv'
<1> DEFINE Agree == /\ v1words \ torn = v1outs \ torn /\ v1words \ torn \subseteq v1states
                    /\ v1states # {} => Root \in v1states
           Tearing(q) == pc[q] \in V1FlushPhase => v1words \subseteq torn
           Said(q) == /\ req[q].op = "remove" => Words(req[q].raw) \subseteq doomed
                      /\ req[q].op = "flush" => Keyword \subseteq doomed
                      /\ req[q].op = "rollback" => Keyword \ v1words \subseteq doomed
<1>1. Agree /\ \A q \in Proc : Tearing(q) /\ (pc[q] # "idle" => Said(q))
  BY DEF V1Inv, Busy
<1>2. ASSUME Agree', \A q \in Proc : Tearing(q)', \A q \in Proc : pc'[q] # "idle" => Said(q)'
      PROVE  V1Inv'
  BY <1>2 DEF V1Inv, Busy
<1>3. ASSUME NEW p \in Proc, Start(p)
      PROVE  V1Inv'
  <2>1. PICK r \in RequestType :
           /\ req' = [req EXCEPT ![p] = r] /\ pc' = [pc EXCEPT ![p] = First(p, r)]
           /\ doomed' = doomed \cup Takes(r) /\ torn' = torn \cup Tears(r, At[p]) /\ UNCHANGED v1Vars
    BY <1>3, StartFrame
  <2>2. Agree'
    BY <1>1, <2>1
  <2>3. req'[p] = r /\ \A q \in Proc \ {p} : pc'[q] = pc[q] /\ req'[q] = req[q]
    BY <2>1 DEF TypeOK
  <2>4. Said(p)'
    BY <2>1, <2>3 DEF Takes
  <2>5. ASSUME NEW q \in Proc \ {p}, pc'[q] # "idle"
        PROVE  Said(q)'
    BY <1>1, <2>1, <2>3, <2>5
  <2>6. Tearing(p)'
    <3>1. r.op \in {"create", "close", "find", "add", "remove", "flush", "migrate", "rollback"}
      BY DEF RequestType
    <3>2. First(p, r) \in V1FlushPhase => r.op = "flush" /\ mode[At[p]] = "v1"
      BY <3>1, FirstPhase DEF FindPhase, V1FlushPhase
    <3>3. pc'[p] = First(p, r)
      BY <2>1 DEF TypeOK
    <3> QED BY <2>1, <3>2, <3>3 DEF Tears
  <2>7. \A q \in Proc \ {p} : Tearing(q)'
    BY <1>1, <2>1, <2>3
  <2> QED BY <1>2, <2>2, <2>4, <2>5, <2>6, <2>7
<1>4. ASSUME NEW p \in Proc, InitV1(p)
      PROVE  V1Inv'
  <2>1. pc[p] # "idle" /\ v1states' = v1states \cup {Root} /\ UNCHANGED <<v1words, v1outs, req, doomed, torn>>
        /\ pc' = [pc EXCEPT ![p] = "opening"]
    BY <1>4 DEF InitV1, Goes
  <2>2. \A q \in Proc : /\ pc'[q] # "idle" => pc[q] # "idle"
                        /\ pc'[q] \in V1FlushPhase => pc[q] \in V1FlushPhase
    BY <2>1 DEF TypeOK, V1FlushPhase
  <2> QED BY <1>1, <1>2, <2>1, <2>2
<1>5. ASSUME NEW p \in Proc, V1FlushWord(p) \/ V1FlushPrefixes(p) \/ V1FlushWords(p)
      PROVE  V1Inv'
  <2>1. pc[p] \in V1FlushPhase
    BY <1>5 DEF V1FlushWord, V1FlushPrefixes, V1FlushWords, V1FlushPhase
  <2>2. Keyword \subseteq doomed /\ req[p].op = "flush" /\ v1words \subseteq torn
    BY <1>1, <2>1 DEF CallInv, CallOK, Busy, V1FlushPhase
  <2>3. /\ v1words' \subseteq v1words /\ v1outs' \subseteq v1outs /\ UNCHANGED <<req, doomed, torn>>
        /\ v1states' \in {{}, v1states}
        /\ \A q \in Proc \ {p} : pc'[q] = pc[q]
    BY <1>5 DEF V1FlushWord, V1FlushPrefixes, V1FlushWords, Returns, Goes, TypeOK
  <2>4. \A q \in Proc \ {p} : pc'[q] = "idle"
    BY <2>1, <2>3, Solo
  <2>5. Agree'
    BY <1>1, <2>2, <2>3
  <2>6. \A q \in Proc : Tearing(q)'
    BY <2>2, <2>3
  <2> QED BY <1>2, <2>2, <2>3, <2>4, <2>5, <2>6
<1>6. ASSUME NEW p \in Proc, MigrateCommits(p) \/ MigrateUnanswered(p)
      PROVE  V1Inv'
  <2>1. /\ pc[p] = "mcommit" /\ Swap(p) /\ UNCHANGED <<req, mine, doomed, torn>>
        /\ pc' = [pc EXCEPT ![p] = "releasing"] /\ mine[p].states = v1states
        /\ \A q \in Proc \ {p} : pc[q] \notin RollbackPhase \cup V1FlushPhase
    BY <1>6, SwapReads
  <2>2. Agree'
    BY <1>1, <2>1 DEF Swap
  <2>3. \A q \in Proc : pc'[q] # "idle" => pc[q] # "idle" /\ req[q].op # "rollback"
    <3>1. req[p].op = "migrate"
      BY <2>1 DEF CallInv, CallOK, Busy, Migrating
    <3>2. ASSUME NEW q \in Proc \ {p}, pc[q] # "idle"
          PROVE  req[q].op # "rollback"
      BY <2>1, <3>2 DEF AloneInv, Busy, Alone
    <3> QED BY <2>1, <3>1, <3>2 DEF TypeOK
  <2>4. \A q \in Proc : pc'[q] \notin V1FlushPhase
    BY <2>1 DEF TypeOK, V1FlushPhase
  <2> QED BY <1>1, <1>2, <2>1, <2>2, <2>3, <2>4
<1>7. CASE \A p \in Proc : ~Start(p) /\ ~V1Writes(p)
  BY <1>1, <1>2, <1>7, V1Frame
<1> QED BY <1>3, <1>4, <1>5, <1>6, <1>7 DEF V1Writes

-----------------------------------------------------------------------------
(* A step of one call leaves the others where they are. *)
LEMMA OthersKept ==
  ASSUME TypeOK, NEW p \in Proc, Step(p)
  PROVE  \A q \in Proc \ {p} : /\ pc'[q] = pc[q] /\ req'[q] = req[q] /\ mine'[q] = mine[q]
                               /\ result'[q] = result[q] /\ wrote'[q] = wrote[q]
<1> DEFINE Keeps == /\ \E x : pc' = pc \/ pc' = [pc EXCEPT ![p] = x]
                    /\ \E x : req' = req \/ req' = [req EXCEPT ![p] = x]
                    /\ \E x : mine' = mine \/ mine' = [mine EXCEPT ![p] = x]
                    /\ \E x : result' = result \/ result' = [result EXCEPT ![p] = x]
                    /\ \E x : wrote' = wrote \/ wrote' = [wrote EXCEPT ![p] = x]
           Kept == \A q \in Proc \ {p} :
                     /\ pc'[q] = pc[q] /\ req'[q] = req[q] /\ mine'[q] = mine[q]
                     /\ result'[q] = result[q] /\ wrote'[q] = wrote[q]
<1>1. Keeps => Kept
  BY DEF TypeOK
<1>2. CASE Quiet(p)
  <2>1. UNCHANGED <<req, wrote>> /\ \E to : pc' = [pc EXCEPT ![p] = to]
    BY <1>2, QuietFrame, QuietMoves
  <2> QED BY <1>2, <2>1, QuietLocals DEF TypeOK
<1>3. CASE Start(p)
  <2>1. Keeps
    BY <1>3, Zenon DEF Start, Goes
  <2> QED BY <1>1, <2>1
<1>4. CASE InitWrite(p) \/ InitV1(p) \/ Open(p) \/ Close(p) \/ Flush(p) \/ RollbackDeletes(p)
                               \/ RollbackUnanswered(p)
  <2>1. Keeps
    BY <1>4, Zenon DEF InitWrite, InitV1, Open, Close, Flush, RollbackDeletes, RollbackUnanswered, Gone,
       Returns, Goes
  <2> QED BY <1>1, <2>1
<1>5. CASE Commit(p) \/ CommitUnanswered(p) \/ V1FlushWord(p) \/ V1FlushPrefixes(p) \/ V1FlushWords(p)
  <2>1. Keeps
    BY <1>5, Zenon DEF Commit, CommitUnanswered, V1FlushWord, V1FlushPrefixes, V1FlushWords, Returns, Goes
  <2> QED BY <1>1, <2>1
<1>6. CASE MigrateCommits(p) \/ MigrateUnanswered(p)
  <2>1. Keeps
    BY <1>6, Zenon DEF MigrateCommits, MigrateUnanswered, Ends, Goes
  <2> QED BY <1>1, <2>1
<1> QED BY <1>2, <1>3, <1>4, <1>5, <1>6 DEF Step, Quiet

(* What is changed by what is not a step of a call. *)
LEMMA NextSteps ==
  ASSUME [Next]_vars
  PROVE  \/ \E p \in Proc : Step(p)
         \/ \E n \in Node : Crash(n)
         \/ UNCHANGED <<v1Vars, v2Vars, mode, pc, req, mine, result, wrote, kept, doomed, torn>>
BY Zenon DEF Next, Listen, LockExpires, vars

(* Of the late phases of a migration, each is entered from the one before, *)
(* with what was read there.                                               *)
LEMMA Collects ==
  ASSUME TypeOK, MigrationInv, NEW p \in Proc, Step(p), UNCHANGED v1Vars,
         pc'[p] \in {"mstates", "mouts", "mwrite", "mcommit"}
  PROVE  LET m == mine'[p] IN
         /\ m.words = v1words
         /\ pc'[p] = "mstates" => m.outs = {}
         /\ pc'[p] \in {"mouts", "mwrite", "mcommit"} =>
              /\ m.states = v1states /\ m.todo \subseteq v1states
              /\ m.outs = (v1states \ m.todo) \cap v1outs
         /\ pc'[p] \in {"mwrite", "mcommit"} => m.todo = {}
<1> DEFINE m == mine'[p]
<1>1. MigrateCollects(p) \/ MigrateWrites(p)
  <2>1. CASE Start(p)
    <3>1. \E r \in RequestType : pc' = [pc EXCEPT ![p] = First(p, r)]
      BY <2>1, StartFrame
    <3> QED BY <3>1, FirstPhase DEF TypeOK, Migrating
  <2>2. CASE Local(p)
    <3>1. PICK to \in Phase : pc' = [pc EXCEPT ![p] = to] /\ Moves(pc[p], to)
      BY <2>2, LocalMoves
    <3>2. pc[p] \in {"mwords", "mstates", "mouts", "mwrite"} /\ pc'[p] # "releasing" /\ pc'[p] = to
      BY <3>1 DEF Moves, TypeOK
    <3>3. MigrateFails(p) => pc'[p] = "releasing"
      BY DEF MigrateFails, Ends, Goes, TypeOK
    <3> QED BY <2>2, <3>2, <3>3 DEF Local, Quiet, InitCheck, InitWrite, InitV1, Fails, FindReads,
         LoadLock, LoadFetch, LoadSet, WriteRefused, WriteEmpty, WriteReads, Commit, CommitUnanswered,
         ScriptWrites, Conflict, Flush, Publish, V1FlushReads, V1FlushWord, V1FlushPrefixes, V1FlushWords,
         MigrateLock, MigrateRefused, MigrateChecks, MigrateUnanswered, MigrateRelease, RollbackChecks,
         RollbackUnanswered
  <2>3. CASE Open(p) \/ Close(p) \/ MigrateCommits(p) \/ RollbackDeletes(p)
    <3>1. \E to \in {"idle", "releasing"} : pc' = [pc EXCEPT ![p] = to]
      BY <2>3, Zenon DEF Open, Close, MigrateCommits, RollbackDeletes, Returns, Ends, Goes
    <3> QED BY <3>1 DEF TypeOK
  <2> QED BY <2>1, <2>2, <2>3 DEF Step, Local, Quiet
<1>2. mine[p] \in Locals /\ NoLocals \in Locals /\ mine \in [Proc -> Locals] /\ NoLocals.outs = {}
  BY LocalsStart DEF TypeOK
<1>3. CASE pc[p] = "mwords"
  <2>1. mine'[p] = [NoLocals EXCEPT !.words = v1words] /\ pc'[p] = "mstates"
    BY <1>1, <1>2, <1>3 DEF MigrateCollects, MigrateWrites, Goes, TypeOK
  <2>2. [NoLocals EXCEPT !.words = v1words].words = v1words /\ [NoLocals EXCEPT !.words = v1words].outs = {}
    BY <1>2 DEF Locals
  <2> QED BY <2>1, <2>2
<1>4. CASE pc[p] = "mstates"
  <2> DEFINE new == [mine[p] EXCEPT !.states = v1states, !.todo = v1states]
  <2>1. mine'[p] = new /\ pc'[p] = "mouts"
    BY <1>1, <1>2, <1>4 DEF MigrateCollects, MigrateWrites, Goes, TypeOK
  <2>2. new.words = mine[p].words /\ new.outs = mine[p].outs /\ new.states = v1states /\ new.todo = v1states
    BY <1>2 DEF Locals
  <2>3. mine[p].words = v1words /\ mine[p].outs = {}
    BY <1>4 DEF MigrationInv
  <2> QED BY <2>1, <2>2, <2>3
<1>5. CASE pc[p] = "mouts"
  <2>1. mine[p].words = v1words /\ mine[p].states = v1states /\ mine[p].todo \subseteq v1states
        /\ mine[p].outs = (v1states \ mine[p].todo) \cap v1outs
    BY <1>5 DEF MigrationInv
  <2>2. CASE pc' = pc /\ \E w \in mine[p].todo : mine' = [mine EXCEPT ![p] =
                [mine[p] EXCEPT !.todo = mine[p].todo \ {w}, !.outs = mine[p].outs \cup ({w} \cap v1outs)]]
    <3>1. PICK w \in mine[p].todo : mine' = [mine EXCEPT ![p] =
                [mine[p] EXCEPT !.todo = mine[p].todo \ {w}, !.outs = mine[p].outs \cup ({w} \cap v1outs)]]
      BY <2>2
    <3>2. /\ mine'[p].words = mine[p].words /\ mine'[p].states = mine[p].states
          /\ mine'[p].todo = mine[p].todo \ {w} /\ mine'[p].outs = mine[p].outs \cup ({w} \cap v1outs)
      BY <1>2, <3>1 DEF Locals
    <3> QED BY <1>5, <2>1, <2>2, <3>2
  <2>3. CASE mine' = mine /\ mine[p].todo = {} /\ pc'[p] = "mwrite"
    BY <2>1, <2>3
  <2>4. (MigrateCollects(p) /\ ~Ends(p, "dryRun")) =>
           \/ mine' = mine /\ mine[p].todo = {} /\ Goes(p, "mwrite")
           \/ pc' = pc /\ \E w \in mine[p].todo : mine' = [mine EXCEPT ![p] =
                [mine[p] EXCEPT !.todo = mine[p].todo \ {w}, !.outs = mine[p].outs \cup ({w} \cap v1outs)]]
    BY <1>5, Zenon DEF MigrateCollects
  <2>5. ~Ends(p, "dryRun")
    BY DEF Ends, Goes, TypeOK
  <2>6. Goes(p, "mwrite") => pc'[p] = "mwrite"
    BY DEF Goes, TypeOK
  <2> QED BY <1>1, <1>5, <2>2, <2>3, <2>4, <2>5, <2>6 DEF MigrateWrites
<1>6. CASE pc[p] = "mwrite"
  <2>1. mine' = mine /\ pc'[p] = "mcommit"
    BY <1>1, <1>6 DEF MigrateCollects, MigrateWrites, Goes, TypeOK
  <2> QED BY <1>6, <2>1 DEF MigrationInv
<1> QED BY <1>1, <1>3, <1>4, <1>5, <1>6 DEF MigrateCollects, MigrateWrites

(* A migration that reads V1 has found something there. *)
LEMMA Finds ==
  ASSUME TypeOK, MigrationInv, NEW p \in Proc, Step(p), UNCHANGED v1Vars,
         pc'[p] \in Migrating \ {"mtrie", "mprefix"}
  PROVE  v1states' # {}
<1>1. CASE Start(p)
  <2>1. \E r \in RequestType : pc' = [pc EXCEPT ![p] = First(p, r)]
    BY <1>1, StartFrame
  <2> QED BY <2>1, FirstPhase DEF TypeOK
<1>2. CASE Local(p)
  <2>1. PICK to \in Phase : pc' = [pc EXCEPT ![p] = to] /\ Moves(pc[p], to)
    BY <1>2, LocalMoves
  <2>2. v1states # {} \/ pc[p] \in Migrating \ {"mtrie", "mprefix"}
    BY <2>1 DEF Moves, TypeOK, Migrating
  <2> QED BY <2>2 DEF MigrationInv
<1>3. CASE Open(p) \/ Close(p) \/ MigrateCommits(p) \/ RollbackDeletes(p)
  <2>1. \E to \in {"idle", "releasing"} : pc' = [pc EXCEPT ![p] = to]
    BY <1>3, Zenon DEF Open, Close, MigrateCommits, RollbackDeletes, Returns, Ends, Goes
  <2> QED BY <2>1 DEF TypeOK, Migrating
<1> QED BY <1>1, <1>2, <1>3 DEF Step, Local, Quiet

(* What a migration has read stays what V1 holds until it commits. *)
LEMMA MigrationStep ==
  ASSUME TypeOK, CallInv, AloneInv, LockInv, V1Inv, MigrationInv, [Next]_vars
  PROVE  MigrationInv'
<1> DEFINE Late == {"mstates", "mouts", "mwrite", "mcommit"}
           Full(q) == pc[q] \in Migrating \ {"mtrie", "mprefix"} => v1states # {}
           Read(q) == LET m == mine[q] IN
              /\ m.words = v1words
              /\ pc[q] = "mstates" => m.outs = {}
              /\ pc[q] \in {"mouts", "mwrite", "mcommit"} =>
                   /\ m.states = v1states /\ m.todo \subseteq v1states
                   /\ m.outs = (v1states \ m.todo) \cap v1outs
              /\ pc[q] \in {"mwrite", "mcommit"} => m.todo = {}
<1>1. /\ \A q \in Proc : Full(q)
      /\ \A q \in Proc : pc[q] \in Late => Read(q)
  BY DEF MigrationInv
<1>2. ASSUME \A q \in Proc : Full(q)', \A q \in Proc : pc'[q] \in Late => Read(q)'
      PROVE  MigrationInv'
  BY <1>2 DEF MigrationInv
<1>3. ASSUME NEW p \in Proc, Step(p), UNCHANGED v1Vars
      PROVE  MigrationInv'
  <2>1. pc'[p] \in Late => Read(p)'
    BY <1>3, Collects
  <2>2. ASSUME NEW q \in Proc \ {p}, pc'[q] \in Late
        PROVE  Read(q)'
    BY <1>1, <1>3, <2>2, OthersKept
  <2>3. Full(p)'
    BY <1>3, Finds
  <2>4. \A q \in Proc \ {p} : Full(q)'
    BY <1>1, <1>3, OthersKept
  <2> QED BY <1>2, <2>1, <2>2, <2>3, <2>4
<1>4. ASSUME NEW p \in Proc, V1Writes(p)
      PROVE  MigrationInv'
  <2>1. Step(p)
    BY <1>4 DEF V1Writes, Step
  <2>2. \A q \in Proc \ {p} : pc'[q] = pc[q]
    BY <2>1, OthersKept
  <2>3. (\A q \in Proc : pc'[q] \notin Migrating \ {"mtrie", "mprefix"}) => MigrationInv'
    BY <1>2 DEF Migrating
  <2>4. CASE V1FlushWord(p) \/ V1FlushPrefixes(p) \/ V1FlushWords(p)
    <3>1. pc[p] \in V1FlushPhase /\ pc'[p] \notin Migrating
      BY <2>4 DEF V1FlushWord, V1FlushPrefixes, V1FlushWords, Returns, Goes, TypeOK,
         V1FlushPhase, Migrating
    <3>2. \A q \in Proc \ {p} : pc[q] = "idle"
      BY <3>1, Solo
    <3> QED BY <2>2, <2>3, <3>1, <3>2 DEF Migrating
  <2>5. CASE MigrateCommits(p) \/ MigrateUnanswered(p)
    <3>1. pc' = [pc EXCEPT ![p] = "releasing"] /\ \A q \in Proc \ {p} : pc[q] \notin Migrating
      BY <2>5, SwapReads
    <3> QED BY <2>2, <2>3, <3>1 DEF TypeOK, Migrating
  <2>6. CASE InitV1(p)
    <3>1. /\ v1states' = v1states \cup {Root} /\ UNCHANGED <<v1words, v1outs>>
          /\ pc' = [pc EXCEPT ![p] = "opening"]
      BY <2>6 DEF InitV1, Goes
    <3>2. CASE v1states = {}
      BY <1>1, <2>2, <2>3, <3>1, <3>2 DEF TypeOK, Migrating
    <3>3. CASE v1states # {}
      <4>1. UNCHANGED v1Vars
        BY <3>1, <3>3 DEF V1Inv
      <4> QED BY <1>3, <2>1, <4>1
    <3> QED BY <3>2, <3>3
  <2> QED BY <1>4, <2>4, <2>5, <2>6 DEF V1Writes
<1>5. ASSUME NEW p \in Proc, Step(p), ~V1Writes(p)
      PROVE  UNCHANGED v1Vars
  <2>1. CASE Start(p)
    BY <2>1, StartFrame
  <2>2. CASE Quiet(p)
    BY <2>2, QuietFrame
  <2>3. CASE ~Start(p) /\ ~Quiet(p)
    BY <1>5, <2>3, Zenon DEF Step, Quiet, V1Writes, InitWrite, Open, Close, Commit, CommitUnanswered, Flush,
       RollbackDeletes, RollbackUnanswered
  <2> QED BY <2>1, <2>2, <2>3
<1>6. ASSUME NEW n \in Node, Crash(n)
      PROVE  MigrationInv'
  <2>1. UNCHANGED v1Vars /\ \A q \in Proc : pc'[q] = "idle" \/ (pc'[q] = pc[q] /\ mine'[q] = mine[q])
    BY <1>6 DEF Crash
  <2> QED BY <1>1, <1>2, <2>1 DEF Migrating
<1>7. CASE UNCHANGED <<v1Vars, v2Vars, mode, pc, req, mine, result, wrote, kept, doomed, torn>>
  BY <1>7 DEF MigrationInv
<1> QED BY <1>3, <1>4, <1>5, <1>6, <1>7, NextSteps

-----------------------------------------------------------------------------
(* What a call reports of its keywords: each once. *)
Accounts(r, s) ==
  /\ r.changed \cup r.skipped \cup r.failed = DOMAIN s
  /\ r.changed \cap r.skipped = {} /\ r.changed \cap r.failed = {} /\ r.skipped \cap r.failed = {}

(* partitionApplied does so, and reports the words that were applied. *)
LEMMA ResultAccounts ==
  ASSUME NEW s, NEW applied
  PROVE  /\ Accounts(BatchResult(s, applied), s)
         /\ {Norm[s[i]] : i \in BatchResult(s, applied).changed} = Words(s) \cap applied
<1> DEFINE changed == {i \in Candidates(s) : Norm[s[i]] \in applied}
<1>1. /\ BatchResult(s, applied).changed = changed
      /\ BatchResult(s, applied).skipped = Repeats(s) \cup (Candidates(s) \ changed)
      /\ BatchResult(s, applied).failed = Blanks(s)
  BY DEF BatchResult
<1>2. /\ Blanks(s) \subseteq DOMAIN s /\ Repeats(s) \subseteq DOMAIN s \ Blanks(s)
      /\ Candidates(s) = DOMAIN s \ (Blanks(s) \cup Repeats(s)) /\ changed \subseteq Candidates(s)
  BY DEF Blanks, Repeats, Candidates
<1>3. {Norm[s[i]] : i \in changed} = Words(s) \cap applied
  BY DEF Words
<1> HIDE DEF changed
<1>4. Accounts(BatchResult(s, applied), s)
  BY <1>1, <1>2, Zenon DEF Accounts
<1> QED BY <1>1, <1>3, <1>4

(* An error is reported of each keyword, or of the call. *)
LEMMA ErrorAccounts ==
  ASSUME NEW r
  PROVE  \/ Accounts(BatchError(r), r.raw) /\ BatchError(r).changed = {}
         \/ BatchError(r).status # "ok"
<1>1. CASE r.how = "best"
  <2>1. /\ BatchError(r).changed = {} /\ BatchError(r).skipped = Repeats(r.raw)
        /\ BatchError(r).failed = Blanks(r.raw) \cup Candidates(r.raw)
    BY <1>1 DEF BatchError
  <2>2. /\ Blanks(r.raw) \subseteq DOMAIN r.raw /\ Repeats(r.raw) \subseteq DOMAIN r.raw \ Blanks(r.raw)
        /\ Candidates(r.raw) = DOMAIN r.raw \ (Blanks(r.raw) \cup Repeats(r.raw))
    BY DEF Blanks, Repeats, Candidates
  <2> QED BY <2>1, <2>2 DEF Accounts
<1>2. CASE r.how # "best"
  <2>1. "error" \in Statuses
    BY DEF Statuses
  <2> QED BY <1>2, <2>1, StatusType DEF BatchError
<1> QED BY <1>1, <1>2

(* A batch that runs is in a phase of a batch. *)
LEMMA BatchPhase ==
  ASSUME TypeOK, CallInv, NEW p \in Proc, Busy(p), req[p].op \in {"add", "remove"}
  PROVE  pc[p] \in WritePhase \cup {"publishing"}
<1>1. CallOK(p) /\ pc[p] \in Phase /\ pc[p] # "idle"
  BY DEF TypeOK, CallInv, Busy
<1> QED BY <1>1 DEF CallOK, Phase, CreatePhase, FindPhase, WritePhase, V1FlushPhase, RollbackPhase, Migrating

(* Its steps. *)
LEMMA BatchSteps ==
  ASSUME TypeOK, CallInv, NEW p \in Proc, Step(p), Busy(p), req[p].op \in {"add", "remove"}
  PROVE  \/ Fails(p) \/ WriteRefused(p) \/ WriteEmpty(p) \/ WriteReads(p) \/ Conflict(p)
         \/ Publish(p) \/ Commit(p) \/ CommitUnanswered(p)
<1>1. pc[p] \in {"refused", "empty", "reading", "planned", "publishing"}
  BY BatchPhase DEF WritePhase
<1> QED BY <1>1 DEF Step, Busy, Start, InitCheck, InitWrite, InitV1, Open, Close, FindReads, LoadLock,
     LoadFetch, LoadSet, Flush, V1FlushReads, V1FlushWord, V1FlushPrefixes, V1FlushWords,
     MigrateLock, MigrateRefused, MigrateChecks, MigrateCollects, MigrateWrites, MigrateCommits,
     MigrateUnanswered, MigrateFails, MigrateRelease, RollbackChecks, RollbackDeletes,
     RollbackUnanswered, Migrating

(* v2WriteScript replaces the words its plan was made from. *)
LEMMA ScriptFinds ==
  ASSUME TrieInv, NEW p \in Proc, ScriptWrites(p)
  PROVE  /\ trie.ver # 0 /\ trie.words = mine[p].words
         /\ trie'.words = Plan(req[p], mine[p].words)
<1>1. trie.ver # 0
  BY DEF ScriptWrites, TrieInv
<1>2. mine[p].ver = trie.ver /\ trie'.words = Plan(req[p], mine[p].words) /\ pc[p] = "planned"
  BY <1>1 DEF ScriptWrites, Wins
<1> QED BY <1>1, <1>2 DEF TrieInv

(* What a batch that runs has written is known. *)
LEMMA WroteStep ==
  ASSUME TypeOK, CallInv, TrieInv, WroteInv, [Next]_vars
  PROVE  WroteInv'
<1> DEFINE Batch(q) == pc[q] # "idle" /\ req[q].op \in {"add", "remove"}
           Known(q) ==
             /\ result[q].status = "none"
             /\ pc[q] # "publishing" => wrote[q].lost \/ wrote[q] = NoWrite
             /\ pc[q] = "publishing" =>
                  \/ wrote[q].lost
                  \/ wrote[q].old = mine[q].words /\ wrote[q].new = Plan(req[q], mine[q].words)
<1>1. \A q \in Proc : Batch(q) => Known(q)
  BY DEF WroteInv, Busy
<1>2. ASSUME \A q \in Proc : Batch(q)' => Known(q)'
      PROVE  WroteInv'
  BY <1>2 DEF WroteInv, Busy, Plan
<1>3. ASSUME NEW p \in Proc, Step(p)
      PROVE  Batch(p)' => Known(p)'
  <2>1. CASE Start(p)
    <3>1. PICK r \in RequestType :
           /\ req' = [req EXCEPT ![p] = r] /\ pc' = [pc EXCEPT ![p] = First(p, r)]
           /\ result' = [result EXCEPT ![p] = NoResult] /\ wrote' = [wrote EXCEPT ![p] = NoWrite]
      BY <2>1, StartFrame
    <3>2. pc'[p] # "publishing"
      BY <3>1, FirstPhase DEF TypeOK
    <3>3. result'[p] = NoResult /\ wrote'[p] = NoWrite
      BY <3>1 DEF TypeOK
    <3>4. NoResult.status = "none"
      BY DEF NoResult
    <3> QED BY <3>2, <3>3, <3>4
  <2>2. CASE ~Start(p)
    <3>1. SUFFICES ASSUME Batch(p)'
                   PROVE  Known(p)'
      OBVIOUS
    <3>2. UNCHANGED req /\ pc[p] # "idle"
      <4>1. CASE Local(p)
        BY <4>1, LocalMoves
      <4>2. CASE ~Local(p)
        BY <1>3, <2>2, <4>2 DEF Step, Local, Quiet, Open, Close, MigrateCommits, RollbackDeletes
      <4> QED BY <4>1, <4>2
    <3>3. Batch(p) /\ Known(p)
      BY <1>1, <3>1, <3>2
    <3>4. \/ Fails(p) \/ WriteRefused(p) \/ WriteEmpty(p) \/ WriteReads(p) \/ Conflict(p)
          \/ Publish(p) \/ Commit(p) \/ CommitUnanswered(p)
      BY <1>3, <3>3, BatchSteps DEF Busy
    <3>5. CASE Fails(p) \/ WriteRefused(p) \/ WriteEmpty(p) \/ Publish(p)
      <4>1. pc' = [pc EXCEPT ![p] = "idle"]
        BY <3>5, Zenon DEF Fails, WriteRefused, WriteEmpty, Publish, Returns, Goes
      <4> QED BY <3>1, <4>1 DEF TypeOK
    <3>6. CASE WriteReads(p) \/ Conflict(p)
      <4>1. UNCHANGED wrote /\ pc[p] # "publishing"
        BY <3>6 DEF WriteReads, Conflict
      <4>2. \/ \E r : Returns(p, r)
            \/ result' = result /\ (Goes(p, "planned") \/ Goes(p, "reading"))
        BY <3>6, Zenon DEF WriteReads, Conflict
      <4>3. pc'[p] \in {"planned", "reading"} /\ result' = result
        BY <3>1, <4>2 DEF Returns, Goes, TypeOK
      <4> QED BY <3>3, <4>1, <4>2, <4>3
    <3>7. CASE Commit(p)
      <4>1. /\ pc'[p] = "publishing" /\ UNCHANGED <<result, mine>> /\ ScriptWrites(p)
            /\ wrote'[p] = [lost |-> wrote[p].lost, old |-> trie.words, new |-> trie'.words]
        BY <3>7 DEF Commit, Goes, TypeOK
      <4>2. trie.words = mine[p].words /\ trie'.words = Plan(req[p], mine[p].words)
        BY <4>1, ScriptFinds
      <4>3. wrote'[p].old = mine'[p].words /\ wrote'[p].new = Plan(req'[p], mine'[p].words)
        BY <3>2, <4>1, <4>2
      <4> QED BY <3>3, <4>1, <4>3 DEF Plan
    <3>8. CASE CommitUnanswered(p)
      <4>1. wrote'[p].lost = TRUE
        BY <3>8 DEF CommitUnanswered, TypeOK
      <4>2. (pc' = pc /\ result' = result) \/ pc' = [pc EXCEPT ![p] = "idle"]
        BY <3>8, Zenon DEF CommitUnanswered, Returns, Goes
      <4>3. result' = result
        BY <3>1, <4>2 DEF TypeOK
      <4> QED BY <3>3, <4>1, <4>3
    <3> QED BY <3>4, <3>5, <3>6, <3>7, <3>8
  <2> QED BY <2>1, <2>2
<1>4. ASSUME NEW p \in Proc, Step(p), NEW q \in Proc \ {p}, Batch(q)'
      PROVE  Known(q)'
  <2>1. /\ pc'[q] = pc[q] /\ req'[q] = req[q] /\ mine'[q] = mine[q]
        /\ result'[q] = result[q] /\ wrote'[q] = wrote[q]
    BY <1>4, OthersKept
  <2> QED BY <1>1, <1>4, <2>1 DEF Plan
<1>5. ASSUME NEW n \in Node, Crash(n)
      PROVE  WroteInv'
  <2>1. UNCHANGED <<req, result, wrote>>
        /\ \A q \in Proc : pc'[q] = "idle" \/ (pc'[q] = pc[q] /\ mine'[q] = mine[q])
    BY <1>5 DEF Crash
  <2> QED BY <1>1, <1>2, <2>1 DEF Plan
<1>6. CASE UNCHANGED <<v1Vars, v2Vars, mode, pc, req, mine, result, wrote, kept, doomed, torn>>
  BY <1>6 DEF WroteInv, Busy, Plan
<1> QED BY <1>2, <1>3, <1>4, <1>5, <1>6, NextSteps

(* A batch that returns accounts for its keywords. *)
LEMMA BatchStep ==
  ASSUME TypeOK, CallInv, TrieInv, WroteInv, BatchAccounted, [Next]_vars
  PROVE  BatchAccounted'
<1> DEFINE Done(q) == pc[q] = "idle" /\ req[q] # NoRequest /\ req[q].op \in {"add", "remove"}
                      /\ result[q].status = "ok"
           True(q) == Accounts(result[q], req[q].raw)
           Net(q) == IF req[q].op = "add" THEN wrote[q].new \ wrote[q].old ELSE wrote[q].old \ wrote[q].new
           Told(q) == wrote[q].lost \/ {Norm[req[q].raw[i]] : i \in result[q].changed} = Net(q)
<1>1. \A q \in Proc : Done(q) => True(q) /\ Told(q)
  BY DEF BatchAccounted, Busy, Accounts
<1>2. ASSUME \A q \in Proc : Done(q)' => True(q)' /\ Told(q)'
      PROVE  BatchAccounted'
  BY <1>2 DEF BatchAccounted, Busy, Accounts
<1>3. ASSUME NEW p \in Proc, Step(p), Done(p)'
      PROVE  True(p)' /\ Told(p)'
  <2>1. ~Start(p)
    <3>1. ASSUME Start(p)
          PROVE  FALSE
      <4>1. \E r \in RequestType : pc' = [pc EXCEPT ![p] = First(p, r)]
        BY <3>1, StartFrame
      <4> QED BY <1>3, <4>1, FirstPhase DEF TypeOK
    <3> QED BY <3>1
  <2>2. UNCHANGED req /\ pc[p] # "idle"
    <3>1. CASE Local(p)
      BY <3>1, LocalMoves
    <3>2. CASE ~Local(p)
      BY <1>3, <2>1, <3>2 DEF Step, Local, Quiet, Open, Close, MigrateCommits, RollbackDeletes
    <3> QED BY <3>1, <3>2
  <2>3. Busy(p) /\ req[p].op \in {"add", "remove"} /\ req' = req
    BY <1>3, <2>2 DEF Busy
  <2>4. \/ Fails(p) \/ WriteRefused(p) \/ WriteEmpty(p) \/ WriteReads(p) \/ Conflict(p)
        \/ Publish(p) \/ Commit(p) \/ CommitUnanswered(p)
    BY <1>3, <2>3, BatchSteps
  <2>5. pc[p] # "publishing" => wrote[p].lost \/ wrote[p] = NoWrite
    BY <2>3 DEF WroteInv
  <2>6. wrote[p] = NoWrite => Net(p) = {}
    BY DEF NoWrite
  <2>7. \A r : Returns(p, r) => result'[p] = r
    BY DEF Returns, TypeOK
  <2>8. \A to : Goes(p, to) => pc'[p] = to
    BY DEF Goes, TypeOK
  <2>9. CASE wrote' = wrote /\ pc[p] # "publishing" /\ Returns(p, BatchError(req[p]))
    <3>1. True(p)' /\ result'[p].changed = {}
      BY <1>3, <2>3, <2>7, <2>9, ErrorAccounts
    <3> QED BY <2>3, <2>5, <2>6, <2>9, <3>1
  <2>10. CASE wrote' = wrote /\ pc[p] # "publishing" /\ Returns(p, BatchResult(req[p].raw, {}))
    <3>1. True(p)'
      BY <2>3, <2>7, <2>10, ResultAccounts
    <3>2. {Norm[req[p].raw[i]] : i \in result'[p].changed} = Words(req[p].raw) \cap {}
      BY <2>7, <2>10, ResultAccounts
    <3> QED BY <2>3, <2>5, <2>6, <2>10, <3>1, <3>2
  <2>11. CASE Publish(p)
    <3> DEFINE changed == Changed(req[p], mine[p].words)
    <3>1. wrote' = wrote /\ pc[p] = "publishing" /\ Returns(p, BatchResult(req[p].raw, changed))
      BY <2>3, <2>11 DEF Publish, WriteDone
    <3>2. True(p)'
      BY <2>3, <2>7, <3>1, ResultAccounts
    <3>3. {Norm[req[p].raw[i]] : i \in result'[p].changed} = Words(req[p].raw) \cap changed
      BY <2>7, <3>1, ResultAccounts
    <3>4. \/ wrote[p].lost
          \/ wrote[p].old = mine[p].words /\ wrote[p].new = Plan(req[p], mine[p].words)
      BY <2>3, <3>1 DEF WroteInv
    <3>5. wrote[p].lost \/ Words(req[p].raw) \cap changed = Net(p)
      BY <2>3, <3>4 DEF Plan, Changed
    <3> QED BY <2>3, <3>1, <3>2, <3>3, <3>5
  <2>12. CASE Fails(p) \/ WriteRefused(p) \/ WriteEmpty(p)
    <3>1. wrote' = wrote /\ pc[p] # "publishing"
      BY <2>12 DEF Fails, WriteRefused, WriteEmpty
    <3>2. Returns(p, BatchError(req[p])) \/ Returns(p, BatchResult(req[p].raw, {}))
      BY <2>12, Zenon DEF Fails, WriteRefused, WriteEmpty
    <3> QED BY <2>9, <2>10, <3>1, <3>2
  <2>13. CASE WriteReads(p) \/ Conflict(p)
    <3>1. wrote' = wrote /\ pc[p] # "publishing"
      BY <2>13 DEF WriteReads, Conflict
    <3>2. \/ Returns(p, BatchError(req[p])) \/ Returns(p, BatchResult(req[p].raw, {}))
          \/ Goes(p, "planned") \/ Goes(p, "reading")
      BY <2>13, Zenon DEF WriteReads, Conflict
    <3> QED BY <1>3, <2>8, <2>9, <2>10, <3>1, <3>2
  <2>14. CASE Commit(p)
    BY <1>3, <2>8, <2>14 DEF Commit
  <2>15. CASE CommitUnanswered(p)
    <3>1. wrote'[p].lost = TRUE
      BY <2>15 DEF CommitUnanswered, TypeOK
    <3>2. Returns(p, BatchError(req[p])) \/ UNCHANGED pc
      BY <2>15, Zenon DEF CommitUnanswered
    <3>3. Returns(p, BatchError(req[p]))
      BY <1>3, <2>2, <3>2
    <3> QED BY <1>3, <2>3, <2>7, <3>1, <3>3, ErrorAccounts
  <2> QED BY <2>4, <2>11, <2>12, <2>13, <2>14, <2>15
<1>4. ASSUME NEW p \in Proc, Step(p), NEW q \in Proc \ {p}, Done(q)'
      PROVE  True(q)' /\ Told(q)'
  <2>1. pc'[q] = pc[q] /\ req'[q] = req[q] /\ result'[q] = result[q] /\ wrote'[q] = wrote[q]
    BY <1>4, OthersKept
  <2> QED BY <1>1, <1>4, <2>1
<1>5. ASSUME NEW n \in Node, Crash(n), NEW q \in Proc, Done(q)'
      PROVE  True(q)' /\ Told(q)'
  <2>1. UNCHANGED <<req, result, wrote>>
    BY <1>5 DEF Crash
  <2>2. pc[q] = "idle"
    <3>1. ASSUME Busy(q)
          PROVE  FALSE
      BY <1>5, <2>1, <3>1 DEF WroteInv
    <3> QED BY <3>1 DEF Busy
  <2> QED BY <1>1, <1>5, <2>1, <2>2
<1>6. CASE UNCHANGED <<v1Vars, v2Vars, mode, pc, req, mine, result, wrote, kept, doomed, torn>>
  BY <1>6 DEF BatchAccounted, Busy
<1> QED BY <1>2, <1>3, <1>4, <1>5, <1>6, NextSteps

-----------------------------------------------------------------------------
(* The steps that change a V2 collection, or a V1 collection. *)
Writes(p) ==
  \/ InitWrite(p) \/ Commit(p) \/ CommitUnanswered(p) \/ Flush(p) \/ RollbackDeletes(p)
  \/ RollbackUnanswered(p) \/ V1Writes(p)

(* In the others nothing that is stored changes, and only a call that      *)
(* starts asks for something to be taken away.                             *)
LEMMA StoreFrame ==
  ASSUME TypeOK, [Next]_vars, \A p \in Proc : ~Writes(p)
  PROVE  UNCHANGED <<v1Vars, trie, outputs, kept>> /\ doomed \subseteq doomed' /\ torn \subseteq torn'
<1> DEFINE Goal == UNCHANGED <<v1Vars, trie, outputs, kept>> /\ doomed \subseteq doomed' /\ torn \subseteq torn'
<1>1. ASSUME NEW p \in Proc, Start(p)
      PROVE  Goal
  BY <1>1, StartFrame
<1>2. ASSUME NEW p \in Proc, Quiet(p)
      PROVE  Goal
  BY <1>2, QuietFrame
<1>3. ASSUME NEW p \in Proc, Open(p) \/ Close(p)
      PROVE  Goal
  BY <1>3 DEF Open, Close
<1>4. ASSUME NEW n \in Node, Crash(n)
      PROVE  Goal
  BY <1>4 DEF Crash
<1> QED BY <1>1, <1>2, <1>3, <1>4, NextCases DEF Writes, V1Writes

(* flush has asked for every keyword to be taken away. *)
LEMMA FlushTakesAll ==
  ASSUME CallInv, V1Inv, NEW p \in Proc, pc[p] \in V1FlushPhase \cup {"flushing"}
  PROVE  Keyword \subseteq doomed
<1>1. Busy(p) /\ req[p].op = "flush"
  BY DEF CallInv, CallOK, Busy, V1FlushPhase
<1> QED BY <1>1 DEF V1Inv

(* A batch of removals has said what it takes away. *)
LEMMA RemoveTakes ==
  ASSUME CallInv, V1Inv, NEW p \in Proc, pc[p] = "planned", req[p].op # "add"
  PROVE  Words(req[p].raw) \subseteq doomed
<1>1. Busy(p) /\ req[p].op = "remove"
  BY DEF CallInv, CallOK, Busy, WritePhase
<1> QED BY <1>1 DEF V1Inv

(* No step loses a keyword that nobody asked to take away. *)
LEMMA KeptStep ==
  ASSUME TypeOK, CallInv, AloneInv, LockInv, TrieInv, AbsentInv, V1Inv, MigrationInv, KeywordsKept,
         [Next]_vars
  PROVE  KeywordsKept'
<1> DEFINE Held(w) == V1Has(w) \/ V2Has(w)
<1>1. \A w \in kept \ doomed : w \in Keyword /\ Held(w)
  BY DEF KeywordsKept, TypeOK
<1>2. ASSUME \A w \in kept' \ doomed' : Held(w)'
      PROVE  KeywordsKept'
  BY <1>2 DEF KeywordsKept
<1>3. ASSUME NEW p \in Proc, InitWrite(p)
      PROVE  KeywordsKept'
  <2>1. trie.ver = 0 /\ UNCHANGED <<v1Vars, kept, doomed, torn>>
    BY <1>3 DEF InitWrite, AbsentInv
  <2> QED BY <1>1, <1>2, <2>1 DEF V1Has, V2Has
<1>4. ASSUME NEW p \in Proc, InitV1(p)
      PROVE  KeywordsKept'
  BY <1>1, <1>2, <1>4 DEF InitV1, V1Has, V2Has
<1>5. ASSUME NEW p \in Proc, Commit(p) \/ CommitUnanswered(p)
      PROVE  KeywordsKept'
  <2>1. ScriptWrites(p) /\ UNCHANGED <<v1Vars, doomed>>
    BY <1>5 DEF Commit, CommitUnanswered
  <2>2. /\ trie.ver # 0 /\ trie.words = mine[p].words /\ trie'.words = Plan(req[p], trie.words)
        /\ trie'.ver # 0
    <3>1. trie'.ver # 0
      BY <2>1 DEF ScriptWrites, TypeOK
    <3> QED BY <2>1, <3>1, ScriptFinds
  <2>3. CASE req[p].op = "add"
    <3>1. /\ trie'.words = trie.words \cup Words(req[p].raw) /\ outputs' = outputs \cup trie'.words
          /\ kept' = kept \cup Words(req[p].raw)
      BY <2>1, <2>2, <2>3 DEF ScriptWrites, Plan
    <3> QED BY <1>1, <1>2, <2>1, <2>2, <3>1 DEF V1Has, V2Has
  <2>4. CASE req[p].op # "add"
    <3>1. trie'.words = trie.words \ Words(req[p].raw) /\ outputs' = trie'.words /\ kept' = kept
      BY <2>1, <2>2, <2>4 DEF ScriptWrites, Plan
    <3>2. Words(req[p].raw) \subseteq doomed
      BY <2>1, <2>4, RemoveTakes DEF ScriptWrites
    <3> QED BY <1>1, <1>2, <2>1, <2>2, <3>1, <3>2 DEF V1Has, V2Has
  <2> QED BY <2>3, <2>4
<1>6. ASSUME NEW p \in Proc, Flush(p) \/ V1FlushWord(p) \/ V1FlushPrefixes(p) \/ V1FlushWords(p)
      PROVE  KeywordsKept'
  <2>1. UNCHANGED <<kept, doomed, torn>> /\ pc[p] \in V1FlushPhase \cup {"flushing"}
    BY <1>6 DEF Flush, V1FlushWord, V1FlushPrefixes, V1FlushWords, V1FlushPhase
  <2>2. Keyword \subseteq doomed
    BY <2>1, FlushTakesAll
  <2> QED BY <1>1, <1>2, <2>1, <2>2
<1>7. ASSUME NEW p \in Proc, MigrateCommits(p) \/ MigrateUnanswered(p)
      PROVE  KeywordsKept'
  <2>1. /\ pc[p] = "mcommit" /\ Swap(p) /\ UNCHANGED <<kept, doomed, torn>>
        /\ mine[p].words = v1words /\ mine[p].outs = v1states \cap v1outs
    BY <1>7, SwapReads
  <2>2. trie.ver = 0
    BY <2>1 DEF AbsentInv, Migrating
  <2>3. /\ trie'.ver # 0 /\ trie'.words = v1words
        /\ outputs' = IF mine[p].outs # {} THEN mine[p].outs ELSE outputs
    BY <2>1 DEF Swap, TypeOK
  <2>4. ASSUME NEW w \in kept \ doomed
        PROVE  V2Has(w)'
    <3>1. w \in v1words /\ w \in v1states \cap v1outs
      BY <1>1, <2>2 DEF V1Has, V2Has
    <3> QED BY <2>1, <2>3, <3>1 DEF V2Has
  <2> QED BY <1>2, <2>1, <2>4
<1>8. ASSUME NEW p \in Proc, RollbackDeletes(p) \/ RollbackUnanswered(p)
      PROVE  KeywordsKept'
  <2>1. pc[p] = "rolling" /\ UNCHANGED <<v1Vars, kept, doomed, torn>>
    BY <1>8 DEF RollbackDeletes, RollbackUnanswered
  <2>2. Busy(p) /\ req[p].op = "rollback"
    BY <2>1 DEF CallInv, CallOK, Busy, RollbackPhase
  <2>3. Keyword \ v1words \subseteq doomed /\ v1words \ torn = v1outs \ torn
        /\ v1words \ torn \subseteq v1states /\ torn \subseteq doomed
    BY <2>2 DEF V1Inv, TypeOK
  <2>4. ASSUME NEW w \in kept \ doomed
        PROVE  V1Has(w)'
    BY <1>1, <2>1, <2>3 DEF V1Has
  <2> QED BY <1>2, <2>1, <2>4
<1>9. CASE \A p \in Proc : ~Writes(p)
  BY <1>1, <1>2, <1>9, StoreFrame DEF V1Has, V2Has
<1> QED BY <1>3, <1>4, <1>5, <1>6, <1>7, <1>8, <1>9 DEF Writes, V1Writes

(* The trie and the outputs go on agreeing. *)
LEMMA AgreesStep ==
  ASSUME TypeOK, CallInv, AloneInv, LockInv, TrieInv, AbsentInv, V1Inv, MigrationInv, SearchAgrees,
         [Next]_vars
  PROVE  SearchAgrees'
<1>1. ASSUME NEW p \in Proc, InitWrite(p)
      PROVE  SearchAgrees'
  <2>1. outputs = {} /\ UNCHANGED outputs /\ trie'.words = {}
    BY <1>1 DEF InitWrite, AbsentInv
  <2> QED BY <2>1 DEF SearchAgrees
<1>2. ASSUME NEW p \in Proc, InitV1(p) \/ V1FlushWord(p) \/ V1FlushPrefixes(p) \/ V1FlushWords(p)
      PROVE  SearchAgrees'
  BY <1>2 DEF InitV1, V1FlushWord, V1FlushPrefixes, V1FlushWords, SearchAgrees
<1>3. ASSUME NEW p \in Proc, Commit(p) \/ CommitUnanswered(p)
      PROVE  SearchAgrees'
  <2>1. ScriptWrites(p) /\ UNCHANGED torn
    BY <1>3 DEF Commit, CommitUnanswered
  <2>2. trie.ver # 0 /\ trie'.words = Plan(req[p], trie.words)
    BY <2>1, ScriptFinds
  <2>3. outputs' = IF req[p].op = "add" THEN outputs \cup trie'.words ELSE trie'.words
    BY <2>1 DEF ScriptWrites
  <2> QED BY <2>1, <2>2, <2>3 DEF SearchAgrees, Plan
<1>4. ASSUME NEW p \in Proc, Flush(p) \/ RollbackDeletes(p) \/ RollbackUnanswered(p)
      PROVE  SearchAgrees'
  BY <1>4 DEF Flush, RollbackDeletes, RollbackUnanswered, Deleted, SearchAgrees
<1>5. ASSUME NEW p \in Proc, MigrateCommits(p) \/ MigrateUnanswered(p)
      PROVE  SearchAgrees'
  <2>1. /\ pc[p] = "mcommit" /\ Swap(p) /\ UNCHANGED torn
        /\ mine[p].words = v1words /\ mine[p].outs = v1states \cap v1outs
    BY <1>5, SwapReads
  <2>2. outputs = {}
    BY <2>1 DEF AbsentInv, Migrating
  <2>3. (v1states \cap v1outs) \ torn = v1words \ torn
    BY DEF V1Inv
  <2>4. trie'.words = v1words /\ outputs' = IF mine[p].outs # {} THEN mine[p].outs ELSE outputs
    BY <2>1 DEF Swap
  <2> QED BY <2>1, <2>2, <2>3, <2>4 DEF SearchAgrees
<1>6. CASE \A p \in Proc : ~Writes(p)
  BY <1>6, StoreFrame DEF SearchAgrees
<1> QED BY <1>1, <1>2, <1>3, <1>4, <1>5, <1>6 DEF Writes, V1Writes

-----------------------------------------------------------------------------
(* The invariant holds before anybody opens the collection. *)
LEMMA InvariantInit == Init => CollectionInv
<1> SUFFICES ASSUME Init
             PROVE  CollectionInv
  OBVIOUS
<1>1. TypeOK
  <2>1. NoLocals \in Locals /\ NoResult \in Results /\ "idle" \in Phase
        /\ NoWrite \in [lost : BOOLEAN, old : SUBSET Keyword, new : SUBSET Keyword]
    BY LocalsStart DEF NoResult, NoWrite, Results, Statuses, Phase
  <2> QED BY <2>1, CollectionAssumption DEF Init, TypeOK
<1>2. \A p \in Proc : pc[p] = "idle" /\ req[p] = NoRequest
  BY DEF Init
<1>3. CallInv /\ AloneInv /\ LockInv /\ WroteInv /\ MigrationInv /\ BatchAccounted
  BY <1>2 DEF CallInv, AloneInv, LockInv, WroteInv, MigrationInv, BatchAccounted, Busy, RollbackPhase, Migrating
<1>4. TrieInv /\ AbsentInv
  BY <1>2 DEF Init, TrieInv, AbsentInv, Migrating
<1>5. V1Inv /\ KeywordsKept /\ SearchAgrees
  BY <1>2 DEF Init, V1Inv, KeywordsKept, V1Has, SearchAgrees, Busy, V1FlushPhase
<1> QED BY <1>1, <1>3, <1>4, <1>5 DEF CollectionInv

(* Every step keeps it. *)
LEMMA InvariantStep ==
  ASSUME Orderly, ~Slow, CollectionInv, [Next]_vars
  PROVE  CollectionInv'
<1>1. /\ TypeOK /\ CallInv /\ AloneInv /\ LockInv /\ TrieInv /\ AbsentInv /\ V1Inv /\ MigrationInv
      /\ WroteInv /\ KeywordsKept /\ SearchAgrees /\ BatchAccounted
  BY DEF CollectionInv
<1>2. TypeOK' /\ CallInv' /\ AloneInv' /\ LockInv'
  BY <1>1, CallsAsked, TypeStep, CallStep, AloneStep, LockStep
<1>3. TrieInv' /\ AbsentInv' /\ V1Inv' /\ MigrationInv' /\ WroteInv'
  BY <1>1, TrieStep, AbsentStep, V1Step, MigrationStep, WroteStep
<1>4. KeywordsKept' /\ SearchAgrees' /\ BatchAccounted'
  BY <1>1, KeptStep, AgreesStep, BatchStep
<1> QED BY <1>2, <1>3, <1>4 DEF CollectionInv

(* For any goroutines, instances, keywords and requests, any number of     *)
(* retries, calls and faults: while operators keep to the order            *)
(* OrderlyStart asks for and no migration outlives migrationLockTTL, the   *)
(* calls of Create, Close, Find, Add, Remove, their batches, Flush,        *)
(* MigrateV1ToV2 and RollbackToV1 keep the whole of CollectionInv.         *)
THEOREM CollectionCorrect ==
  ASSUME Orderly, ~Slow
  PROVE  Spec => []CollectionInv
<1>1. CollectionInv /\ [Next]_vars => CollectionInv'
  BY InvariantStep
<1> QED BY <1>1, InvariantInit, PTL DEF Spec

(* MigrateV1ToV2, RollbackToV1 and v2WriteScript never leave a moment, nor *)
(* a crash or a lost answer a state, in which a keyword that was stored    *)
(* and that nobody asked to take away is in neither schema.                *)
THEOREM NothingLost ==
  ASSUME Orderly, ~Slow
  PROVE  Spec => []KeywordsKept
<1>1. CollectionInv => KeywordsKept
  BY DEF CollectionInv
<1> QED BY <1>1, CollectionCorrect, PTL

(* The two hashes that v2WriteScript, flushV2Keys and the transaction of a *)
(* migration write agree on the keywords of a V2 collection, although an   *)
(* add rewrites only the outputs of its own states.                        *)
THEOREM HashesAgree ==
  ASSUME Orderly, ~Slow
  PROVE  Spec => []SearchAgrees
<1>1. CollectionInv => SearchAgrees
  BY DEF CollectionInv
<1> QED BY <1>1, CollectionCorrect, PTL

(* What AddMany and RemoveMany report is what they did: every keyword is   *)
(* counted once, and the changed ones are the difference that the script   *)
(* made, whatever conflicts came before it. This does not rest on the      *)
(* migration lock: it holds although one may expire under a migration.     *)
THEOREM BatchesHonest ==
  ASSUME Orderly
  PROVE  Spec => []BatchAccounted
<1> DEFINE Inv == TypeOK /\ CallInv /\ AloneInv /\ TrieInv /\ WroteInv /\ BatchAccounted
<1>1. Init => Inv
  BY InvariantInit DEF CollectionInv
<1>2. Inv /\ [Next]_vars => Inv'
  BY CallsAsked, TypeStep, CallStep, AloneStep, TrieStep, WroteStep, BatchStep
<1>3. Inv => BatchAccounted
  OBVIOUS
<1> QED BY <1>1, <1>2, <1>3, PTL DEF Spec
=============================================================================
