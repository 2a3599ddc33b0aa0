---------------------------- MODULE PresetEngine ----------------------------
(***************************************************************************)
(* Nodes that serve a V2 collection from a local preset engine             *)
(* (redis_backed.go, redis_backed_ops.go, batch_atomic.go): each installs  *)
(* what its own writes committed, is marked stale by the invalidations of  *)
(* its peers and by a poller, and reloads when it is searched while stale. *)
(*                                                                         *)
(* ac.generation only tells whether anything happened since it was read.   *)
(* Instead of the counter the model keeps, for each node, the writes and   *)
(* the reload whose copy of it is up to date (upToDate).                   *)
(***************************************************************************)
EXTENDS V2Store

CONSTANTS
  Presets,   \* nodes that were opened with a Preset and serve from an engine
  Reloader,  \* stands for a node's reload
  Pollers    \* nodes whose InvalidationPollInterval is set

ASSUME PresetAssumption ==
  /\ Reloader \notin Call
  /\ Presets \subseteq Node
  /\ Pollers \subseteq Presets

VARIABLES
  subscribed,    \* whether newRedisBacked has started the listener
  engine,        \* the keywords of the installed engine
  served,        \* the version they were read or written at
  localVersion,
  stale,
  upToDate,      \* who would find ac.generation unchanged
  reload,        \* how far reloadFromRedis is
  loaded,        \* the version it has read
  poll           \* the version pollVersion has read, 0 when it is not running

localVars  == <<subscribed, engine, served, localVersion, stale, upToDate>>
reloadVars == <<reload, loaded>>
vars       == <<v2Vars, localVars, reloadVars, poll>>

(* newRedisBacked after initTrie: the first load runs. *)
Init ==
  /\ V2Init
  /\ subscribed = [n \in Presets |-> FALSE]
  /\ engine = [n \in Presets |-> {}]
  /\ served = [n \in Presets |-> 0]
  /\ localVersion = [n \in Presets |-> 0]
  /\ stale = [n \in Presets |-> FALSE]
  /\ upToDate = [n \in Presets |-> {}]
  /\ reload = [n \in Presets |-> "starting"]
  /\ loaded = [n \in Presets |-> 0]
  /\ poll = [n \in Presets |-> 0]

(* startListener; Create returns and the poller starts. *)
Subscribe(n) ==
  /\ ~subscribed[n] /\ reload[n] = "idle"
  /\ subscribed' = [subscribed EXCEPT ![n] = TRUE]
  /\ UNCHANGED <<v2Vars, engine, served, localVersion, stale, upToDate, reloadVars, poll>>

-----------------------------------------------------------------------------
(* Mutant of ApplyBegin: the generation stays as it is. *)
ApplyBeginUnmarked(c) ==
  LET n == request[c].node IN
  /\ phase[c] = "committed"
  /\ upToDate' = [upToDate EXCEPT ![n] = upToDate[n] \cup {c}]
  /\ stale' = [stale EXCEPT ![n] = TRUE]
  /\ phase' = [phase EXCEPT ![c] = "building"]
  /\ UNCHANGED <<storeVars, request, outcome, tries, base, plan, commit, msgVars,
                 subscribed, engine, served, localVersion, reloadVars, poll>>

(* applyCommittedWrite up to the build ... *)
ApplyBegin(c) ==
  LET n == request[c].node IN
  /\ phase[c] = "committed"
  /\ upToDate' = [upToDate EXCEPT ![n] = {c}]
  /\ stale' = [stale EXCEPT ![n] = TRUE]
  /\ phase' = [phase EXCEPT ![c] = "building"]
  /\ UNCHANGED <<storeVars, request, outcome, tries, base, plan, commit, msgVars,
                 subscribed, engine, served, localVersion, reloadVars, poll>>

(* ... and after it, when nothing else happened. A flush leaves no version. *)
ApplyInstall(c) ==
  LET n == request[c].node IN
  /\ phase[c] = "building"
  /\ c \in upToDate[n]
  /\ phase' = [phase EXCEPT ![c] = "publishing"]
  /\ engine' = [engine EXCEPT ![n] = plan[c]]
  /\ served' = [served EXCEPT ![n] = commit[c]]
  /\ localVersion' = [localVersion EXCEPT ![n] =
                        IF request[c].mode = "flush" THEN 0 ELSE commit[c]]
  /\ stale' = [stale EXCEPT ![n] = FALSE]
  /\ UNCHANGED <<storeVars, request, outcome, tries, base, plan, commit, msgVars,
                 subscribed, upToDate, reloadVars, poll>>

(* A later write, invalidation or reload owns the newer state. *)
ApplySkips(c) ==
  /\ phase[c] = "building"
  /\ c \notin upToDate[request[c].node]
  /\ phase' = [phase EXCEPT ![c] = "publishing"]
  /\ UNCHANGED <<storeVars, request, outcome, tries, base, plan, commit, msgVars,
                 localVars, reloadVars, poll>>

Write(c) ==
  \/ /\ \/ \E r \in Requests : (r.node \in Presets => subscribed[r.node]) /\ Start(c, r)
        \/ RunScript(c, IF request[c].node \in Presets THEN "committed" ELSE "publishing")
        \/ ReadUnchanged(c) \/ ReadSnapshot(c) \/ Conflict(c) \/ LastConflict(c)
        \/ ReplyLostFails(c) \/ ReplyLostResends(c) \/ WriteFails(c)
        \/ Publish(c, {n \in Presets : subscribed[n]})
     /\ UNCHANGED <<localVars, reloadVars, poll>>
  \/ ApplyBegin(c) \/ ApplyInstall(c) \/ ApplySkips(c)

-----------------------------------------------------------------------------
(* handleInvalidation of a foreign message. *)
Invalidate(n, c) ==
  /\ c \in inbox[n]
  /\ inbox' = [inbox EXCEPT ![n] = inbox[n] \ {c}]
  /\ stale' = [stale EXCEPT ![n] = TRUE]
  /\ upToDate' = [upToDate EXCEPT ![n] = {}]
  /\ UNCHANGED <<storeVars, callVars, missed, subscribed, engine, served, localVersion,
                 reloadVars, poll>>

(* pollVersion reads the stored version ... *)
PollRead(n) ==
  /\ n \in Pollers /\ subscribed[n] /\ poll[n] = 0
  /\ poll' = [poll EXCEPT ![n] = Len(line)]
  /\ UNCHANGED <<v2Vars, localVars, reloadVars>>

(* Mutant of PollApply: the engine is never marked. *)
PollApplyQuiet(n) ==
  /\ poll[n] # 0
  /\ poll' = [poll EXCEPT ![n] = 0]
  /\ UNCHANGED <<v2Vars, localVars, reloadVars>>

(* Mutant of PollApply: it also marks an engine that is stale already. *)
PollApplyEager(n) ==
  /\ poll[n] # 0
  /\ poll' = [poll EXCEPT ![n] = 0]
  /\ IF poll[n] # localVersion[n]
       THEN /\ stale' = [stale EXCEPT ![n] = TRUE]
            /\ upToDate' = [upToDate EXCEPT ![n] = {}]
       ELSE UNCHANGED <<stale, upToDate>>
  /\ UNCHANGED <<v2Vars, subscribed, engine, served, localVersion, reloadVars>>

(* ... and compares it with the local one. A failed read does nothing. *)
PollApply(n) ==
  /\ poll[n] # 0
  /\ poll' = [poll EXCEPT ![n] = 0]
  /\ IF poll[n] # localVersion[n] /\ ~stale[n]
       THEN /\ stale' = [stale EXCEPT ![n] = TRUE]
            /\ upToDate' = [upToDate EXCEPT ![n] = {}]
       ELSE UNCHANGED <<stale, upToDate>>
  /\ UNCHANGED <<v2Vars, subscribed, engine, served, localVersion, reloadVars>>

(* ensureValid: a search finds the engine stale and starts a reload. *)
ReloadStart(n) ==
  /\ subscribed[n] /\ stale[n] /\ reload[n] = "idle"
  /\ reload' = [reload EXCEPT ![n] = "starting"]
  /\ UNCHANGED <<v2Vars, localVars, loaded, poll>>

(* reloadFromRedis notes the generation and then reads the trie. *)
ReloadBegin(n) ==
  /\ reload[n] = "starting"
  /\ reload' = [reload EXCEPT ![n] = "reading"]
  /\ upToDate' = [upToDate EXCEPT ![n] = upToDate[n] \cup {Reloader}]
  /\ UNCHANGED <<v2Vars, subscribed, engine, served, localVersion, stale, loaded, poll>>

ReloadRead(n) ==
  /\ reload[n] = "reading"
  /\ reload' = [reload EXCEPT ![n] = "building"]
  /\ loaded' = [loaded EXCEPT ![n] = Len(line)]
  /\ UNCHANGED <<v2Vars, localVars, poll>>

(* Mutant of ReloadInstall: the generation is not compared. *)
ReloadInstallBlind(n) ==
  /\ reload[n] = "building"
  /\ engine' = [engine EXCEPT ![n] = line[loaded[n]]]
  /\ served' = [served EXCEPT ![n] = loaded[n]]
  /\ localVersion' = [localVersion EXCEPT ![n] = loaded[n]]
  /\ stale' = [stale EXCEPT ![n] = FALSE]
  /\ upToDate' = [upToDate EXCEPT ![n] = {}]
  /\ reload' = [reload EXCEPT ![n] = "idle"]
  /\ loaded' = [loaded EXCEPT ![n] = 0]
  /\ UNCHANGED <<v2Vars, subscribed, poll>>

(* It installs what it read when nothing happened meanwhile ... *)
ReloadInstall(n) ==
  /\ reload[n] = "building"
  /\ Reloader \in upToDate[n]
  /\ engine' = [engine EXCEPT ![n] = line[loaded[n]]]
  /\ served' = [served EXCEPT ![n] = loaded[n]]
  /\ localVersion' = [localVersion EXCEPT ![n] = loaded[n]]
  /\ stale' = [stale EXCEPT ![n] = FALSE]
  /\ upToDate' = [upToDate EXCEPT ![n] = {}]
  /\ reload' = [reload EXCEPT ![n] = "idle"]
  /\ loaded' = [loaded EXCEPT ![n] = 0]
  /\ UNCHANGED <<v2Vars, subscribed, poll>>

(* ... and starts over otherwise. *)
ReloadAgain(n) ==
  /\ reload[n] = "building"
  /\ Reloader \notin upToDate[n]
  /\ reload' = [reload EXCEPT ![n] = "starting"]
  /\ loaded' = [loaded EXCEPT ![n] = 0]
  /\ UNCHANGED <<v2Vars, localVars, poll>>

(* Its read fails, or every search that waited for it was canceled. *)
ReloadFails(n) ==
  /\ subscribed[n] /\ reload[n] # "idle"
  /\ Fault
  /\ reload' = [reload EXCEPT ![n] = "idle"]
  /\ loaded' = [loaded EXCEPT ![n] = 0]
  /\ upToDate' = [upToDate EXCEPT ![n] = upToDate[n] \ {Reloader}]
  /\ UNCHANGED <<line, callVars, msgVars, subscribed, engine, served, localVersion, stale,
                 poll>>

-----------------------------------------------------------------------------
Reload(n) ==
  \/ Subscribe(n) \/ ReloadBegin(n) \/ ReloadRead(n) \/ ReloadInstall(n) \/ ReloadAgain(n)
  \/ ReloadFails(n)

Poll(n) == PollRead(n) \/ PollApply(n)

Next ==
  \/ \E c \in Call : Write(c)
  \/ \E n \in Presets :
       Poll(n) \/ ReloadStart(n) \/ Reload(n) \/ \E c \in Call : Invalidate(n, c)

Spec == Init /\ [][Next]_vars

(* Goroutines run and the poll ticker ticks. Nobody has to write, and      *)
(* messages need not arrive; nothing is assumed of searches.               *)
Fairness == \A n \in Presets : WF_vars(Reload(n)) /\ WF_vars(Poll(n))

FairSpec == Spec /\ Fairness

-----------------------------------------------------------------------------
(* Every variable holds values of its kind. *)
TypeOK ==
  /\ line \in Seq(SUBSET Keyword)
  /\ faults \in Nat
  /\ request \in [Call -> Requests \cup {NoRequest}]
  /\ phase \in [Call -> {"idle", "reading", "planned", "committed", "building",
                         "publishing", "done"}]
  /\ outcome \in [Call -> {"none", "applied", "unchanged", "conflict", "failed"}]
  /\ tries \in [Call -> Nat]
  /\ base \in [Call -> Nat]
  /\ plan \in [Call -> SUBSET Keyword]
  /\ commit \in [Call -> Nat]
  /\ inbox \in [Node -> SUBSET Call]
  /\ missed \in [Node -> BOOLEAN]
  /\ subscribed \in [Presets -> BOOLEAN]
  /\ engine \in [Presets -> SUBSET Keyword]
  /\ served \in [Presets -> Nat]
  /\ localVersion \in [Presets -> Nat]
  /\ stale \in [Presets -> BOOLEAN]
  /\ upToDate \in [Presets -> SUBSET (Call \cup {Reloader})]
  /\ reload \in [Presets -> {"idle", "starting", "reading", "building"}]
  /\ loaded \in [Presets -> Nat]
  /\ poll \in [Presets -> Nat]

(* A call that has not returned was made, and only nodes with an engine    *)
(* install what they wrote.                                                *)
CallsMade ==
  \A c \in Call :
    /\ phase[c] # "idle" => request[c] \in Requests
    /\ outcome[c] = "applied" => phase[c] = "done"
    /\ phase[c] \in {"committed", "building"} => request[c].node \in Presets

(* A planned write is the request applied to the snapshot it names. *)
PlansExact ==
  \A c \in Call :
    /\ phase[c] = "idle" => plan[c] = {}
    /\ phase[c] = "planned" =>
         IF request[c].mode = "flush" THEN plan[c] = {}
         ELSE /\ base[c] \in 1..Len(line)
              /\ plan[c] = Plan(request[c], line[base[c]])

(* Versions that calls, reloads and engines hold were written. *)
VersionsWritten ==
  /\ Len(line) >= 1
  /\ \A c \in Call : commit[c] <= Len(line)
  /\ \A n \in Presets : reload[n] = "building" => loaded[n] \in 1..Len(line)

(* The inductive invariant of the write path. *)
WriteInv == TypeOK /\ CallsMade /\ PlansExact /\ VersionsWritten

(* The application makes one writing call at a time on a node. *)
OneCall ==
  \A c, d \in Call :
    c # d /\ Active(c) /\ Active(d) => request[c].node # request[d].node

(* c has told its node's engine of its write. *)
Announced(c) ==
  /\ request[c] \in Requests
  /\ request[c].node \in Presets
  /\ phase[c] \in {"building", "publishing"} \/ outcome[c] = "applied"

(* A write that will be installed is newer than the earlier ones of its node. *)
InstallsForward ==
  \A c, d \in Call :
    /\ phase[c] \in {"committed", "building"} /\ outcome[d] = "applied"
    /\ request[c].node = request[d].node
    => commit[d] <= commit[c]

(* Neither the engine nor a reload that will be installed is older than a  *)
(* write its node was told of.                                             *)
EnginesForward ==
  \A c \in Call : Announced(c) =>
    LET n == request[c].node IN
    /\ stale[n] \/ served[n] >= commit[c]
    /\ reload[n] = "building" /\ Reloader \in upToDate[n] => loaded[n] >= commit[c]

(* The inductive invariant of nodes that write one call at a time: no      *)
(* order of writes, reloads, polls and invalidations makes an engine older *)
(* than a write of its own node without marking it.                        *)
PresetInv == WriteInv /\ OneCall /\ InstallsForward /\ EnginesForward

(* What is written is always a whole call applied to what was stored just  *)
(* before: no write is computed from a snapshot that another one replaced. *)
WritesWhole ==
  [][\/ line' = line
     \/ \E c \in Call : request[c] # NoRequest /\ line' = Append(line, Plan(request[c], Stored))]_vars

(* A node whose write returned never serves, as up to date, an engine from *)
(* before that write, whatever reloads and invalidations ran beside it.    *)
ReadYourWrites ==
  \A c \in Call :
    LET n == request[c].node IN
    outcome[c] = "applied" /\ n \in Presets => stale[n] \/ served[n] >= commit[c]

(* An engine that is behind and not marked stale is about to be: there is  *)
(* an invalidation to handle or a writer that has yet to send one, unless  *)
(* a message was lost.                                                     *)
Notified ==
  \A n \in Presets :
    subscribed[n] /\ ~stale[n] /\ ~missed[n] /\ served[n] < Len(line) =>
      \/ inbox[n] # {}
      \/ \E c \in Call : phase[c] \in {"committed", "building", "publishing"}

(* With polling, an engine that missed an invalidation for whatever reason *)
(* ends up stale or current, and stays so once nobody writes.              *)
PollerRepairs ==
  <>[](\A n \in Pollers : stale[n] \/ served[n] = Len(line))

(* A reload ends: polls do not make it start over for ever. *)
ReloadEnds == \A n \in Presets : (reload[n] # "idle") ~> (reload[n] = "idle")
=============================================================================
