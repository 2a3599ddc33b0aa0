-------------------------- MODULE VersionedServing --------------------------
(***************************************************************************)
(* How one VersionedCollection serves a V3 dictionary: OpenVersioned, the  *)
(* refresh loop, WaitForVersion, the table of leases and Close, from       *)
(* pkg/acor/versioned.go, versioned_reuse.go and versioned_snapshot.go.    *)
(*                                                                         *)
(* The collection's dictionary is the line of committed generations that   *)
(* VersionedStore establishes. A version is identified with its sequence   *)
(* number. A generation never changes and its chunks are named by their    *)
(* content, so a read yields the generation's keywords or an error.        *)
(*                                                                         *)
(* Goroutines: the refresher (refreshLoop, and before it OpenVersioned's   *)
(* own call of refresh), renewLoop, callers that take leases (Snapshot and *)
(* the writing calls), callers of WaitForVersion, and Close. Each action   *)
(* is one Redis command or one critical section with what follows it.      *)
(***************************************************************************)
EXTENDS Naturals, Sequences

CONSTANTS
  Keyword,     \* normalized keywords, each alone in its bucket
  Caller,      \* calls that take a lease, each made at most once
  Waiter,      \* calls of WaitForVersion
  Refresher,   \* the lease of the refresh under way
  MaxCommits,  \* bound on the number of committed generations
  MaxFaults    \* bound on failed commands, lapsed leases and maintenance periods

ASSUME ServingAssumption ==
  /\ Refresher \notin Caller
  /\ MaxCommits \in Nat \ {0}
  /\ MaxFaults \in Nat

VARIABLES
  \* Redis and the network
  line,           \* the keywords of every committed generation; the last one is active
  maintenance,    \* whether a maintenance token is in place
  leases,         \* members of the leases ZSET with a future deadline
  faults,         \* how many faults there were
  \* the collection
  life,           \* how far OpenVersioned and Close are
  current,        \* sequence number of the installed engine, 0 when there is none
  engine,         \* its keywords
  held,           \* v.leases
  toClose,        \* leases that Close is still to release
  orphans,        \* leases whose acquire reply or ZREM was lost
  wake,           \* whether v.wake is full
  event,          \* whether the subscription's channel holds a message
  renewing,       \* whether renewLoop runs
  \* status
  activeVersion, servingVersion, building, lastError,
  \* the refresher
  loop,           \* where it is
  pin,            \* the generation its snapshot pinned
  built,          \* the keywords of the candidate it built
  succeeded,      \* the outcome it is about to report
  \* callers
  acquiring,      \* where each lease is on its way through acquire
  waiting, target \* where each call of WaitForVersion is, and what it waits for

redisVars  == <<line, maintenance, leases, faults>>
notifyVars == <<wake, event>>
engineVars == <<current, engine>>
leaseVars  == <<held, orphans>>
statusVars == <<activeVersion, servingVersion, building, lastError>>
jobVars    == <<pin, built, succeeded>>
waitVars   == <<waiting, target>>
vars == <<redisVars, life, engineVars, leaseVars, toClose, notifyVars, renewing,
          statusVars, loop, jobVars, acquiring, waitVars>>

Lease == Caller \cup {Refresher}

(* Close has set v.closed. It cancels v.ctx right after, so from here on a *)
(* command or a check of another goroutine may fail or still go through.   *)
Closed == life \in {"closing", "releasing", "closed"}

(* The client refuses commands after client.Close. *)
Connected == life # "closed"

Fault == faults < MaxFaults /\ faults' = faults + 1

(* initialize has created or found the collection. *)
Init ==
  /\ line \in {<<w>> : w \in SUBSET Keyword}
  /\ maintenance = FALSE
  /\ leases = {}
  /\ faults = 0
  /\ life = "opening"
  /\ current = 0
  /\ engine = {}
  /\ held = {}
  /\ toClose = {}
  /\ orphans = {}
  /\ wake = FALSE
  /\ event = FALSE
  /\ renewing = TRUE
  /\ activeVersion = 0
  /\ servingVersion = 0
  /\ building = FALSE
  /\ lastError = FALSE
  /\ loop = "check"
  /\ pin = 0
  /\ built = {}
  /\ succeeded = FALSE
  /\ acquiring = [c \in Caller |-> "idle"]
  /\ waiting = [w \in Waiter |-> "idle"]
  /\ target = [w \in Waiter |-> 0]

-----------------------------------------------------------------------------
(***************************************************************************)
(* The world around the collection.                                        *)
(***************************************************************************)

(* Some client commits a change. Its PUBLISH may be lost on the way to this *)
(* collection, which is not subscribed before its loop runs; a commit of   *)
(* this collection's own ends in signal().                                 *)
Commit(w, own) ==
  /\ Len(line) < MaxCommits
  /\ w # line[Len(line)]
  /\ own => life \notin {"opening", "closed"}
  /\ ~maintenance
  /\ line' = Append(line, w)
  /\ event' \in {event, event \/ life = "serving"}
  /\ wake' = (wake \/ own)
  /\ UNCHANGED <<maintenance, leases, faults, life, engineVars, leaseVars, toClose,
                 renewing, statusVars, loop, jobVars, acquiring, waitVars>>

(* Prune, by any client. *)
MaintenanceStarts ==
  /\ ~maintenance
  /\ Fault
  /\ maintenance' = TRUE
  /\ UNCHANGED <<line, leases, life, engineVars, leaseVars, toClose, notifyVars,
                 renewing, statusVars, loop, jobVars, acquiring, waitVars>>

MaintenanceEnds ==
  /\ maintenance
  /\ maintenance' = FALSE
  /\ UNCHANGED <<line, leases, faults, life, engineVars, leaseVars, toClose, notifyVars,
                 renewing, statusVars, loop, jobVars, acquiring, waitVars>>

(* A lease reaches its deadline: renewals came too late or not at all. *)
Expire(l) ==
  /\ l \in leases
  /\ Fault
  /\ leases' = leases \ {l}
  /\ UNCHANGED <<line, maintenance, life, engineVars, leaseVars, toClose, notifyVars,
                 renewing, statusVars, loop, jobVars, acquiring, waitVars>>

-----------------------------------------------------------------------------
(***************************************************************************)
(* Leases.                                                                 *)
(***************************************************************************)

(* l.close takes the lease off the table and sends its ZREM. That is lost  *)
(* in a fault, and may be when Close cancels the context or closes the     *)
(* client first (droppable).                                               *)
Release(l, droppable) ==
  /\ held' = held \ {l}
  /\ \/ /\ Connected
        /\ leases' = leases \ {l}
        /\ UNCHANGED <<orphans, faults>>
     \/ /\ IF droppable THEN UNCHANGED faults ELSE Fault
        /\ orphans' = orphans \cup {l}
        /\ UNCHANGED leases

(* The acquire script adds the lease; its reply is lost in a fault. *)
Granted(l) ==
  /\ Connected /\ ~maintenance
  /\ leases' = leases \cup {l}

GrantLost(l) ==
  /\ Granted(l)
  /\ Fault
  /\ orphans' = orphans \cup {l}

(* acquire for a caller: the check, ... *)
AcquireCheck(c) ==
  /\ acquiring[c] = "idle"
  /\ life # "opening"
  /\ acquiring' = [acquiring EXCEPT ![c] = IF Closed THEN "failed" ELSE "checked"]
  /\ UNCHANGED <<redisVars, life, engineVars, leaseVars, toClose, notifyVars, renewing,
                 statusVars, loop, jobVars, waitVars>>

(* ... the script, refused during maintenance, ... *)
AcquireLease(c) ==
  /\ acquiring[c] = "checked"
  /\ \/ /\ Granted(c)
        /\ acquiring' = [acquiring EXCEPT ![c] = "granted"]
        /\ UNCHANGED <<orphans, faults>>
     \/ /\ GrantLost(c)
        /\ acquiring' = [acquiring EXCEPT ![c] = "failed"]
     \/ /\ maintenance \/ Closed
        /\ acquiring' = [acquiring EXCEPT ![c] = "failed"]
        /\ UNCHANGED <<leases, orphans, faults>>
  /\ UNCHANGED <<line, maintenance, life, engineVars, held, toClose, notifyVars,
                 renewing, statusVars, loop, jobVars, waitVars>>

(* Mutant of AcquireRegister: v.closed is not looked at again. *)
AcquireRegisterBlind(c) ==
  /\ acquiring[c] = "granted"
  /\ acquiring' = [acquiring EXCEPT ![c] = "held"]
  /\ held' = held \cup {c}
  /\ UNCHANGED <<orphans, redisVars, life, engineVars, toClose, notifyVars, renewing,
                 statusVars, loop, jobVars, waitVars>>

(* Mutant of AcquireRegister: the refused lease is not released. *)
AcquireRegisterLeak(c) ==
  /\ acquiring[c] = "granted"
  /\ acquiring' = [acquiring EXCEPT ![c] = IF Closed THEN "failed" ELSE "held"]
  /\ held' = IF Closed THEN held ELSE held \cup {c}
  /\ UNCHANGED <<orphans, redisVars, life, engineVars, toClose, notifyVars, renewing,
                 statusVars, loop, jobVars, waitVars>>

(* ... and the registration, which looks at v.closed under the lock. *)
AcquireRegister(c) ==
  /\ acquiring[c] = "granted"
  /\ IF Closed
       THEN /\ acquiring' = [acquiring EXCEPT ![c] = "failed"]
            /\ Release(c, Closed)
       ELSE /\ acquiring' = [acquiring EXCEPT ![c] = "held"]
            /\ held' = held \cup {c}
            /\ UNCHANGED <<leases, orphans, faults>>
  /\ UNCHANGED <<line, maintenance, life, engineVars, toClose, notifyVars, renewing,
                 statusVars, loop, jobVars, waitVars>>

(* The caller closes its snapshot or its call returns. *)
CallerReleases(c) ==
  /\ acquiring[c] = "held"
  /\ acquiring' = [acquiring EXCEPT ![c] = "released"]
  /\ Release(c, Closed)
  /\ UNCHANGED <<line, maintenance, life, engineVars, toClose, notifyVars, renewing,
                 statusVars, loop, jobVars, waitVars>>

-----------------------------------------------------------------------------
(***************************************************************************)
(* refreshLoop and refresh.                                                *)
(***************************************************************************)

Goto(there) ==
  /\ loop' = there
  /\ UNCHANGED <<life, toClose, renewing, acquiring, waitVars>>

(* Mutant of SelectTick: nobody polls. *)
SelectTickNever == FALSE /\ UNCHANGED vars

(* The select of the loop: the poll ticker, ... *)
SelectTick ==
  /\ loop = "select"
  /\ Goto("debounce")
  /\ UNCHANGED <<redisVars, engineVars, leaseVars, notifyVars, statusVars, jobVars>>

(* ... a wake-up or a message. *)
SelectNotified ==
  /\ loop = "select"
  /\ \/ wake /\ wake' = FALSE /\ UNCHANGED event
     \/ event /\ event' \in BOOLEAN /\ UNCHANGED wake
  /\ Goto("debounce")
  /\ UNCHANGED <<redisVars, engineVars, leaseVars, statusVars, jobVars>>

(* The debounce timer fires; what was buffered meanwhile is drained. *)
Debounced ==
  /\ loop = "debounce"
  /\ wake' = FALSE
  /\ event' = FALSE
  /\ Goto("check")
  /\ UNCHANGED <<redisVars, engineVars, leaseVars, statusVars, jobVars>>

(* Mutant of Finish: an error is not recorded. *)
FinishQuiet(ok) ==
  /\ lastError' = (lastError /\ ~ok)
  /\ IF life = "opening"
       THEN IF ok THEN life' = "serving" /\ loop' = "select"
                  ELSE life' = "closing" /\ loop' = "stopped"
       ELSE loop' = "select" /\ UNCHANGED life
  /\ UNCHANGED <<toClose, renewing, acquiring, waitVars>>

(* refresh returns and recordRefreshResult stores the outcome, unless the  *)
(* context is canceled already. OpenVersioned starts the loop after a       *)
(* success and closes the collection after a failure.                      *)
Finish(ok) ==
  /\ \/ lastError' = ~ok
     \/ Closed /\ UNCHANGED lastError
  /\ IF life = "opening"
       THEN IF ok THEN life' = "serving" /\ loop' = "select"
                  ELSE life' = "closing" /\ loop' = "stopped"
       ELSE loop' = "select" /\ UNCHANGED life
  /\ UNCHANGED <<toClose, renewing, acquiring, waitVars>>

RefreshCheck ==
  /\ loop = "check"
  /\ IF Closed
       THEN Finish(FALSE)
       ELSE Goto("active") /\ UNCHANGED lastError
  /\ UNCHANGED <<redisVars, engineVars, leaseVars, notifyVars, activeVersion,
                 servingVersion, building, jobVars>>

(* GET active: an engine that is up to date needs nothing. *)
RefreshActive ==
  /\ loop = "active"
  /\ activeVersion' = Len(line)
  /\ IF current = Len(line)
       THEN Finish(TRUE)
       ELSE Goto("acquire") /\ UNCHANGED lastError
  /\ UNCHANGED <<redisVars, engineVars, leaseVars, notifyVars, servingVersion, building,
                 jobVars>>

(* Snapshot: the acquire script pins what is active now. *)
RefreshAcquire ==
  /\ loop = "acquire"
  /\ Granted(Refresher)
  /\ orphans' = orphans \ {Refresher}
  /\ pin' = Len(line)
  /\ Goto("granted")
  /\ UNCHANGED <<line, maintenance, faults, engineVars, held, notifyVars, statusVars,
                 built, succeeded>>

(* The lease is registered, or given up when Close came first. *)
RefreshRegister ==
  /\ loop = "granted"
  /\ IF Closed
       THEN Release(Refresher, TRUE) /\ Finish(FALSE)
       ELSE /\ held' = held \cup {Refresher}
            /\ Goto("manifest")
            /\ UNCHANGED <<leases, orphans, faults, lastError>>
  /\ UNCHANGED <<line, maintenance, engineVars, notifyVars, activeVersion,
                 servingVersion, building, jobVars>>

(* Mutant of RefreshManifest: status keeps the version of the first GET. *)
RefreshManifestOldStatus ==
  /\ loop = "manifest"
  /\ building' = TRUE
  /\ Goto("build")
  /\ UNCHANGED <<redisVars, engineVars, leaseVars, notifyVars, activeVersion,
                 servingVersion, lastError, jobVars>>

(* The manifest of the pinned generation is read; a build starts unless    *)
(* that generation is installed already.                                   *)
RefreshManifest ==
  /\ loop = "manifest"
  /\ activeVersion' = pin
  /\ IF current = pin
       THEN /\ succeeded' = TRUE
            /\ Goto("release")
            /\ UNCHANGED building
       ELSE /\ building' = TRUE
            /\ Goto("build")
            /\ UNCHANGED succeeded
  /\ UNCHANGED <<redisVars, engineVars, leaseVars, notifyVars, servingVersion, lastError,
                 pin, built>>

(* Mutant of BucketWords: every bucket of the installed engine is reused. *)
BucketWordsReused(k) ==
  IF current # 0 THEN engine \cap {k} ELSE line[pin] \cap {k}

(* engineBuckets: a bucket that the installed generation's manifest        *)
(* describes alike is taken from the engine, the others are read.          *)
BucketWords(k) ==
  IF current # 0 /\ (k \in line[current] <=> k \in line[pin])
    THEN engine \cap {k}
    ELSE line[pin] \cap {k}

RefreshBuild ==
  /\ loop = "build"
  /\ built' = UNION {BucketWords(k) : k \in Keyword}
  /\ Goto("verify")
  /\ UNCHANGED <<redisVars, engineVars, leaseVars, notifyVars, statusVars, pin,
                 succeeded>>

(* The last checks: the lease is live in Redis, and nobody called Close.   *)
RefreshVerify ==
  /\ loop = "verify"
  /\ IF Refresher \in leases /\ ~Closed
       THEN Goto("install") /\ UNCHANGED succeeded
       ELSE Goto("release") /\ succeeded' = FALSE
  /\ UNCHANGED <<redisVars, engineVars, leaseVars, notifyVars, statusVars, pin, built>>

RefreshInstall ==
  /\ loop = "install"
  /\ current' = pin
  /\ engine' = built
  /\ servingVersion' = pin
  /\ lastError' = FALSE
  /\ succeeded' = TRUE
  /\ Goto("release")
  /\ UNCHANGED <<redisVars, leaseVars, notifyVars, activeVersion, building, pin, built>>

(* The deferred calls of refresh: the snapshot is closed with the context  *)
(* of the refresh, which Close has canceled if it was called.              *)
RefreshRelease ==
  /\ loop = "release"
  /\ building' = FALSE
  /\ Release(Refresher, Closed)
  /\ Finish(succeeded)
  /\ UNCHANGED <<line, maintenance, engineVars, notifyVars, activeVersion,
                 servingVersion, jobVars>>

(* Mutant of RefreshFails: the installed engine is dropped. *)
RefreshFailsDropping ==
  /\ loop \in {"active", "acquire"}
  /\ IF Closed THEN UNCHANGED faults ELSE Fault
  /\ Finish(FALSE)
  /\ current' = 0 /\ engine' = {}
  /\ UNCHANGED <<line, maintenance, leases, leaseVars, notifyVars, activeVersion,
                 servingVersion, building, jobVars>>

(* A Redis command of refresh fails, is refused during maintenance, or     *)
(* finds its context canceled. The engine in place goes on serving.        *)
RefreshFails ==
  /\ \/ /\ IF Closed \/ (loop = "acquire" /\ maintenance) THEN UNCHANGED faults ELSE Fault
        /\ UNCHANGED <<leases, orphans>>
     \/ loop = "acquire" /\ GrantLost(Refresher)
  /\ \/ /\ loop \in {"active", "acquire"}
        /\ Finish(FALSE)
        /\ UNCHANGED succeeded
     \/ /\ loop \in {"manifest", "build", "verify"}
        /\ succeeded' = FALSE
        /\ Goto("release")
        /\ UNCHANGED lastError
  /\ UNCHANGED <<line, maintenance, engineVars, held, notifyVars, activeVersion,
                 servingVersion, building, pin, built>>

(* Mutant of LoopStops: the loop does not watch the context. *)
LoopStopsNever == FALSE /\ UNCHANGED vars

(* Both selects of the loop watch the canceled context. *)
LoopStops ==
  /\ loop \in {"select", "debounce"}
  /\ Closed
  /\ Goto("stopped")
  /\ UNCHANGED <<redisVars, engineVars, leaseVars, notifyVars, statusVars, jobVars>>

-----------------------------------------------------------------------------
(***************************************************************************)
(* WaitForVersion.                                                         *)
(***************************************************************************)

(* The call reads the sequence number of a committed version, and signals. *)
WaitStart(w, n) ==
  /\ waiting[w] = "idle"
  /\ life # "opening" /\ Connected
  /\ n \in 1..Len(line)
  /\ waiting' = [waiting EXCEPT ![w] = "waiting"]
  /\ target' = [target EXCEPT ![w] = n]
  /\ wake' = TRUE
  /\ UNCHANGED <<redisVars, life, engineVars, leaseVars, toClose, event, renewing,
                 statusVars, loop, jobVars, acquiring>>

WaitEnd(w, how) ==
  /\ waiting[w] = "waiting"
  /\ waiting' = [waiting EXCEPT ![w] = how]
  /\ UNCHANGED <<redisVars, life, engineVars, leaseVars, toClose, notifyVars, renewing,
                 statusVars, loop, jobVars, acquiring, target>>

WaitReturns(w) == current >= target[w] /\ WaitEnd(w, "done")

(* Mutant of WaitClosed: only the caller's own context is watched. *)
WaitClosedNever(w) == FALSE /\ WaitEnd(w, "closed")

WaitClosed(w) == Closed /\ WaitEnd(w, "closed")

WaitCanceled(w) == WaitEnd(w, "canceled")

-----------------------------------------------------------------------------
(***************************************************************************)
(* renewLoop and Close.                                                    *)
(***************************************************************************)

RenewStops ==
  /\ renewing /\ Closed
  /\ renewing' = FALSE
  /\ UNCHANGED <<redisVars, life, engineVars, leaseVars, toClose, notifyVars, statusVars,
                 loop, jobVars, acquiring, waitVars>>

Close ==
  /\ life = "serving"
  /\ life' = "closing"
  /\ UNCHANGED <<redisVars, engineVars, leaseVars, toClose, notifyVars, renewing,
                 statusVars, loop, jobVars, acquiring, waitVars>>

(* Mutant of CloseWaited: wg.Wait is missing. *)
CloseNotWaited ==
  /\ life = "closing"
  /\ current' = 0 /\ engine' = {} /\ toClose' = held /\ life' = "releasing"
  /\ UNCHANGED <<redisVars, leaseVars, notifyVars, renewing, statusVars, loop, jobVars,
                 acquiring, waitVars>>

(* wg.Wait returns; the engine goes and the table of leases is copied. *)
CloseWaited ==
  /\ life = "closing"
  /\ loop = "stopped" /\ ~renewing
  /\ current' = 0
  /\ engine' = {}
  /\ toClose' = held
  /\ life' = "releasing"
  /\ UNCHANGED <<redisVars, leaseVars, notifyVars, renewing, statusVars, loop, jobVars,
                 acquiring, waitVars>>

CloseLease(l) ==
  /\ life = "releasing" /\ l \in toClose
  /\ toClose' = toClose \ {l}
  /\ Release(l, FALSE)
  /\ UNCHANGED <<line, maintenance, life, engineVars, notifyVars, renewing, statusVars,
                 loop, jobVars, acquiring, waitVars>>

CloseClient ==
  /\ life = "releasing" /\ toClose = {}
  /\ life' = "closed"
  /\ UNCHANGED <<redisVars, engineVars, leaseVars, toClose, notifyVars, renewing,
                 statusVars, loop, jobVars, acquiring, waitVars>>

-----------------------------------------------------------------------------
RefreshNext ==
  \/ SelectTick \/ SelectNotified \/ Debounced
  \/ RefreshCheck \/ RefreshActive \/ RefreshAcquire \/ RefreshRegister
  \/ RefreshManifest \/ RefreshBuild \/ RefreshVerify \/ RefreshInstall
  \/ RefreshRelease \/ RefreshFails

CloseNext == CloseWaited \/ (\E l \in Lease : CloseLease(l)) \/ CloseClient

CallerNext(c) ==
  AcquireCheck(c) \/ AcquireLease(c) \/ AcquireRegister(c) \/ CallerReleases(c)

WaiterNext(w) ==
  \/ \E n \in 1..MaxCommits : WaitStart(w, n)
  \/ WaitReturns(w) \/ WaitClosed(w) \/ WaitCanceled(w)

RedisNext ==
  \/ \E w \in SUBSET Keyword, own \in BOOLEAN : Commit(w, own)
  \/ MaintenanceStarts \/ MaintenanceEnds
  \/ \E l \in Lease : Expire(l)

Next ==
  \/ RedisNext
  \/ RefreshNext \/ LoopStops
  \/ RenewStops \/ Close \/ CloseNext
  \/ \E c \in Caller : CallerNext(c)
  \/ \E w \in Waiter : WaiterNext(w)

Spec == Init /\ [][Next]_vars

(* Goroutines run, the ticker ticks and maintenance ends (its key has a    *)
(* lifetime). A select picks at random among its ready cases, so it does   *)
(* not pass over a canceled context for ever. Faults are finitely many.    *)
(* Nobody has to commit, call, cancel or close.                            *)
Fairness ==
  /\ WF_vars(RefreshNext)
  /\ SF_vars(LoopStops)
  /\ WF_vars(RenewStops)
  /\ WF_vars(CloseNext)
  /\ WF_vars(MaintenanceEnds)
  /\ \A w \in Waiter : WF_vars(WaitReturns(w)) /\ WF_vars(WaitClosed(w))

FairSpec == Spec /\ Fairness

-----------------------------------------------------------------------------
(* Every variable holds values of its kind. *)
TypeOK ==
  /\ line \in Seq(SUBSET Keyword)
  /\ maintenance \in BOOLEAN
  /\ leases \in SUBSET Lease
  /\ faults \in Nat
  /\ life \in {"opening", "serving", "closing", "releasing", "closed"}
  /\ current \in Nat
  /\ engine \in SUBSET Keyword
  /\ held \in SUBSET Lease
  /\ toClose \in SUBSET Lease
  /\ orphans \in SUBSET Lease
  /\ wake \in BOOLEAN
  /\ event \in BOOLEAN
  /\ renewing \in BOOLEAN
  /\ activeVersion \in Nat
  /\ servingVersion \in Nat
  /\ building \in BOOLEAN
  /\ lastError \in BOOLEAN
  /\ loop \in {"select", "debounce", "check", "active", "acquire", "granted", "manifest",
               "build", "verify", "install", "release", "stopped"}
  /\ pin \in Nat
  /\ built \in SUBSET Keyword
  /\ succeeded \in BOOLEAN
  /\ acquiring \in [Caller -> {"idle", "checked", "granted", "held", "released", "failed"}]
  /\ waiting \in [Waiter -> {"idle", "waiting", "done", "closed", "canceled"}]
  /\ target \in [Waiter -> Nat]

(* What is served is one whole committed generation, although its engine   *)
(* mixes buckets of the previous engine with buckets read from Redis.      *)
ServingExact == current # 0 => current <= Len(line) /\ engine = line[current]

(* Read-after-write: once WaitForVersion returned, searches see the        *)
(* version waited for, through every later refresh, failed or not.         *)
WaitKept == \A w \in Waiter : waiting[w] = "done" /\ ~Closed => current >= target[w]

(* Status never shows a served version newer than the active one it shows, *)
(* nor one that is not committed.                                          *)
StatusOrdered == servingVersion <= activeVersion /\ activeVersion <= Len(line)

(* Between two refreshes a status without an error means that the version  *)
(* last seen active is served: readiness is derived from LastError.        *)
StatusHonest ==
  life = "serving" /\ loop = "select" /\ ~lastError => servingVersion = activeVersion

(* Every lease in Redis is on the table of the collection, on its way      *)
(* there, or was given up with a reply or a ZREM that did not arrive.      *)
LeaseAccounted ==
  \A l \in leases :
    \/ l \in held \cup orphans
    \/ l \in Caller /\ acquiring[l] = "granted"
    \/ l = Refresher /\ loop = "granted"

(* Close leaves no engine, no goroutine and no lease on the table, however *)
(* it raced a refresh or an acquire.                                       *)
NothingAfterClose ==
  life = "closed" => current = 0 /\ held = {} /\ loop = "stopped" /\ ~renewing

(* The refresh under way works on a committed generation that is not older *)
(* than the one installed, and its candidate is that generation.           *)
JobInv ==
  /\ loop \in {"granted", "manifest", "build", "verify", "install"} =>
       1 <= pin /\ pin <= Len(line) /\ current <= pin
  /\ loop \in {"build", "verify", "install"} => activeVersion = pin
  /\ loop \in {"verify", "install"} => built = line[pin]
  /\ loop = "release" /\ succeeded => servingVersion = activeVersion

(* How far Close is, and what is over by then. *)
LifeInv ==
  /\ Len(line) >= 1
  /\ life \in {"releasing", "closed"} => current = 0 /\ loop = "stopped" /\ ~renewing
  /\ life \notin {"releasing", "closed"} => current = servingVersion
  /\ life \in {"releasing", "closed"} => held \subseteq toClose
  /\ life = "closed" => toClose = {}
  /\ life = "opening" => loop \notin {"select", "debounce", "stopped"}
  /\ life = "serving" => loop # "stopped"

(* All of it is preserved by every step: what the refresher is about to    *)
(* install, what status shows and what Close still has to do fit together. *)
ServingInv ==
  /\ TypeOK
  /\ JobInv
  /\ LifeInv
  /\ ServingExact
  /\ WaitKept
  /\ StatusOrdered
  /\ StatusHonest
  /\ LeaseAccounted
  /\ NothingAfterClose

(* Every commit is served in the end, though messages and wake-ups are     *)
(* lost and refreshes fail, unless the collection is closed: no generation *)
(* is committed and waits to be served for ever.                           *)
CatchesUp ==
  \A n \in 1..MaxCommits : []<>(Len(line) >= n => current >= n \/ Closed)

(* WaitForVersion returns, also when the collection is closed meanwhile:   *)
(* nobody waits for ever.                                                  *)
WaitEnds == \A w \in Waiter : []<>(waiting[w] # "waiting")

(* Close returns: nothing it waits for waits for something else, so that   *)
(* the collection does not stay half closed for ever.                      *)
CloseReturns == []<>(life \notin {"closing", "releasing"})
=============================================================================
