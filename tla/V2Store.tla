------------------------------- MODULE V2Store -------------------------------
(***************************************************************************)
(* The write path of a V2 collection: every Add, Remove, AddMany,          *)
(* RemoveMany and Flush reads the whole trie, plans its successor, commits *)
(* it by a script that compares versions, retries after a conflict, and    *)
(* publishes an invalidation (pkg/acor/v2_transaction.go, v2_lua.go,       *)
(* v2_plan.go, batch_atomic.go, invalidation.go).                          *)
(*                                                                         *)
(* Versions are fresh random stamps, so a version is the position of what  *)
(* it stamps in the line of all that was ever written. The trie's prefixes *)
(* and the outputs hash are functions of the keywords and are written with *)
(* them by one script.                                                     *)
(*                                                                         *)
(* What a node does between the commit and the publication depends on its  *)
(* local view; PresetEngine adds that.                                     *)
(***************************************************************************)
EXTENDS Naturals, Sequences

CONSTANTS
  Node,        \* instances that opened the collection
  Call,        \* writing calls, each made at most once
  Keyword,     \* normalized keywords
  Existing,    \* the keywords stored when the nodes start
  Requests,    \* the calls an application may make, a subset of RequestType
  NoRequest,   \* stands for the request of a call that was not made
  Serial,      \* whether the application makes one writing call at a time on a node
  MaxRetries,  \* maxRetries
  MaxFaults    \* bound on failed commands and lost replies or messages

RequestType == [mode : {"add", "remove", "flush"}, words : SUBSET Keyword, node : Node]

ASSUME V2Assumption ==
  /\ Existing \subseteq Keyword
  /\ Requests \subseteq RequestType
  /\ NoRequest \notin Requests
  /\ Serial \in BOOLEAN
  /\ MaxRetries \in Nat \ {0}
  /\ MaxFaults \in Nat

VARIABLES
  line,      \* the keywords of every version written; the last one is stored
  request,   \* what each call asks for
  phase,     \* how far it is
  outcome,   \* what it returned
  tries,     \* how many attempts lost the race
  base,      \* the version of the snapshot it read
  plan,      \* the keywords it is about to write
  commit,    \* the version it knows it wrote
  inbox,     \* calls whose invalidation a node's listener is still to handle
  missed,    \* whether something was written that a node is never told of
  faults

storeVars == <<line, faults>>
callVars  == <<request, phase, outcome, tries, base, plan, commit>>
msgVars   == <<inbox, missed>>
v2Vars    == <<storeVars, callVars, msgVars>>

Fault == faults < MaxFaults /\ faults' = faults + 1

(* planAddMany, planRemoveMany and emptyTrieFields. *)
Plan(r, words) ==
  IF r.mode = "add" THEN words \cup r.words
  ELSE IF r.mode = "remove" THEN words \ r.words
  ELSE {}

Stored == line[Len(line)]

Active(c) == phase[c] \notin {"idle", "done"}

V2Init ==
  /\ line = <<Existing>>
  /\ request = [c \in Call |-> NoRequest]
  /\ phase = [c \in Call |-> "idle"]
  /\ outcome = [c \in Call |-> "none"]
  /\ tries = [c \in Call |-> 0]
  /\ base = [c \in Call |-> 0]
  /\ plan = [c \in Call |-> {}]
  /\ commit = [c \in Call |-> 0]
  /\ inbox = [n \in Node |-> {}]
  /\ missed = [n \in Node |-> FALSE]
  /\ faults = 0

-----------------------------------------------------------------------------
(* A call returns, and what it held in its variables is gone. *)
Return(c, what) ==
  /\ phase' = [phase EXCEPT ![c] = "done"]
  /\ outcome' = [outcome EXCEPT ![c] = what]
  /\ tries' = [tries EXCEPT ![c] = 0]
  /\ base' = [base EXCEPT ![c] = 0]
  /\ plan' = [plan EXCEPT ![c] = {}]

(* A flush needs no snapshot. *)
Start(c, r) ==
  /\ phase[c] = "idle"
  /\ Serial => \A d \in Call : Active(d) => request[d].node # r.node
  /\ request' = [request EXCEPT ![c] = r]
  /\ phase' = [phase EXCEPT ![c] = IF r.mode = "flush" THEN "planned" ELSE "reading"]
  /\ UNCHANGED <<storeVars, outcome, tries, base, plan, commit, msgVars>>

(* readTrieSnapshot and a plan that changes nothing: the call returns. *)
ReadUnchanged(c) ==
  /\ phase[c] = "reading"
  /\ Plan(request[c], Stored) = Stored
  /\ Return(c, "unchanged")
  /\ UNCHANGED <<storeVars, request, commit, msgVars>>

(* readTrieSnapshot and a plan to commit. *)
ReadSnapshot(c) ==
  /\ phase[c] = "reading"
  /\ Plan(request[c], Stored) # Stored
  /\ base' = [base EXCEPT ![c] = Len(line)]
  /\ plan' = [plan EXCEPT ![c] = Plan(request[c], Stored)]
  /\ phase' = [phase EXCEPT ![c] = "planned"]
  /\ UNCHANGED <<storeVars, request, outcome, tries, commit, msgVars>>

(* Mutant of Wins: the script does not compare versions. *)
WinsAlways(c) == TRUE

(* The script finds the version of the snapshot. A flush overwrites anything. *)
Wins(c) == request[c].mode = "flush" \/ base[c] = Len(line)

(* v2WriteScript or the pipeline of flushV2Keys is executed and answered;  *)
(* then is what the call's node does next.                                 *)
RunScript(c, then) ==
  /\ phase[c] = "planned"
  /\ Wins(c)
  /\ line' = Append(line, plan[c])
  /\ commit' = [commit EXCEPT ![c] = Len(line) + 1]
  /\ phase' = [phase EXCEPT ![c] = then]
  /\ UNCHANGED <<faults, request, outcome, tries, base, plan, msgVars>>

(* The script refuses, and retryOnConflict starts over ... *)
Conflict(c) ==
  /\ phase[c] = "planned"
  /\ ~Wins(c)
  /\ tries[c] + 1 < MaxRetries
  /\ tries' = [tries EXCEPT ![c] = tries[c] + 1]
  /\ phase' = [phase EXCEPT ![c] = "reading"]
  /\ base' = [base EXCEPT ![c] = 0]
  /\ plan' = [plan EXCEPT ![c] = {}]
  /\ UNCHANGED <<storeVars, request, outcome, commit, msgVars>>

(* ... or gives up. *)
LastConflict(c) ==
  /\ phase[c] = "planned"
  /\ ~Wins(c)
  /\ tries[c] + 1 >= MaxRetries
  /\ Return(c, "conflict")
  /\ UNCHANGED <<storeVars, request, commit, msgVars>>

(* The script wins but its reply is lost. Nobody will be told of this      *)
(* write.                                                                  *)
ReplyLost(c) ==
  /\ phase[c] = "planned"
  /\ Wins(c)
  /\ Fault
  /\ line' = Append(line, plan[c])
  /\ missed' = [n \in Node |-> TRUE]
  /\ UNCHANGED <<request, commit, inbox>>

(* The call returns the error ... *)
ReplyLostFails(c) == ReplyLost(c) /\ Return(c, "failed")

(* ... or the client sends the script again. *)
ReplyLostResends(c) == ReplyLost(c) /\ UNCHANGED <<phase, outcome, tries, base, plan>>

(* A command fails without effect, or the caller's context ends. *)
WriteFails(c) ==
  /\ phase[c] \in {"reading", "planned"}
  /\ Fault
  /\ Return(c, "failed")
  /\ UNCHANGED <<line, request, commit, msgVars>>

(* publishInvalidate: the message reaches the listening nodes unless it is *)
(* lost. The publisher skips its own, or not when it comes too late.       *)
Publish(c, listening) ==
  /\ phase[c] = "publishing"
  /\ \E told \in SUBSET listening :
       /\ IF listening \ {request[c].node} \subseteq told THEN UNCHANGED faults ELSE Fault
       /\ inbox' = [n \in Node |-> IF n \in told THEN inbox[n] \cup {c} ELSE inbox[n]]
       /\ missed' = [n \in Node |-> missed[n] \/ n \notin told \cup {request[c].node}]
  /\ Return(c, "applied")
  /\ UNCHANGED <<line, request, commit>>
=============================================================================
