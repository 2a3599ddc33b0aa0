------------------------ MODULE VersionedDictionary ------------------------
(***************************************************************************)
(* What a V3 collection promises its callers: one dictionary with one      *)
(* version, changed by whole operations, each of which takes effect        *)
(* against the dictionary that is active at that moment, and at most once. *)
(* Everything Redis holds to make that true (leases, staged records,       *)
(* receipts, maintenance tokens) is left to VersionedStore, which          *)
(* implements this specification.                                          *)
(***************************************************************************)
EXTENDS VersionedTypes

VARIABLES
  request,     \* the call behind every operation
  version,     \* the active version
  dictionary,  \* the keywords of the active version
  sequence,    \* how many versions were committed
  applied      \* the operations that took effect

dictVars == <<request, version, dictionary, sequence, applied>>

Init ==
  /\ request = [o \in Op |-> NoRequest]
  /\ version = Genesis
  /\ dictionary = InitialWords
  /\ sequence = 1
  /\ applied = {}

Submit(o, r) ==
  /\ request[o] = NoRequest
  /\ request' = [request EXCEPT ![o] = r]
  /\ UNCHANGED <<version, dictionary, sequence, applied>>

(* One operation takes effect: a changed dictionary gets the operation's   *)
(* version and the next sequence number, an unchanged one keeps both.      *)
Write(o) ==
  /\ request[o] # NoRequest
  /\ o \notin applied
  /\ applied' = applied \cup {o}
  /\ dictionary' = Apply(request[o], dictionary)
  /\ IF dictionary' = dictionary
       THEN UNCHANGED <<version, sequence>>
       ELSE version' = o /\ sequence' = sequence + 1
  /\ UNCHANGED request

Next == \E o \in Op : (\E r \in Requests : Submit(o, r)) \/ Write(o)

Spec == Init /\ [][Next]_dictVars
=============================================================================
