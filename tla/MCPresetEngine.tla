--------------------------- MODULE MCPresetEngine ---------------------------
(***************************************************************************)
(* Calls for checking PresetEngine on two nodes.                           *)
(***************************************************************************)
EXTENDS PresetEngine

CONSTANTS n1, n2, a, b

Call_(mode, words, node) == [mode |-> mode, words |-> words, node |-> node]

(* Two kinds of write of each node. *)
MixedRequests ==
  { Call_("add", {b}, n1), Call_("remove", {a}, n1), Call_("add", {b}, n2),
    Call_("flush", {}, n2) }

(* One batch on each node. *)
AddRequests == { Call_("add", {a}, n1), Call_("add", {b}, n2) }
=============================================================================
