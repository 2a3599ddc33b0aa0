------------------------- MODULE MCVersionedShards -------------------------
(***************************************************************************)
(* Two shards and one keyword, at home on the first of them: the second    *)
(* shard takes part in every change of layout with an empty manifest.      *)
(***************************************************************************)
EXTENDS VersionedShards

CONSTANT x

MCBucket == [k \in Keyword |-> 4]

MCRequests ==
  {[mode |-> "add", words |-> {x}], [mode |-> "remove", words |-> {x}]}
=============================================================================
