------------------------- MODULE MCVersionedStore -------------------------
(***************************************************************************)
(* Small instances of VersionedStore: two keywords, and calls chosen so    *)
(* that dictionaries grow, shrink, share chunks and drop them.             *)
(***************************************************************************)
EXTENDS VersionedStore, TLC

CONSTANTS a, b

(* Calls that share no keyword: one adds, one replaces everything. *)
MCClash ==
  {[mode |-> "add", words |-> {a}], [mode |-> "replace", words |-> {b}]}

(* Calls that leave the first dictionary unreferenced, or empty. *)
MCDrop ==
  {[mode |-> "replace", words |-> {b}], [mode |-> "remove", words |-> {a}]}

MCSymmetry == Permutations(Op) \cup Permutations(Snap) \cup Permutations(Pruner)
=============================================================================
