------------------------- MODULE MCVersionedServing -------------------------
(***************************************************************************)
(* Small instances of VersionedServing. One keyword is enough to tell any  *)
(* two consecutive generations apart; the configurations choose the number *)
(* of commits, faults, callers and waiters.                                *)
(***************************************************************************)
EXTENDS VersionedServing
=============================================================================
