---------------------------- MODULE MCCollection ----------------------------
(***************************************************************************)
(* Collection for TLC: two keywords, one of them written in two ways.      *)
(***************************************************************************)
EXTENDS Collection, TLC

CONSTANTS p1, p2, p3, n1, n2, n3, a, b, b2, spaces

MCAt   == p1 :> n1 @@ p2 :> n2 @@ p3 :> n3
MCNorm == a :> a @@ b :> b @@ b2 :> b @@ spaces :> Blank

Ask(op, raw, how) == [op |-> op, raw |-> raw, how |-> how]
Plain(ops) == {Ask(op, <<>>, "plain") : op \in ops}

(* One goroutine migrates and rolls back, one migrates or flushes, one     *)
(* writes and searches, opened for V2 from the start.                      *)
MCRequests ==
  p1 :> ({Ask("create", <<>>, "v1"), Ask("migrate", <<>>, "keep"), Ask("add", <<b>>, "whole")}
         \cup Plain({"migrate", "rollback", "close"}))
  @@ p2 :> ({Ask("create", <<>>, "v1"), Ask("migrate", <<>>, "dry")} \cup Plain({"migrate", "flush"}))
  @@ p3 :> ({Ask("create", <<>>, "v2cached"), Ask("add", <<b, spaces, b2, a>>, "best"),
             Ask("add", <<spaces>>, "best"), Ask("remove", <<a>>, "single")}
            \cup Plain({"find", "flush"}))

(* Searches on one instance, adds on the other. *)
MCSearchers ==
  p1 :> ({Ask("create", <<>>, "v2cached")} \cup Plain({"find"}))
  @@ p2 :> {Ask("create", <<>>, "v2"), Ask("add", <<a>>, "single")}
  @@ p3 :> {}
=============================================================================
