-------------------------- MODULE MCMatchEngines --------------------------
(***************************************************************************)
(* MatchEngines for TLC: every dictionary of at most two keywords over two *)
(* runes, and some chosen ones: nested suffixes, an empty keyword, three   *)
(* runes that leave gaps in the double array.                              *)
(***************************************************************************)
EXTENDS MatchEngines

CONSTANTS MaxKeyword  \* bound: length of an enumerated keyword

Words == UNION {[1 .. n -> {1, 3}] : n \in 1 .. MaxKeyword}
Chosen ==
    {{<<1>>, <<1, 1>>, <<1, 1, 1>>},
     {<<1, 3, 1>>, <<3, 1, 3>>, <<1, 3>>, <<3>>},
     {<<>>, <<1>>}, {<<>>},
     {<<1>>, <<3, 2, 1>>, <<3, 1>>, <<2, 3, 2>>}}
MCDictionaries == {{v, w} : v, w \in Words} \cup Chosen
=============================================================================
