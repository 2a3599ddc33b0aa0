---------------------------- MODULE MCTextSearch ----------------------------
(***************************************************************************)
(* TextSearch for TLC. Rune 4 is a letter of three bytes that folds to     *)
(* rune 1, as the Kelvin sign folds to k; rune 3 is a space.               *)
(***************************************************************************)
EXTENDS TextSearch

CONSTANTS MaxText  \* bound: length of the enumerated texts

MCFold == <<1, 2, 3, 1>>
MCWidth == <<1, 1, 1, 3>>

MCBreaks == {1, 2, 4} \X {3}

MCEngines ==
  {<< {<<1>>, <<1, 2>>, <<2, 1>>, <<1, 2, 1>>} >>,
   << {<<1, 2>>, <<2>>}, {<<1, 2, 1>>, <<1>>} >>,
   << {<<1, 1>>}, {<<2, 3, 1>>} >>,
   << {} >>}
Words(n) == [1 .. n -> {1, 2, 3}]
MCTexts ==
  UNION {Words(n) : n \in 1 .. MaxText}
    \cup {<<4, 2, 1, 3>>, <<1, 4, 2>>, <<4, 4>>, <<1, 2, 1, 2, 1, 2, 1>>, <<1, 1, 2, 3, 1, 1, 2, 1>>}

Scan(c, l, w, m, cand) ==
  [call |-> c, longest |-> l, word |-> w, sensitive |-> FALSE, matches |-> m, candidates |-> cand,
   input |-> 8, output |-> 6, size |-> 2]
MCScans ==
  {Scan("scan", FALSE, FALSE, 3, 5), Scan("scan", TRUE, FALSE, 2, 9), Scan("scan", TRUE, TRUE, 2, 4),
   Scan("replace", TRUE, FALSE, 3, 9), Scan("mask", TRUE, FALSE, 3, 9),
   Scan("findMatches", TRUE, TRUE, 0, 0), Scan("findMatches", TRUE, FALSE, 0, 0),
   [Scan("scan", FALSE, FALSE, 3, 5) EXCEPT !.sensitive = TRUE]}
MCSplits ==
  [call : {"index"}, auto : {TRUE}, sensitive : {FALSE}, chunk : {1, 2, 4}, overlap : {0, 1}]
    \cup [call : {"find"}, auto : BOOLEAN, sensitive : {FALSE}, chunk : {3}, overlap : {2}]
MCLegacy == [call : {"index"}, auto : {FALSE}, sensitive : {FALSE}, chunk : {4}, overlap : {3}]
=============================================================================
