----------------------------- MODULE SearchOrder -----------------------------
(***************************************************************************)
(* What the search modules take from Go's slices package and from plain    *)
(* loops over integers.                                                    *)
(***************************************************************************)
EXTENDS Integers, Sequences, FiniteSets

(* slices.SortFunc: a set that before orders totally, as a sequence; an    *)
(* element's place is the number of those before it.                       *)
InOrder(S, before(_, _)) ==
  [i \in 1 .. Cardinality(S) |-> CHOOSE m \in S : Cardinality({n \in S : before(n, m)}) = i - 1]

(* The sums of the first elements of a sequence of numbers. *)
Partial(s) ==
  LET sum[i \in 0 .. Len(s)] == IF i = 0 THEN 0 ELSE sum[i - 1] + s[i]
  IN  sum
Sum(s) == Partial(s)[Len(s)]
=============================================================================
