-------------------------------- MODULE Listings --------------------------------
(***************************************************************************)
(* Sets and sequences listed in order: what a sort and a filter of a list  *)
(* give, in a form that facts can be proved about.                         *)
(***************************************************************************)
EXTENDS Integers, FiniteSets

(* The members of S in order, each at the place the number of those below it *)
(* says.                                                                     *)
InOrder(S, below) ==
  [i \in 1..Cardinality(S) |-> CHOOSE x \in S : Cardinality(below[x]) = i - 1]

Ascending(S) == InOrder(S, [x \in S |-> {y \in S : y < x}])

(* The elements of a sequence at some of its places, in their order ...      *)
Picked(seq, places) ==
  LET order == Ascending(places)
  IN  [i \in DOMAIN order |-> seq[order[i]]]

(* ... and those that satisfy a test.                                        *)
Selected(seq, Test(_)) == Picked(seq, {i \in DOMAIN seq : Test(seq[i])})
=============================================================================
