-------------------------- MODULE MCTargetCheckout --------------------------
(* Products, settings and watch lists for TLC. *)
EXTENDS TargetCheckout

CONSTANTS p, q

Once == {[filler |-> FALSE, endless |-> FALSE]}
Rounds == {[filler |-> FALSE, endless |-> TRUE], [filler |-> TRUE, endless |-> TRUE]}

Watched == {[x \in Products |-> "watched"]}

\* An edit may drop one product or prefer the other.
TwoLists ==
  {[x \in Products |-> IF x = p THEN "watched" ELSE "no"],
   [x \in Products |-> IF x = q THEN "priority" ELSE "watched"]}
=============================================================================
