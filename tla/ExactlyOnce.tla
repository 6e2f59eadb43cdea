----------------------------- MODULE ExactlyOnce -----------------------------
(***************************************************************************)
(* What the analytics of Zyn promise of the things a desktop observes: an   *)
(* account counts each at most once, and nothing is counted that does not   *)
(* wait to be counted.  AnalyticsOutbox implements it with retries,         *)
(* restarts and a service that fails half-way.                              *)
(*                                                                         *)
(* An account counts what was observed under it, except for what was        *)
(* diverted: sent under another account than the one that observed it.      *)
(***************************************************************************)
EXTENDS Naturals

CONSTANTS
  Accounts,
  Items

VARIABLES
  observed,  \* all that was observed, with the account that was signed in
  waiting,   \* observations that may still be counted, with the account that would count them
  count      \* how often the service has counted each

Pairs == Accounts \X Items
Counted == {p \in Pairs : count[p] > 0}

Init ==
  /\ observed = {} /\ waiting = {}
  /\ count = [p \in Pairs |-> 0]

\* Something is observed, and others may be given up for it. It waits unless the account has
\* counted it already.
Record(p, lost) ==
  /\ observed' = observed \cup {p}
  /\ waiting' = (waiting \ lost) \cup ({p} \ Counted)
  /\ UNCHANGED count

GiveUp(lost) ==
  /\ waiting' = waiting \ lost
  /\ UNCHANGED <<observed, count>>

\* Observations are sent under account b.
Divert(b, some) ==
  /\ some \subseteq observed
  /\ waiting' = waiting \cup ({<<b, p[2]>> : p \in some} \ Counted)
  /\ UNCHANGED <<observed, count>>

Count(some) ==
  /\ some \subseteq waiting
  /\ waiting' = waiting \ some
  /\ count' = [p \in Pairs |-> IF p \in some THEN count[p] + 1 ELSE count[p]]
  /\ UNCHANGED observed

\* The user deletes what was counted; of that, what is still being sent may wait again.
Erase(a, again) ==
  /\ again \subseteq {p \in Counted : p[1] = a}
  /\ waiting' = waiting \cup again
  /\ count' = [p \in Pairs |-> IF p[1] = a THEN 0 ELSE count[p]]
  /\ UNCHANGED observed

Next ==
  \/ \E p \in Pairs, lost \in SUBSET Pairs : Record(p, lost)
  \/ \E lost \in SUBSET Pairs : GiveUp(lost)
  \/ \E b \in Accounts, some \in SUBSET Pairs : Divert(b, some)
  \/ \E some \in SUBSET Pairs : Count(some)
  \/ \E a \in Accounts, again \in SUBSET Pairs : Erase(a, again)

Spec == Init /\ [][Next]_<<observed, waiting, count>>

\* No account counts anything twice, or that nobody observed, and what is counted does not
\* wait.
CountedOnce ==
  /\ \A p \in Pairs : count[p] \in {0, 1}
  /\ waiting \cap Counted = {}
  /\ \A p \in waiting \cup Counted : \E q \in observed : q[2] = p[2]
=============================================================================
