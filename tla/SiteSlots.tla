------------------------------ MODULE SiteSlots ------------------------------
(***************************************************************************)
(* What siteLimits promises: a run asks once for a slot of its site.  It is *)
(* turned away only if the runs that hold one are as many as the limit, and *)
(* it gives its slot back once at most, for others to have.  TaskLifecycle  *)
(* implements this with a counter per site and a flag per run, and with     *)
(* stops that meet the run anywhere.                                        *)
(***************************************************************************)
EXTENDS Naturals, FiniteSets

CONSTANTS
  Runs,
  SiteOf,   \* the site of a run
  Limited,  \* sites with a limit
  Limit

VARIABLE slot  \* of each run: not asked for, held, or done with

Held(s) == {r \in Runs : SiteOf[r] = s /\ slot[r] = "held"}
Full(s) == s \in Limited /\ Cardinality(Held(s)) >= Limit[s]

Becomes(r, from, to) == slot[r] = from /\ slot' = [slot EXCEPT ![r] = to]

Take(r) == ~Full(SiteOf[r]) /\ Becomes(r, "new", "held")
TurnAway(r) == Full(SiteOf[r]) /\ Becomes(r, "new", "over")
GiveBack(r) == Becomes(r, "held", "over")

Init == slot = [r \in Runs |-> "new"]
Next == \E r \in Runs : Take(r) \/ TurnAway(r) \/ GiveBack(r)
Spec == Init /\ [][Next]_slot
=============================================================================
