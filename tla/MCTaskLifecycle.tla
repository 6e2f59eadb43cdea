--------------------------- MODULE MCTaskLifecycle ---------------------------
(***************************************************************************)
(* Small instances of TaskLifecycle: two starts of one id, the first of    *)
(* them with start and stop schedules, a third call on a second id, and    *)
(* stop-tasks messages for the shared id. One slot per site.               *)
(***************************************************************************)
EXTENDS TaskLifecycle

CONSTANTS a, b, site

MCTaskIds == {a, b}
MCSites == {site}
MCLimit == [s \in {site} |-> 1]

\* Calls 1 and 2 start the same id; call 3 starts another one.
MCTaskOf == [r \in Calls |-> IF r = 3 THEN b ELSE a]
MCSiteOf == [r \in Calls |-> site]
MCStopIdOf == [p \in UserStops |-> a]
=============================================================================
