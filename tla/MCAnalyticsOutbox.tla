-------------------------- MODULE MCAnalyticsOutbox --------------------------
(* Two accounts on one desktop, for TLC. *)
EXTENDS AnalyticsOutbox

CONSTANTS a, b, e1
=============================================================================
