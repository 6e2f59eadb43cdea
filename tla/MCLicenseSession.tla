-------------------------- MODULE MCLicenseSession --------------------------
(* One account that may sign in twice, for TLC. *)
EXTENDS LicenseSession

CONSTANTS a, a1, a2

OwnerOf == [t \in Tokens |-> a]
=============================================================================
