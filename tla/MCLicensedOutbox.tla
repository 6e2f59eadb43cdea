--------------------------- MODULE MCLicensedOutbox ---------------------------
(* One device, two accounts with a token each, one event, for TLC. *)
EXTENDS LicensedOutbox, TLC

CONSTANTS a, b, a1, b1, e1

OwnerOf == (a1 :> a) @@ (b1 :> b)
=============================================================================
