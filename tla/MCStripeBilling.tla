-------------------------- MODULE MCStripeBilling --------------------------
(* One buyer who has paid twice, and an invoice of the first purchase, for TLC. *)
EXTENDS StripeBilling

CONSTANTS s1, s2, invoice, buyer

OneBuyer == [s \in Sessions |-> buyer]
FirstPurchase == [e \in Renewals |-> s1]
PeriodEnds == [e \in Renewals |-> 2]
EarlyOrLate == {1, 3}
=============================================================================
