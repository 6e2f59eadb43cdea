SPECIFICATION FairSpec
CONSTANTS
  s1 = s1
  s2 = s2
  invoice = invoice
  buyer = buyer
  None = None
  Unlimited = Unlimited
  Emails = {buyer}
  Sessions = {s1, s2}
  EmailOf <- OneBuyer
  Renewals = {invoice}
  CustomerOf <- FirstPurchase
  Until <- PeriodEnds
  Intro <- EarlyOrLate
  Requests = {r1, r2}
  Pages = {p1}
  MaxFailures = 1
INVARIANTS
  TypeOK
  HandledOnce
  ReceiptOpensAccount
PROPERTIES
  ShownOnce
  PurchaseIsServed
CHECK_DEADLOCK FALSE
