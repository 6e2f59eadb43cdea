SPECIFICATION FairSpec
CONSTANTS
  p = p
  q = q
  None = None
  PreloadItem = preload
  FillerItem = filler
  Products = {p, q}
  Configs <- Once
  Lists <- TwoLists
  VerifyRetries = 2
  PaymentRetries = 2
  SessionRetries = 0
  FillerRetries = 1
  MaxClock = 1
  MaxOrders = 1
  MaxEdits = 1
INVARIANTS
  DeclineIsTrue
PROPERTIES
  OrdersAreReported
CHECK_DEADLOCK FALSE
