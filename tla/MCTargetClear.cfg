SPECIFICATION Spec
CONSTANTS
  p = p
  q = q
  None = None
  PreloadItem = preload
  FillerItem = filler
  Products = {p, q}
  Configs <- Once
  Lists <- TwoLists
  VerifyRetries = 1
  PaymentRetries = 1
  SessionRetries = 0
  FillerRetries = 1
  MaxClock = 2
  MaxOrders = 1
  MaxEdits = 1
PROPERTIES
  ClearedCartIsEmpty
CHECK_DEADLOCK FALSE
