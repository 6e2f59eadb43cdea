SPECIFICATION Spec
CONSTANTS
  p = p
  q = q
  None = None
  PreloadItem = preload
  FillerItem = filler
  Products = {p}
  Configs <- Rounds
  Lists <- Watched
  VerifyRetries = 1
  PaymentRetries = 1
  SessionRetries = 0
  FillerRetries = 2
  MaxClock = 1
  MaxOrders = 2
  MaxEdits = 0
INVARIANTS
  TypeOK
PROPERTIES
  ReportNamesOrder
CHECK_DEADLOCK FALSE
