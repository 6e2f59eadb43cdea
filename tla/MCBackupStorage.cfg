SPECIFICATION FairSpec
CONSTANTS
  None = None
  Backups = {b1, b2}
  Requests = {r1, r2}
  Retention = 1
  Grace = 1
  MaxFailures = 1
INVARIANTS
  TypeOK
  AcknowledgedIsKept
  DeletedIsGone
  RetentionHolds
PROPERTIES
  StoresAgree
CHECK_DEADLOCK FALSE
