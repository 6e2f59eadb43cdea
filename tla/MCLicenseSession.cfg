SPECIFICATION FairSpec
CONSTANTS
  a = a
  a1 = a1
  a2 = a2
  None = None
  Accounts = {a}
  Tokens = {a1, a2}
  Owner <- OwnerOf
  Grace = 1
  MaxInFlight = 1
  MaxRestarts = 1
INVARIANTS
  TypeOK
  StoredMatchesFile
PROPERTIES
  OfflineWithinGrace
  RevokedSessionEnds
  OutageEnds
