SPECIFICATION SpecBoth
CONSTANTS
  a = a
  b = b
  a1 = a1
  b1 = b1
  e1 = e1
  None = None
  Accounts = {a, b}
  Tokens = {a1, b1}
  Owner <- OwnerOf
  Grace = 1
  MaxInFlight = 1
  MaxRestarts = 0
  Events = {e1}
  BatchSize = 1
  MaxOutbox = 1
  MaxDeletions = 0
INVARIANTS
  StaysWithOwner
