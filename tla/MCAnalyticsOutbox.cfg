SPECIFICATION FairSpec
CONSTANTS
  a = a
  b = b
  e1 = e1
  None = None
  Accounts = {a, b}
  Events = {e1}
  BatchSize = 1
  MaxOutbox = 1
  MaxRestarts = 1
  MaxDeletions = 1
INVARIANTS
  TypeOK
PROPERTIES
  ImplementsOnce
  KeptUntilCounted
  EventsArrive
