SPECIFICATION FairSpec
CONSTANTS
  g1 = g1
  g2 = g2
  None = None
  Groups = {g1, g2}
  GroupOrder <- TwoGroups
  Schedules <- Windows
  Horizon = 3
  MaxEdits = 1
  CatchUp = 1
  RetryDelay = 1
  MaxTimeout = 1
  Remote = TRUE
INVARIANTS
  TypeOK
  StartStaysArmed
  StopStaysArmed
  PausedIsSilent
  SignedOutIdle
PROPERTIES
  LaunchesAreDue
  StopBoundaryCloses
