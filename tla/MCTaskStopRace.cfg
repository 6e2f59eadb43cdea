SPECIFICATION Spec
CONSTANTS
  a = a
  b = b
  site = site
  None = None
  Calls = {1}
  UserStops = {11}
  StartScheduled = {}
  StopScheduled = {}
  TaskIds <- MCTaskIds
  Sites <- MCSites
  Limited <- MCSites
  Limit <- MCLimit
  TaskOf <- MCTaskOf
  SiteOf <- MCSiteOf
  StopIdOf <- MCStopIdOf
INVARIANTS
  StoppedRunsAreCancelled
CHECK_DEADLOCK FALSE
