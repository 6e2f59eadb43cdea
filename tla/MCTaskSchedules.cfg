SPECIFICATION FairSpec
CONSTANTS
  a = a
  b = b
  site = site
  None = None
  Calls = {1, 2}
  UserStops = {}
  StartScheduled = {1}
  StopScheduled = {1}
  TaskIds <- MCTaskIds
  Sites <- MCSites
  Limited <- MCSites
  Limit <- MCLimit
  TaskOf <- MCTaskOf
  SiteOf <- MCSiteOf
  StopIdOf <- MCStopIdOf
INVARIANTS
  OneTerminalStatus
  ArmedTimersReachable
PROPERTIES
  CancelledRunExits
  StopCompletes
CHECK_DEADLOCK FALSE
