SPECIFICATION FairSpec
CONSTANTS
  Tasks = {t1}
  Workers = {w1}
  None = None
  Outcomes = {"passed"}
  MaxConn = 2
  MaxClaims = 2
  MaxRequeue = 1
  MaxSoft = 1
  Faults <- Recovery
PROPERTIES OrphanIsReset PendingIsQueued WorkerIsReleased
CHECK_DEADLOCK FALSE
