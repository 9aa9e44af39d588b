SPECIFICATION Spec
CONSTANTS
  Tasks = {t1}
  Tries = 2
  MaxFails = 2
  MaxPosts = 3
  MaxFaults = 1
  Bound = TRUE
INVARIANTS RunningIsWorked PendingIsCarried
PROPERTIES ReportEnds
CHECK_DEADLOCK FALSE
