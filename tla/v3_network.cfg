SPECIFICATION Spec
CONSTANTS
  Tasks = {t1}
  Workers = {w1}
  None = None
  Outcomes = {"passed"}
  MaxConn = 2
  MaxClaims = 2
  MaxRequeue = 1
  MaxSoft = 1
  Faults <- Network
INVARIANTS OneProcess
PROPERTIES ImplementsTaskDispatch
CHECK_DEADLOCK FALSE
