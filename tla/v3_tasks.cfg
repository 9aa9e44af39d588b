SPECIFICATION Spec
CONSTANTS
  Tasks = {t1, t2}
  Workers = {w1, w2}
  None = None
  Outcomes = {"passed"}
  MaxConn = 2
  MaxClaims = 2
  MaxRequeue = 1
  MaxSoft = 1
  Faults <- Pods
SYMMETRY Symmetry
INVARIANTS TypeOK QueueDistinct
PROPERTIES ImplementsTaskDispatch
CHECK_DEADLOCK FALSE
