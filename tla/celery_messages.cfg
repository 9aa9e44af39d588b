SPECIFICATION Spec
CONSTANTS
  Tasks = {t1}
  Workers = {w1, w2}
  Requests = {r1}
  None = None
  Outcomes = {"passed", "raised"}
  MaxPublish = 2
  Faults <- TwoMessages
SYMMETRY Symmetry
PROPERTIES ImplementsTaskClaim
CHECK_DEADLOCK FALSE
