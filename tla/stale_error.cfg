SPECIFICATION Spec
CONSTANTS
  Tasks = {t1}
  Workers = {w1, w2}
  Requests = {r1}
  None = None
  Outcomes = {"passed", "raised"}
  MaxPublish = 1
  Faults <- Redeliveries
SYMMETRY Symmetry
PROPERTIES OnlyClaimantFails
CHECK_DEADLOCK FALSE
