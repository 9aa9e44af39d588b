SPECIFICATION Spec
CONSTANTS
  Tasks = {t1}
  Pods = {p1, p2}
  None = None
  Limit = 0
  Slots = 2
  MaxClaims = 2
  MaxFaults = 1
INVARIANTS TypeOK OnePerPod FencedByEpoch
PROPERTIES SupersededEnds OrphanLeaves
CHECK_DEADLOCK FALSE
