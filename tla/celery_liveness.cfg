SPECIFICATION FairSpec
CONSTANTS
  Tasks = {t1}
  Workers = {w1, w2}
  Requests = {}
  None = None
  Outcomes = {"passed", "raised"}
  MaxPublish = 2
  Faults <- Endless
PROPERTIES OrphanIsRecovered SupersededStops
CHECK_DEADLOCK FALSE
