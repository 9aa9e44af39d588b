SPECIFICATION Spec
CONSTANTS
  Tasks = {t1}
  Workers = {w1, w2}
  Requests = {r1}
  None = None
  Outcomes = {"passed", "failed", "error", "raised"}
  MaxPublish = 1
  Faults <- OneMessage
SYMMETRY Symmetry
INVARIANTS TypeOK
PROPERTIES ResultByClaimant GuardedWritesKeepTerminal NoLiveTakeover OrphanedByKillOnly ImplementsTaskClaim
CHECK_DEADLOCK FALSE
