SPECIFICATION Spec
CONSTANTS
  a = a
  b = b
  c = c
  f1 = f1
  f2 = f2
  Files = {f1, f2}
  Filtered = {f1, f2}
  Modules = {a, b, c}
  Workers = {w1, w2}
  Stop = Stop
  Start <- Begin
  PathIn <- Paths
  MinRounds = 1
  MaxRounds = 2
  TreatAsPassed = FALSE
  SoftFailures = TRUE
  Places = {"keep", "retain", "split", "merge", "delete", "lose"}
  MaxPlans = 2
SYMMETRY Symmetry
INVARIANTS TypeOK NothingLost PassedIsCommitted
