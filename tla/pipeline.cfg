SPECIFICATION Spec
CONSTANTS
  Files = {f1, f2}
  Modules = {a, b}
  Judges = {j1, j2}
  Threads = 2
  Configs <- Settings
  None = None
  Fates = {{}, {b}, {"deleted"}, {a, "deleted"}}
  RoundCap = 2
INVARIANTS TypeOK EndsWithReport FatalFails FilesAccounted
PROPERTIES CancelEnds
CHECK_DEADLOCK FALSE
