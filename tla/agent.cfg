SPECIFICATION Spec
CONSTANTS
  Timed = TRUE
  KeyAuthMax = 1
  QueryMax = 1
  OverflowMax = 1
  ActivationMax = 0
  CrashMax = 2
  ApiMax = 1
  PiMax <- Unlimited
  FatalMax <- Unlimited
INVARIANTS TypeOK NothingLeft OneLateProcess
PROPERTIES NoTwoProcesses CancelReturns ReturnsOnceHealthy
