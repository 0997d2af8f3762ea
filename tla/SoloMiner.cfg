CONSTANTS
  Cores = {core0}
  DhcpCores = {core0}
  Jobs = 4
  MaxLate = 3
  MaxLosses = 3
SPECIFICATION Spec
INVARIANTS SoloInv ResultIsOfJob InStep
PROPERTIES StopsOnlyInConnect NoticesLoss
CHECK_DEADLOCK FALSE
