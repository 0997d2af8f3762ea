CONSTANTS
  Jobs = {j1, j2}
  Junk = junk
  BufCap = 6
  ServerSays = {"job"}
  ZeroJobs = {}
  MaxRetry = 1
  Faults = {"read lost", "job lost"}
  MaxFaults = 1
  MaxReboots = 1
SYMMETRY JobSymmetry
SPECIFICATION Spec
INVARIANTS IInv NoRace OneJobAtATime
PROPERTY IsHashWorker
