CONSTANTS
  Jobs = {j1, j2, j3}
  Junk = junk
  BufCap = 6
  ServerSays = {"job", "junk", "bad"}
  ZeroJobs = {j3}
  MaxRetry = 1
  Faults = {"status lost", "job lost", "job cut", "result lost", "read lost"}
  MaxFaults = 1
  MaxReboots = 0
SYMMETRY JobSymmetry
SPECIFICATION Spec
INVARIANTS WholeResult ResultOfLastJob
CHECK_DEADLOCK FALSE
