CONSTANTS
  Jobs = {j1}
  Junk = junk
  BufCap = 6
  ServerSays = {"job"}
  ZeroJobs = {}
  MaxRetry = 1
  Faults = {"read lost"}
  MaxFaults = 1
  MaxReboots = 0
SPECIFICATION LiveSpec
PROPERTY JobGetsResult
