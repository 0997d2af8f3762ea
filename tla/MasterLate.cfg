CONSTANTS
  NumClients = 1
  Retries = 0
  MaxRetry = 0
  Watched = {}
  Faulty = {}
  Timers = {"REQUEST_WAIT"}
  MaxLate = 1
SPECIFICATION Spec
INVARIANTS JobMessage
