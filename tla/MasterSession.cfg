CONSTANTS
  NumClients = 2
  Retries = 1
  MaxRetry = 1
  Watched = {1}
  Faulty = {1}
  Timers = {"CONNECT_WAIT"}
  MaxLate = 0
SPECIFICATION LiveSpec
INVARIANTS IInv JobIsAnswer ResultAsWritten InStep
PROPERTIES Reconnects
