CONSTANTS
  Hosts = {"pool", "broker"}
  DnsSocket = 3
  SocketOf <- MCSockets
  DnsSays = {"address", "error", "name too long"}
  Verifies = {"mqtt"}
  Presents = {"mqtt"}
  BufMax = 1
  MaxBody = 2
  Word = 8
  Subscriptions = 3
  MaxSubscribes = 4
  MaxCalls = 2
SPECIFICATION LiveSpec
INVARIANTS HttpCanBeCalled RightHost BodyIsAnswer SendsOverSession HeldOnlyAfterFailure
PROPERTIES CallReturns
CHECK_DEADLOCK FALSE
