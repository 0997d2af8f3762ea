\* A slave, three messages; one transfer may be given up.
CONSTANTS
  s1 = s1
  M = M
  Slave = {s1}
  Board = {M, s1}
  Pins <- SwitchOf
  Scanned <- Addresses
  Command <- Commands
  Length = 8
  RxDepth = 2
  ReadLen = 2
  MaxMsg = 3
  MaxTimeout = 1

SPECIFICATION LiveSpec

INVARIANTS IInv WholeMessages OneMessage AnswerToCommand BytesKept

PROPERTY TransferEnds

CHECK_DEADLOCK FALSE
