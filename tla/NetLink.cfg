\* Two frames out, two frames in, of which the first is longer than pack2, one pbuf.
CONSTANTS
  TxMem = 6
  MaxArrive = 2
  Chains <- DataAndAcks
  Arrivals <- LongAndShort
  MinFrame = 2
  FrameSize = 3
  PackSize = 1
  PoolSize = 1
  MaxFrame = 2

SPECIFICATION LiveSpec

INVARIANTS IInv OneAccess FramesOnWire FramesTaken PbufsAccounted

PROPERTY SendEnds

CHECK_DEADLOCK FALSE
