CONSTANTS
  BUF_SIZE = 3
  Chars = {comma, newline, x}
  NUL = nul
  LoadShrinks = FALSE
SPECIFICATION Spec
INVARIANT BufferInv
PROPERTY IsFifo
