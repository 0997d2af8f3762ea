SPECIFICATION Spec
CONSTANTS
  Width = 240
  Height = 320
  Entries = 6
  Results <- MCResults
INVARIANTS RingHoldsLast LinesAreLast
