SPECIFICATION Spec

CONSTANTS
  Sizes = {2, 5}
  Buffer = 4
  ChanCap = 3
  MaxSent = 3

INVARIANT InOrderIfFits

CHECK_DEADLOCK FALSE
