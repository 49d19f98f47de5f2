SPECIFICATION PackerSpec
CONSTANTS
  Sizes = {1, 2, 5}
  MaxBodySize = 5
  Garbage = {0, 1, 3, 6}
  ResetAt <- OnConnect
  MaxSent = 4
INVARIANTS
  PackerTypeOK
  Intact
  NothingHeldBack
PROPERTY ImplementsStream
