SPECIFICATION MCSpec
CONSTANTS
  Capacity = 3
  MaxBatch = 3
  Refused = {1}
  MaxEvents = 4
  Address = {a1, a2}
  Second = 2
  ADDRESS_CAPACITY = 1
  RequestsPerAddressPerSecond = 2
  MaxClock = 7
  Rank = {a}
  Conn = {c1, c2, c3}
  None = None
  ReaderLimit = 2
INVARIANTS NoSilentLoss SlidingSecondBound 
PROPERTIES EventSettled 
CHECK_DEADLOCK FALSE
