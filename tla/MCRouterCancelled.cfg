SPECIFICATION Spec
CONSTANTS
  Request = {r1, r2}
  MaxConcurrent = 1
  QueueSize = 1
  Ceilings = {2}
INVARIANT CancelledReturns
