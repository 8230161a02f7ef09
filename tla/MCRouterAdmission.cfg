SPECIFICATION Spec
CONSTANTS
  Request = {r1, r2, r3}
  MaxConcurrent = 2
  QueueSize = 1
  Ceilings = {2, 3}
INVARIANTS PermitsAccounted NoLostWakeup
PROPERTIES CeilingSpec QueuedAnswered
