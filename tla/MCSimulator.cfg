SPECIFICATION MCSpec
CONSTANTS
  p1 = p1
  p2 = p2
  NoOp = NoOp
  Prefetch = {p1, p2}
  Pages <- MCPages
  PageSize = 2
  Threshold = 2
  MaxDur = 3
  early = early
  late = late
  Gen = {early, late}
  Warm = warm
  Created <- MCCreated
  Tokens = 2
  Eps = 1
  Wait = 3
  Setups <- MCSetups
  Transfers <- MCTransfers
  Delay = {0, 1}
  MaxEvents = 1
INVARIANTS HostIndicesOnce  ClockIsReal ConcurrencyRight
PROPERTIES PrefetchSettles SessionEnds
CHECK_DEADLOCK FALSE
