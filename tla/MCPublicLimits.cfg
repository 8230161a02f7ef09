SPECIFICATION Spec
CONSTANTS
  Address = {a1, a2, a3}
  Request = {r1, r2, r3, r4}
  Sem = {s1, s2, s3, s4, s5, s6}
  None = None
  Second = 1
  ADDRESS_CAPACITY = 2
  RequestsPerAddressPerSecond = 2
  GlobalRequestConcurrency = 3
  PerAddressConcurrency = 1
  MaxTime = 1
INVARIANTS AddressConcurrencyBound
PROPERTIES NoLockout
SYMMETRY Symmetric
