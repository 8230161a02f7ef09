SPECIFICATION FairSpec
CONSTANTS
  StartupTimeout = 2
  ProgressTimeout = 1
  ProbeEvery = 1
  ProbeFailures = 3
  Fresh = 2
  PassTime = 1
  MaxFaults = 2
INVARIANTS ReadyIsProgress NothingSurvives
PROPERTIES PassNotices PairSettles
