SPECIFICATION Spec
CONSTANTS
  Request = {r1, r2, r3}
  Key = {k1}
  NoKey = NoKey
  InferenceConcurrency = 1
  InferenceQueue = 1
  PerKeyConcurrency = 2
INVARIANTS SlotsConserved 
PROPERTIES TruthfulOutcome 
