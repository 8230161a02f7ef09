CONSTANTS
  Key = {k1}
  Push = {p1}
  AuthRequest = {r1}
  Pull = Pull
  Publishable <- MCPublishable
  MaxRevision = 3
  MaxRestarts = 1
  NoKey = NoKey
SPECIFICATION FairSpec
INVARIANT AckedHeld
INVARIANT RevocationHolds
PROPERTY CatchesUp
