SPECIFICATION MCSpec
CONSTANTS
  Image = {"gateway", "router"}
  Named <- MCNamed
  Rendered <- MCRendered
  Versioned = {"router"}
  Helpers = {"router"}
  Version = {"v1", "v2"}
  Tag <- MCTag
  None = None
  Content = {0, 1, 2}
  Tree <- MCTree
  History <- MCHistory
  WalkLimit = 2
  MaxCommits = 3
  MaxRuns = 2
  MaxMoves = 1
  MaxOpen = 2
  C8sTag = {"v1", "v2", "v3", "dev", "beta"}
  NoTag = NoTag
  Kind <- MCKind
  Protocol <- MCProtocol
  Comments <- MCComments
  Driver <- MCDriver
  Ref <- MCRef
  HashOrder <- MCOrder
  MaxLocked = 3
INVARIANTS ImagesCurrent ChartPromoted PolicyCovers  ManifestsHonest
CHECK_DEADLOCK FALSE
