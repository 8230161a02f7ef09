SPECIFICATION MCSpec
CONSTANTS
  C8sTag = {"v1", "v2"}
  NoTag = NoTag
  Kind <- MCKind
  Protocol <- MCSame
  Comments <- MCSame
  Driver <- MCSame
  Ref <- MCSame
  HashOrder <- MCOrder
INVARIANT NamedOnly
CHECK_DEADLOCK FALSE
