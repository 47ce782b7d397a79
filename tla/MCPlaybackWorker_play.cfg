SPECIFICATION FairSpec
CONSTANTS
  MaxRows = 3
  MaxTime = 3
  Kinds = {"turn", "straight", "path", "target", "badTarget", "pose"}
  Bags <- MCBags
  Timeout = 1
  Hasty = FALSE
INVARIANTS
  ViewFollowsPosition
  PathsAfterTurn
PROPERTIES
  FramesForward
  PlaybackEnds
