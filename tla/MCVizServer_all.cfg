\* Two connections compete for one place.
SPECIFICATION FairSpec
CONSTANTS
  c1 = c1
  c2 = c2
  Conn = {c1, c2}
  MaxClients = 1
  Oversized = {2}
  MaxSeq = 4
  MaxSends = 1
CHECK_DEADLOCK FALSE
INVARIANTS NoSnapshotBacklog NewestPending ClientTable
PROPERTIES HeadUntouched ControlFramesKept ImplementsFeed SilentRemoved ImplementsFeedProgress
