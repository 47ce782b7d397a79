SPECIFICATION FairSpec
CONSTANTS
  Sessions = {s1, s2}
  Lenient = FALSE
INVARIANTS
  SessionPurity
  PlaybackPurity
  ManualHolds
  RetryPending
PROPERTIES
  Reconnects
  QuietDropped
