SPECIFICATION FairSpec
CONSTANTS
  Kinds = {"control", "global", "range", "inspection"}
  Plain = {}
  MaxEntries = 2
  MaxClients = 1
INVARIANTS
  TurnFollowsCommand
  PathsAfterTurn
  PublishedCurrent
PROPERTIES
  FieldTimesOut
