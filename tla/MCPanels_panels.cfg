SPECIFICATION Spec
CONSTANTS
  Reports <- SomeReports
  MaxTime = 3
  MaxSamples = 3
  Sessions = {1}
  LastTime = 2
  Window = 1
  Metrics = {"Heading", "AngularVelocity"}
  MaxSignals = 2
  MaxRequests = 1
  Places = {0, 1, 2}
  Levels = {0, 1, 2}
  Times = {1, 2, 3}
  MaxPoints = 2
  Values <- SomeValues
  Timeout = 1
  Leads <- SomeLeads
  LastMoment = 3
  MaxMessages = 3
INVARIANTS
  ProfileOneAction
  NothingMissed
  CurvesOneAxis
  CurvesAfterSeek
  TrailKeepsUp
  OnlineIsFresh
  GreenMeansWell
