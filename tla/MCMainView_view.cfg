SPECIFICATION FairSpec
CONSTANTS
  Reports <- SomeReports
  Contents <- SomeContents
  Debounce = 2
  SceneInterval = 1
INVARIANTS
  VerticalNeverWaits
  FollowsVehicle
PROPERTIES
  AutoSwitchSettled
  UserViewKept
  AutoCatchesUp
