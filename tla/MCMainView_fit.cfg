SPECIFICATION Spec
CONSTANTS
  Reports <- SomeReports
  Contents <- SomeContents
  Debounce = 2
  SceneInterval = 1
INVARIANT FittedToData
