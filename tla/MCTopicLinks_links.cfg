SPECIFICATION LinksSpec
CONSTANTS
  Modes = {0, 2, 5, 6, 9, 10, 11}
  NaviModes = {0, 1, 2}
  Buoyancies = {0, 3}
  TankCodes = {0, 1, 2, 3, 4, 5, 6, 7}
  Stamps = {0, 5}
  Lengths = {0, 2}
  TargetSets <- LateFaults
  Uuids = {1, 2}
  MaxMessages = 2
  Base = 2
  MaxFrameSize = 2
  Payloads <- SomePayloads
  Broken <- SomeBroken
  MaxFrames = 3
  Goals = {g1, g2, g3}
  MaxDiagnostics = 2
  MaxPublic = 2
  MaxHidden = 3
SYMMETRY GoalSymmetry
CHECK_DEADLOCK FALSE
INVARIANTS
  BothLinksAgree
  OldBagsAligned
  FieldsOfLastMessage
  WholeFrames
  FactsInAnyOrder
PROPERTY NeverForgets
