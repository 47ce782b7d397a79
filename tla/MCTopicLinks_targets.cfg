SPECIFICATION LinksSpec
CONSTANTS
  Modes = {0}
  NaviModes = {0}
  Buoyancies = {0}
  TankCodes = {0}
  Stamps = {0, 5}
  Lengths = {2}
  TargetSets <- AnyFaults
  Uuids = {1}
  MaxMessages = 2
  Base = 2
  MaxFrameSize = 2
  Payloads <- SomePayloads
  Broken <- SomeBroken
  MaxFrames = 3
  Goals = {g1, g2, g3}
  MaxDiagnostics = 2
  MaxPublic = 2
  MaxHidden = 3
CHECK_DEADLOCK FALSE
INVARIANT TargetsAgree
