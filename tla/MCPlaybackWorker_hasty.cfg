SPECIFICATION Spec
CONSTANTS
  MaxRows = 3
  MaxTime = 3
  Kinds = {"turn", "straight", "path"}
  Bags <- MCBags
  Timeout = 1
  Hasty = TRUE
INVARIANT ControlFollowsPosition
