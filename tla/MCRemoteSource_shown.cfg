SPECIFICATION Spec
CONSTANTS
  Sessions = {s1, s2}
  Lenient = FALSE
SYMMETRY SessionSymmetry
INVARIANTS
  ConnectedIsShown
