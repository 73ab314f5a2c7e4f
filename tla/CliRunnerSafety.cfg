SPECIFICATION Spec
CONSTANTS
  Calls = {c1, c2, c3}
  Keys = {k1, k2}
  None = None
SYMMETRY Symmetry
CHECK_DEADLOCK FALSE
INVARIANTS
  RunnerInv
  JoinsOwnCommand
  OneUnkilledChildPerKey
  OnlyTheOwnerCancels
