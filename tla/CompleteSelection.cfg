SPECIFICATION Spec
CONSTANTS
  Creators = {k1, k2}
  Rounds = 1
  Calls = {q1, q2, q3}
  None = None
SYMMETRY Symmetry
CHECK_DEADLOCK FALSE
INVARIANTS
  TypeOK
  ChainWhole
  SuccessIsDurable
  RefusalIsFinal
  ChosenAsShown
PROPERTIES
  ImplementsDecision
