SPECIFICATION Spec
CONSTANTS
  Creators = {c1, c2}
  Coordinators = {w1}
  MaxClaims = 3
  MaxFailures = 5
INVARIANT
  ChoiceStaysCompletable
