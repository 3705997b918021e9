SPECIFICATION Spec
CONSTANTS
  Creators = {k1}
  Rounds = 2
  Calls = {q1}
  None = None
CHECK_DEADLOCK FALSE
PROPERTY
  IntentOfOpenSelection
