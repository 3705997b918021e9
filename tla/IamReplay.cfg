SPECIFICATION Spec
CONSTANTS
  Users = {1}
  Admins = {}
  Invited = {}
  Transactions = {2}
  Workers = {w1}
  MaxGeneration = 2
  MaxLapsed = 0
INVARIANTS
  SuccessorFound
CHECK_DEADLOCK FALSE
