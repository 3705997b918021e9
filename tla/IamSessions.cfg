SPECIFICATION Spec
CONSTANTS
  Users = {1, 2}
  Admins = {1}
  Invited = {2}
  Transactions = {3}
  Workers = {w1, w2}
  MaxGeneration = 2
  MaxLapsed = 1
SYMMETRY Symmetry
INVARIANTS
  TypeOK
  OneLiveSession
  SuspendedLockedOut
  OneLoginPerCallback
PROPERTIES
  AuthorityAtCommit
CHECK_DEADLOCK FALSE
