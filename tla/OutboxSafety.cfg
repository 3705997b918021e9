SPECIFICATION Spec
CONSTANTS
  Events = {e1, e2}
  Workers = {w1, w2}
  Rejected = {e2}
  MaxAttempts = 2
  BatchSize = 2
  LeaseDuration = 2
  Slack = 1
  Faults = {"crash", "registry", "storage", "broker", "shutdown"}
  NoWorker = NoWorker
  NoLease = NoLease
SYMMETRY Symmetry
INVARIANTS
  TypeOK
  HeldUntilExpiry
  PublishedWasAccepted
  CopiesWithinAttempts
PROPERTIES
  AckedThisAttempt
  TerminalStable
