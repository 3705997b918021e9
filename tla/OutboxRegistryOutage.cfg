SPECIFICATION Spec
CONSTANTS
  Events = {e1}
  Workers = {w1}
  Rejected = {}
  MaxAttempts = 2
  BatchSize = 2
  LeaseDuration = 2
  Slack = 0
  Faults = {"registry"}
  NoWorker = NoWorker
  NoLease = NoLease
INVARIANT
  ExhaustedWasOffered
