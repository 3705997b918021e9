SPECIFICATION PipelineFairSpec
CONSTANTS
  Events = {e1}
  Workers = {w1, w2}
  Rejected = {}
  MaxAttempts = 2
  BatchSize = 2
  LeaseDuration = 2
  Slack = 1
  Faults = {"crash", "registry", "storage", "broker", "shutdown"}
  NoWorker = NoWorker
  NoLease = NoLease
  Bodies = {b1}
  Writing = {}
  Consumers = {c1}
  NoBody = NoBody
  NoMessage = NoMessage
PROPERTIES
  EventuallySettled
  ImplementsPipeline
CHECK_DEADLOCK FALSE
