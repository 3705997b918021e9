SPECIFICATION FairSpec
CONSTANTS
  Workers = {w1, w2}
  MaxRuns = 2
  MaxClaims = 2
  MaxFailures = 2
INVARIANTS
  TypeOK
  OneLiveRun
  JobMirrorsRun
  OneHolder
  ReviewOnlyWhenSpent
PROPERTIES
  ImplementsOneResult
  Settles
  SlotFreed
