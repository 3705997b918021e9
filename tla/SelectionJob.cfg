SPECIFICATION FairSpec
CONSTANTS
  Creators = {c1, c2}
  Coordinators = {w1, w2}
  MaxClaims = 2
  MaxFailures = 2
INVARIANTS
  TypeOK
  DecidedTogether
  DecisionNotCancelled
  ChosenStaysAccepted
  OneFencePerClaim
  FailedWhenSpent
PROPERTIES
  ImplementsDecision
  JobSettles
  SlotGivenUp
