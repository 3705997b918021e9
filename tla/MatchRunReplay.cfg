SPECIFICATION Spec
CONSTANTS
  Workers = {w1}
  MaxRuns = 3
  MaxClaims = 3
  MaxFailures = 5
PROPERTY
  ReplayServed
