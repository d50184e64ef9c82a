SPECIFICATION Spec
CONSTANTS
  Keys = {1, 2, 3}
  Requests = {1, 2}
  Scores = {0, 6}
  Deployments <- MCDeployments
  Relevances <- MCRelevances
  Pools = {{1, 2}, {2, 3}, {1, 2, 3}}
  None = None
INVARIANTS
  NeverRefused
  AggregatesExactly
  AppliedAsObserved
CHECK_DEADLOCK FALSE
