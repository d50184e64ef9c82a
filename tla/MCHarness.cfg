SPECIFICATION FairSpec
CONSTANTS
  MaxCells = 2
  MaxCases = 2
  MaxPolls = 2
  MaxStores = 2
  MaxMoved = 2
  Tags = {ta, tb}
  None = None
INVARIANTS
  OnlyOwnServer
  VerdictAttributed
  SpliceReported
PROPERTY ServersEnd
CHECK_DEADLOCK FALSE
