SPECIFICATION FairSpec
CONSTANTS
  Keys = {a, b, c}
  Jobs = {1, 2}
  LossyJobs = {1}
  Capacity = 2
  Levels = {0}
  MaxLoads = 0
  StoresMayFail = TRUE
  MaxLag = 1
  None = None
INVARIANTS
  StackConsistent
  SummariesBacked
  ReadyKeysSummarised
PROPERTIES
  EvictedForgotten
