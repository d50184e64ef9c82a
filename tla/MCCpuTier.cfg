SPECIFICATION Spec
CONSTANTS
  a = a
  b = b
  c = c
  d = d
  r1 = r1
  r2 = r2
  None = None
  Keys = {a, b, c, d}
  Capacity = 3
  Levels = {0, 1}
  Requests = {r1, r2}
  Chain <- MCChain
  Configs <- MCConfigs
  Unit = 12
  MaxStaleness = 1
  MaxLoads = 1
  MaxNotices = 1
  StoresMayFail = TRUE
INVARIANTS
  TypeOK
  EvictableAreIdle
  MetadataResident
  ChainMapsAgree
  EvictsDominated
  ProtectedOutlast
PROPERTIES
  ForgottenOnRemoval
  ImplementsTier
