SPECIFICATION Spec
CONSTANTS
  r1 = r1
  r2 = r2
  k1 = k1
  k2 = k2
  k3 = k3
  None = None
  Requests = {r1, r2}
  Keys = {k1, k2, k3}
  OffloadKeys <- MCTwoChains
  Blocks = {b1, b2, b3}
  Workers = {w1}
  JobIds = {1, 2, 3, 4}
  SpliceIds = {1, 2}
  Budget = 1
  LocalPrefixes <- MCNoLocalPrefix
SYMMETRY MCSymmetry
INVARIANTS
  TypeOK
  OneOwner
  LoadsQuarantined
  ReservedExact
  FlushesOnlyStores
  ReceiptsUnderstood
  JobsStayRegistered
  ContentReady
PROPERTY NoStoreOverwritten
