SPECIFICATION FairSpec
CONSTANTS
  r1 = r1
  r2 = r2
  k1 = k1
  k2 = k2
  k3 = k3
  None = None
  Requests = {r1}
  Keys = {k1, k2, k3}
  OffloadKeys <- MCOneChain
  Blocks = {b1, b2, b3}
  Workers = {w1}
  JobIds = {1, 2}
  SpliceIds = {1}
  Budget = 1
  LocalPrefixes <- MCNoLocalPrefix
PROPERTY LoadingResumes
