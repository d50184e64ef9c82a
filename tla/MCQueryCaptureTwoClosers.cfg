SPECIFICATION Spec
CONSTANTS
  ha = ha
  hb = hb
  ra = ra
  None = None
  Threads = {t1, t2, t3}
  Closers = {t1, t2}
  Handles = {ha, hb}
  Runners = {ra}
  Config <- MCConfig
  MaxProbes = 1
INVARIANT InstallationOwned
