SPECIFICATION FairCacheSpec
CONSTANTS
  r1 = r1
  r2 = r2
  r3 = r3
  i1 = i1
  i2 = i2
  Readers = {r1, r2, r3}
  Instances = {i1, i2}
  InstanceOf <- TwoAndOne
  None = none
  MaxUpdates = 2
  MaxCacheFaults = 2
INVARIANTS
  OneQueryPerSurge
PROPERTIES
  CacheConverges
