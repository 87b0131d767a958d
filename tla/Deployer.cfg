SPECIFICATION FairSpec
CONSTANTS
  Tenants = {t1, t2}
  Configs = {c1, c2}
  None = None
  NumBigIPs = 2
  MaxQueue = 1
  MaxDone = 1
INVARIANTS TypeOK CacheSound QuietMeansDeployed
PROPERTIES ImplementsStore RoundEnds Drains
