SPECIFICATION FairSpec
CONSTANTS
  Keys = {k1, k2}
  Threads = {t1, t2}
  Capacity = 2
INVARIANTS TypeOK PendingIsCarried NoSilentLoss
PROPERTY PendingClears
