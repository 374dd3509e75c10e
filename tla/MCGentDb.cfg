\* Two workers on one key, with failing writes and a restart.
CONSTANTS
  Workers = {w1, w2}
  Cleaner = cleaner
  Keys = {k1}
  None = None
  MaxWriteClear = 0
  SaveEvery = 1
  Modulus = 8
  Ttl = 1
  MayFail = TRUE
  MaxTime = 3
  MaxNum = 2
  MaxStarting = 1
  MaxCrash = 1
SPECIFICATION Spec
SYMMETRY Symmetry
INVARIANTS ExpiryIsOwn OrphanNeedsRace WrapNeedsCrossing
PROPERTY ClearSparesLive
CHECK_DEADLOCK FALSE
