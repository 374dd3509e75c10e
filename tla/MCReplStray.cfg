\* Push wakes the master thread at the wrong moment.
CONSTANTS
  Keys = {1, 2}
  Workers = {w1}
  SyncNum = 2
  UseAuth = FALSE
  Preload = {1}
  WithTtl = FALSE
  WithDel = FALSE
  WithTimer = FALSE
  WithFail = FALSE
  MaxVer = 3
  MaxConn = 1
  MaxPending = 0
\* A slave in WAIT and clients without work: the system may rest.
CHECK_DEADLOCK FALSE
SPECIFICATION Spec
INVARIANT WakeupsAreHarmless
