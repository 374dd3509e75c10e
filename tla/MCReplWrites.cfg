\* Clients write, delete and let keys expire while a slave synchronises.
CONSTANTS
  Keys = {1}
  Workers = {w1, w2}
  SyncNum = 2
  UseAuth = TRUE
  Preload = {1}
  WithTtl = TRUE
  WithDel = TRUE
  WithTimer = FALSE
  WithFail = FALSE
  MaxVer = 2
  MaxConn = 1
  MaxPending = 0
\* A slave in WAIT and clients without work: the system may rest.
CHECK_DEADLOCK FALSE
SPECIFICATION Spec
SYMMETRY Symmetry
INVARIANTS SyncPrefix BatchStays LossNeedsFault
