\* The connection breaks or a write fails, and the slave reconnects.
CONSTANTS
  Keys = {1, 2}
  Workers = {w1}
  SyncNum = 2
  UseAuth = TRUE
  Preload = {1}
  WithTtl = FALSE
  WithDel = FALSE
  WithTimer = FALSE
  WithFail = TRUE
  MaxVer = 2
  MaxConn = 2
  MaxPending = 0
\* A slave in WAIT and clients without work: the system may rest.
CHECK_DEADLOCK FALSE
SPECIFICATION Spec
 
PROPERTY SlaveMonotone
