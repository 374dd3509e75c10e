\* Fair threads; the timer fires while up to two messages are under way, and
\* then whenever nothing is.
CONSTANTS
  Keys = {1, 2}
  Workers = {w1}
  SyncNum = 2
  UseAuth = TRUE
  Preload = {1}
  WithTtl = FALSE
  WithDel = FALSE
  WithTimer = TRUE
  WithFail = FALSE
  MaxVer = 2
  MaxConn = 1
  MaxPending = 3
\* A slave in WAIT and clients without work: the system may rest.
CHECK_DEADLOCK FALSE
SPECIFICATION FairSpec
PROPERTIES QueueDrains
