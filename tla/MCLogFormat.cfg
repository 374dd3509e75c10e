\* Blocks of little more than two headers; regions of one block, so that they
\* end often.
CONSTANTS
  kBlockSize = 7
  kHeaderSize = 3
  MapSize = 7
  MaxRecords = 4
  MaxLength = 6
  MaxFails = 2
\* The records are bounded.
CHECK_DEADLOCK FALSE
SPECIFICATION Spec
INVARIANTS CrashKeepsPrefix FailureInventsNothing
