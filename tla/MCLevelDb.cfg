\* Memtables that are full after one write: every write after the first needs
\* the background thread.  Two tables of level 0 start a merge and stop writes.
CONSTANTS
  Writers = {w1, w2}
  Readers = {r1}
  WriteBuffer = 0
  L0Trigger = 2
  L0Stop = 2
  MaxOps = 3
  MaxCrashes = 1
  MaxFaults = 1
  MaxSeeks = 1
\* The operations are bounded, and a damaged manifest cannot be opened.
CHECK_DEADLOCK FALSE
SPECIFICATION Spec
INVARIANTS  FilesThere SnapshotExact SequenceUnique NobodyForgotten
SYMMETRY Symmetry
