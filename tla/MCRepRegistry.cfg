\* Two slaves, clears and restarts; a file with room for both.
CONSTANTS
  Names = {s1, s2}
  SlaveNum = 2
  SyncNum = 2
  Stored = 1
  Grain = 2
  MaxClear = 1
  StartTime = 4
  MaxTime = 5
  MaxQueue = 1
  MaxRestart = 1
SPECIFICATION Spec
SYMMETRY Symmetry
INVARIANTS  SharedNeedsClear FirstSyncResumes 
