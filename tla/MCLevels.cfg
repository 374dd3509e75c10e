\* Two keys and four writes, one of them a deletion, in three levels: a table
\* can overlap another one above, beside and below it.
CONSTANTS
  Keys = {1, 2}
  NumLevels = 3
  MaxMemLevel = 1
  MaxSeq = 4
  MaxDels = 1
  MaxSnaps = 1
\* The writes are bounded.
CHECK_DEADLOCK FALSE
SPECIFICATION Spec
INVARIANTS LevelsDisjoint NewerFirst GetExact ScanExact
