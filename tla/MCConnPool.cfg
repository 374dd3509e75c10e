\* Five objects and three descriptors; one free object is kept per object
\* in use, so that the list is cut with objects in use.
CONSTANTS
  Conns = {c1, c2, c3, c4, c5}
  Fds = {f1, f2, f3}
  Factor = 1
  ThreadCount = 2
  NoConn = NoConn
  NoFd = NoFd
SPECIFICATION Spec
SYMMETRY Symmetry
INVARIANTS CountsAddUp RegisteredInUse OwnCommand MissNeedsReuse
CHECK_DEADLOCK FALSE
