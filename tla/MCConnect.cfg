\* Two commands of a client, cut into reads in every way.
\* Two objects and two sockets that move between two bases, one call of
\* epoll_ctl that fails; epoll_wait first has room for fewer descriptors than
\* are ready.
CONSTANTS
  Commands <- MCCommands
  READ_BUFFER_SIZE = 8
  ReplySize = 2
  MaxCommands = 2
  Connects = {k1, k2}
  Sockets = {s1, s2}
  PipeFd = PipeFd
  NoSocket = NoSocket
  NoConnect = NoConnect
  PipeEv = PipeEv
  TimerEv = TimerEv
  INITIAL_NEVENT = 1
  MAX_NEVENT = 2
  MaxFaults = 1
SPECIFICATION MCSpec
SYMMETRY Symmetry
INVARIANTS OkMeansStored OneAnswerEach RefusalNeedsCut NoStall
INVARIANTS Watched NothingLeft LoopsStay
CHECK_DEADLOCK FALSE
