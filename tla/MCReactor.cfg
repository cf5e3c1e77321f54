SPECIFICATION Spec
CONSTANTS
  Fds = {f1, f2}
  Producers = {p1, p2}
  MaxStreams = 2
  MaxAccepts = 1
  MaxConns = 3
  NoFd = nofd
INVARIANTS EventsReachTheirConnection StreamMapExact NoLostWakeup
           OnePendingEntry AttachedWhileStreaming
CHECK_DEADLOCK FALSE
SYMMETRY Symmetry
