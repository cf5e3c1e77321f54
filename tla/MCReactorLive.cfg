SPECIFICATION Spec
CONSTANTS
  Fds = {f1}
  Producers = {p1, p2}
  MaxStreams = 2
  MaxAccepts = 1
  MaxConns = 2
  NoFd = nofd
PROPERTIES ParkedDataIsPulled StopCompletes HostsStreams
CHECK_DEADLOCK FALSE
