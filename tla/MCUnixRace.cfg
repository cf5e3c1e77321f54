SPECIFICATION Spec
CONSTANTS
  Procs = {p1, p2}
  Self = p1
  Inodes = {i1, i2, i3}
  MaxStarting = 2
  Workers = 1
  TlsCount = 0
  MaxRotations = 0
  StopOverlapsWait = FALSE
PROPERTY LiveListenerKept
