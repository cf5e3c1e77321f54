SPECIFICATION Spec
CONSTANTS
  Procs = {p1}
  Self = p1
  Inodes = {i1, i2}
  MaxStarting = 1
  Workers = 2
  TlsCount = 0
  MaxRotations = 0
  StopOverlapsWait = TRUE
INVARIANT ReactorsOutlived
