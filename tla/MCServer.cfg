SPECIFICATION Spec
CONSTANTS
  Procs = {p1, p2}
  Self = p1
  Inodes = {i1, i2}
  MaxStarting = 1
  Workers = 2
  TlsCount = 2
  MaxRotations = 1
  StopOverlapsWait = FALSE
INVARIANTS FailureReported ReactorsOutlived
PROPERTIES NoForeignUnlink NoLitter ReloadSafe OwnerReturns
