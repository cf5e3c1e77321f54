SPECIFICATION Spec
CONSTANTS
  MaxPipelined = 2
  MaxRequests = 3
  ReadChunk = 2
  HandshakeTimeout = 1
  HeaderTimeout = 2
  BodyTimeout = 2
  WriteTimeout = 1
  KeepAliveIdle = 1
  RequestDeadline = 3
  StreamIdle = 1
  MaxSent = 3
  Off = off
INVARIANT DrivesUntilBlocked
