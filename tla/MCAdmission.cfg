SPECIFICATION Spec
CONSTANTS
  Reactors = {r1, r2}
  Fds = {f1, f2, f3, f4}
  s1 = s1
  s2 = s2
  s3 = s3
  Sources = {s1, s2, s3}
  Unix = unix
  AllowList <- MCAllowList
  MaxConnections = 3
  MaxPerSource = 2
  None = none
  EntryLists <- MCEntryLists
  Sockets <- MCSockets
  Configured <- MCConfigured
  SocketOf <- MCSocketOf
INVARIANTS CountsExact SlotsOwned GaugeExact AllowListAsWritten
PROPERTIES StopReleasesEverything ImplementsSlotPool
