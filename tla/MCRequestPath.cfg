SPECIFICATION Spec
CONSTANTS
  MaxLine = 7
  MaxBlock = 21
  MaxFields = 3
  MaxTarget = 2
  MaxBody = 2
  Capacity = 3
  MaxWord = 9
  BadAuthorities = {"a:0"}
  MinGzip = 3
  MaxGzip = 5
  MaxParameters = 1
  MaxFrames = 2
  FrameSizes = {1, 2}
  Messages <- MCMessages
  Addresses = {1, 2}
  Patterns <- MCPatterns
  MethodSets <- MCMethodSets
  MountPrefixes <- MCMountPrefixes
  Bundles <- MCBundles
  MaxRegistrations = 3
  Responses <- MCResponses
  HeaderCalls <- MCHeaderCalls
  MaxCalls = 2
  HeadUnits = 2
  BodyUnits = 2
INVARIANTS ParsedAsIfWhole RoutedRight FramingAgrees CacheKeyed WireIsResponse
