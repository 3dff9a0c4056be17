CONSTANTS
  Name <- MCName
  Path <- MCPairPath
  NoPath = NoPath
  Kind <- MCPairKind
  Attrs <- MCPairAttrs
  NrWorkers = 2
  BaseRss = 0
  Cost <- MCPairCost
  Faults = {"rootEscapes", "signaled", "initError", "spawnError", "interrupt", "stdoutClosed"}
  MaxMemorySize = 2
  MaxOomKills = 1
  CheckCacheStatus = TRUE
  Probe = {"q1", "q2"}
  Probes <- MCPairProbes
  StoreFails = TRUE
  CollectorRss = 0
  InitialEstimate = 1
  DecayPercent = 98
SPECIFICATION Spec
INVARIANTS ExitOk ExitingOnlyWhenFinished LinesExpected PushedNotLost
