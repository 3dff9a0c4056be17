CONSTANTS
  Name <- MCName
  Path <- MCPairPath
  NoPath = NoPath
  Kind <- MCEndsKind
  Attrs <- MCPairAttrs
  NrWorkers = 2
  BaseRss = 0
  Cost <- MCEndsCost
  Faults = {"escapes", "collectorDies"}
  MaxMemorySize = 2
  MaxOomKills = 1
  CheckCacheStatus = TRUE
  Probe = {"q1"}
  Probes <- MCEndsProbes
  StoreFails = FALSE
  CollectorRss = 0
  InitialEstimate = 1
  DecayPercent = 98
SPECIFICATION FairSpec
PROPERTIES Terminates ThreadEnds ImplementsTraversal
