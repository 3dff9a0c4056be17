CONSTANTS
  Name <- MCName
  Path <- MCPath
  NoPath = NoPath
  Kind <- MCKind
  Attrs <- MCAttrs
  NrWorkers = 2
  BaseRss = 1
  Cost <- MCHugeCost
  Faults = {}
  MaxMemorySize = 2
  MaxOomKills = 1
  CheckCacheStatus = FALSE
  Probe = {}
  Probes <- MCNoProbes
  StoreFails = FALSE
  CollectorRss = 0
  InitialEstimate = 1
  DecayPercent = 98
SPECIFICATION Spec
PROPERTIES KilledJobIsRetried
