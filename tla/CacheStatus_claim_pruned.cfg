CONSTANTS
  Drv <- MCSharedDrv
  Job <- MCJob
  OutputPath <- MCSharedPath
  NoPath = NoPath
  OutputMap <- MCSharedOutputMap
  InputGraph <- MCSharedGraph
SPECIFICATION Spec
INVARIANT NothingProbedBehind
