CONSTANTS
  Drv <- MCDrv
  Job <- MCMultiJob
  OutputPath <- MCMultiPath
  NoPath = NoPath
  OutputMap <- MCMultiOutputMap
  InputGraph <- MCMultiGraph
SPECIFICATION Spec
INVARIANT BreakdownComplete
