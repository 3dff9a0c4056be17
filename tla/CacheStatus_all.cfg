CONSTANTS
  Drv <- MCDrv
  Job <- MCJob
  OutputPath <- MCOutputPath
  NoPath = NoPath
  OutputMap <- MCOutputMap
  InputGraph <- MCInputGraph
SPECIFICATION Spec
INVARIANTS TypeOK ResultsStand StatusSound BuildsOrdered BreakdownComplete PostponedIsLookedUp
