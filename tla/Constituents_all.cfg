CONSTANTS
  Missing = Missing
  AggGlob = AggGlob
  AllGlob = AllGlob
  Job <- MCJob
  Aggregate <- MCAggregate
  Failed <- MCFailed
  Pattern <- MCPattern
  Matches <- MCMatches
  Input <- MCAllInput
SPECIFICATION Spec
INVARIANTS TypeOK SortedTopologically CycleIsReal PrintedOnce ConstituentsAreFinal BrokenIsReported
