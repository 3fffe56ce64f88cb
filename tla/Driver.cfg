SPECIFICATION FairSpec
CONSTANTS
  d1 = d1
  d2 = d2
  d3 = d3
  Doc = {d1, d2, d3}
  NoJob = NoJob
  Filename <- Names
  Worker = {w1, w2}
  MaxSize = 1
  MaxAttempts = 2
  MaxTroubles = 1
  Listing <- TwoPages
  Title <- OwnTitles
  Target = 2
  MaxRuns = 2
INVARIANTS NothingForgotten TargetRespected
PROPERTIES EveryRunEnds
CHECK_DEADLOCK FALSE
