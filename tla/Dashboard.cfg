\* Two documents with the same bytes, one worker, one validator, two runs.
SPECIFICATION DashboardSpec
CONSTANTS
  Doc = {d1, d2}
  NoDoc = NoDoc
  Worker = {1}
  Validator = {v1}
  Bytes <- SameBytes
  Pages = {{d1, d2}}
  MaxSize = 1
  MaxStage2 = 1
  MaxAttempts = 2
  MaxRuns = 2
INVARIANT MetricsAgree
INVARIANT Stage2RowsAgree
INVARIANT SnapshotFollowsTheQueue
SYMMETRY Alike
VIEW View
CHECK_DEADLOCK FALSE
