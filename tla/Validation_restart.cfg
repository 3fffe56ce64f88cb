\* One pool worker, two identical files of which the first may arrive
\* damaged, and a second run after the first one ended, was interrupted or
\* crashed anywhere.
SPECIFICATION HistFairSpec
CONSTANTS
  Files = 2
  Twins = {1, 2}
  Damaged = {1}
  Listed = {}
  Worker = {w1}
  Downloader = {d1}
  Main = main
  QueueSize = 1
  MaxRuns = 2
INVARIANTS CompletedIsSound VerdictNotLost VerdictOfTheseBytes
PROPERTIES EveryRunEnds
\* The last run may simply be over.
CHECK_DEADLOCK FALSE
