\* Two pool workers, two identical files of which the first may arrive damaged,
\* room for one waiting job, one run.  Two callers work on file 1.
SPECIFICATION HistSpec
CONSTANTS
  Files = 2
  Twins = {1, 2}
  Damaged = {1}
  Listed = {1}
  Worker = {w1, w2}
  Downloader = {d1}
  Main = main
  QueueSize = 1
  MaxRuns = 1
INVARIANTS OneValidator RunDrainsPool
PROPERTIES FailureStands
SYMMETRY Symmetry
\* The last run may simply be over.
CHECK_DEADLOCK FALSE
