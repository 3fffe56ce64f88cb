CONSTANTS
  Doc = {d1, d2}
  Checkpoint = TRUE
  MaxStarts = 3
  MaxEvents = 3
SPECIFICATION Spec
SYMMETRY Symmetry
CONSTRAINT Bound
INVARIANT NoTornPdf ManifestIsThere EndIsSaved
CHECK_DEADLOCK FALSE
