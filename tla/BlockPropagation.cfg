SPECIFICATION Spec
CONSTANTS
  N = 3
  StartState = {"scheduled", "running", "success", "failed", "skipped"}
INVARIANTS
  LoopFindsLeast
  NoTaskWedged
PROPERTY
  LoopEnds
