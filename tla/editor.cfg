SPECIFICATION Spec
CONSTANTS
  Dag = {a, b}
  Slot = {s1}
  Faults = {"connection", "invalid", "refused"}
  Session = TRUE
  MaxEdits = 2
  MaxOthers = 1
  MaxClicks = 3
  Overlap = FALSE
INVARIANTS
  OneSaveAtATime
  DeleteStandsAlone
  TriggerRunsEdits
PROPERTIES
  NoSilentOverwrite
  ImplementsGuardedSave
  
  EditsAreStored
CHECK_DEADLOCK FALSE
