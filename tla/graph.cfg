SPECIFICATION Spec
CONSTANTS
  Id = {1, 2, 3, 4}
  Start = 3
  Races = {}
  MaxEdits = 3
INVARIANTS StructureSound AlgorithmsExact DiffTellsTruth SettledIsSaved
CHECK_DEADLOCK FALSE
