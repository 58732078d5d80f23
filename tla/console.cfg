SPECIFICATION Spec
CONSTANTS
  Page = {"dags", "dag", "pools", "workers", "new", "aiwiki"}
  MaxMoves = 2
  MaxFaults = 1
INVARIANTS NoStuckSuppression  SignedOutMeansLogin
 
CHECK_DEADLOCK FALSE
