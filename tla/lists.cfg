SPECIFICATION Spec
CONSTANTS
  List = {"tokens", "providers", "vars", "conns", "groups", "workers", "pools", "audit"}
  Key = {1, 2}
  PageSize = 2
  MaxShows = 2
  MaxOps = 2
  MaxFaults = 1
INVARIANTS  AuditComplete
 
CHECK_DEADLOCK FALSE
