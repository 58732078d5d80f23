SPECIFICATION Spec
CONSTANTS
  t1 = t1
  t2 = t2
  t3 = t3
  Task <- Chain
  Deps <- ChainDeps
  Rule <- AllSuccess
  Position <- InOrder
  Gate <- Open
  MaxRetries <- NoRetries
  Emits = {}
  Slots = 2
  Ops = {"cancel", "mark", "retry_task"}
  Faults = {}
  MaxOps = 2
  MaxCrashes = 1
  MaxAttempts = 2
INVARIANTS
  InFlightIsWatched
PROPERTIES
  OutcomeAfterExit
