SPECIFICATION Spec
CONSTANTS
  t1 = t1
  t2 = t2
  t3 = t3
  Task <- Chain
  Deps <- ChainDeps
  Rule <- AllSuccess
  Position <- InOrder
  Gate <- Open
  MaxRetries <- NoRetries
  Emits = {}
  Slots = 2
  Ops = {"cancel", "mark", "retry_task", "retry_run", "mark_run", "hold"}
  Faults = {"deadline"}
  MaxOps = 2
  MaxCrashes = 0
  MaxAttempts = 2
INVARIANTS
  RefNamesTheTry
  SettledRunHasSettledTasks
PROPERTIES
  OnlyOperatorReopens
  DispatchUnderActiveRun
  FreshAttempt
