SPECIFICATION Spec
CONSTANTS
  t1 = t1
  t2 = t2
  t3 = t3
  Task <- Chain
  Deps <- NoDeps
  Rule <- AllSuccess
  Position <- InOrder
  Gate <- Open
  MaxRetries <- RetryFirst
  Emits = {}
  Slots = 1
  Ops = {}
  Faults = {"launch_error", "no_worker", "exec_lost", "cas_error", "probe_error"}
  MaxOps = 0
  MaxCrashes = 1
  MaxAttempts = 2
INVARIANTS
  OneProcessPerTask
  NoOrphanProcess
  BudgetRespected
