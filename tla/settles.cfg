SPECIFICATION FairSpec
CONSTANTS
  t1 = t1
  t2 = t2
  t3 = t3
  Task <- Chain
  Deps <- ChainDeps
  Rule <- AllSuccess
  Position <- InOrder
  Gate <- Open
  MaxRetries <- RetryFirst
  Emits = {t1}
  Slots = 1
  Ops = {"cancel", "retry_run"}
  Faults = {}
  MaxOps = 1
  MaxCrashes = 1
  MaxAttempts = 3
PROPERTIES
  RunSettles
