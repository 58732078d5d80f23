SPECIFICATION Spec
CONSTANTS
  t1 = t1
  t2 = t2
  t3 = t3
  Task <- Chain
  Deps <- ChainDeps
  Rule <- AllSuccess
  Position <- InOrder
  Gate <- Open
  MaxRetries <- NoRetries
  Emits = {}
  Slots = 2
  Ops = {"cancel"}
  Faults = {}
  MaxOps = 1
  MaxCrashes = 0
  MaxAttempts = 2
PROPERTIES
  CancelSticks
