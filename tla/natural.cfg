SPECIFICATION Spec
CONSTANTS
  t1 = t1
  t2 = t2
  t3 = t3
  Task <- Join
  Deps <- JoinDeps
  Rule <- Tolerant
  Position <- InOrder
  Gate <- Conditional
  MaxRetries <- RetryFirst
  Emits = {}
  Slots = 2
  Ops = {}
  Faults = {}
  MaxOps = 0
  MaxCrashes = 1
  MaxAttempts = 2
INVARIANTS
  TypeOK
  SuccessIsEarned
  OutcomeIsReal
  UpstreamFinishedFirst
