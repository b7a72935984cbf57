SPECIFICATION MCSpec
CONSTANTS
  Flow = {f1, f2}
  None = None
  Kind <- MCKind
  Amount <- MCAmount
  Limit <- MCLimit
  MaxFlows = 2
  StaleAfter = 1
  Thread = {t1, t2}
  Threshold = 2
  Recovery = 1
  MaxTime = 3
  MinTotal = 0
  MaxFailures = 3
  Call = {c1, c2, c3}
  NoCall = NoCall
  RetryCount = 2
  MaxReports = 4
  Strategy = {"fail", "continue", "retry", "fallback", "circuit_breaker"}
  MaxRetries = 2
  OpenAt = 2
  CircuitTimeout = 2
  MaxErrors = 4
  Task = {k1, k2, k3}
  Percent = 50
  ErrorStrategy = "threshold"
INVARIANTS Accounted BreakerCounts AttemptsBounded StopAnswered
CHECK_DEADLOCK FALSE
