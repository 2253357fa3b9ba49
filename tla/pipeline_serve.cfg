\* Two workers serving two jobs enqueued for one execution; one worker may die.
SPECIFICATION Spec
CONSTANTS
  j1 = j1
  j2 = j2
  e1 = e1
  e2 = e2
  Jobs = {j1, j2}
  Executions = {e1}
  ExecutionOf <- MCDuplicate
  Workers = {w1, w2}
  MaxAttempts = 2
  MaxTrace = 2
  Judging = TRUE
  MaxCrashes = 1
INVARIANTS TypeOK JobInOnePlace OneAttemptPerTrace ResultBacksTrace VerdictsJudgeTheResult
PROPERTIES FinalExecutionFrozen AbandonedTraceNeverFinishes JobSettlesUnlessItsWorkerDies ImplementsLifecycle
CHECK_DEADLOCK FALSE
