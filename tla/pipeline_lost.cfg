\* One job, one worker that dies once: is the job still somewhere?
SPECIFICATION Spec
CONSTANTS
  j1 = j1
  j2 = j2
  e1 = e1
  e2 = e2
  Jobs = {j1}
  Executions = {e1}
  ExecutionOf <- MCSingle
  Workers = {w1}
  MaxAttempts = 2
  MaxTrace = 2
  Judging = TRUE
  MaxCrashes = 1
INVARIANT DyingWorkerDoesNotLoseJob
CHECK_DEADLOCK FALSE
