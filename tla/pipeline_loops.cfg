\* Two workers, two executions: run_worker_loop, or the load test with up to two calls
\* to Redis that raise.
SPECIFICATION LoadSpec
CONSTANTS
  j1 = j1
  j2 = j2
  e1 = e1
  e2 = e2
  Jobs = {j1, j2}
  Executions = {e1, e2}
  ExecutionOf <- MCDistinct
  Workers = {w1, w2}
  MaxAttempts = 2
  MaxTrace = 1
  Judging = FALSE
  MaxCrashes = 2
INVARIANT CompletedIsStored
PROPERTIES DrainedOnReturn EveryJobIsFinished LoopsTerminate
CHECK_DEADLOCK FALSE
