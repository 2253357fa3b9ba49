SPECIFICATION Spec
CONSTANTS
  Executions <- McExecutions
  Enqueued <- McEnqueued
  RunOf <- McRunOf
  TaskOf <- McTaskOf
  Behaviours <- McBehaviours
CHECK_DEADLOCK FALSE
INVARIANTS TypeOK AttributionOnWholeTraces VerdictStands
