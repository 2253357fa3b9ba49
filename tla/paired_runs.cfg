SPECIFICATION ReplaySpec
CONSTANTS
  Customers = {"alice"}
  Orders = {"o1", "o2"}
  Tickets = {"t1"}
  Skus = {"lamp", "sofa"}
  Owner <- McOwner
  Items <- McItems
  DaysAgo <- McDaysAgo
  Total <- McTotal
  SeedStatus <- McSeedStatus
  SeedRefunds <- McNoRefunds
  SeedTickets <- McSeedTickets
  ExpectedActions <- McRefundExpected
  ForbiddenActions <- McCancelForbidden
  ExpectedFinalState <- McRefunded
  AgentAnswers = {"done", ""}
  AgentCalls <- McPairCalls
  MaxSteps = 2
  MaxModelRetries = 1
  MaxCalls = 1
  PageSize = 5
CHECK_DEADLOCK FALSE
INVARIANTS EveryRegressionIsAttributed OnlyTheAgentDiverges StorageRoundTrip ShownAnswersLastQuestion LinkLandsOnDivergence
