SPECIFICATION Spec
CONSTANTS
  Customers = {"alice"}
  Orders = {"o1", "o2", "o3"}
  Tickets = {"t1"}
  Skus = {"lamp", "sofa"}
  Owner <- McOwner
  Items <- McItems
  DaysAgo <- McDaysAgo
  Total <- McTotal
  SeedStatus <- McSeedStatus
  SeedRefunds <- McSeedRefunds
  SeedTickets <- McSeedTickets
  ExpectedActions <- McExpected
  ForbiddenActions <- McForbidden
  ExpectedFinalState <- McFinalState
  AgentAnswers = {"done", ""}
  AgentCalls <- McCalls
  MaxSteps = 2
  MaxModelRetries = 1
  MaxCalls = 2
CHECK_DEADLOCK FALSE
INVARIANTS TypeOK EvidenceChain EndOfTrace InformedRequests PassedByItsTrace ReplayReproducesState MoneyMovesOnce
