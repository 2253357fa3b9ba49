\* Two requests at once that may both record a result.
SPECIFICATION Spec
CONSTANTS
  q1 = q1
  q2 = q2
  q3 = q3
  Requests = {q1, q2}
  SerialResults = FALSE
  FreshEventIds = FALSE
  KeyedEvents = TRUE
  Seed = Seed
  Nowhere = Nowhere
  h0 = h0
  h1 = h1
  Contents = {h0, h1}
  SeedContent = h0
  SequenceNos = {0}
  Results = {"passed", "errored"}
  Faults = FALSE
PROPERTY FinalizationIsOneWay
CHECK_DEADLOCK FALSE
