\* Three requests at once; callers serialise record_result per execution.
SPECIFICATION Spec
CONSTANTS
  q1 = q1
  q2 = q2
  q3 = q3
  Requests = {q1, q2, q3}
  SerialResults = TRUE
  FreshEventIds = FALSE
  KeyedEvents = TRUE
  Seed = Seed
  Nowhere = Nowhere
  h0 = h0
  h1 = h1
  Contents = {h0, h1}
  SeedContent = h0
  SequenceNos = {0, 1}
  Results = {"passed", "failed", "errored"}
  Faults = TRUE
INVARIANTS SessionTypeOK OneVersionPerContent SomeCallProceeds
PROPERTY ImplementsPlatformStore
SYMMETRY MCSymmetry
CHECK_DEADLOCK FALSE
