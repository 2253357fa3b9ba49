SPECIFICATION Spec
CONSTANTS
  MaxMutations = 4
  TotalShifts <- McShifts
  AmountShifts <- McShifts
  Decoys = {"CUST-900", "CUST-999"}
CHECK_DEADLOCK FALSE
INVARIANTS TypeOK StillSolvable RefundGuardedAtItsLimit ComposedVariantsAreValid ReferenceAgentFailsByState
