SPECIFICATION Spec
CONSTANTS
  N = 2
  Answers <- McAnswers
CHECK_DEADLOCK FALSE
INVARIANTS VerdictIsTheModels PanelIsStoredInOrder DisagreementSurfaces
