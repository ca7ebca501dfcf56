SPECIFICATION Spec
CONSTANTS
  Datasets <- MCDatasets
  Scores = {0, 1, 2, 3}
  None = None
  EnableTools = TRUE
  TopK = 2
  MinScore = 2
  Thresholds = {1, 2, 3}
INVARIANTS TypeOK MaskedExactly NoneSurvives  NoNumberInvented SweepPredicts SweepAgrees RefusalsForetold ReportCompletes
CHECK_DEADLOCK FALSE
