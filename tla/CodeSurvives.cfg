SPECIFICATION Spec
CONSTANTS
  Datasets <- MCLongNumbers
  Scores = {0}
  None = None
  EnableTools = TRUE
  TopK = 2
  MinScore = 2
  Thresholds = {1, 2, 3}
INVARIANT CodeSurvives
CHECK_DEADLOCK FALSE
