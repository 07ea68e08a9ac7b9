SPECIFICATION Spec
CONSTANTS
    LastVersion = 2
    MaxRuns = 3
    MaxLost = 1
    MaxChurn = 1
CHECK_DEADLOCK FALSE
INVARIANTS CreatedOnce NoneLeftBehind TakesUpWhereLeft
