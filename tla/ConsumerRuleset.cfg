SPECIFICATION Spec
CONSTANTS
    MaxRuns = 2
    MaxChurn = 2
INVARIANTS
    WriteWasChecked
    AttestedWasReal
PROPERTY
    WritesKeepTheGate
CHECK_DEADLOCK FALSE
