SPECIFICATION GateSpec
CONSTANTS
    Heads = {a, b}
    AckTimeout = 1
    AckMax = 2
    ResultTimeout = 2
    MaxWait = 3
    Quiet = 2
    Sound = 4
    MaxTime = 8
    MaxAnswers = 1
    MaxPushes = 1
    MaxMishaps = 1
CHECK_DEADLOCK FALSE
INVARIANTS PendingEnds WaitIsNotRenewed AsksAgainWhenOverdue OneRequestPerHead
SYMMETRY HeadSymmetry
