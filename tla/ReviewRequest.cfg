SPECIFICATION Spec
CONSTANTS
    RunIds = {k1, k2}
    Heads = {h1, h2}
    Bases = {b1, b2}
    MaxClock = 1
    Invocations = 2
    MaxChurn = 3
INVARIANTS DuplicatesOnlyAfterUnknown
PROPERTIES AcceptedAfterRetarget QuietRequestAccepted
