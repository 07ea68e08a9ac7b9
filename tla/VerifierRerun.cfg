SPECIFICATION Spec
CONSTANTS
    Scopes = {s1, s2}
    MaxPolls = 1
    MaxRuns = 2
    Controllers = 2
    MaxChurn = 3
INVARIANTS RerunAtMostOnce SubmittedFailsClosed
PROPERTIES ObservedAlone
