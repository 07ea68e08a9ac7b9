SPECIFICATION Spec
CONSTANTS
    Receipts = {r1, r2}
    Findings = {f1}
    Comparisons = 2
    MaxEpoch = 2
    MaxChurn = 2
INVARIANTS TypeOK SnapshotIsReal SuccessHeldTwice NothingSeenIsForgotten
PROPERTIES ImplementsAtomicGate SuccessIsCurrent Terminates QuietCleanSucceeds
