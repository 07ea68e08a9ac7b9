SPECIFICATION Spec
CONSTANTS
    MaxTime = 3
    MaxEvents = 4
    Happenings = {"marker", "bare", "comment", "review", "clean", "finding", "failure", "+1", "eyes", "draft", "run", "base", "withdraw"}
CHECK_DEADLOCK FALSE
INVARIANTS ClearedByLaterRequest SuccessAfterRetarget FreshCleanSuffices AnsweredMarkerClears
PROPERTIES WithdrawalNeverHelps
