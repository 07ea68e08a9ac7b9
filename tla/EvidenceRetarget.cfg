SPECIFICATION Spec
CONSTANTS
    MaxTime = 3
    MaxEvents = 3
    Happenings = {"comment", "clean", "base"}
CHECK_DEADLOCK FALSE
INVARIANT FreshCleanSufficesAfterRetarget
