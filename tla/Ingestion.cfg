CONSTANTS
    TimeOf <- MCTimes
    Versions = {1, 2}
    Budget = 1
    Failures = {"open", "read", "load", "commit"}
    MaxRewrites = 1
SPECIFICATION Spec
INVARIANTS CheckpointMatches OneRowPerLine
PROPERTIES EveryLineIsCounted ShorterIsReplaced
CHECK_DEADLOCK FALSE
