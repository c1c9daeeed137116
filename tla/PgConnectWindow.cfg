CONSTANTS
    RetryWindow = 10
    RetryDelay = 2
    AttemptTimes = {0, 1}
    MaxFlips = 3
SPECIFICATION Spec
CHECK_DEADLOCK FALSE
INVARIANT RetriesForTheWholeWindow
