\* Clocks one tick apart, three windows of four ticks, two restarts.
SPECIFICATION Spec
CONSTANTS
    Limit = 2
    ServerLimit = 4
    Window = 4
    Second = 2
    RequestTimeout = 2
    Skew = 1
    MaxNow = 12
    MaxRestarts = 2
INVARIANT SendRateBound
PROPERTIES
    ThrottleWaitIsEnough
    RetryAfterIsEnough
    RefusedOnlyAfterRestart
CHECK_DEADLOCK FALSE
