SPECIFICATION Spec
CONSTANTS
    r1 = r1  r2 = r2
    Request <- MCRequest
    Grace = 2
INVARIANT GracefulShutdown
CHECK_DEADLOCK FALSE
