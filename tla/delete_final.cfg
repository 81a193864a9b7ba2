\* A deletion and a callback, nothing else goes wrong.
CONSTANTS
    MaxApps = 1
    MaxAttempts = 1
    Requests = {r1}
    r1 = r1
    Faults = {}
SPECIFICATION Spec
INVARIANT DeleteIsFinal
CHECK_DEADLOCK FALSE
