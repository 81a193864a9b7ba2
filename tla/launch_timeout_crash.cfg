\* The server is restarted while a launch is under way.
CONSTANTS
    MaxApps = 1
    MaxAttempts = 1
    Requests = {}
    Faults = {"crash"}
SPECIFICATION FairSpec
PROPERTY LaunchTimeoutHonoured
CHECK_DEADLOCK FALSE
