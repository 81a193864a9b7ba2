CONSTANTS
    Requests = {r1, r2}
    Timeout = 3
    Period = 3
SPECIFICATION FairSpec
PROPERTIES StopsOnlyWhenQuiet IdleSessionEnds
CHECK_DEADLOCK FALSE
