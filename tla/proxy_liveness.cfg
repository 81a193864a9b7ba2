CONSTANTS
    MaxApps = 1
    MaxAttempts = 1
    Requests = {q1, q2}
    q1 = q1
    q2 = q2
    NoRequest = NoRequest
    MaxDispatchers = 2
    Closers = {c1}
    c1 = c1
    ConnectRetries = 1
    ProxyFaults = {"disconnect"}
SPECIFICATION FairSpec
PROPERTIES AllAnswered InvalidatedExits
CHECK_DEADLOCK FALSE
