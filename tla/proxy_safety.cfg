CONSTANTS
    MaxApps = 1
    MaxAttempts = 1
    Requests = {q1, q2, q3}
    q1 = q1
    q2 = q2
    q3 = q3
    NoRequest = NoRequest
    MaxDispatchers = 3
    Closers = {c1}
    c1 = c1
    ConnectRetries = 1
    ProxyFaults = {"disconnect", "db"}
SPECIFICATION Spec
SYMMETRY Symmetry
INVARIANTS SenderOutlivesUse NoServiceAfterClose UpstreamInv
PROPERTIES NeverReplaced
CHECK_DEADLOCK FALSE
