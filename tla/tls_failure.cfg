CONSTANTS
    Conns = {c1, c2}
    NoConn = NoConn
    ServerFaults = {"handshake"}
SPECIFICATION Spec
INVARIANT ExistingConnectionsFinish
CHECK_DEADLOCK FALSE
