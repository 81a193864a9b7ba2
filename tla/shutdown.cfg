CONSTANTS
    Conns = {c1, c2, c3}
    NoConn = NoConn
    ServerFaults = {"accept", "handshake"}
SPECIFICATION FairSpec
INVARIANT ShutdownInv
PROPERTIES KeepsContract ShutdownCompletes
CHECK_DEADLOCK FALSE
