\* One session, one driver, two concurrent deletions, every fault but a
\* transient network failure.
CONSTANTS
    MaxApps = 1
    MaxAttempts = 1
    Requests = {r1, r2}
    r1 = r1
    r2 = r2
    Faults = {"crash", "disconnect", "db", "loss", "slow", "driver_crash"}
SPECIFICATION Spec
SYMMETRY RequestSymmetry
INVARIANTS LifecycleInv ActiveIffRunning ServingListed EvidenceInv ServingInv
PROPERTIES TableSpec FailedOnEvidence
CHECK_DEADLOCK FALSE
