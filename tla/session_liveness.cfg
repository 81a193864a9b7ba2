\* Two drivers may be started for the session; callbacks are lost or late,
\* drivers crash, live drivers are unreachable for a while.
CONSTANTS
    MaxApps = 1
    MaxAttempts = 2
    Requests = {r1}
    r1 = r1
    Faults = {"loss", "slow", "flaky", "driver_crash"}
SPECIFICATION FairSpec
PROPERTIES FinishedOnGoodbye LaunchSettles DeadSessionSettles
CHECK_DEADLOCK FALSE
