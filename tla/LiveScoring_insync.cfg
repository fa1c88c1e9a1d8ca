\* A squad saved after the first deliveries.
CONSTANTS
    SuperAdmins = {admin}
    Managers = {}
    Scorers = {}
    Devices = {screen}
    Players = {p1, p2}
    ConcussionSubs = {}
    BallIds = {b1, b2}
    Targets = {1}
    SessionLease = 1
    LockDelay = 1
    AccessWindow = 1
    MaxClock = 1
    MaxVersion = 4
    MaxSessions = 4
    MaxRequests = 0
SPECIFICATION Spec
SYMMETRY MCSymmetry
CHECK_DEADLOCK FALSE
INVARIANT InSyncScorecardIsRebuilt
