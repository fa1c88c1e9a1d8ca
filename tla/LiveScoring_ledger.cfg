\* One administrator on one screen: every sequence of scoring writes.
CONSTANTS
    SuperAdmins = {admin}
    Managers = {}
    Scorers = {}
    Devices = {screen}
    Players = {p1, p2}
    ConcussionSubs = {p2}
    BallIds = {b1, b2}
    Targets = {1}
    SessionLease = 1
    LockDelay = 1
    AccessWindow = 1
    MaxClock = 1
    MaxVersion = 6
    MaxSessions = 4
    MaxRequests = 0
SPECIFICATION Spec
SYMMETRY MCSymmetry
CHECK_DEADLOCK FALSE
INVARIANT FiguresFollowLedger
INVARIANT AlwaysReconciled
INVARIANT CompletedResultFollowsLedger
INVARIANT CompletedFiguresCounted
INVARIANT NoDuplicateBall
PROPERTY VersionNamesLedger
PROPERTY CorrectionsKeepLockTime
