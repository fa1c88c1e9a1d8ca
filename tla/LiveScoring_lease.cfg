\* A super admin and a scorer on two screens contend for one match.
CONSTANTS
    SuperAdmins = {admin}
    Managers = {}
    Scorers = {s1}
    Devices = {d1, d2}
    Players = {p1}
    ConcussionSubs = {}
    BallIds = {b1, b2}
    Targets = {}
    SessionLease = 1
    LockDelay = 1
    AccessWindow = 1
    MaxClock = 2
    MaxVersion = 4
    MaxSessions = 2
    MaxRequests = 1
SPECIFICATION Spec
SYMMETRY MCSymmetry
CHECK_DEADLOCK FALSE
INVARIANT TypeOK
INVARIANT OneActiveSession
PROPERTY ImplementsServer
PROPERTY LedgerWritesAuthorised
