\* One screen, a network that fails twice, a delivery to correct.
CONSTANTS
    d1 = d1
    d2 = d2
    Devices = {d1}
    Browsers = {d1}
    BrowserOf <- OwnBrowsers
    BallIds = {b1, b2}
    Players = {p1, unregistered}
    Ineligible = {unregistered}
    MaxLeases = 1
    MaxUndos = 0
    MaxCorrections = 1
    MaxFaults = 2
SPECIFICATION FairSpec
CHECK_DEADLOCK FALSE
INVARIANT TypeOK
INVARIANT RecordedOrderKept
INVARIANT PausedForAReason
PROPERTY QueuedBallsDrain
