\* A delivery is undone on another screen before its reply was seen.
CONSTANTS
    d1 = d1
    d2 = d2
    Devices = {d1, d2}
    Browsers = {d1, d2}
    BrowserOf <- OwnBrowsers
    BallIds = {b1, b2}
    Players = {p1}
    Ineligible = {}
    MaxLeases = 3
    MaxUndos = 1
    MaxCorrections = 0
    MaxFaults = 1
SPECIFICATION Spec
SYMMETRY MCSymmetry
CHECK_DEADLOCK FALSE
INVARIANT AcceptedOnce
