\* Overs, strike and bowlers of a short innings.
CONSTANTS
    Batters <- ThreeBatters
    Bowlers <- TwoBowlers
    BallsPerOver = 2
    Overs = 2
    Keypad = {"single", "wide", "dead", "out"}
    Limits <- Everything
    MaxOther = 1
SPECIFICATION Spec
CHECK_DEADLOCK FALSE
INVARIANTS
    TypeOK
    
    NoConsecutiveOvers
    PausedForAReason
    StrikeFollowsTheInnings
