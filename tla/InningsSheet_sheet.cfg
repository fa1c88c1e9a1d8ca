\* Deliveries of every kind, in two innings of two overs of two.
CONSTANTS
    Sides <- Threes
    BallsPerOver = 2
    Overs = 2
    Wickets = 2
    Keypad <- Some
    Rulings = {"end"}
    Targets = {2}
    MaxBalls = 3
SPECIFICATION Spec
CHECK_DEADLOCK FALSE
INVARIANTS
    TypeOK
    ScoreShown
    RunsAccounted
    BowlersAccounted
    BattersAgree
    PartnershipsAccounted
    BattersShown
    ResultShown
