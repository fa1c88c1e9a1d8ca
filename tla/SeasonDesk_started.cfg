\* A scorer starts a playoff match while a result of the season is being saved.
CONSTANTS
    Teams <- FourTeams
    Pairing <- TwoFixtures
    Drafts = {}
    Competitions = {"super40"}
    Played <- DecidedEntries
    Entries <- BothWays
    Decisions <- NoDecision
    Changes <- NoChange
    Worked = {"r1", "qualifier_1"}
    LiveEntries <- OneEntry
    BonusRuns = 20
    AllOut = 10
    AllottedBalls = 8
    Handlers = {"bracket", "result", "score", "play"}
    MaxRequests = 4
SPECIFICATION Spec
CHECK_DEADLOCK FALSE
INVARIANT ScorecardKeepsTeams
