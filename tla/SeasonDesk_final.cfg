\* The result of Qualifier 1 is corrected after Qualifier 2 was played.
CONSTANTS
    Teams <- FourTeams
    Pairing <- TwoFixtures
    Drafts = {}
    Competitions = {"super40"}
    Played <- DecidedEntries
    Entries <- BothWays
    Decisions <- NoDecision
    Changes <- NoChange
    Worked = {"qualifier_1", "eliminator", "qualifier_2"}
    LiveEntries <- OneEntry
    BonusRuns = 20
    AllOut = 10
    AllottedBalls = 8
    Handlers = {"bracket", "result"}
    MaxRequests = 5
SPECIFICATION Spec
CHECK_DEADLOCK FALSE
INVARIANT HomeAndAwayDiffer
