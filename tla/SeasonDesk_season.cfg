\* Every kind of request on a season whose regular matches may be over.
CONSTANTS
    Teams <- FourTeams
    Pairing <- TwoFixtures
    Drafts = {"r2"}
    Competitions = {"t20 blast"}
    Played <- AllEntries
    Entries <- ThreeEntries
    Decisions <- TwoDecisions
    Changes <- SomeChanges
    Worked = {"r1", "qualifier_1"}
    LiveEntries <- LiveResults
    BonusRuns = 20
    AllOut = 10
    AllottedBalls = 8
    Handlers = {"publish", "bracket", "result", "update", "cancel", "discipline", "recompute", "score", "play", "finalize", "calloff", "reset"}
    MaxRequests = 4
SPECIFICATION Spec
CHECK_DEADLOCK FALSE
INVARIANTS
    TypeOK
    SeedingFollowsPublicTable
PROPERTIES
    BracketFollowsResults
    TotalsStayRight
