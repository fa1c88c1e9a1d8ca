SPECIFICATION Spec
CONSTANTS
    Keys <- MCKeys
    MaxWrites = 2
CHECK_DEADLOCK FALSE
INVARIANTS
    TypeOK
    OwnWritesShown
    StaleIsFetched
PROPERTIES
    SavesEnd
    PolledPagesCatchUp
