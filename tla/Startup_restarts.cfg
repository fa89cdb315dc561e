\* Three faults, anywhere in the start.
\* A service that is up, with no fault left to come, does nothing more.
CHECK_DEADLOCK FALSE
SPECIFICATION FairSpec
CONSTANTS
    SeedTables <- SmallSeed
    RefersTo <- SmallReferences
    MaxFaults = 3
INVARIANTS
    TypeOK
    LiteralIdsHold
    SeedWhole
PROPERTY
    ServesInTheEnd
