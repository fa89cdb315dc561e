\* Three handlers at once on two incidents, one of them seeded; every fault.
SPECIFICATION FairSpec
CONSTANTS
    Ids = {i1, i2}
    Slots = {s1, s2, s3}
    Reporters = {ann}
    Measures = {"m1"}
    SeverityInputs = {"major", "bogus"}
    SeedRows <- InvestigatedSeed
    NoRow = NoRow
    NoCall = NoCall
    seeded = i1
INVARIANTS
    TypeOK
    MeasuresRecorded
PROPERTIES
    RowsKept
    ImplementsLifecycle
    Converges
