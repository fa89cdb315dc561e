\* Executions with every body the endpoint accepts, up to two marks, racing
\* each other, a report and a crash on two inspections, one of them seeded.
SPECIFICATION FairSpec
CONSTANTS
    Ids = {i1, i2}
    seeded = i2
    SeedRows <- SeedInspections
    SeedItems <- SeedInspectionItems
    Slots = {s1, s2}
    Readers = {r1}
    ItemNos = {1, 2}
    Requests <- ShortRequests
    NoRow = NoRow
    Nobody = Nobody
    NoCall = NoCall
    NoView = NoView
INVARIANTS
    TypeOK
    ReportFinal
PROPERTIES
    OutcomeFinal
    CountsMatchItems
    ImplementsPlan
    WaitingAnswered
