\* Three requests at a time on two certifications, one of them seeded; every
\* fault; days of two ticks, months of six, two and four.
SPECIFICATION Spec
CONSTANTS
    Ids = {c1, c2}
    approved = c2
    ann = ann
    Slots = {s1, s2, s3}
    Users = {ann, ghost}
    KnownUsers = {ann}
    Instants = {3, 7}
    DayTicks = 2
    Horizon = 7
    MonthLen <- Months
    Notice = 2
    Verdicts = {"approved", "rejected", "bogus"}
    SeedCerts <- Seeds
    NoDate = NoDate
    NoRow = NoRow
    NoCall = NoCall
INVARIANTS
    TypeOK
    WarnedInTime
PROPERTIES
    RepeatedReviewRefused
    Settles
