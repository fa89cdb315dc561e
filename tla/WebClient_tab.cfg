\* Two requests in flight, two incidents and inspections, two sessions.
\* The bounds on logins and writes let a tab come to its end.
CHECK_DEADLOCK FALSE
SPECIFICATION TabSpec
CONSTANTS
    Ids = {i1, i2}
    Slots = {r1, r2}
    MaxWrites = 2
    MaxSessions = 2
    NoId = NoId
    NoRequest = NoRequest
SYMMETRY Symmetry
INVARIANTS
    TabTypeOK
    WaitingUserSeesTruth
    ExecutesItsItems
PROPERTY
    SessionKept
