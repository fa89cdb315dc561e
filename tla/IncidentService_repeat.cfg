\* A repeated close, asked of the racing handlers.
SPECIFICATION Spec
CONSTANTS
    Ids = {i1}
    Slots = {s1, s2}
    Reporters = {ann}
    Measures = {"m1"}
    SeverityInputs = {"major"}
    SeedRows <- EmptyTable
    NoRow = NoRow
    NoCall = NoCall
    seeded = i1
PROPERTY
    RepeatedCloseRefused
