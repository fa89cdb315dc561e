\* Two record requests at a time, every body.
SPECIFICATION Spec
CONSTANTS
    Ids = {t1, t2}
    Slots = {s1, s2}
    SignIns = {"crew1"}
    Rates = {95, 101}
    Months = {"may", "june"}
    ThisMonth = "may"
    Omitted = Omitted
    NoRow = NoRow
    NoCall = NoCall
    NoCount = NoCount
INVARIANTS
    TypeOK
    SignInsKept
    RateIsAShare
