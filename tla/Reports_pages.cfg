\* Three incidents in pages of one row, two inspections, two years of two months.
SPECIFICATION Spec
CONSTANTS
    i1 = i1
    i2 = i2
    i3 = i3
    p1 = p1
    p2 = p2
    Incidents = {i1, i2, i3}
    Statuses = {"reported", "resolved"}
    Severities = {"major", "minor"}
    SeverityOf <- TwoGrades
    OccurredAt <- TwoMonths
    Inspections = {p1, p2}
    MonthsPerYear = 2
    Horizon = 2
    PageSize = 1
    PendingLimit = 2
    Absent = Absent
    NoRow = NoRow
    NoFilter = NoFilter
    NoRead = NoRead
SYMMETRY Symmetry
INVARIANTS
    TypeOK
    FiguresAgree
    RateIsAShare
    RateOfThisMonth
    PagesComplete
