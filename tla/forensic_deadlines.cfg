\* One PATCH of a deadline in flight at a time, beside calendar edits that overlap.
SPECIFICATION Spec
CONSTANTS
    MaxHolidays = 2
    HolidayDates = {4, 7}
    Courts = {"TJDFT"}
    Comarcas = {"Brasilia"}
    ScopePayloads = {"NATIONAL", "COURT", "COMARCA"}
    SeedEntries <- MCSeedEntries
    Deadlines = {"d1"}
    Admins = {a1, a2}
    Requests = {"r1"}
    StartDates <- MCStartDates
    DayCounts = {2}
    Null = Null
    Unset = Unset
    NoRow = NoRow
    MaxEdits = 3
SYMMETRY AdminSymmetry
INVARIANTS
    TypeOK
    DueDatesFollowTheirInputs
    ScopesStayConsistent
    DueDateIsTheNthBusinessDay
CHECK_DEADLOCK FALSE
