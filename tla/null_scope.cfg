\* PATCH may carry an explicit null scope, as its schema allows.
SPECIFICATION Spec
CONSTANTS
    MaxHolidays = 2
    HolidayDates = {4, 7}
    Courts = {"TJDFT"}
    Comarcas = {"Brasilia"}
    ScopePayloads = {"NATIONAL", "COURT", "COMARCA", Null}
    SeedEntries <- MCSeedEntries
    Deadlines = {"d1"}
    Admins = {"a1"}
    Requests = {"r1"}
    StartDates <- MCStartDates
    DayCounts = {1, 2}
    Null = Null
    Unset = Unset
    NoRow = NoRow
    MaxEdits = 2
INVARIANT
    ScopesStayConsistent
CHECK_DEADLOCK FALSE
