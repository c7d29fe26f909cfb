\* Two PATCHes of one deadline overlap.
SPECIFICATION Spec
CONSTANTS
    MaxHolidays = 2
    HolidayDates = {4, 7}
    Courts = {"TJDFT"}
    Comarcas = {"Brasilia"}
    ScopePayloads = {"NATIONAL", "COURT", "COMARCA"}
    SeedEntries <- MCSeedEntries
    Deadlines = {"d1"}
    Admins = {"a1"}
    Requests = {"r1", "r2"}
    StartDates <- MCStartDates
    DayCounts = {1, 2}
    Null = Null
    Unset = Unset
    NoRow = NoRow
    MaxEdits = 2
INVARIANT
    DueDatesFollowTheirInputs
CHECK_DEADLOCK FALSE
