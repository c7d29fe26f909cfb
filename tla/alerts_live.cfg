\* Two scheduler processes race for one deadline; a weekend in the window.
SPECIFICATION FairSpec
CONSTANTS
    d1 = d1
    d2 = d2
    author = author
    NoUser = NoUser
    NoDeadline = NoDeadline
    Deadlines <- OneDeadline
    Creators <- AuthorOrNobody
    Schedulers = {"s1", "s2"}
    Intervals = {1}
    FirstDay = 4
    LastDay = 8
    DaysToCount = {1}
    HolidayDates = {7}
    MaxLost = 1
    MaxEdits = 0
PROPERTIES
    OverdueIsEventuallyRecorded
