\* One lost run is enough to repeat an alert.
SPECIFICATION Spec
CONSTANTS
    d1 = d1
    d2 = d2
    author = author
    NoUser = NoUser
    NoDeadline = NoDeadline
    Deadlines <- OneDeadline
    Creators <- AuthorOnly
    Schedulers = {"scheduler"}
    Intervals = {0, 1}
    FirstDay = 0
    LastDay = 3
    DaysToCount = {1}
    HolidayDates = {2}
    MaxLost = 1
    MaxEdits = 0
INVARIANT
    EachAlertSentOnce
