\* One scheduler process, as docker-compose deploys it; two deadlines.
SPECIFICATION Spec
CONSTANTS
    d1 = d1
    d2 = d2
    author = author
    NoUser = NoUser
    NoDeadline = NoDeadline
    Deadlines <- MCDeadlines
    Creators <- AuthorOnly
    Schedulers = {"scheduler"}
    Intervals = {0, 1}
    FirstDay = 0
    LastDay = 3
    DaysToCount = {1}
    HolidayDates = {2}
    MaxLost = 1
    MaxEdits = 1
SYMMETRY DeadlineSymmetry
INVARIANTS
    TypeOK
    MailsBoundedByLostRuns
    VisitedDeadlinesAreCovered
    ExpiredAlertsAreTrue
PROPERTIES
    AlertsOnlyEscalate
    ImplementsLedger
