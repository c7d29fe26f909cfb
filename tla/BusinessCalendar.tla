--------------------------- MODULE BusinessCalendar ---------------------------
(***************************************************************************)
(* The forensic calendar arithmetic of DeadlineService: which days are     *)
(* business days, the due date of a procedural deadline, the business days *)
(* left until it, and the alert window a deadline is in.                   *)
(*                                                                         *)
(* A date is an integer; date 0 is a Monday, so d % 7 is date.weekday().   *)
(* `holidays` is the set of dates of the forensic_holidays rows applicable *)
(* to the deadline's court and comarca (ForensicDeadlines selects them).    *)
(***************************************************************************)
EXTENDS Integers, FiniteSetsExt

\* Mutant: the sentinel loses its sign and collides with the one-day window.
SentinelWithoutSign == 1

\* Sentinel days_before of the DEADLINE_EXPIRED alert.
EXPIRED_DAYS_BEFORE == -1

\* _smallest_interval returned None: no alert window contains the deadline.
NoInterval == -2

IsBusinessDay(d, holidays) == d % 7 < 5 /\ d \notin holidays

\* First business day on or after d: n holidays cannot fill n + 1 weeks.
NextBusinessDay(d, holidays) ==
    Min({b \in d..(d + 7 * (Cardinality(holidays) + 1)) :
            IsBusinessDay(b, holidays)})

(***************************************************************************)
(* calculate_due_date: the holidays are fetched once, for a window that    *)
(* ends business_days * 3 + 60 days after the start; a holiday after the   *)
(* window is not seen.  The start is moved to a business day, then one     *)
(* business day is counted at a time.                                      *)
(***************************************************************************)
Horizon(start, businessDays) == start + businessDays * 3 + 60

VisibleHolidays(start, businessDays, holidays) ==
    holidays \cap (start..Horizon(start, businessDays))

\* Mutant: the start is not moved to a business day first.
DueDateFromRawStart(start, businessDays, holidays) ==
    LET counted[k \in 0..businessDays] ==
            IF k = 0 THEN start
                     ELSE NextBusinessDay(counted[k - 1] + 1, holidays)
    IN  counted[businessDays]

DueDate(start, businessDays, holidays) ==
    LET visible == VisibleHolidays(start, businessDays, holidays)
        counted[k \in 0..businessDays] ==
            IF k = 0 THEN NextBusinessDay(start, visible)
                     ELSE NextBusinessDay(counted[k - 1] + 1, visible)
    IN  counted[businessDays]

\* business_days_until: the business days in (today, due].
BusinessDaysUntil(due, today, holidays) ==
    IF due <= today
    THEN 0
    ELSE Cardinality({d \in (today + 1)..due : IsBusinessDay(d, holidays)})

\* Mutant: outside every window the days left are taken for a window.
IntervalOrDaysLeft(intervals, businessDaysLeft) ==
    LET applicable == {i \in intervals : businessDaysLeft <= i}
    IN  IF applicable = {} THEN businessDaysLeft ELSE Min(applicable)

\* _smallest_interval: the tightest configured window the deadline is in.
SmallestInterval(intervals, businessDaysLeft) ==
    LET applicable == {i \in intervals : businessDaysLeft <= i}
    IN  IF applicable = {} THEN NoInterval ELSE Min(applicable)

\* Mutant: a deadline due today is already taken for overdue.
AlertDueFromDueDay(due, today, holidays, intervals) ==
    IF due <= today
    THEN EXPIRED_DAYS_BEFORE
    ELSE SmallestInterval(intervals, BusinessDaysUntil(due, today, holidays))

\* Mutant: the branch of overdue deadlines is missing.
AlertDueWithoutExpiry(due, today, holidays, intervals) ==
    SmallestInterval(intervals, BusinessDaysUntil(due, today, holidays))

\* The alert dispatch_alerts owes on day `today` to a deadline due on `due`.
AlertDue(due, today, holidays, intervals) ==
    IF due < today
    THEN EXPIRED_DAYS_BEFORE
    ELSE SmallestInterval(intervals, BusinessDaysUntil(due, today, holidays))

===============================================================================
