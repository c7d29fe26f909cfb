---------------------------- MODULE DeadlineAlerts ----------------------------
(***************************************************************************)
(* The daily alert job (dispatch_deadline_alerts_job) running beside the   *)
(* HTTP requests that create, patch and delete deadlines and administer    *)
(* the forensic calendar.                                                  *)
(*                                                                         *)
(* The job is modelled query by query, because under READ COMMITTED any    *)
(* request may commit between two of its statements:                       *)
(*   list_all -> per deadline: read the row, read the alerts already sent  *)
(*   and the holidays, notify by e-mail, commit the deadline_alert row,    *)
(*   log it.                                                               *)
(* The rows returned by list_all stay in the Session's identity map: until *)
(* the run's first commit the job works on that snapshot; a commit expires *)
(* every instance, so later accesses read the current row and fail with    *)
(* ObjectDeletedError if it is gone.  Any exception ends the whole run.    *)
(***************************************************************************)
EXTENDS BusinessCalendar

CONSTANTS
    Deadlines,      \* primary keys of the deadlines table (never reused)
    Creators,       \* values of created_by; may include NoUser (NULL)
    NoUser,
    NoDeadline,     \* no row / no current deadline
    Schedulers,     \* processes running the APScheduler job
    Intervals,      \* DEADLINE_ALERT_INTERVALS
    FirstDay, LastDay,  \* the modelled days; LastDay also stands for later ones
    DaysToCount,    \* business_days of the payloads
    HolidayDates,   \* dates an admin may declare or withdraw as holidays
    MaxLost,        \* bound: runs a scheduler process may lose to a crash
    MaxEdits        \* bound: PATCHes of deadlines and edits of the calendar

ASSUME IntervalsAssumption == Intervals \subseteq Nat
ASSUME DaysAssumption ==
    FirstDay \in Int /\ LastDay \in Int /\ FirstDay < LastDay
ASSUME BoundsAssumption == MaxLost \in Nat /\ MaxEdits \in Nat

Days == FirstDay..LastDay

AlertKeys == Intervals \cup {EXPIRED_DAYS_BEFORE}

\* A row of deadlines; start_date, business_days and comarca are only inputs
\* of due_date here.
Rows == [due_date : Days, created_by : Creators]

ASSUME SentinelAssumption == NoDeadline \notin Deadlines \cup Rows

VARIABLES
    today,          \* date.today() of the server
    holidays,       \* dates of the applicable forensic_holidays rows
    created,        \* ids already handed out by the deadlines sequence
    deadline,       \* the deadlines table
    alerts,         \* the deadline_alert table: <<deadline_id, days_before>>
    edits,          \* number of edits so far (bounded by MaxEdits)
    \* one dispatch_alerts run per scheduler process
    pc,
    fired,          \* the cron trigger has fired today
    runDay,         \* `today` argument of dispatch_alerts
    todo,           \* deadlines of list_all not visited yet
    snapshot,       \* the rows as list_all read them
    expired,        \* a commit has expired the instances of the session
    cur,            \* the deadline being handled
    held,           \* its row, as loaded for this iteration
    key,            \* days_before of the alert being sent
    \* observation of the run, not state of the program
    notified,       \* notify() calls per scheduler and alert
    lost,           \* runs lost to a crash, per scheduler
    touched,        \* deadlines whose alert may have changed during the run
    eased           \* deadlines whose due date once moved further away

tables == <<today, holidays, created, deadline, edits, eased>>
runVars == <<pc, runDay, todo, snapshot, expired, cur, held, key>>
vars == <<tables, runVars, fired, alerts, notified, lost, touched>>

NoRows == [d \in Deadlines |-> NoDeadline]

LiveDeadlines == {d \in Deadlines : deadline[d] # NoDeadline}

TypeOK ==
    /\ today \in Days
    /\ holidays \subseteq HolidayDates
    /\ created \subseteq Deadlines
    /\ deadline \in [Deadlines -> Rows \cup {NoDeadline}]
    /\ alerts \subseteq Deadlines \X AlertKeys
    /\ edits \in 0..MaxEdits
    /\ pc \in [Schedulers ->
                {"idle", "visit", "decide", "notify", "record", "log"}]
    /\ fired \in [Schedulers -> BOOLEAN]
    /\ runDay \in [Schedulers -> Days]
    /\ todo \in [Schedulers -> SUBSET Deadlines]
    /\ snapshot \in [Schedulers -> [Deadlines -> Rows \cup {NoDeadline}]]
    /\ expired \in [Schedulers -> BOOLEAN]
    /\ cur \in [Schedulers -> Deadlines \cup {NoDeadline}]
    /\ held \in [Schedulers -> Rows \cup {NoDeadline}]
    /\ key \in [Schedulers -> AlertKeys \cup {NoInterval}]
    /\ notified \in [Schedulers -> [Deadlines \X AlertKeys -> Nat]]
    /\ lost \in [Schedulers -> 0..MaxLost]
    /\ touched \in [Schedulers -> SUBSET Deadlines]
    /\ eased \subseteq Deadlines

Init ==
    /\ today = FirstDay
    /\ holidays = {}
    /\ created = {}
    /\ deadline = NoRows
    /\ alerts = {}
    /\ edits = 0
    /\ pc = [s \in Schedulers |-> "idle"]
    /\ fired = [s \in Schedulers |-> FALSE]
    /\ runDay = [s \in Schedulers |-> FirstDay]
    /\ todo = [s \in Schedulers |-> {}]
    /\ snapshot = [s \in Schedulers |-> NoRows]
    /\ expired = [s \in Schedulers |-> FALSE]
    /\ cur = [s \in Schedulers |-> NoDeadline]
    /\ held = [s \in Schedulers |-> NoDeadline]
    /\ key = [s \in Schedulers |-> NoInterval]
    /\ notified = [s \in Schedulers |-> [k \in Deadlines \X AlertKeys |-> 0]]
    /\ lost = [s \in Schedulers |-> 0]
    /\ touched = [s \in Schedulers |-> {}]
    /\ eased = {}

-------------------------------------------------------------------------------
(* Requests.  Each commits in one unit_of_work.                            *)

\* Due dates calculate_due_date can return for some payload; LastDay is kept
\* as the day on which every deadline is overdue.
PossibleDueDates ==
    {DueDate(start, n, holidays) : start \in Days, n \in DaysToCount}
        \cap (FirstDay..(LastDay - 1))

CreateDeadline(d, user, due) ==
    /\ d \notin created
    /\ due \in PossibleDueDates
    /\ created' = created \cup {d}
    /\ deadline' = [deadline EXCEPT ![d] =
                       [due_date |-> due, created_by |-> user]]
    /\ touched' = [s \in Schedulers |-> touched[s] \cup {d}]
    /\ UNCHANGED <<today, holidays, edits, eased, runVars, fired, alerts,
                   notified, lost>>

\* PATCH /deadlines/{id}: the alerts already recorded are kept.
UpdateDeadline(d, due) ==
    /\ d \in LiveDeadlines
    /\ edits < MaxEdits
    /\ due \in PossibleDueDates
    /\ edits' = edits + 1
    /\ deadline' = [deadline EXCEPT ![d].due_date = due]
    /\ touched' = [s \in Schedulers |-> touched[s] \cup {d}]
    /\ eased' = IF due > deadline[d].due_date THEN eased \cup {d} ELSE eased
    /\ UNCHANGED <<today, holidays, created, runVars, fired, alerts, notified,
                   lost>>

\* Mutant: the foreign key of deadline_alert does not cascade.
DeleteDeadlineOnly(d) ==
    /\ d \in LiveDeadlines
    /\ deadline' = [deadline EXCEPT ![d] = NoDeadline]
    /\ touched' = [s \in Schedulers |-> touched[s] \cup {d}]
    /\ UNCHANGED <<today, holidays, created, edits, eased, runVars, fired,
                   alerts, notified, lost>>

\* DELETE /deadlines/{id}: deadline_alert rows go with it (ON DELETE CASCADE).
DeleteDeadline(d) ==
    /\ d \in LiveDeadlines
    /\ deadline' = [deadline EXCEPT ![d] = NoDeadline]
    /\ alerts' = {a \in alerts : a[1] # d}
    /\ touched' = [s \in Schedulers |-> touched[s] \cup {d}]
    /\ UNCHANGED <<today, holidays, created, edits, eased, runVars, fired,
                   notified, lost>>

\* POST or DELETE /forensic-holidays: stored due dates are not recalculated.
EditCalendar(h) ==
    /\ edits < MaxEdits
    /\ edits' = edits + 1
    /\ \/ /\ h \notin holidays
          /\ holidays' = holidays \cup {h}
          /\ eased' = eased
       \/ /\ h \in holidays
          /\ holidays' = holidays \ {h}
          /\ eased' = Deadlines
    /\ touched' = [s \in Schedulers |-> Deadlines]
    /\ UNCHANGED <<today, created, deadline, runVars, fired, alerts, notified,
                   lost>>

-------------------------------------------------------------------------------
(* The job.                                                                *)

NextDay ==
    /\ today' = IF today = LastDay THEN LastDay ELSE today + 1
    /\ fired' = [s \in Schedulers |-> FALSE]
    /\ UNCHANGED <<holidays, created, deadline, edits, eased, runVars, alerts,
                   notified, lost, touched>>

\* The daily trigger; APScheduler never overlaps a job with itself.
FireJob(s) ==
    /\ pc[s] = "idle"
    /\ ~fired[s]
    /\ fired' = [fired EXCEPT ![s] = TRUE]
    /\ pc' = [pc EXCEPT ![s] = "visit"]
    /\ runDay' = [runDay EXCEPT ![s] = today]
    /\ todo' = [todo EXCEPT ![s] = LiveDeadlines]
    /\ snapshot' = [snapshot EXCEPT ![s] = deadline]
    /\ touched' = [touched EXCEPT ![s] = {}]
    /\ UNCHANGED <<tables, expired, cur, held, key, alerts, notified, lost>>

\* The session is closed: finished, or an exception reached the job's except.
EndRun(s) ==
    /\ pc' = [pc EXCEPT ![s] = "idle"]
    /\ todo' = [todo EXCEPT ![s] = {}]
    /\ snapshot' = [snapshot EXCEPT ![s] = NoRows]
    /\ expired' = [expired EXCEPT ![s] = FALSE]
    /\ cur' = [cur EXCEPT ![s] = NoDeadline]
    /\ held' = [held EXCEPT ![s] = NoDeadline]
    /\ key' = [key EXCEPT ![s] = NoInterval]
    /\ runDay' = [runDay EXCEPT ![s] = FirstDay]

\* Done with deadline d: on to the next one.
Skip(s, d) ==
    /\ pc' = [pc EXCEPT ![s] = "visit"]
    /\ todo' = [todo EXCEPT ![s] = @ \ {d}]
    /\ snapshot' = [snapshot EXCEPT ![s][d] = NoDeadline]
    /\ cur' = [cur EXCEPT ![s] = NoDeadline]
    /\ held' = [held EXCEPT ![s] = NoDeadline]
    /\ key' = [key EXCEPT ![s] = NoInterval]
    /\ UNCHANGED <<runDay, expired>>

\* Access to deadline.created_by: loads the row if the instance is expired.
Loaded(s, d) == IF expired[s] THEN deadline[d] ELSE snapshot[s][d]

Visit(s, d) ==
    /\ pc[s] = "visit"
    /\ d \in todo[s]
    /\ \/ /\ Loaded(s, d) = NoDeadline      \* ObjectDeletedError
          /\ EndRun(s)
       \/ /\ Loaded(s, d) # NoDeadline
          /\ Loaded(s, d).created_by = NoUser
          /\ Skip(s, d)
       \/ /\ Loaded(s, d) # NoDeadline
          /\ Loaded(s, d).created_by # NoUser
          /\ pc' = [pc EXCEPT ![s] = "decide"]
          /\ cur' = [cur EXCEPT ![s] = d]
          /\ held' = [held EXCEPT ![s] = Loaded(s, d)]
          /\ UNCHANGED <<runDay, todo, snapshot, expired, key>>
    /\ UNCHANGED <<tables, fired, alerts, notified, lost, touched>>

\* Mutant: any alert already sent stops further ones.
DecideOncePerDeadline(s) ==
    LET owed == AlertDue(held[s].due_date, runDay[s], holidays, Intervals)
        sent == {a \in alerts : a[1] = cur[s]}
    IN  /\ pc[s] = "decide"
        /\ \/ /\ owed = NoInterval \/ sent # {}
              /\ Skip(s, cur[s])
           \/ /\ owed # NoInterval
              /\ sent = {}
              /\ pc' = [pc EXCEPT ![s] = "notify"]
              /\ key' = [key EXCEPT ![s] = owed]
              /\ UNCHANGED <<runDay, todo, snapshot, expired, cur, held>>
        /\ UNCHANGED <<tables, fired, alerts, notified, lost, touched>>

\* sent_days_for, then the due-date test or business_days_until.
Decide(s) ==
    LET owed == AlertDue(held[s].due_date, runDay[s], holidays, Intervals)
    IN  /\ pc[s] = "decide"
        /\ \/ /\ owed = NoInterval \/ <<cur[s], owed>> \in alerts
              /\ Skip(s, cur[s])
           \/ /\ owed # NoInterval
              /\ <<cur[s], owed>> \notin alerts
              /\ pc' = [pc EXCEPT ![s] = "notify"]
              /\ key' = [key EXCEPT ![s] = owed]
              /\ UNCHANGED <<runDay, todo, snapshot, expired, cur, held>>
        /\ UNCHANGED <<tables, fired, alerts, notified, lost, touched>>

\* notify swallows every failure (inactive user, preference off, e-mail error),
\* so the job goes on in the same way whether a mail went out or not.
Notify(s) ==
    LET alert == <<cur[s], key[s]>>
    IN  /\ pc[s] = "notify"
        /\ notified' = [notified EXCEPT ![s][alert] = @ + 1]
        /\ pc' = [pc EXCEPT ![s] = "record"]
        /\ UNCHANGED <<tables, runDay, todo, snapshot, expired, cur, held, key,
                       fired, alerts, lost, touched>>

\* Mutant: the deadline_alert row is flushed but never committed.
RecordWithoutCommit(s) ==
    /\ pc[s] = "record"
    /\ pc' = [pc EXCEPT ![s] = "log"]
    /\ UNCHANGED <<tables, runDay, todo, snapshot, expired, cur, held, key,
                   fired, alerts, notified, lost, touched>>

\* The unit_of_work of _send_alert: unique (deadline_id, days_before) and the
\* foreign key; an IntegrityError ends the run.
Record(s) ==
    LET alert == <<cur[s], key[s]>>
    IN  /\ pc[s] = "record"
        /\ \/ /\ cur[s] \notin LiveDeadlines \/ alert \in alerts
              /\ EndRun(s)
              /\ UNCHANGED alerts
           \/ /\ cur[s] \in LiveDeadlines
              /\ alert \notin alerts
              /\ alerts' = alerts \cup {alert}
              /\ pc' = [pc EXCEPT ![s] = "log"]
              /\ expired' = [expired EXCEPT ![s] = TRUE]
              /\ snapshot' = [snapshot EXCEPT ![s] = NoRows]
              /\ UNCHANGED <<runDay, todo, cur, held, key>>
        /\ UNCHANGED <<tables, fired, notified, lost, touched>>

\* logger.info reads deadline.id of the instance the commit expired.
LogSent(s) ==
    /\ pc[s] = "log"
    /\ \/ cur[s] \notin LiveDeadlines /\ EndRun(s)
       \/ cur[s] \in LiveDeadlines /\ Skip(s, cur[s])
    /\ UNCHANGED <<tables, fired, alerts, notified, lost, touched>>

FinishRun(s) ==
    /\ pc[s] = "visit"
    /\ todo[s] = {}
    /\ EndRun(s)
    /\ UNCHANGED <<tables, fired, alerts, notified, lost, touched>>

\* The process is killed or loses the database in the middle of a run.
LoseRun(s) ==
    /\ pc[s] # "idle"
    /\ lost[s] < MaxLost
    /\ lost' = [lost EXCEPT ![s] = @ + 1]
    /\ EndRun(s)
    /\ UNCHANGED <<tables, fired, alerts, notified, touched>>

-------------------------------------------------------------------------------
Request ==
    \/ \E d \in Deadlines, u \in Creators, due \in Days :
          CreateDeadline(d, u, due)
    \/ \E d \in Deadlines, due \in Days : UpdateDeadline(d, due)
    \/ \E d \in Deadlines : DeleteDeadline(d)
    \/ \E h \in HolidayDates : EditCalendar(h)

JobStep(s) ==
    \/ \E d \in Deadlines : Visit(s, d)
    \/ Decide(s) \/ Notify(s) \/ Record(s) \/ LogSent(s) \/ FinishRun(s)

Next ==
    \/ Request
    \/ NextDay
    \/ \E s \in Schedulers : FireJob(s) \/ JobStep(s) \/ LoseRun(s)

Spec == Init /\ [][Next]_vars

\* Days pass, the cron trigger fires on a day the job is idle, and a started
\* run keeps executing; users and crashes owe nothing.
FairSpec ==
    /\ Spec
    /\ WF_vars(NextDay)
    /\ \A s \in Schedulers : WF_vars(FireJob(s)) /\ WF_vars(JobStep(s))

-------------------------------------------------------------------------------
(* Properties.                                                             *)

\* A scheduler process notifies of an alert of an existing deadline at most once
\* more than the number of runs it lost: notify() comes before the
\* deadline_alert row is committed (_send_alert), so only a run cut between the
\* two can repeat it.  (A deadline deleted behind the snapshot of list_all can
\* be mailed once more: its deadline_alert rows are gone with it.)
MailsBoundedByLostRuns ==
    \A s \in Schedulers, a \in Deadlines \X AlertKeys :
        a[1] \in LiveDeadlines => notified[s][a] <= 1 + lost[s]

\* While a run lasts, every deadline it has been through, and that no request
\* changed since the run started, has the alert it is owed on record: neither
\* a failed mail nor another scheduler makes dispatch_alerts leave one out.
VisitedDeadlinesAreCovered ==
    \A s \in Schedulers : pc[s] # "idle" =>
        \A d \in LiveDeadlines \ (todo[s] \cup touched[s]) :
            LET owed == AlertDue(deadline[d].due_date, runDay[s], holidays,
                                 Intervals)
            IN  \/ deadline[d].created_by = NoUser
                \/ owed = NoInterval
                \/ <<d, owed>> \in alerts

\* A DEADLINE_EXPIRED alert on record tells the truth as long as nobody moved
\* the due date further away, whatever snapshot the job worked on.
ExpiredAlertsAreTrue ==
    \A d \in LiveDeadlines \ eased :
        <<d, EXPIRED_DAYS_BEFORE>> \in alerts => deadline[d].due_date < today

\* Alerts only escalate: once the alert of a window is on record, no alert of
\* a wider window is recorded for that deadline unless its due date moved away
\* (one scheduler; with two, a slow run records a stale window).
AlertsOnlyEscalate ==
    [][\A a \in alerts' \ alerts :
          a[1] \notin eased =>
            \A b \in alerts : b[1] = a[1] => a[2] < b[2]]_vars

\* The job implements the ledger promise (one scheduler process, as deployed).
Ledger == INSTANCE AlertLedger WITH
    notified <- {a \in Deadlines \X AlertKeys :
                    \E s \in Schedulers : notified[s][a] > 0},
    ledger <- alerts,
    removed <- created \ LiveDeadlines

ImplementsLedger == Ledger!LedgerSpec

\* An overdue deadline with an author gets its DEADLINE_EXPIRED alert on record
\* unless it is deleted or moved first: no failure swallowed by the job, and no
\* aborted run, loses the alert for good.
Overdue(d) ==
    /\ d \in LiveDeadlines
    /\ deadline[d].created_by # NoUser
    /\ deadline[d].due_date < today

OverdueIsEventuallyRecorded ==
    \A d \in Deadlines :
        Overdue(d) ~> (~Overdue(d) \/ <<d, EXPIRED_DAYS_BEFORE>> \in alerts)

\* docs/ENDPOINTS.md:2792: each (deadline, interval) pair produces at most one
\* alert (counted in notify() calls: an e-mail unless the recipient opted out).
EachAlertSentOnce ==
    \A s \in Schedulers, a \in Deadlines \X AlertKeys : notified[s][a] <= 1

===============================================================================
