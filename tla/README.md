# Formal model of the tppe-advocacia backend

TLA+ modules, TLC configurations and TLAPS proofs kept beside the backend of a
law office (FastAPI, SQLAlchemy, PostgreSQL, APScheduler). They say how the
parts of the program that are hard to test behave when requests overlap, jobs
fail half-way and calendars change underneath stored results. Paths below are
relative to `src/`; `modules/` abbreviates `app/modules/`.

Contents: 1 the system, 2 the modules, 3 the runs, 4 bounds, 5 fairness,
6 proofs, 7 what is only model-checked, 8 disagreements found, 9 approximations,
10 not modelled, 11 plan, 12 how to run.

## 1. The system

**Deployment.** `docker-compose.yml` runs an `api` container (gunicorn, three
workers, `SCHEDULER_ENABLED=false`), one `scheduler` container
(`scripts/run_scheduler.py`) and PostgreSQL. The default of
`scheduler_enabled` is True, so an installation that does not set it runs a
scheduler inside every worker: the alert model takes a *set* of schedulers.

**Concurrency.** Handlers are plain functions that FastAPI runs in threads.
Each request has its own SQLAlchemy Session (`app/db/database.py:19-21`,
`autoflush=False`, `expire_on_commit` left at True) on READ COMMITTED. A write
happens in `unit_of_work` (`app/shared/db/uow.py:7-21`), which commits or rolls
back. Three consequences drive most of the models:

- services *read outside* the unit of work and compute from what they read;
- nothing is locked, so another request may commit between read and write;
- a flush writes only the attributes that differ from the values loaded.

### Components

| Component | State | Operations | Hard behaviour | What makes it correct |
|---|---|---|---|---|
| Daily alerts (`app/scheduler/`, `modules/deadlines/service.py:205-268`) | `deadline_alert`; a run's Session | `dispatch_alerts`, `_send_alert` | a run lasts long beside requests and other schedulers; any exception ends it; crash between mail and record | nobody left out, mails bounded, records true, alerts escalate, overdue eventually recorded |
| Forensic calendar arithmetic (`modules/deadlines/service.py:56-90, 179-203, 280-296`) | none | `calculate_due_date`, `business_days_until`, `_smallest_interval` | weekends, holidays, postponed start, limited holiday window | the n-th business day; counting back gives n |
| Deadlines (`modules/deadlines/`) | `deadlines` | create, PATCH, delete, list | derived `due_date` computed before the write | due date follows its inputs |
| Forensic holidays (`modules/forensic_holidays/`) | `forensic_holidays` | create, PATCH, delete, seed | absent and null mean different things per field; NULLs in the unique key | a row's court and comarca fit its scope |
| Kanban board (`modules/tasks/`) | `tasks` | create, update, move, delete | renumbering two columns from rows read earlier | columns numbered 0..n-1, others undisturbed, `completed_at` iff DONE |
| Notifications (`modules/notifications/`) | preferences | `notify`, upsert preferences | swallows every failure; reads the reference row again | a caller is never broken by a mail; whoever is owed one gets it or a reason is known |
| Processes (`modules/processes/`) | `processes`, movements, notes | CRUD, `change_status` | history written from a status read earlier | the history names the status, and each change starts where the last ended |
| DataJud (`modules/datajud/`, `modules/external_api_logs/`) | movements, API logs | sync one, sync active (job, script, request), retries, failure mail with throttle | check and INSERT apart, partial failure, waiting on keys, throttle race | nothing twice, log and import agree, batches leave nobody out, outages are announced |
| Appointments and Google (`modules/appointments/`, `modules/google_calendar/`) | `appointments`, tokens, external events | CRUD, connect, `sync_all_to_google` | two systems without a common transaction | at most one event per appointment, none of a deleted one, flags and counts true |
| Clients (`modules/clients/`) | `clients`, notes | CRUD, `anonymize` | check-then-write beside new processes and PATCHes | what is erased stays erased and is audited; documents are exclusive |
| Users, auth, audit (`modules/users/`, `auth/`, `audit_logs/`) | `users`, reset tokens, `audit_logs` | create, update, reset, confirm | mail after commit, audit in its own transaction, two confirmations past the lookup | a mailed link works until it is used; every change audited |
| Leads (`modules/leads/`) | `leads` | public form, assign | duplicate window; assignee read before the write | repeated leads refused; assignees told |
| Articles, office configuration | one table each | CRUD | three workers insert row 1 at start-up | single-row rules |
| Media, email, templates, health, HTTP plumbing, settings | none | I/O | - | - |

**Interactions.** The scheduler calls `DeadlineService.dispatch_alerts`, which
reads deadlines and forensic holidays, calls `NotificationService.notify`
(e-mail, never raises) and writes `deadline_alert`. `DeadlineService` reads
holidays through `ForensicHolidayRepository.list_applicable_in_range` and the
court through the process. Deleting a deadline cascades to its alerts. The
scheduler's second job calls `DataJudService`, which writes movements and API
logs and mails failures. Appointments call Google best-effort. Tasks and leads
notify assignees. Clients and processes meet in anonymisation, which counts a
client's open processes; leads need the users they are assigned to.

## 2. The modules

```
BusinessCalendar              pure arithmetic
  |- DeadlineAlerts           daily job x requests x schedulers x crashes
  |    |- AlertLedger         (INSTANCE) what the job promises
  |    |- MCDeadlineAlerts    instances
  |    `- DeadlineAlertsProofs <- DeadlineAlertsRunProofs
  `- ForensicDeadlines        holiday table, seed, deadlines, two-step PATCHes
       |- MCForensicDeadlines instances
       `- ForensicDeadlinesProofs
KanbanBoard                   the board, one atomic step per request
  |- KanbanRequests           handlers: read, then write
  |    `- MCKanbanRequests    instances
  `- KanbanBoardProofs        of both
DataJudSync                   runs of the synchronisation, logs, failure mails
  |- MCDataJudSync            instances
  `- DataJudSyncProofs
ClientRecords                 rows of clients: PATCH, documents, erasure
  `- CaseRecords              clients x notes x processes x movements x audit
       |- MCCaseRecords       instances
       `- CaseRecordsProofs
Agenda                        appointments x Google Calendar
  |- MCAgenda                 instances
  `- AgendaProofs
Accounts                      users, password resets, audit rows
  `- Leads                    leads and preferences, in an office of Accounts
       |- MCLeads             instances
       `- LeadsProofs
```

An operator whose comment starts with "Mutant:" is a plausible bug of the
definition that follows it. No specification uses it: replacing the definition
by it must make TLC find a property violated, which shows that the property
depends on that piece of code.

### BusinessCalendar

Dates are integers, date 0 is a Monday. `DueDate` is `calculate_due_date` with
its window of visible holidays (`Horizon`), counted by a recursive *function*
because recursive operators would put the modules that use it out of the
prover's reach. `DueDateIsTheNthBusinessDay` says what it
computes, with a premise that the code leaves to its users: at most
`business_days + 38` applicable holidays lie in the window. `AlertDue` is the choice of `dispatch_alerts`: -1
(`EXPIRED_DAYS_BEFORE`) after the due date, else the smallest configured
interval that holds the business days left, else none.

### DeadlineAlerts

| State | Code |
|---|---|
| `today`, `fired` | the server's date; the cron trigger of today has fired |
| `holidays` | dates of the applicable `forensic_holidays` |
| `deadline`, `created` | table `deadlines`; ids handed out (never reused) |
| `alerts` | table `deadline_alert`, unique `(deadline_id, days_before)` |
| `pc`, `runDay`, `todo`, `cur`, `held`, `key` | the local state of one `dispatch_alerts` run, per scheduler process |
| `snapshot`, `expired` | the Session's identity map: rows as `list_all` read them, until the run's first commit expires them |
| `notified`, `lost`, `touched`, `eased` | observations, not program state |

| Action | Code |
|---|---|
| `CreateDeadline`, `UpdateDeadline`, `DeleteDeadline`, `EditCalendar` | requests, one commit each (`ForensicDeadlines` has their detail) |
| `NextDay`, `FireJob` | midnight; `alerts` job, `list_all` |
| `Visit` | loop head: load the row, `ObjectDeletedError` if it is gone, skip if it has no author |
| `Decide` | `sent_days_for`, expiry test, `business_days_until`, `_smallest_interval`, the `in sent` test |
| `Notify` | `NotificationService.notify` |
| `Record` | the unit of work that inserts `deadline_alert`; `IntegrityError` on a duplicate or a missing deadline ends the run |
| `LogSent` | the log line, which reads the instance the commit expired |
| `FinishRun`, `LoseRun` | end of loop; the process dies in the middle |

The interesting subtlety is the identity map. Until a run commits for the first
time it decides from rows read when it started; afterwards every access reads
the current row and fails if the row is gone. Both phases are in the model and
both matter (section 8).

### AlertLedger

The promise about one alert, without days, runs or schedulers: it is entered
only after its recipient was notified, nobody is notified after it was entered,
the entry lives exactly as long as its deadline. `DeadlineAlerts` implements it
with `notified <- alerts notified by some scheduler`, `ledger <- alerts`,
`removed <- created and no longer live`, provided there is one scheduler
process.

### ForensicDeadlines

`holiday` and `deadline` are the two tables. `CreateHoliday`, `DeleteHoliday`
and `SeedYear` are one step each. A PATCH of a holiday is two:
`ReadHolidayPatch` reads the row, merges the payload into it and validates the
merge (`modules/forensic_holidays/service.py:47-54`), `WriteHolidayPatch` is the
unit of work (56-69), which writes the columns that differ from the row *read*
into the row *stored*. `editing` holds the PATCHes in between, one per
administrator; `crossed` remembers the rows whose last PATCH had read another
scope, court or comarca than it found. `ScopeConsistent` is
`_validate_scope_consistency` with its tests of truthiness (`Given`),
`Collides` the unique constraint (NULLs are
distinct in PostgreSQL), `Applicable` the query of `list_applicable_in_range`.
`SeedYear` compares with committed rows only, because the Session does not
autoflush, so it may insert the same national date twice; nothing forbids it.
`ReadPatch` and `WritePatch` are the two halves of `update`. `stale` remembers
the deadlines whose due date is older than the last calendar edit: the code
does not recalculate those, by design. `SeedEntries` is the list
of rows the seed would insert; each one that is missing gets a free id of its own.

### KanbanBoard and KanbanRequests

`board` maps a task to its column, position and whether `completed_at` is set.
The operators `Updated`, `MovedWithin`, `MovedAcross`, `Deleted` follow the
repository's UPDATE statements in their order and take the row `loaded` before
the transaction; `Flush` writes only attributes that differ from it.
`KanbanBoard` serves a request in one step (`loaded` is the current row).
`KanbanRequests` separates the read (`ReadTask`, `ReadNextOrder`) from the
write (`CommitTask`, `InsertTask`), with a set of handlers. `RequestsSpec` lets
them overlap in any way. `FreshSpec` lets them overlap as long as none commits
a change of what another in flight has read (its task's row, or the end of
TODO): the other tasks of both columns may have been renumbered meanwhile, and
the UPDATE statements, which compute from the stored orders, must cope.

### DataJudSync

| State | Code |
|---|---|
| `movements` | rows of `process_movements` with an `external_id`, unique per process |
| `logs` | `external_api_logs` in commit order; `told`, `counted`: what the notifier did with a failure and when |
| `run` | one thread per synchronisation: `listed`, `todo`, `cur` (batch), `attempt` (search), `answer`, `left`, `ext`, `pending`, `tx` (import transaction) |
| `now` | the clock, in throttle units |
| `unheard` | observation: a run died before its failure was counted, or two failures were committed before either was |

`FireJob`, `RunScript` and `Request` start a run; `NextProcess`, `Retry`,
`FailSearch`, `Found`, `NotifyFailure` are the loop of `sync_active_processes`
and one `sync_process_movements`. The import is *not* atomic: `CheckMovement`
is `movement_external_id_exists`, `InsertMovement` the INSERT, which waits while
another open transaction holds the key, and fails when that one committed;
`CommitImport` publishes everything at once. `BreakWaitCycle` is PostgreSQL's
deadlock detector. An `IntegrityError` is none of the exceptions the batch
catches (`modules/datajud/service.py:177`), so it ends the whole run (`Abort`).

### ClientRecords and CaseRecords

`ClientRecords` has the row of a client as operators: `Cleared` is what a PATCH
removes of the other document, `Changed` and `Flushed` which columns it writes
(those that differ from the loaded row), `ErasedData` what `anonymize` leaves,
`Collide` the unique indexes. `CaseRecords` runs them beside processes, notes,
movements and audit rows. Each handler that decides from what it read is two
steps, `ReadX` and `CommitX`; an anonymisation is three, since its transaction
loads the notes (`LoadNotes`, `modules/clients/repository.py:176`) before it
writes them: a note committed after that SELECT survives. `thread[t]` keeps what was read. `overlapped` is
an observation: the clients written by a request whose view of them was no
longer true, and the notes and processes written by a request while their
client was being anonymised. `stale` on a movement says the same of a status change.

### Agenda

| State | Code |
|---|---|
| `rows`, `deleted` | `appointments`; ids whose row was removed |
| `connected` | `google_credentials` |
| `calendar` | events in Google, the removed ones marked `gone` |
| `thread` | the rest of a request: `patch`, `load`, `call`, `store`, `delete`, `drop`, `report`; a batch carries the rows its session cached |
| `marks` | observation: requests overlapped (`overlap`), a call took effect unheard (`unanswered`), a request died half way (`lost`), an event was not reached (`missed`) |

A request is a chain: `CreateAppointment` or `CommitPatch` commits the row,
`Load` reads it and the credentials, `InsertEvent`, `UpdateEvent` or `Refuse` is
the call, `StoreEvent` commits the id. `ReadDelete`, `DeleteEvent`, `Drop` are a
removal. `ListUnsynced` starts a batch that goes through `Load`..`StoreEvent`
for each appointment (`After`) and ends in `Report`.

### Accounts and Leads

`Accounts` has `users`, `audit` (audit rows counted by action and user) and the
requests on them: `CreateUser`, `Welcome` (the mail with the temporary
password), `ReadUser`/`CommitEdit`, `WriteLog` (the audit row's own
transaction), `ReadReset`/`CommitReset`/`SendLink`,
`ReadConfirm`/`CommitConfirm`. `mailbox`, `spent`, `falls`, `marks` are
observations; the marks of a link are `crossed` (stored beside another link on
its way, or beside a confirmation past its lookup, or its successor's mail
failed), `raced` (two confirmations were past the lookup with it at once) and
`twice` (it changed the password twice). `Leads` extends it with `leads` and `optOut`: `ReadLeads` is the
search for a recent lead, `CommitLead` the INSERT, `ReadLead`/`CommitAssign` the
assignment, `Tell` is `NotificationService.notify`, which reads the lead, its
assignee and the preference again. `told`, `silent`, `repeated` are
observations.

Observations never guard an action. They name the hazard that excuses a
property, so that the property says exactly where the code keeps its promise
and where it does not.

## 3. The runs

| Run | Question | Answer |
|---|---|---|
| `alerts` | One scheduler, two deadlines, requests, one edit, one crash, four days | holds, 599,571 states |
| `alerts_live` | Two schedulers on one deadline, with or without author, over a weekend: is an overdue deadline always recorded in the end? | holds, 227,966 states |
| `forensic_deadlines` | One PATCH of a deadline and two of holidays in flight beside calendar edits and the seed | holds, 138,671 states |
| `kanban` | Two requests overlap on three tasks, neither changing what the other has read | holds, 66,024 states |
| `datajud` | A batch and a manual synchronisation import statement by statement while searches fail, runs die and time passes | holds, 1,335,770 states |
| `case_records` | Two requests at a time on two clients with notes, processes and status changes, and anonymisation in between | holds, 937,242 states |
| `agenda` | Two requests at a time on two appointments while users connect and disconnect and Google refuses or is not heard | holds, 720,634 states |
| `accounts` | Three requests at a time on users, resets and leads, with failing mails and lost requests | holds, 140,662 states |
| `alert_repeated` | Is each alert sent once? | violated |
| `patch_race` | Does the due date follow its inputs when two PATCHes overlap? | violated |
| `null_scope` | Does a PATCH with a null scope keep rows consistent? | violated |
| `kanban_race` | Does a move keep columns gapless when another request changes its task after it was read? | violated |

Properties of the passing runs:

- `MailsBoundedByLostRuns`: a scheduler notifies of one alert of a live
  deadline at most once more than the runs it lost.
- `VisitedDeadlinesAreCovered`: a run in progress leaves no unchanged deadline
  behind without the alert it is owed, whatever failed or raced.
- `ExpiredAlertsAreTrue`: an expired alert on record is about an overdue
  deadline, unless its date was once moved away.
- `AlertsOnlyEscalate`: the windows recorded for a deadline only shrink.
- `ImplementsLedger`: refinement of `AlertLedger`.
- `OverdueIsEventuallyRecorded`: an overdue deadline with an author ends up
  with its expired alert, unless it is deleted or moved.
- `DueDatesFollowTheirInputs`: a due date follows the row it is in, up to the
  last change of the calendar, which recalculates nothing.
- `ScopesStayConsistent`: a row's court and comarca fit its scope, however
  PATCHes overlap, unless its last PATCH wrote over a scope, court or comarca
  it had not read.
- `DueDateIsTheNthBusinessDay`: `calculate_due_date` against its definition,
  and against `business_days_until`, for every calendar reached.
- `ColumnsAreGapless`, `CompletedIffDone`, `OthersKeepTheirPlace`,
  `MovesLandWhereAsked`: the board, under overlapping requests.
- `NoMovementTwice`: whatever the interleaving of checks and INSERTs.
- `ImportsMatchTheirLogs`: a movement has the SUCCESS log of its transaction,
  and all of a logged answer is stored; no half of an answer survives a crash.
- `FinishedRunsLeaveNothingOut`: a batch at its end has logged every process it
  listed, those that failed included.
- `OutagesAreAnnounced`: a failure is silenced only inside an outage that was
  mailed, unless two were committed before either was counted (`unheard`).
- `DocumentsAreExclusive`, `ErasureIsComplete`, `ErasuresAreAudited`: what
  anonymisation and PATCHes leave of a client and of its notes.
- `ErasedCasesWereClosed`: read back from the history, every case of an erased
  client was closed when the audit row was written and none was created later,
  except those written while the anonymisation was under way.
- `LastMovementNamesTheStatus`, `StatusChangesChain`: the history of a process.
- `OneEventPerAppointment`, `RemovalsReachTheCalendar`,
  `SyncedRowsAreOnTheCalendar`, `ReportsCountWhatIsMissing`: rows, events and
  the answer of sync-all agree, except where a named mark says what struck.
- `LinksLastUntilUsed`: a link changes a password a second time only if two
  confirmations were past the lookup at once, and the last link mailed works
  until it is used, unless it crossed another request (section 8).
- `StatusChangesAreAudited`: no deactivation and no new user without its audit
  row. `RepeatedLeadsAreRefused`, `AssigneesAreTold`: leads.

## 4. Bounds

- `MaxLost = 1`, `MaxEdits = 1` (alerts): one lost run repeats a mail and one
  PATCH invalidates a snapshot; a second of either repeats the same steps. The
  proofs of section 6 have no such limit.
- Days `FirstDay..LastDay`: four days (Monday to Thursday, Wednesday may become
  a holiday) in `alerts`, five around a weekend (Friday to Tuesday, no edits of
  the calendar) in `alerts_live`. Due dates end before `LastDay`, which stands for itself and
  all later days, so that every deadline becomes overdue in the model.
- `Intervals` {0, 1} or {1}: a widest and a tightest window, and the boundary
  between "due today" (zero days left) and expired. The six configured
  intervals add nothing but length.
- Two deadlines: one that fails or changes and one that must not be harmed.
  They are interchangeable, and no property or constant tells them apart:
  symmetry is sound. It is not used in the liveness run.
- `MaxHolidays = 2`, two dates (Friday and Monday around a weekend), one court,
  one comarca: NATIONAL, COURT and COMARCA rows can apply together or apart.
  `MaxEdits = 3` lets an edit precede, overlap and follow a PATCH, and lets two
  administrators PATCH a holiday that a third edit declared. Deadlines start on
  the Thursday or the Saturday and take two business days (one or two in
  `patch_race`). Symmetry in the administrators.
- Three tasks, orders 0..3 and two handlers (`kanban`): a task on either side
  of the moved one, a position beyond the longest column, and two requests to
  overlap. Symmetry in the tasks and in the handlers.
- `datajud`: two processes of different tribunals, so that a batch lists one or
  both; two movement ids, so that two runs can hold one key each and wait for
  the other's; `MaxRetries = 1` separates the first attempt from the last;
  `Throttle = 1` and three instants put a failure inside, on and past the edge of the
  window; `MaxLogs = 3` leaves room for an outage of three.
- `case_records`: two clients (a document can collide), two processes, two
  notes, two requests in flight and four transactions after a start that already
  has a closed process and a note: enough to overlap an anonymisation with any
  other request and to go on afterwards. Users are not symmetric (one is an
  administrator); clients, processes, notes, threads and CPFs are.
- `agenda`: two appointments so that a batch has a first and a second row, three
  events so that one appointment may get two, four requests so that an edit, a
  disconnection or a second batch can follow a failure.
- `accounts`: two links and three threads let a second request overlap both a
  confirmation and its mail; two administrators may edit each other; a window
  and an expiry of one tick with three instants reach their boundaries.
- `CHECK_DEADLOCK FALSE` where ids or edits run out: the system may stop when
  nobody sends a request.

## 5. Fairness

Only `alerts_live` needs it (`FairSpec`): weak fairness of `NextDay` (time
passes), of `FireJob` (the APScheduler cron trigger fires while the process
runs, `app/scheduler/scheduler.py:24-66`) and of `JobStep` (a started run keeps
executing). Requests and crashes owe nothing. No fairness is assumed between
deadlines: the run visits all of them because its loop does.

A run may be lost `MaxLost` times; with unboundedly many crashes liveness would
fail, as it does for the real job.

## 6. Proofs

TLAPS proves the following for every value of the constants: every invariant and
every action property of the passing runs, and the refinement of the ledger. The assumptions
are those written in the modules, each a fact of the code or of the tables:
intervals are natural numbers (`IntervalsAssumption`), dates are integers
(`DaysAssumption`, `ForensicConstants`), bounds are natural numbers
(`BoundsAssumption`, `MaxOrderAssumption`), "no row" is not a row
(`SentinelAssumption`, `NoTaskAssumption`), the seed is a list of consistent
rows (`SeedAssumption`), and `TasksAssumption`, `SyncConstants`, `CaseConstants`,
`AgendaConstants`, `AccountConstants`, `LeadConstants`: there are finitely many
tasks, processes, runs and threads, null is not an id, and the set of
administrators is one of users.

Five theorems need more than `Spec`, and say so in their statement:

| Theorem | Hypothesis | What happens without it |
|---|---|---|
| `LedgerImplemented`, `AlertsEscalate` | one scheduler process (the deployment of `docker-compose.yml`) | a second run notifies of an alert that is already on record, or a slow one records a window that is no longer the tightest |
| `DueDatesFollow` | no two PATCHes of one deadline overlap | run `patch_race` |
| `OverlapsOfOtherTasksAreHarmless` | no request changes what another in flight has read (`FreshSpec`) | run `kanban_race` |
| `ScopesFit` | no PATCH carries a null scope | run `null_scope` |

The hypotheses of the second and third are about behaviours, not about the
constants: they speak of every behaviour, with any number of handlers, in which
requests happen not to overlap on the same row. `DueDatesFollowOnePatch` is the instance with
one handler that TLC checks.

**DeadlineAlertsProofs.** `TypeCorrect`: `TypeOK`, strengthened to `TypeInv`
with "a run past its loop head handles a deadline that was created, holds its
row, and once it has decided carries the key of an alert"
(`RunsHoldWhatTheyHandle`) and "live deadlines were created"
(`LiveWereCreated`); without these `Decide` could apply the arithmetic to a
missing row. `MailsAreBounded`: `MailsBoundedByLostRuns` is not
inductive; `MailInv` adds *why* a further mail is possible. As long as an alert
of a live deadline is not on record, at most `lost` mails were sent for it,
plus one if this scheduler is between `Notify` and `Record`.

**DeadlineAlertsRunProofs.** `ExpiredAlertsTellTheTruth`: a run that carries
the key -1 must already know that it is true, so `TruthInv` follows the fact
from the snapshot and from the row held, through `eased`, to the alert on
record. `NoDeadlineIsLeftOut`: `CoverInv` says that rows untouched since the
run started are the same in the table, in the snapshot and in `held`, and that
everything behind the run is covered. It needs no assumption on the number of
schedulers: a record made by another one covers as well.
`LedgerImplemented`: every step of the job maps to a ledger step or a stutter.
`LedgerInv` carries the facts that make it so: an alert about to be recorded was
notified, and an alert about to be notified is not on record (this is where a
second scheduler breaks it). `AlertsEscalate`: `EscalationInv` says of each alert
on record that its deadline is in that window (`InWindow`) by its current row, by
the row of the snapshot and by the row held, and that the alert in hand is
tighter than all of them. It rests on two facts of the arithmetic:
`business_days_until` never grows when time passes, the due date moves closer
or a holiday is declared (`DaysLeftShrink`), and `AlertDue` is at most the width
of every window the deadline is in (`OwedIsTightest`).

**ForensicDeadlinesProofs.** `NthBusinessDay`: the due date is a business day,
as many business days after the (postponed) start as were asked for, and
`business_days_until` counts it back, for every calendar that the window can
hold. `WindowHolds` shows when it can: the window of `3n + 60` days has
`(3n + 61) \div 7` whole weeks, so `n + 38` holidays leave more than `n` business
days. The recursion of `DueDate` is unfolded by `DueDateIsRight`. Induction is
done without the library's schemes: the set of numbers (or of sets) that
have the property is formed and its complement has no least member, by
well-foundedness (`AllNaturals`). `ScopesFit` holds for any number of
overlapping PATCHes: the merge that a PATCH in flight carries is consistent
(`ScopeInv`), and so is the row it leaves if it finds the scope, court and
comarca it has read; if it does not, the row is `crossed`. `DueDatesFollow`: `PatchInFlight` says
the row a PATCH has read is still the one stored.

**KanbanBoardProofs.** `BoardIsTyped`, `ColumnsStayGapless`,
`CompletionFollowsTheColumn`, for any number of tasks and any position asked
for. The invariant `BoardInv` calls a column `Dense` when its orders are a
*bijection* onto 0..n-1; "the set of orders is 0..n-1" would not be inductive
on its own. The lemmas `DenseClose`, `DenseOpen` and `DenseWithin` say what
removing, inserting and rotating do to a dense column; `ShiftBoard`,
`Transfer` and `FreshFlush` relate the repository's statements to them.
The same lemmas give the action properties `OthersStay` and `MovesLand`.
`OverlapsOfOtherTasksAreHarmless` carries all four properties over to
overlapping requests (`FreshSpec`): a request commits from a row that is still
the stored one, while everything else on the board may have changed since it
was read; an insertion adds its task at the end that is still the end.
`RequestsTypeCorrect`
speaks of overlapping requests too: however the renumberings interleave, no
order falls below -1 (`FlooredInv`: only a task *after* a loaded position is
moved up, and a loaded position is at least -1), hence the next order is never negative.

**DataJudSyncProofs.** `MovementsAreStoredOnce`, `SuccessMeansStored`,
`BatchesAreComplete`, for any number of runs, processes and answers. One
inductive invariant, `SyncInv`, carries all three: what a run inserted and has
not committed, what it still has to look at and what is stored already make up
its answer (`AnswerOK`); what it logged, has at hand and has left make up its
list (`MadeOK`); and no key is in two open transactions (`Apart`), which is what
the unique index gives and the check at `service.py:110` does not. `TypeCorrect` adds that the searches runs still owe (`Owed`) fit in the table
with those logged. `AnnouncedOutages`: `NotifierInv` says that a run notifies of
its own last failure, which nobody else has counted; `Counted` that failures are
counted in the order of their rows and that what silences one is an earlier one
in the window. Following that link backwards ends at a mail, since an order of
naturals has no infinite descent.

**CaseRecordsProofs.** `ErasedClientsStayErased`, `ErasuresHaveAuditRows`,
`DocumentsNameOneClient`, `ErasureFollowsTheCases`. `CaseInv` says, besides
the properties, what a request in flight knows: the row it loaded was live, its
patch keeps one document, and a commit that finds the row changed puts the
client among the `overlapped`. Of an anonymisation it says that the client's open
cases are `overlapped` and that every note not yet erased is loaded or
`overlapped` (`ErasureOK`, `RequestOK`). `ErasedCases` reads the same off the
history: a movement added later does not change what it told when the audit row
was written (`ClosedByStays`). `HistoryTellsTheStatus`, `HistoryChains`:
`History` is stated over the indexes of the movement rows, not over a selected
subsequence; a process has a first and a last row that tells of its status, and
neighbouring ones chain. `TypeCorrect`: `ShapesOK`; the bound on transactions
holds because each busy request has one left (`Busy`).

**AgendaProofs.** `OneEvent`, `RemovalsReach`, `SyncedRows`, `ReportsCount`,
`TypeCorrect`. `FateInv` says for each appointment who knows of each of its
events: the row, a request about to store it, or nobody because the appointment
is gone (`EventsAt`); when nothing overlapped, the request that works on an
appointment is alone and its copy of the row is current (`AloneAt`), also the
copies a batch has cached for appointments it has not come to (`Waiting`).
`LinkInv`: the id of an event is only ever kept for the appointment it shows.
`ReportsCount`: what a batch counts as synced is at most what it has `Settled`.

**LeadsProofs.** `ResetLinksLast`: `LinksInv` adds that a link is one user's
(`HoldersInv`, needs fresh tokens to be fresh), that a spent link is stored no
more and that two confirmations carrying one link have it marked `raced`
(`UsesInv`), and what the row stores while a request carries a link that is not
`crossed` (`TurnsInv`, `LastsInv`); without these a confirmation could clear a
link nobody used.
`RepeatedLeadsStayOut`: a submission in flight found the leads of its address
too old, or its address is among those sent twice at once (`SubmitsInv`).
`AssigneesGetTheirMail`: `ToldInv` needs only that the leads spoken of exist.
`TypeCorrect` and `ChangesAreAudited` share `OfficeInv`: each request covers
with its own start what it may still count (`CountsInv`), and the creation of a
user is told exactly once, by the request that still mails the password, by the
one that still writes the row, or by the row (`AuditInv`).

## 7. Only model-checked

- `OverdueIsEventuallyRecorded` (`alerts_live`): liveness under fairness is out
  of the prover's reach.
- The four runs that show a disagreement (section 8): their properties are false.
- In `DeadlineAlerts` a due date is *any* date `PossibleDueDates` allows. The
  proofs about the job do not use what `DueDate` computes; that is proved
  separately (`NthBusinessDay`).

## 8. Disagreements found

Each of these is a run whose counterexample TLC reproduces.

1. `alert_repeated`: `_send_alert` notifies (`modules/deadlines/service.py:258`)
   before it commits the record (261-262). A run lost in between mails again.
   `docs/ENDPOINTS.md:2792` promises at most one alert per pair.
   What does hold is `MailsBoundedByLostRuns`.
2. `patch_race`: two overlapping PATCHes, one of `start_date` and one of
   `business_days`, each write the due date of their own merge; the row ends
   with a date that its inputs do not give (`docs/ENDPOINTS.md:2738`).
3. `null_scope`: an explicit `"scope": null` passes the validation as "no
   scope" and leaves the old scope in place (`docs/ENDPOINTS.md:2511`).
4. `kanban_race`: `move` renumbers from the column and position loaded before its
   transaction. In the trace, request A is about to move the only task of the
   board, read in TODO, inside TODO; request B PATCHes its status to IN_PROGRESS
   and commits. A takes the branch of an unchanged column, counts zero tasks in
   TODO and writes position -1 on the task, which is alone in IN_PROGRESS
   (`docs/ENDPOINTS.md:2138` promises columns without holes).

Promises of the documents that the models show broken as well, as exceptions
(marks) in the properties and without a run of their own:

- a reset link is called single-use (`docs/ENDPOINTS.md:261`): two confirmations
  that both pass the lookup (`modules/auth/service.py:93`) change the password
  twice with one link (`raced`, `twice`);
- sync-all is called idempotent (`docs/ENDPOINTS.md:3066`): an event inserted in
  Google whose id was not committed, or two batches at once, insert it a second
  time (`lost`, `unanswered`, `overlap`);
- court and comarca fit the scope (`docs/ENDPOINTS.md:2511-2513`): of two
  overlapping PATCHes of a NATIONAL holiday, one to COURT with a court and one
  to COMARCA with a comarca, each is validated against the row it read and
  writes its own columns; the row can end as COURT with a comarca (`crossed`);
- anonymisation overwrites personal data and all notes
  (`docs/ENDPOINTS.md:1122`): a PATCH of the row, a note committed after the
  notes were loaded, or a case opened after they were counted survives it
  (`overlapped`).

Moving a deadline does not clear its `deadline_alert` rows, so windows already
used stay silent for the new date. No document says otherwise; the models keep
the rows, as the code does.

A run of the alerts decides from rows listed at line 207 until its first commit;
a deadline moved away meanwhile is announced as expired and never again. What
holds is `ExpiredAlertsAreTrue`.

Weaknesses the models reach and the properties name as exceptions, where no
document promises more:

- two failures committed before either is counted suppress each other's mail
  (`unheard`, `modules/external_api_logs/notifier.py:67`);
- a concurrent import of one process ends a whole batch, since the
  `IntegrityError` is not caught (`modules/datajud/service.py:177`);
- two overlapping `change_status` record a previous status that was not the
  one before (`stale`);
- an archived process of an anonymised client can be opened again;
- a user whose welcome mail fails exists without an audit row and with a
  password nobody knows (`unaudited`, `modules/users/service.py:63`);
- a confirmation clears whatever link is stored when it commits, also a newer
  one, and a link whose successor's mail failed stops working (`crossed`,
  `modules/auth/service.py:104`);
- two failure mails can come closer than the throttle window, by the time a
  failure takes to be logged: the window is measured against `created_at`, the
  start of the other failure's transaction
  (`modules/external_api_logs/notifier.py:65`). No property speaks of it;
- a run that ends on an exception leaves the rest of its deadlines to later days
  (`modules/deadlines/service.py:208`): `alerts_live` follows one deadline, so
  that later runs reach *all* the others is not checked.

## 9. Approximations

- `Decide` merges the query of sent alerts and the query of holidays into one
  step; the row it works on was read in `Visit`.
- The UPDATEs of one Kanban transaction are one step. READ COMMITTED allows
  finer interleavings, so the model shows fewer anomalies, not more.
- `PATCH /deadlines` is split into read and write only in `ForensicDeadlines`;
  in `DeadlineAlerts` it is one step with any due date the calendar allows.
- The null scope is offered as input only by `null_scope`, and overlapping
  PATCHes of a deadline only by `patch_race`: the passing run says what holds
  without them. PATCHes of holidays overlap in the passing run.
- Empty strings for court and comarca are not among the inputs of the runs;
  `Given` says what the validation does with them.
- `SeedYear` is disabled when fewer ids are free than it has entries to insert;
  an id counts as free again when no PATCH in flight has read its row.
- A database error inside the swallowed `notify` and a killed process are both
  `LoseRun`.
- Identifiers are not reused, as with the database's sequences.
- Holiday rows applying to different courts are told apart in
  `ForensicDeadlines`; `DeadlineAlerts` has one set of applicable dates.

DataJudSync:

- When a batch lists, any subset of the processes is ATIVO: status changes are
  `CaseRecords`' business.
- The kinds of failure (not configured, not found, unavailable) are one: each is
  logged and counted alike. An answer of an unexpected shape raises an
  exception nobody translates and is `LoseRun`.
- The mail of a failure goes to all administrators in one step. A window of 0
  turns the throttle off.
- `created_at` is the start of the transaction (`server_default now()`), which
  is why a log carries both `at` and `counted`.
- That a run ends is not stated. It would need strong fairness of
  `InsertMovement`: an INSERT that waits can be overtaken again and again by
  runs that start later, take the key and die. `BreakWaitCycle` breaks cycles of
  two, the only ones two runs can make.

ClientRecords and CaseRecords:

- Address, phone and e-mail are one contact field, and a name is given or the
  placeholder. Documents are compared as stored; formatting and check digits are validated before.
- Mails sent after a commit change no row. `create_system_movement` has no
  caller. Deleting a note does not exist as an operation.

Agenda:

- Time does not pass: contents in `Past` start before now and can be reached by
  a PATCH, while creation refuses them.
- Which Google account a user connects is not distinguished. Google is external:
  an insertion takes effect at most once per call, updates of removed events are
  refused.
- The OAuth handshake is one step; not configured is "nobody is connected".

Accounts and Leads:

- Names, addresses, passwords and the text and status of leads are payload. A
  duplicate address ends a request with nothing changed: with 409, or on a PATCH
  that raced past the look-up with an `IntegrityError` nobody translates.
- Login and refresh change no row. The tokens they issue do not depend on a
  reset.
- The preference of `LEAD_ASSIGNED` stands for all; two first writes of one
  preference at the same time (a lost unique race) are not modelled.

## 10. Not modelled

Listings, logging, response formatting and the list of skipped days of the
calculation endpoint change no state. Articles are rows edited one at a time by
one unit of work each, last writer wins, with no rule that relates two of them;
office configuration is a single row of the same kind, with one start-up race
between workers (`app/db/database.py:35-44`) that ends in one row whoever wins.
Media, e-mail transport, templates, health, HTTP plumbing, settings and
migrations are I/O or configuration and keep no state of their own; what they do
to a caller (a mail that fails, a call that is not answered) is in the models of
the callers. Login tokens are signed and stateless.

## 11. Plan

The components with state across rows or requests are modelled and the safety
properties of the runs are proved. What could be added:

1. The strengthenings as named invariants of a run (`EscalationInv`, `FateInv`,
   `AuditInv`), where a reader wants to see them checked as well as proved.
2. A refinement of `DeadlineAlerts` by the two-step PATCH of `ForensicDeadlines`,
   so that `PossibleDueDates` is computed from stored inputs.
3. Articles and office configuration, should they get a rule across rows.

## 12. How to run

```
tlc -workers 2 -config alerts.cfg MCDeadlineAlerts
tlc -workers 2 -config kanban.cfg MCKanbanRequests
tlc -workers 2 -config datajud.cfg MCDataJudSync
tlc -workers 2 -config case_records.cfg MCCaseRecords
tlc -workers 2 -config agenda.cfg MCAgenda
tlc -workers 2 -config accounts.cfg MCLeads
tlapm DeadlineAlertsRunProofs.tla      # and the other seven *Proofs modules
```

`PROJECT.json` lists for each run its module, configuration and properties; for
each definition the source lines it translates; and for each hazard the
properties that cover it.
