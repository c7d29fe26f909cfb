----------------------------- MODULE DataJudSync -----------------------------
(***************************************************************************)
(* Import of court movements from the public DataJud API                   *)
(* (src/app/modules/datajud, src/app/modules/external_api_logs): the       *)
(* recurrent job, the administrators' batch and the manual synchronisation *)
(* of one process are Runs that interleave statement by statement.  A run  *)
(* searches with retries, imports one answer per transaction, logs every   *)
(* search and has the failure notifier decide whether to mail the          *)
(* administrators.  The database is PostgreSQL at READ COMMITTED: a run    *)
(* sees what others committed and waits on a key another run inserted.     *)
(***************************************************************************)
EXTENDS Integers, Sequences, FiniteSets, FiniteSetsExt

CONSTANTS
  Processes,    \* ids of the processes, a newer process has a larger id
  Tribunals,    \* tribunal aliases
  NoTribunal,   \* a process saved without alias, a request without alias
  TribunalOf,   \* the alias saved with each process (no endpoint changes it)
  MovementIds,  \* external ids in DataJud's answers
  Answers,      \* sets of them that an answer may hold
  Runs,         \* threads that may synchronise at the same time
  Batches,      \* the threads among them that run a batch
  Limit,        \* DATAJUD_SYNC_LIMIT
  MaxRetries,   \* DATAJUD_MAX_RETRIES
  Throttle,     \* INTEGRATION_FAILURE_EMAIL_THROTTLE_MINUTES, in units of now
  MaxNow,       \* bound: time stops here
  MaxLogs       \* bound: no run starts that could log more searches

ASSUME SyncConstants ==
  /\ Processes \subseteq Nat \ {0} /\ IsFiniteSet(Processes)
  /\ NoTribunal \notin Tribunals
  /\ TribunalOf \in [Processes -> Tribunals \union {NoTribunal}]
  /\ Answers \subseteq SUBSET MovementIds
  /\ IsFiniteSet(Runs) /\ Batches \subseteq Runs
  /\ Limit \in Nat \ {0}
  /\ {MaxRetries, Throttle, MaxNow, MaxLogs} \subseteq Nat

VARIABLES
  movements,  \* rows of process_movements imported from DataJud
  logs,       \* rows of external_api_logs, in the order they were committed
  run,        \* what each thread is doing
  now,        \* the clock
  unheard     \* observation: a failure whose mail nobody decided, or two
              \* failures committed before either was counted

vars == <<movements, logs, run, now, unheard>>

-----------------------------------------------------------------------------
(* Rows and threads *)

\* A movement remembers the log of the transaction that inserted it.
MovementRow == [process : Processes, ext : MovementIds, log : 1..MaxLogs]

\* "at" is created_at: the time the transaction began (server_default now()).
\* "told" is what the notifier did; "counted" when it counted other failures.
LogRow ==
  [process : Processes, ok : BOOLEAN, answer : SUBSET MovementIds, at : 0..MaxNow,
   told : {"waiting", "throttled", "mailed"}, counted : 0..MaxNow]

NoProcess == 0

Thread ==
  [pc : {"idle", "next", "search", "import", "insert", "notify"},
   listed : SUBSET Processes, todo : SUBSET Processes, made : SUBSET (1..MaxLogs),
   cur : Processes \union {NoProcess}, attempt : 0..MaxRetries,
   answer : SUBSET MovementIds, left : SUBSET MovementIds,
   pending : SUBSET MovementIds, ext : SUBSET MovementIds, tx : 0..MaxNow]

\* A run that lists some processes, has some of them left and one at hand.
Begun(pc, listed, todo, p, at) ==
  [pc |-> pc, listed |-> listed, todo |-> todo, made |-> {}, cur |-> p,
   attempt |-> 0, answer |-> {}, left |-> {}, pending |-> {}, ext |-> {}, tx |-> at]

Idle == Begun("idle", {}, {}, NoProcess, 0)

Init ==
  /\ movements = {}
  /\ logs = <<>>
  /\ run = [r \in Runs |-> Idle]
  /\ now = 0
  /\ unheard = FALSE

-----------------------------------------------------------------------------
(* Queries *)

\* The processes of the alias asked for, or with any saved one ...
Candidates(active, alias) ==
  {p \in active : IF alias = NoTribunal THEN TribunalOf[p] # NoTribunal
                                        ELSE TribunalOf[p] = alias}

\* list_active_for_datajud: ... the newest Limit of them that are ATIVO.
ListActive(active, alias) ==
  {p \in Candidates(active, alias) :
     Cardinality({q \in Candidates(active, alias) : q > p}) < Limit}

\* movement_external_id_exists, on committed rows and on the run's own.
Exists(p, ext) == \E m \in movements : m.process = p /\ m.ext = ext

\* Another run's open transaction holds the key in the unique index.
HeldBy(r, ext) ==
  {s \in Runs \ {r} : run[s].cur = run[r].cur /\ ext \subseteq run[s].pending}

Failures == {i \in DOMAIN logs : ~logs[i].ok}

\* Mutant: the status filter of count_recent_failures is forgotten.
RecentOfAnyStatus(i) ==
  {j \in DOMAIN logs : j # i /\ logs[j].at >= now - Throttle}

\* count_recent_failures of the others, in the window that ends now.
RecentFailures(i) == {j \in Failures : j # i /\ logs[j].at >= now - Throttle}

Throttled(i) == Throttle # 0 /\ RecentFailures(i) # {}

-----------------------------------------------------------------------------
(* A run *)

\* The searches that a thread still has to log, that all of them have, and these
\* with the logged ones.
Unlogged(t) ==
  t.todo \union IF t.pc \in {"search", "import", "insert"} THEN {t.cur} ELSE {}

Owed == {c \in Runs \X Processes : c[2] \in Unlogged(run[c[1]])}

Expected == Len(logs) + Cardinality(Owed)

\* sync_active_processes: one list of processes, then one after the other.
\* Requests may have made any of the processes ATIVO by then.
StartBatch(r, active, alias) ==
  LET listed == ListActive(active, alias)
  IN /\ run[r].pc = "idle"
     /\ Expected + Cardinality(listed) <= MaxLogs
     /\ run' = [run EXCEPT ![r] = Begun("next", listed, listed, NoProcess, now)]
     /\ UNCHANGED <<movements, logs, now, unheard>>

\* sync_process_movements for a user: whatever the status of the process; the
\* alias of the body or the saved one, 422 without a log when there is none.
StartOne(r, p, alias) ==
  /\ run[r].pc = "idle"
  /\ Expected < MaxLogs
  /\ alias # NoTribunal \/ TribunalOf[p] # NoTribunal
  /\ run' = [run EXCEPT ![r] = Begun("search", {p}, {}, p, now)]
  /\ UNCHANGED <<movements, logs, now, unheard>>

NextProcess(r) ==
  /\ run[r].pc = "next"
  /\ \E p \in run[r].todo :
       /\ \A q \in run[r].todo : q <= p
       /\ run' = [run EXCEPT ![r].pc = "search", ![r].cur = p, ![r].attempt = 0,
                             ![r].todo = @ \ {p}]
  /\ UNCHANGED <<movements, logs, now, unheard>>

\* Mutant: one attempt too many.
AttemptsLeftInclusive(r) == run[r].attempt <= MaxRetries

AttemptsLeft(r) == run[r].attempt < MaxRetries

\* A timeout, 429 or 5xx answer is tried again while attempts are left.
Retry(r) ==
  /\ run[r].pc = "search"
  /\ AttemptsLeft(r)
  /\ run' = [run EXCEPT ![r].attempt = @ + 1]
  /\ UNCHANGED <<movements, logs, now, unheard>>

\* ExternalApiLogRepository.create, at the end of the table.
Logged(r, ok) ==
  Append(logs, [process |-> run[r].cur, ok |-> ok, answer |-> run[r].answer,
                at |-> run[r].tx, told |-> "waiting", counted |-> 0])

\* Mutant: the first failure ends the loop of the batch.
FailSearchAndStop(r) ==
  /\ run[r].pc = "search"
  /\ logs' = Logged(r, FALSE)
  /\ run' = [run EXCEPT ![r].pc = "notify", ![r].attempt = 0, ![r].todo = {},
                        ![r].made = @ \union {Len(logs')}]
  /\ UNCHANGED <<movements, now, unheard>>

\* Out of attempts, another error status, no such process, invalid JSON or no
\* key: the failure is logged in a transaction of its own.
FailSearch(r) ==
  /\ run[r].pc = "search"
  /\ logs' = Logged(r, FALSE)
  /\ run' = [run EXCEPT ![r].pc = "notify", ![r].attempt = 0,
                        ![r].made = @ \union {Len(logs')}]
  /\ UNCHANGED <<movements, now, unheard>>

\* notify_failure: counts the other failures, then mails every active admin
\* that wants the mail.  The next transaction began with this count.
NotifyFailure(r) ==
  LET i == Max(run[r].made)
  IN /\ run[r].pc = "notify"
     /\ logs' = [logs EXCEPT ![i].counted = now,
                   ![i].told = IF Throttled(i) THEN "throttled" ELSE "mailed"]
     /\ unheard' = (unheard \/ \E j \in Failures : j # i /\ logs[j].told = "waiting")
     /\ run' = [run EXCEPT ![r].pc = "next", ![r].cur = NoProcess, ![r].tx = now]
     /\ UNCHANGED <<movements, now>>

Found(r, answer) ==
  /\ run[r].pc = "search"
  /\ run' = [run EXCEPT ![r].pc = "import", ![r].attempt = 0,
                        ![r].answer = answer, ![r].left = answer]
  /\ UNCHANGED <<movements, logs, now, unheard>>

\* Mutant: the import stops at the first movement already known.
CheckMovementAndStop(r, ext) ==
  /\ run[r].pc = "import" /\ ext \in run[r].left
  /\ run' = IF Exists(run[r].cur, ext)
              THEN [run EXCEPT ![r].left = {}]
              ELSE [run EXCEPT ![r].pc = "insert", ![r].left = @ \ {ext},
                               ![r].ext = {ext}]
  /\ UNCHANGED <<movements, logs, now, unheard>>

CheckMovement(r, ext) ==
  /\ run[r].pc = "import" /\ ext \in run[r].left
  /\ run' = IF Exists(run[r].cur, ext)
              THEN [run EXCEPT ![r].left = @ \ {ext}]
              ELSE [run EXCEPT ![r].pc = "insert", ![r].left = @ \ {ext},
                               ![r].ext = {ext}]
  /\ UNCHANGED <<movements, logs, now, unheard>>

\* The whole run ends with an exception the batch does not catch; what its
\* open transaction inserted is rolled back.
Abort(r) == run' = [run EXCEPT ![r] = Idle]

\* Mutant: uq_process_movements_process_external_id is missing.
InsertMovementUnchecked(r) ==
  /\ run[r].pc = "insert"
  /\ run' = [run EXCEPT ![r].pc = "import", ![r].ext = {},
                        ![r].pending = @ \union run[r].ext]
  /\ UNCHANGED <<movements, logs, now, unheard>>

\* The INSERT waits while another open transaction holds the key, and raises
\* IntegrityError when that transaction committed.
InsertMovement(r) ==
  /\ run[r].pc = "insert"
  /\ HeldBy(r, run[r].ext) = {}
  /\ IF \E e \in run[r].ext : Exists(run[r].cur, e)
       THEN Abort(r)
       ELSE run' = [run EXCEPT ![r].pc = "import", ![r].ext = {},
                               ![r].pending = @ \union run[r].ext]
  /\ UNCHANGED <<movements, logs, now, unheard>>

\* Two runs that wait on each other's keys: PostgreSQL aborts one of them.
BreakWaitCycle(r) ==
  /\ run[r].pc = "insert"
  /\ \E s \in HeldBy(r, run[r].ext) : run[s].pc = "insert" /\ r \in HeldBy(s, run[s].ext)
  /\ Abort(r)
  /\ UNCHANGED <<movements, logs, now, unheard>>

\* The movements and the SUCCESS log are committed together.
CommitImport(r) ==
  /\ run[r].pc = "import" /\ run[r].left = {}
  /\ logs' = Logged(r, TRUE)
  /\ movements' = movements \union
       {[process |-> run[r].cur, ext |-> e, log |-> Len(logs')] : e \in run[r].pending}
  /\ run' = [run EXCEPT ![r].pc = "next", ![r].cur = NoProcess, ![r].answer = {},
                        ![r].pending = {}, ![r].made = @ \union {Len(logs')},
                        ![r].tx = now]
  /\ UNCHANGED <<now, unheard>>

Finish(r) ==
  /\ run[r].pc = "next" /\ run[r].todo = {}
  /\ run' = [run EXCEPT ![r] = Idle]
  /\ UNCHANGED <<movements, logs, now, unheard>>

\* The process dies, or an answer of another shape than expected raises an
\* exception that is none of the three the service translates.
LoseRun(r) ==
  /\ run[r].pc # "idle"
  /\ Abort(r)
  /\ unheard' = (unheard \/ run[r].pc = "notify")
  /\ UNCHANGED <<movements, logs, now>>

RunStep(r) ==
  \/ NextProcess(r)
  \/ Retry(r)
  \/ FailSearch(r)
  \/ NotifyFailure(r)
  \/ \E answer \in Answers : Found(r, answer)
  \/ \E ext \in MovementIds : CheckMovement(r, ext)
  \/ InsertMovement(r)
  \/ BreakWaitCycle(r)
  \/ CommitImport(r)
  \/ Finish(r)

-----------------------------------------------------------------------------
(* Around the runs *)

Tick ==
  /\ now < MaxNow
  /\ now' = now + 1
  /\ UNCHANGED <<movements, logs, run, unheard>>

\* The recurrent job takes each process with the alias saved with it.
FireJob(r) ==
  r \in Batches /\ \E active \in SUBSET Processes : StartBatch(r, active, NoTribunal)

\* The script, like an administrator, may ask for one tribunal.
RunScript(r) ==
  /\ r \in Batches
  /\ \E active \in SUBSET Processes, alias \in Tribunals : StartBatch(r, active, alias)

Request(r) ==
  /\ r \notin Batches
  /\ \E p \in Processes, alias \in Tribunals \union {NoTribunal} : StartOne(r, p, alias)

Next ==
  \/ \E r \in Runs : FireJob(r) \/ RunScript(r) \/ Request(r) \/ RunStep(r) \/ LoseRun(r)
  \/ Tick

Spec == Init /\ [][Next]_vars

-----------------------------------------------------------------------------
(* Properties *)

\* Every variable keeps the shape of its table; in particular a search never
\* takes more than MaxRetries + 1 requests (datajud_service.py:93).
SyncTypeOK ==
  /\ movements \subseteq MovementRow
  /\ logs \in Seq(LogRow) /\ Len(logs) <= MaxLogs
  /\ run \in [Runs -> Thread]
  /\ now \in 0..MaxNow
  /\ unheard \in BOOLEAN

\* "external_id ... para deduplicacao por processo" (ENDPOINTS.md:1726): no
\* movement is stored twice for a process, although the check
\* (service.py:110) and the INSERT (service.py:117) are separate statements.
NoMovementTwice ==
  \A m, n \in movements : m.process = n.process /\ m.ext = n.ext => m = n

\* One transaction per answer (service.py:108): every stored movement came
\* with a SUCCESS log of its process whose answer held it, and every SUCCESS
\* log has the whole of its answer stored, whoever stored it first.
ImportsMatchTheirLogs ==
  /\ \A m \in movements :
       /\ m.log \in DOMAIN logs
       /\ logs[m.log].ok /\ logs[m.log].process = m.process
       /\ m.ext \in logs[m.log].answer
  /\ \A i \in DOMAIN logs : logs[i].ok =>
       \A e \in logs[i].answer : Exists(logs[i].process, e)

\* The failure of one process does not stop the others (service.py:169-189): a
\* run that comes to its end logged a search of every process it listed.
FinishedRunsLeaveNothingOut ==
  \A r \in Runs : run[r].pc = "next" /\ run[r].todo = {} =>
    {logs[i].process : i \in run[r].made} = run[r].listed

\* A failure is silenced only inside an outage that was announced
\* (notifier.py:62-74): going back from it, each failure has an earlier one in
\* its window, down to one that was not throttled.  The exceptions are a run
\* lost before its count and two failures committed before either was counted.
OutagesAreAnnounced ==
  ~unheard => \A i \in Failures : logs[i].told = "throttled" =>
    \E k \in Failures :
      /\ k < i /\ logs[k].told = "mailed"
      /\ \A j \in Failures : k < j /\ j <= i /\ logs[j].told # "waiting" =>
           \E h \in Failures : k <= h /\ h < j /\ logs[j].counted - logs[h].at <= Throttle

=============================================================================
