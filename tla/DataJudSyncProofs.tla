--------------------------- MODULE DataJudSyncProofs ---------------------------
(***************************************************************************)
(* Theorems about the import of court movements, for any number of         *)
(* processes, runs, retries, searches and ticks of the clock.              *)
(***************************************************************************)
EXTENDS DataJudSync, SequenceTheorems, FiniteSetTheorems, WellFoundedInduction, TLAPS

-----------------------------------------------------------------------------
(* The inductive invariant                                                 *)

\* The rows and the threads without the bounds of a run of TLC.
LogShape ==
  [process : Processes \union {NoProcess}, ok : BOOLEAN, answer : SUBSET MovementIds,
   at : Int, told : {"waiting", "throttled", "mailed"}, counted : Int]

ThreadShape ==
  [pc : {"idle", "next", "search", "import", "insert", "notify"},
   listed : SUBSET Processes, todo : SUBSET Processes, made : SUBSET Nat,
   cur : Processes \union {NoProcess}, attempt : Int,
   answer : SUBSET MovementIds, left : SUBSET MovementIds,
   pending : SUBSET MovementIds, ext : SUBSET MovementIds, tx : Int]

Shape ==
  /\ movements \subseteq [process : Processes \union {NoProcess}, ext : MovementIds, log : Int]
  /\ logs \in Seq(LogShape)
  /\ run \in [Runs -> ThreadShape]
  /\ now \in Int

\* What a run inserted and has not committed, and what it still has to look
\* at, make up its answer, but for what is stored already.
AnswerOK(r) ==
  /\ run[r].pc \notin {"import", "insert"} => run[r].pending = {}
  /\ run[r].pc # "insert" => run[r].ext = {}
  /\ run[r].pc = "insert" => \E e \in MovementIds : run[r].ext = {e}
  /\ run[r].pc \in {"import", "insert"} =>
       /\ run[r].left \union run[r].ext \union run[r].pending \subseteq run[r].answer
       /\ \A e \in run[r].answer :
            e \in run[r].left \union run[r].ext \union run[r].pending \/ Exists(run[r].cur, e)
  /\ \A e \in run[r].pending : ~Exists(run[r].cur, e)

\* A run has logged the processes it is done with.
MadeOK(r) ==
  /\ run[r].made \subseteq DOMAIN logs
  /\ run[r].listed = {logs[i].process : i \in run[r].made} \union run[r].todo
       \union (IF run[r].pc \in {"search", "import", "insert"} THEN {run[r].cur} ELSE {})

\* No key is in two open transactions: the unique index makes one wait.
Apart ==
  \A r, s \in Runs : r # s /\ run[r].cur = run[s].cur =>
                       run[r].pending \intersect run[s].pending = {}

RunsOK == \A r \in Runs : AnswerOK(r) /\ MadeOK(r)

SyncInv == Shape /\ RunsOK /\ Apart /\ NoMovementTwice /\ ImportsMatchTheirLogs

-----------------------------------------------------------------------------
(* Steps of one run                                                        *)

\* The table of logs keeps its rows, but for what the notifier notes in them.
LogsGrow ==
  /\ logs' \in Seq(LogShape)
  /\ DOMAIN logs \subseteq DOMAIN logs'
  /\ \A i \in DOMAIN logs :
       /\ logs'[i].process = logs[i].process /\ logs'[i].ok = logs[i].ok
       /\ logs'[i].answer = logs[i].answer /\ logs'[i].at = logs[i].at

LEMMA UnchangedLogsGrow == ASSUME Shape, logs' = logs PROVE LogsGrow
BY DEF Shape, LogsGrow

\* A step of one run that stores nothing but what the run had inserted leaves
\* the other runs as they were.
LEMMA OneRunSteps ==
  ASSUME SyncInv, NEW r \in Runs, Shape', LogsGrow,
         \A s \in Runs \ {r} : run'[s] = run[s],
         movements \subseteq movements',
         \A m \in movements' \ movements : m.process = run[r].cur /\ m.ext \in run[r].pending,
         AnswerOK(r)', MadeOK(r)',
         \A s \in Runs \ {r} : run[s].cur = run'[r].cur =>
                                 run[s].pending \intersect run'[r].pending = {}
  PROVE  RunsOK' /\ Apart'
<1>1. Apart'
  BY DEF SyncInv, Apart
<1>2. ASSUME NEW s \in Runs \ {r} PROVE AnswerOK(s)'
  <2>1. run'[s] = run[s] /\ AnswerOK(s)
    BY DEF SyncInv, RunsOK
  <2>2. \A e : Exists(run[s].cur, e) => Exists(run[s].cur, e)'
    BY DEF Exists
  <2>3. ASSUME NEW e \in run[s].pending PROVE ~Exists(run[s].cur, e)'
    <3>1. ~Exists(run[s].cur, e)
      BY <2>1 DEF AnswerOK
    <3>2. run[s].cur = run[r].cur => e \notin run[r].pending
      BY DEF SyncInv, Apart
    <3> QED
      BY <2>1, <3>1, <3>2 DEF Exists
  <2> QED
    BY <2>1, <2>2, <2>3 DEF AnswerOK
<1>3. ASSUME NEW s \in Runs \ {r} PROVE MadeOK(s)'
  <2>1. run'[s] = run[s] /\ MadeOK(s)
    BY DEF SyncInv, RunsOK
  <2>2. {logs'[i].process : i \in run[s].made} = {logs[i].process : i \in run[s].made}
    BY <2>1 DEF MadeOK, LogsGrow
  <2> QED
    BY <2>1, <2>2 DEF MadeOK, LogsGrow
<1> QED
  BY <1>1, <1>2, <1>3 DEF RunsOK

\* ... and one that changes neither table keeps the whole invariant.
LEMMA QuietRunSteps ==
  ASSUME SyncInv, NEW r \in Runs, Shape', logs' = logs, movements' = movements,
         \A s \in Runs \ {r} : run'[s] = run[s],
         AnswerOK(r)', MadeOK(r)',
         \A s \in Runs \ {r} : run[s].cur = run'[r].cur =>
                                 run[s].pending \intersect run'[r].pending = {}
  PROVE  SyncInv'
<1>1. RunsOK' /\ Apart'
  BY OneRunSteps, UnchangedLogsGrow DEF SyncInv
<1>2. NoMovementTwice' /\ ImportsMatchTheirLogs'
  BY DEF SyncInv, NoMovementTwice, ImportsMatchTheirLogs, Exists
<1> QED
  BY <1>1, <1>2 DEF SyncInv

\* The thread that is idle has nothing in hand.
LEMMA IdleRuns ==
  ASSUME SyncInv, NEW r \in Runs, run' = [run EXCEPT ![r] = Idle],
         logs' = logs, movements' = movements, now' = now
  PROVE  SyncInv'
<1>1. Idle \in ThreadShape
  BY DEF Idle, Begun, ThreadShape, NoProcess
<1>2. Shape' /\ run'[r] = Idle /\ \A s \in Runs \ {r} : run'[s] = run[s]
  BY <1>1 DEF SyncInv, Shape
<1>3. AnswerOK(r)' /\ MadeOK(r)'
  BY <1>2 DEF AnswerOK, MadeOK, Idle, Begun
<1>4. run'[r].pending = {}
  BY <1>2 DEF Idle, Begun
<1> QED
  BY <1>2, <1>3, <1>4, QuietRunSteps
-----------------------------------------------------------------------------
(* One lemma for each action                                               *)

LEMMA SyncInit == Init => SyncInv
<1> SUFFICES ASSUME Init PROVE SyncInv
  OBVIOUS
<1>1. Idle \in ThreadShape
  BY DEF Idle, Begun, ThreadShape, NoProcess
<1>2. Shape
  BY <1>1, EmptySeq DEF Init, Shape
<1>3. RunsOK /\ Apart
  BY DEF Init, RunsOK, AnswerOK, MadeOK, Apart, Idle, Begun
<1>4. NoMovementTwice /\ ImportsMatchTheirLogs
  BY DEF Init, NoMovementTwice, ImportsMatchTheirLogs
<1> QED
  BY <1>2, <1>3, <1>4 DEF SyncInv

\* Both ways to start: a batch, or one process.
LEMMA Starts ==
  ASSUME SyncInv, NEW r \in Runs, NEW listed \in SUBSET Processes, NEW todo, NEW cur,
         NEW pc, run' = [run EXCEPT ![r] = Begun(pc, listed, todo, cur, now)],
         \/ pc = "next" /\ todo = listed /\ cur = NoProcess
         \/ pc = "search" /\ todo = {} /\ cur \in Processes /\ listed = {cur},
         logs' = logs, movements' = movements, now' = now
  PROVE  SyncInv'
<1>1. Begun(pc, listed, todo, cur, now) \in ThreadShape
  BY DEF SyncInv, Shape, Begun, ThreadShape, NoProcess
<1>2. /\ Shape' /\ \A s \in Runs \ {r} : run'[s] = run[s]
      /\ run'[r] = Begun(pc, listed, todo, cur, now)
  BY <1>1 DEF SyncInv, Shape
<1>3. /\ run'[r].pending = {} /\ run'[r].ext = {} /\ run'[r].made = {}
      /\ run'[r].pc = pc /\ run'[r].listed = listed /\ run'[r].todo = todo /\ run'[r].cur = cur
  BY <1>2 DEF Begun
<1>4. AnswerOK(r)' /\ MadeOK(r)'
  BY <1>3 DEF AnswerOK, MadeOK
<1> QED
  BY <1>2, <1>3, <1>4, QuietRunSteps

LEMMA StartBatchKeeps ==
  ASSUME SyncInv, NEW r \in Runs, NEW active \in SUBSET Processes, NEW alias,
         StartBatch(r, active, alias)
  PROVE  SyncInv'
<1>1. ListActive(active, alias) \in SUBSET Processes
  BY DEF ListActive, Candidates
<1> QED
  BY <1>1, Starts DEF StartBatch

LEMMA StartOneKeeps ==
  ASSUME SyncInv, NEW r \in Runs, NEW p \in Processes, NEW alias, StartOne(r, p, alias)
  PROVE  SyncInv'
BY Starts DEF StartOne

LEMMA NextProcessKeeps ==
  ASSUME SyncInv, NEW r \in Runs, NextProcess(r) PROVE SyncInv'
<1>1. PICK p \in run[r].todo :
        run' = [run EXCEPT ![r].pc = "search", ![r].cur = p, ![r].attempt = 0,
                           ![r].todo = @ \ {p}]
  BY DEF NextProcess
<1>2. /\ run[r] \in ThreadShape /\ run[r].pc = "next" /\ AnswerOK(r) /\ MadeOK(r)
      /\ logs' = logs /\ movements' = movements /\ now' = now
  BY DEF NextProcess, SyncInv, Shape, RunsOK
<1>3. 0 \in Int /\ p \in Processes /\ run[r].todo \ {p} \in SUBSET Processes
  BY <1>2 DEF ThreadShape
<1>4. [run[r] EXCEPT !.pc = "search", !.cur = p, !.attempt = 0, !.todo = @ \ {p}] \in ThreadShape
  BY <1>2, <1>3 DEF ThreadShape
<1>5. /\ Shape' /\ \A s \in Runs \ {r} : run'[s] = run[s]
      /\ run'[r] = [run[r] EXCEPT !.pc = "search", !.cur = p, !.attempt = 0, !.todo = @ \ {p}]
  BY <1>1, <1>2, <1>4 DEF SyncInv, Shape
<1>6. /\ run'[r].pc = "search" /\ run'[r].cur = p /\ run'[r].todo = run[r].todo \ {p}
      /\ run'[r].pending = {} /\ run'[r].ext = {}
      /\ run'[r].made = run[r].made /\ run'[r].listed = run[r].listed
  BY <1>2, <1>5 DEF ThreadShape, AnswerOK
<1>7. AnswerOK(r)' /\ MadeOK(r)'
  BY <1>2, <1>6 DEF AnswerOK, MadeOK
<1> QED
  BY <1>2, <1>5, <1>6, <1>7, QuietRunSteps

LEMMA RetryKeeps == ASSUME SyncInv, NEW r \in Runs, Retry(r) PROVE SyncInv'
<1>1. /\ run[r] \in ThreadShape /\ AnswerOK(r) /\ MadeOK(r)
      /\ logs' = logs /\ movements' = movements /\ now' = now
      /\ run[r].pc = "search" /\ run' = [run EXCEPT ![r].attempt = @ + 1]
  BY DEF Retry, SyncInv, Shape, RunsOK
<1>2. run[r].attempt + 1 \in Int
  BY <1>1 DEF ThreadShape
<1>3. [run[r] EXCEPT !.attempt = @ + 1] \in ThreadShape
  BY <1>1, <1>2 DEF ThreadShape
<1>4. /\ Shape' /\ \A s \in Runs \ {r} : run'[s] = run[s]
      /\ run'[r] = [run[r] EXCEPT !.attempt = @ + 1]
  BY <1>1, <1>3 DEF SyncInv, Shape
<1>5. AnswerOK(r)' /\ MadeOK(r)' /\ run'[r].pending = {}
  BY <1>1, <1>4 DEF AnswerOK, MadeOK, ThreadShape, Exists
<1> QED
  BY <1>1, <1>4, <1>5, QuietRunSteps

LEMMA FoundKeeps ==
  ASSUME SyncInv, NEW r \in Runs, NEW answer \in Answers, Found(r, answer) PROVE SyncInv'
<1>1. /\ run[r] \in ThreadShape /\ AnswerOK(r) /\ MadeOK(r)
      /\ logs' = logs /\ movements' = movements /\ now' = now
      /\ run[r].pc = "search" /\ answer \in SUBSET MovementIds
      /\ run' = [run EXCEPT ![r].pc = "import", ![r].attempt = 0,
                            ![r].answer = answer, ![r].left = answer]
  BY SyncConstants DEF Found, SyncInv, Shape, RunsOK
<1>2. 0 \in Int
  OBVIOUS
<1>3. [run[r] EXCEPT !.pc = "import", !.attempt = 0, !.answer = answer, !.left = answer]
        \in ThreadShape
  BY <1>1, <1>2 DEF ThreadShape
<1>4. PICK x : /\ x = [run[r] EXCEPT !.pc = "import", !.attempt = 0, !.answer = answer, !.left = answer]
               /\ run' = [run EXCEPT ![r] = x]
  BY <1>1
<1>5. /\ Shape' /\ \A s \in Runs \ {r} : run'[s] = run[s]
      /\ run'[r] = x
  BY <1>1, <1>3, <1>4 DEF SyncInv, Shape
<1>6. /\ x.pc = "import" /\ x.answer = answer /\ x.left = answer
      /\ x.pending = run[r].pending /\ x.ext = run[r].ext /\ x.cur = run[r].cur
      /\ x.made = run[r].made /\ x.todo = run[r].todo /\ x.listed = run[r].listed
  BY <1>1, <1>4 DEF ThreadShape
<1>7. run[r].pending = {} /\ run[r].ext = {}
  BY <1>1 DEF AnswerOK
<1>8. AnswerOK(r)' /\ run'[r].pending = {}
  BY <1>5, <1>6, <1>7 DEF AnswerOK
<1>9. MadeOK(r)'
  <2>1. /\ run'[r].made = run[r].made /\ run'[r].todo = run[r].todo
        /\ run'[r].listed = run[r].listed /\ run'[r].cur = run[r].cur
        /\ run'[r].pc = "import" /\ logs' = logs
    BY <1>1, <1>5, <1>6
  <2>2. /\ run[r].made \subseteq DOMAIN logs
        /\ run[r].listed = {logs[i].process : i \in run[r].made} \union run[r].todo \union {run[r].cur}
    BY <1>1 DEF MadeOK
  <2> QED
    BY <2>1, <2>2 DEF MadeOK
<1> QED
  BY <1>1, <1>5, <1>8, <1>9, QuietRunSteps

LEMMA CheckMovementKeeps ==
  ASSUME SyncInv, NEW r \in Runs, NEW ext \in MovementIds, CheckMovement(r, ext)
  PROVE  SyncInv'
<1>1. /\ run[r] \in ThreadShape /\ AnswerOK(r) /\ MadeOK(r)
      /\ logs' = logs /\ movements' = movements /\ now' = now
      /\ run[r].pc = "import" /\ ext \in run[r].left
  BY DEF CheckMovement, SyncInv, Shape, RunsOK
<1>2. CASE Exists(run[r].cur, ext)
  <2>1. run' = [run EXCEPT ![r].left = @ \ {ext}]
    BY <1>2 DEF CheckMovement
  <2>2. /\ Shape' /\ \A s \in Runs \ {r} : run'[s] = run[s]
        /\ run'[r] = [run[r] EXCEPT !.left = @ \ {ext}]
    BY <1>1, <2>1 DEF SyncInv, Shape, ThreadShape
  <2>3. AnswerOK(r)' /\ MadeOK(r)'
    BY <1>1, <1>2, <2>2 DEF AnswerOK, MadeOK, ThreadShape, Exists
  <2>4. run'[r].pending = run[r].pending /\ run'[r].cur = run[r].cur
    BY <1>1, <2>2 DEF ThreadShape
  <2> QED
    BY <1>1, <2>2, <2>3, <2>4, QuietRunSteps DEF SyncInv, Apart
<1>3. CASE ~Exists(run[r].cur, ext)
  <2>1. run' = [run EXCEPT ![r].pc = "insert", ![r].left = @ \ {ext}, ![r].ext = {ext}]
    BY <1>3 DEF CheckMovement
  <2>2. /\ Shape' /\ \A s \in Runs \ {r} : run'[s] = run[s]
        /\ run'[r] = [run[r] EXCEPT !.pc = "insert", !.left = @ \ {ext}, !.ext = {ext}]
    BY <1>1, <2>1 DEF SyncInv, Shape, ThreadShape
  <2>3. AnswerOK(r)' /\ MadeOK(r)'
    BY <1>1, <2>2 DEF AnswerOK, MadeOK, ThreadShape, Exists
  <2>4. run'[r].pending = run[r].pending /\ run'[r].cur = run[r].cur
    BY <1>1, <2>2 DEF ThreadShape
  <2> QED
    BY <1>1, <2>2, <2>3, <2>4, QuietRunSteps DEF SyncInv, Apart
<1> QED
  BY <1>2, <1>3

LEMMA InsertMovementKeeps ==
  ASSUME SyncInv, NEW r \in Runs, InsertMovement(r) PROVE SyncInv'
<1>1. /\ run[r] \in ThreadShape /\ AnswerOK(r) /\ MadeOK(r)
      /\ logs' = logs /\ movements' = movements /\ now' = now
      /\ run[r].pc = "insert" /\ HeldBy(r, run[r].ext) = {}
  BY DEF InsertMovement, SyncInv, Shape, RunsOK
<1>2. CASE \E e \in run[r].ext : Exists(run[r].cur, e)
  BY <1>1, <1>2, IdleRuns DEF InsertMovement, Abort
<1>3. CASE ~\E e \in run[r].ext : Exists(run[r].cur, e)
  <2>1. run' = [run EXCEPT ![r].pc = "import", ![r].ext = {},
                           ![r].pending = @ \union run[r].ext]
    BY <1>3 DEF InsertMovement
  <2>2. /\ Shape' /\ \A s \in Runs \ {r} : run'[s] = run[s]
        /\ run'[r] = [run[r] EXCEPT !.pc = "import", !.ext = {},
                                    !.pending = @ \union run[r].ext]
    BY <1>1, <2>1 DEF SyncInv, Shape, ThreadShape
  <2>3. AnswerOK(r)' /\ MadeOK(r)'
    BY <1>1, <1>3, <2>2 DEF AnswerOK, MadeOK, ThreadShape, Exists
  <2>4. run'[r].pending = run[r].pending \union run[r].ext /\ run'[r].cur = run[r].cur
    BY <1>1, <2>2 DEF ThreadShape
  <2>5. ASSUME NEW s \in Runs \ {r}, run[s].cur = run[r].cur
        PROVE  run[s].pending \intersect (run[r].pending \union run[r].ext) = {}
    <3>1. run[s].pending \intersect run[r].pending = {}
      BY <2>5 DEF SyncInv, Apart
    <3>2. run[s].pending \intersect run[r].ext = {}
      BY <1>1, <2>5 DEF HeldBy, AnswerOK
    <3> QED
      BY <3>1, <3>2
  <2> QED
    BY <1>1, <2>2, <2>3, <2>4, <2>5, QuietRunSteps
<1> QED
  BY <1>2, <1>3
\* A row is added at the end of the table.
LEMMA LoggedRows ==
  ASSUME SyncInv, NEW r \in Runs, NEW ok \in BOOLEAN, logs' = Logged(r, ok)
  PROVE  /\ LogsGrow
         /\ Len(logs') = Len(logs) + 1 /\ Len(logs') \in Nat
         /\ DOMAIN logs' = DOMAIN logs \union {Len(logs')} /\ Len(logs') \notin DOMAIN logs
         /\ \A i \in DOMAIN logs : logs'[i] = logs[i]
         /\ LET l == logs'[Len(logs')]
            IN  /\ l.process = run[r].cur /\ l.ok = ok /\ l.answer = run[r].answer
                /\ l.at = run[r].tx /\ l.told = "waiting" /\ l.counted = 0
<1> DEFINE l == [process |-> run[r].cur, ok |-> ok, answer |-> run[r].answer,
                 at |-> run[r].tx, told |-> "waiting", counted |-> 0]
<1>1. logs \in Seq(LogShape) /\ run[r] \in ThreadShape
  BY DEF SyncInv, Shape
<1>2. l \in LogShape
  BY <1>1 DEF ThreadShape, LogShape
<1>3. logs' = Append(logs, l)
  BY DEF Logged
<1> HIDE DEF l
<1>4. /\ logs' \in Seq(LogShape) /\ Len(logs') = Len(logs) + 1
      /\ \A i \in 1..Len(logs) : logs'[i] = logs[i]
      /\ logs'[Len(logs) + 1] = l
  BY <1>1, <1>2, <1>3, AppendProperties
<1>5. /\ DOMAIN logs = 1..Len(logs) /\ DOMAIN logs' = 1..Len(logs') /\ Len(logs) \in Nat
  BY <1>1, <1>4, LenProperties
<1>6. LogsGrow
  BY <1>4, <1>5 DEF LogsGrow
<1> QED
  BY <1>4, <1>5, <1>6 DEF l

LEMMA ImageOfOneMore ==
  ASSUME NEW S, NEW n, NEW p, LogsGrow, S \subseteq DOMAIN logs, logs'[n].process = p
  PROVE  {logs'[i].process : i \in S \union {n}} = {logs[i].process : i \in S} \union {p}
BY DEF LogsGrow

LEMMA FailSearchKeeps == ASSUME SyncInv, NEW r \in Runs, FailSearch(r) PROVE SyncInv'
<1>1. /\ run[r] \in ThreadShape /\ AnswerOK(r) /\ MadeOK(r)
      /\ movements' = movements /\ now' = now
      /\ run[r].pc = "search" /\ logs' = Logged(r, FALSE)
      /\ run' = [run EXCEPT ![r].pc = "notify", ![r].attempt = 0,
                            ![r].made = @ \union {Len(logs')}]
  BY DEF FailSearch, SyncInv, Shape, RunsOK
<1>2. PICK n \in Nat :
        /\ n = Len(logs') /\ LogsGrow
        /\ DOMAIN logs' = DOMAIN logs \union {n} /\ n \notin DOMAIN logs
        /\ \A i \in DOMAIN logs : logs'[i] = logs[i]
        /\ logs'[n].process = run[r].cur /\ logs'[n].ok = FALSE
  BY <1>1, LoggedRows
<1>3. PICK x : /\ x = [run[r] EXCEPT !.pc = "notify", !.attempt = 0, !.made = @ \union {n}]
               /\ run' = [run EXCEPT ![r] = x]
  BY <1>1, <1>2
<1>4. 0 \in Int /\ run[r].made \in SUBSET Nat /\ run[r].made \union {n} \in SUBSET Nat
  BY <1>1 DEF ThreadShape
<1>5. x \in ThreadShape
  BY <1>1, <1>3, <1>4 DEF ThreadShape
<1>6. /\ Shape' /\ \A s \in Runs \ {r} : run'[s] = run[s]
      /\ run'[r] = x
  BY <1>1, <1>2, <1>3, <1>5 DEF SyncInv, Shape, LogsGrow
<1>7. /\ x.pc = "notify" /\ x.pending = run[r].pending /\ x.ext = run[r].ext /\ x.cur = run[r].cur
      /\ x.made = run[r].made \union {n} /\ x.todo = run[r].todo
      /\ x.listed = run[r].listed
  BY <1>1, <1>3 DEF ThreadShape
<1>8. AnswerOK(r)' /\ run'[r].pending = {}
  BY <1>1, <1>6, <1>7 DEF AnswerOK
<1>9. MadeOK(r)'
  <2>1. /\ run[r].made \subseteq DOMAIN logs
        /\ run[r].listed = {logs[i].process : i \in run[r].made} \union run[r].todo \union {run[r].cur}
    BY <1>1 DEF MadeOK
  <2>2. {logs'[i].process : i \in run[r].made \union {n}}
          = {logs[i].process : i \in run[r].made} \union {run[r].cur}
    BY <2>1, <1>2, ImageOfOneMore
  <2> QED
    BY <1>2, <1>6, <1>7, <2>1, <2>2 DEF MadeOK
<1>10. RunsOK' /\ Apart'
  BY <1>1, <1>2, <1>6, <1>8, <1>9, OneRunSteps
<1>11. NoMovementTwice'
  BY <1>1 DEF SyncInv, NoMovementTwice
<1>12. ImportsMatchTheirLogs'
  <2>1. ASSUME NEW m \in movements
        PROVE  /\ m.log \in DOMAIN logs' /\ logs'[m.log].ok
               /\ logs'[m.log].process = m.process /\ m.ext \in logs'[m.log].answer
    BY <1>2 DEF SyncInv, ImportsMatchTheirLogs
  <2>2. ASSUME NEW i \in DOMAIN logs', logs'[i].ok, NEW e \in logs'[i].answer
        PROVE  Exists(logs'[i].process, e)
    <3>1. i \in DOMAIN logs /\ logs'[i] = logs[i]
      BY <1>2, <2>2
    <3> QED
      BY <2>2, <3>1 DEF SyncInv, ImportsMatchTheirLogs
  <2> QED
    BY <1>1, <2>1, <2>2 DEF ImportsMatchTheirLogs, Exists
<1> QED
  BY <1>6, <1>10, <1>11, <1>12 DEF SyncInv
\* The notifier writes in one row of the table what it did.
LEMMA NotedRows ==
  ASSUME SyncInv, NEW i, NEW told \in {"throttled", "mailed"},
         logs' = [logs EXCEPT ![i].counted = now, ![i].told = told]
  PROVE  /\ LogsGrow /\ DOMAIN logs' = DOMAIN logs
         /\ \A j \in DOMAIN logs : j # i => logs'[j] = logs[j]
         /\ i \in DOMAIN logs => logs'[i].counted = now /\ logs'[i].told = told
<1>1. logs \in Seq(LogShape) /\ DOMAIN logs = 1..Len(logs) /\ now \in Int
  BY LenProperties DEF SyncInv, Shape
<1>2. CASE i \notin DOMAIN logs
  <2>1. logs' = logs
    BY <1>1, <1>2
  <2> QED
    BY <1>1, <1>2, <2>1 DEF LogsGrow
<1>3. CASE i \in DOMAIN logs
  <2>1. PICK l : l = [logs[i] EXCEPT !.counted = now, !.told = told] /\ logs' = [logs EXCEPT ![i] = l]
    BY <1>1, <1>3
  <2>2. logs[i] \in LogShape
    BY <1>1, <1>3, ElementOfSeq
  <2>3. /\ l \in LogShape /\ l.process = logs[i].process /\ l.ok = logs[i].ok
        /\ l.answer = logs[i].answer /\ l.at = logs[i].at /\ l.counted = now /\ l.told = told
    BY <1>1, <2>1, <2>2 DEF LogShape
  <2>4. /\ logs' \in Seq(LogShape) /\ Len(logs') = Len(logs)
        /\ \A j \in 1..Len(logs) : logs'[j] = IF j = i THEN l ELSE logs[j]
    <3>1. i \in 1..Len(logs) /\ l \in LogShape
      BY <1>1, <1>3, <2>3
    <3> HIDE DEF LogShape
    <3>2. /\ [logs EXCEPT ![i] = l] \in Seq(LogShape) /\ Len([logs EXCEPT ![i] = l]) = Len(logs)
          /\ \A j \in 1..Len(logs) : [logs EXCEPT ![i] = l][j] = IF j = i THEN l ELSE logs[j]
      BY <1>1, <3>1, ExceptSeq
    <3> QED
      BY <2>1, <3>2
  <2>5. DOMAIN logs' = 1..Len(logs')
    BY <2>4, LenProperties
  <2> QED
    BY <1>1, <1>3, <2>3, <2>4, <2>5 DEF LogsGrow
<1> QED
  BY <1>2, <1>3

LEMMA NotifyFailureKeeps == ASSUME SyncInv, NEW r \in Runs, NotifyFailure(r) PROVE SyncInv'
<1>1. /\ run[r] \in ThreadShape /\ AnswerOK(r) /\ MadeOK(r)
      /\ movements' = movements /\ now' = now /\ now \in Int
      /\ run[r].pc = "notify"
      /\ run' = [run EXCEPT ![r].pc = "next", ![r].cur = NoProcess, ![r].tx = now]
  BY DEF NotifyFailure, SyncInv, Shape, RunsOK
<1>2. PICK i : logs' = [logs EXCEPT ![i].counted = now,
                          ![i].told = IF Throttled(i) THEN "throttled" ELSE "mailed"]
  BY Zenon DEF NotifyFailure
<1>3. LogsGrow /\ DOMAIN logs' = DOMAIN logs
  <2>1. CASE Throttled(i)
    <3>1. logs' = [logs EXCEPT ![i].counted = now, ![i].told = "throttled"]
      BY <1>2, <2>1
    <3> QED
      BY <3>1, NotedRows
  <2>2. CASE ~Throttled(i)
    <3>1. logs' = [logs EXCEPT ![i].counted = now, ![i].told = "mailed"]
      BY <1>2, <2>2
    <3> QED
      BY <3>1, NotedRows
  <2> QED
    BY <2>1, <2>2
<1>4. PICK x : /\ x = [run[r] EXCEPT !.pc = "next", !.cur = NoProcess, !.tx = now]
               /\ run' = [run EXCEPT ![r] = x]
  BY <1>1
<1>5. NoProcess \in Processes \union {NoProcess}
  OBVIOUS
<1>6. x \in ThreadShape
  BY <1>1, <1>4, <1>5 DEF ThreadShape
<1>7. /\ Shape' /\ \A s \in Runs \ {r} : run'[s] = run[s]
      /\ run'[r] = x
  BY <1>1, <1>3, <1>4, <1>6 DEF SyncInv, Shape, LogsGrow
<1>8. /\ x.pc = "next" /\ x.pending = run[r].pending /\ x.ext = run[r].ext
      /\ x.made = run[r].made /\ x.todo = run[r].todo /\ x.listed = run[r].listed
  BY <1>1, <1>4 DEF ThreadShape
<1>9. AnswerOK(r)' /\ run'[r].pending = {}
  BY <1>1, <1>7, <1>8 DEF AnswerOK
<1>10. MadeOK(r)'
  <2>1. /\ run[r].made \subseteq DOMAIN logs
        /\ run[r].listed = {logs[j].process : j \in run[r].made} \union run[r].todo
    BY <1>1 DEF MadeOK
  <2>2. {logs'[j].process : j \in run[r].made} = {logs[j].process : j \in run[r].made}
    BY <1>3, <2>1 DEF LogsGrow
  <2> QED
    BY <1>3, <1>7, <1>8, <2>1, <2>2 DEF MadeOK
<1>11. RunsOK' /\ Apart'
  BY <1>1, <1>3, <1>7, <1>9, <1>10, OneRunSteps
<1>12. NoMovementTwice'
  BY <1>1 DEF SyncInv, NoMovementTwice
<1>13. ImportsMatchTheirLogs'
  <2>1. \A p, e : Exists(p, e)' <=> Exists(p, e)
    BY <1>1 DEF Exists
  <2>2. ASSUME NEW m \in movements
        PROVE  /\ m.log \in DOMAIN logs' /\ logs'[m.log].ok
               /\ logs'[m.log].process = m.process /\ m.ext \in logs'[m.log].answer
    BY <1>3 DEF SyncInv, ImportsMatchTheirLogs, LogsGrow
  <2>3. ASSUME NEW k \in DOMAIN logs', logs'[k].ok, NEW e \in logs'[k].answer
        PROVE  Exists(logs[k].process, e) /\ logs'[k].process = logs[k].process
    BY <1>3, <2>3 DEF SyncInv, ImportsMatchTheirLogs, LogsGrow
  <2> QED
    BY <1>1, <2>2, <2>3 DEF ImportsMatchTheirLogs, Exists
<1> QED
  BY <1>7, <1>11, <1>12, <1>13 DEF SyncInv

LEMMA CommitImportKeeps == ASSUME SyncInv, NEW r \in Runs, CommitImport(r) PROVE SyncInv'
<1>1. /\ run[r] \in ThreadShape /\ AnswerOK(r) /\ MadeOK(r)
      /\ now' = now /\ now \in Int
      /\ run[r].pc = "import" /\ run[r].left = {} /\ logs' = Logged(r, TRUE)
      /\ movements' = movements \union
           {[process |-> run[r].cur, ext |-> e, log |-> Len(logs')] : e \in run[r].pending}
      /\ run' = [run EXCEPT ![r].pc = "next", ![r].cur = NoProcess, ![r].answer = {},
                        ![r].pending = {}, ![r].made = @ \union {Len(logs')},
                        ![r].tx = now]
  BY DEF CommitImport, SyncInv, Shape, RunsOK
<1>2. PICK n \in Nat :
        /\ n = Len(logs') /\ LogsGrow
        /\ DOMAIN logs' = DOMAIN logs \union {n} /\ n \notin DOMAIN logs
        /\ \A i \in DOMAIN logs : logs'[i] = logs[i]
        /\ logs'[n].process = run[r].cur /\ logs'[n].ok = TRUE
        /\ logs'[n].answer = run[r].answer
  BY <1>1, LoggedRows
<1>3. PICK x : /\ x = [run[r] EXCEPT !.pc = "next", !.cur = NoProcess, !.answer = {},
                          !.pending = {}, !.made = @ \union {n}, !.tx = now]
               /\ run' = [run EXCEPT ![r] = x]
  BY <1>1, <1>2
<1>4. /\ run[r].made \union {n} \in SUBSET Nat /\ NoProcess \in Processes \union {NoProcess}
      /\ {} \in SUBSET MovementIds
  BY <1>1 DEF ThreadShape
<1>5. x \in ThreadShape
  BY <1>1, <1>3, <1>4 DEF ThreadShape
<1>6. /\ x.pc = "next" /\ x.pending = {} /\ x.ext = run[r].ext
      /\ x.made = run[r].made \union {n} /\ x.todo = run[r].todo
      /\ x.listed = run[r].listed
  BY <1>1, <1>3 DEF ThreadShape
<1>7. movements' = movements \union
        {[process |-> run[r].cur, ext |-> e, log |-> n] : e \in run[r].pending}
  BY <1>1, <1>2
<1>8. movements' \subseteq [process : Processes \union {NoProcess}, ext : MovementIds, log : Int]
  <2>1. run[r].cur \in Processes \union {NoProcess} /\ run[r].pending \subseteq MovementIds
    BY <1>1 DEF ThreadShape
  <2>2. n \in Int
    OBVIOUS
  <2>3. ASSUME NEW e \in run[r].pending
        PROVE  [process |-> run[r].cur, ext |-> e, log |-> n]
                 \in [process : Processes \union {NoProcess}, ext : MovementIds, log : Int]
    BY <2>1, <2>2
  <2> QED
    BY <1>7, <2>3 DEF SyncInv, Shape
<1>9. /\ Shape' /\ \A s \in Runs \ {r} : run'[s] = run[s]
      /\ run'[r] = x
  <2>1. run' \in [Runs -> ThreadShape] /\ run'[r] = x /\ \A s \in Runs \ {r} : run'[s] = run[s]
    BY <1>3, <1>5 DEF SyncInv, Shape
  <2>2. logs' \in Seq(LogShape) /\ now' \in Int
    BY <1>1, <1>2 DEF LogsGrow
  <2> QED
    BY <1>8, <2>1, <2>2 DEF Shape
<1>10. AnswerOK(r)' /\ run'[r].pending = {}
  BY <1>1, <1>9, <1>6 DEF AnswerOK
<1>11. MadeOK(r)'
  <2>1. /\ run[r].made \subseteq DOMAIN logs
        /\ run[r].listed = {logs[i].process : i \in run[r].made} \union run[r].todo \union {run[r].cur}
    BY <1>1 DEF MadeOK
  <2>2. {logs'[i].process : i \in run[r].made \union {n}}
          = {logs[i].process : i \in run[r].made} \union {run[r].cur}
    BY <2>1, <1>2, ImageOfOneMore
  <2> QED
    BY <1>2, <1>9, <1>6, <2>1, <2>2 DEF MadeOK
<1>12. RunsOK' /\ Apart'
  BY <1>2, <1>7, <1>9, <1>10, <1>11, OneRunSteps
<1>13. NoMovementTwice'
  <2>1. ASSUME NEW m \in movements, NEW e \in run[r].pending
        PROVE  ~(m.process = run[r].cur /\ m.ext = e)
    BY <1>1 DEF AnswerOK, Exists
  <2> QED
    BY <1>7, <2>1 DEF SyncInv, NoMovementTwice
<1>14. ImportsMatchTheirLogs'
  <2>1. ASSUME NEW m \in movements
        PROVE  /\ m.log \in DOMAIN logs' /\ logs'[m.log].ok
               /\ logs'[m.log].process = m.process /\ m.ext \in logs'[m.log].answer
    BY <1>2 DEF SyncInv, ImportsMatchTheirLogs
  <2>2. run[r].pending \subseteq run[r].answer
        /\ \A e \in run[r].answer : e \in run[r].pending \/ Exists(run[r].cur, e)
    BY <1>1 DEF AnswerOK
  <2>3. ASSUME NEW m \in movements' \ movements
        PROVE  /\ m.log \in DOMAIN logs' /\ logs'[m.log].ok
               /\ logs'[m.log].process = m.process /\ m.ext \in logs'[m.log].answer
    BY <1>2, <1>7, <2>2, <2>3
  <2>4. ASSUME NEW e \in run[r].answer
        PROVE  \E m \in movements' : m.process = run[r].cur /\ m.ext = e
    <3>1. CASE e \in run[r].pending
      <4>1. [process |-> run[r].cur, ext |-> e, log |-> n] \in movements'
        BY <1>7, <3>1
      <4> QED
        BY <4>1
    <3>2. CASE Exists(run[r].cur, e)
      BY <1>7, <3>2 DEF Exists
    <3> QED
      BY <2>2, <3>1, <3>2
  <2>5. ASSUME NEW i \in DOMAIN logs', logs'[i].ok, NEW e \in logs'[i].answer
        PROVE  \E m \in movements' : m.process = logs'[i].process /\ m.ext = e
    <3>1. CASE i = n
      BY <1>2, <2>4, <2>5, <3>1
    <3>2. CASE i # n
      <4>1. i \in DOMAIN logs /\ logs'[i] = logs[i]
        BY <1>2, <3>2
      <4> QED
        BY <1>7, <2>5, <4>1 DEF SyncInv, ImportsMatchTheirLogs, Exists
    <3> QED
      BY <3>1, <3>2
  <2> QED
    BY <2>1, <2>3, <2>5 DEF ImportsMatchTheirLogs, Exists
<1> QED
  BY <1>9, <1>12, <1>13, <1>14 DEF SyncInv

LEMMA SyncStep == SyncInv /\ [Next]_vars => SyncInv'
<1> SUFFICES ASSUME SyncInv, [Next]_vars PROVE SyncInv'
  OBVIOUS
<1>1. ASSUME UNCHANGED <<movements, logs, run>>, now' \in Int PROVE SyncInv'
  BY <1>1 DEF SyncInv, Shape, RunsOK, AnswerOK, MadeOK, Apart, NoMovementTwice,
              ImportsMatchTheirLogs, Exists
<1>2. CASE UNCHANGED vars
  BY <1>1, <1>2 DEF vars, SyncInv, Shape
<1>3. CASE Tick
  BY <1>1, <1>3 DEF Tick, SyncInv, Shape
<1>4. ASSUME NEW r \in Runs, RunStep(r) PROVE SyncInv'
  <2>1. CASE BreakWaitCycle(r) \/ Finish(r)
    BY <2>1, IdleRuns DEF BreakWaitCycle, Finish, Abort
  <2> QED
    BY <1>4, <2>1, NextProcessKeeps, RetryKeeps, FailSearchKeeps, NotifyFailureKeeps, FoundKeeps,
       CheckMovementKeeps, InsertMovementKeeps, CommitImportKeeps DEF RunStep
<1>5. ASSUME NEW r \in Runs, LoseRun(r) PROVE SyncInv'
  BY <1>5, IdleRuns DEF LoseRun, Abort
<1>6. ASSUME NEW r \in Runs, FireJob(r) \/ RunScript(r) \/ Request(r) PROVE SyncInv'
  BY <1>6, StartBatchKeeps, StartOneKeeps DEF FireJob, RunScript, Request
<1> QED
  BY <1>2, <1>3, <1>4, <1>5, <1>6 DEF Next

-----------------------------------------------------------------------------
(* Theorems                                                                *)

\* No movement is stored twice for a process, however the checks and INSERTs
\* of any number of runs interleave (service.py:110, service.py:117).
THEOREM MovementsAreStoredOnce == Spec => []NoMovementTwice
<1>1. SyncInv => NoMovementTwice
  BY DEF SyncInv
<1> QED
  BY <1>1, SyncInit, SyncStep, PTL DEF Spec

\* A SUCCESS log means that the whole answer is stored, and nothing is stored
\* without one, whatever runs die in between (service.py:108).
THEOREM SuccessMeansStored == Spec => []ImportsMatchTheirLogs
<1>1. SyncInv => ImportsMatchTheirLogs
  BY DEF SyncInv
<1> QED
  BY <1>1, SyncInit, SyncStep, PTL DEF Spec

\* A run that comes to its end logged a search of every process it listed,
\* and of no other, whatever failed on the way (service.py:169-189).
THEOREM BatchesAreComplete == Spec => []FinishedRunsLeaveNothingOut
<1>1. SyncInv => FinishedRunsLeaveNothingOut
  BY DEF SyncInv, RunsOK, MadeOK, FinishedRunsLeaveNothingOut
<1> QED
  BY <1>1, SyncInit, SyncStep, PTL DEF Spec
-----------------------------------------------------------------------------
(* What a mail says of the failures before it                              *)

\* A mail leaves its distance to every earlier failure, mailed or not: those
\* that were still waiting when it was sent are mailed later, if at all.
MailedAlone ==
  Throttle # 0 => \A i, j \in Failures :
    i < j /\ logs[j].told = "mailed" => logs[j].counted - logs[i].at > Throttle

\* Rows that keep their failures, times and mails keep the distance.
LEMMA SameMailsKeepDistance ==
  ASSUME MailedAlone, LogsGrow,
         \A j \in Failures' : logs'[j].told = "mailed" => j \in Failures /\ logs'[j] = logs[j],
         \A i, j \in Failures' : i < j /\ j \in Failures => i \in Failures
  PROVE  MailedAlone'
BY DEF MailedAlone, LogsGrow, Failures

LEMMA LoggedKeepsDistance ==
  ASSUME SyncInv, MailedAlone, NEW r \in Runs, NEW ok \in BOOLEAN,
         logs' = Logged(r, ok)
  PROVE  MailedAlone'
<1>1. ASSUME NEW i \in DOMAIN logs', logs'[i].told = "mailed"
      PROVE  i \in DOMAIN logs /\ logs'[i] = logs[i]
  BY <1>1, LoggedRows
<1>2. LogsGrow
  BY LoggedRows
<1>3. ASSUME NEW i \in Failures', NEW j \in Failures, i < j
      PROVE  i \in Failures
  <2>1. /\ DOMAIN logs = 1..Len(logs) /\ Len(logs) \in Nat
        /\ DOMAIN logs' = DOMAIN logs \union {Len(logs')} /\ Len(logs') = Len(logs) + 1
        /\ \A k \in DOMAIN logs : logs'[k] = logs[k]
    BY LoggedRows, LenProperties DEF SyncInv, Shape
  <2>2. DOMAIN logs' = DOMAIN logs \union {Len(logs) + 1}
    BY <2>1
  <2> QED
    BY <1>3, <2>1, <2>2 DEF Failures
<1> QED
  BY <1>1, <1>2, <1>3, SameMailsKeepDistance DEF Failures

\* A mail is sent when no other failure is in the window that ends now.
LEMMA NotifyKeepsDistance ==
  ASSUME SyncInv, MailedAlone, NEW r \in Runs, NotifyFailure(r)
  PROVE  MailedAlone'
<1>1. PICK i : logs' = [logs EXCEPT ![i].counted = now,
                          ![i].told = IF Throttled(i) THEN "throttled" ELSE "mailed"]
  BY Zenon DEF NotifyFailure
<1>2. \A k \in DOMAIN logs : logs[k].at \in Int /\ now \in Int /\ Throttle \in Int
  <2>1. \A k \in DOMAIN logs : logs[k] \in LogShape
    BY ElementOfSeq, LenProperties DEF SyncInv, Shape
  <2> QED
    BY <2>1, SyncConstants DEF LogShape, SyncInv, Shape
<1>3. CASE Throttled(i)
  <2>1. logs' = [logs EXCEPT ![i].counted = now, ![i].told = "throttled"]
    BY <1>1, <1>3
  <2>2. /\ LogsGrow /\ DOMAIN logs' = DOMAIN logs
        /\ \A j \in DOMAIN logs : j # i => logs'[j] = logs[j]
        /\ i \in DOMAIN logs => logs'[i].told = "throttled"
    BY <2>1, NotedRows
  <2>3. Failures' = Failures
    BY <2>2 DEF Failures, LogsGrow
  <2>4. ASSUME NEW j \in Failures', logs'[j].told = "mailed"
        PROVE  j \in Failures /\ logs'[j] = logs[j]
    BY <2>2, <2>3, <2>4 DEF Failures
  <2> QED
    BY <2>2, <2>3, <2>4, SameMailsKeepDistance
<1>4. CASE ~Throttled(i)
  <2>1. logs' = [logs EXCEPT ![i].counted = now, ![i].told = "mailed"]
    BY <1>1, <1>4
  <2>2. /\ LogsGrow /\ DOMAIN logs' = DOMAIN logs
        /\ \A j \in DOMAIN logs : j # i => logs'[j] = logs[j]
        /\ i \in DOMAIN logs => logs'[i].counted = now
    BY <2>1, NotedRows
  <2>3. Failures' = Failures /\ \A j \in Failures : logs'[j].at = logs[j].at
    BY <2>2 DEF Failures, LogsGrow
  <2>4. ASSUME Throttle # 0, NEW h \in Failures, NEW j \in Failures, h < j,
               logs'[j].told = "mailed"
        PROVE  logs'[j].counted - logs'[h].at > Throttle
    <3>1. h # j /\ h \in DOMAIN logs /\ j \in DOMAIN logs
      <4>1. DOMAIN logs \subseteq Int
        BY LenProperties DEF SyncInv, Shape
      <4> QED
        BY <2>4, <4>1 DEF Failures
    <3>2. CASE j = i
      <4>1. ~(logs[h].at >= now - Throttle)
        BY <1>4, <2>4, <3>1, <3>2 DEF Throttled, RecentFailures
      <4> QED
        BY <1>2, <2>2, <2>3, <3>1, <3>2, <4>1
    <3>3. CASE j # i
      <4>1. logs[j].told = "mailed" /\ logs[j].counted - logs[h].at > Throttle
        BY <2>2, <2>4, <3>1, <3>3 DEF MailedAlone
      <4> QED
        BY <2>2, <2>3, <3>1, <3>3, <4>1
    <3> QED
      BY <3>2, <3>3
  <2> QED
    BY <2>3, <2>4 DEF MailedAlone
<1> QED
  BY <1>3, <1>4
LEMMA MailedStep == SyncInv /\ MailedAlone /\ [Next]_vars => MailedAlone'
<1> SUFFICES ASSUME SyncInv, MailedAlone, [Next]_vars PROVE MailedAlone'
  OBVIOUS
<1>1. ASSUME logs' = logs PROVE MailedAlone'
  BY <1>1 DEF MailedAlone, Failures
<1>2. CASE UNCHANGED vars \/ Tick
  BY <1>1, <1>2 DEF vars, Tick
<1>3. ASSUME NEW r \in Runs, RunStep(r) PROVE MailedAlone'
  <2>1. CASE FailSearch(r) \/ CommitImport(r)
    BY <2>1, LoggedKeepsDistance DEF FailSearch, CommitImport
  <2>2. CASE NotifyFailure(r)
    BY <2>2, NotifyKeepsDistance
  <2> QED
    BY <1>1, <1>3, <2>1, <2>2
    DEF RunStep, NextProcess, Retry, Found, CheckMovement, InsertMovement, BreakWaitCycle, Finish
<1>4. ASSUME NEW r \in Runs, FireJob(r) \/ RunScript(r) \/ Request(r) \/ LoseRun(r)
      PROVE  MailedAlone'
  BY <1>1, <1>4 DEF FireJob, RunScript, Request, StartBatch, StartOne, LoseRun
<1> QED
  BY <1>2, <1>3, <1>4 DEF Next
-----------------------------------------------------------------------------
(* SyncTypeOK                                                              *)

\* The bounds of the clock, the retries and the table, and why they hold: a
\* search that is still to be logged has a process, and a place in the table
\* was left for it when its run started.
ThreadBounds(t) ==
  /\ t.tx \in 0..MaxNow /\ t.attempt \in 0..MaxRetries
  /\ t.pc \in {"search", "import", "insert"} => t.cur \in Processes \ t.todo

LogBounds(l) == l.process \in Processes /\ l.at \in 0..MaxNow /\ l.counted \in 0..MaxNow

BoundsOK ==
  /\ now \in 0..MaxNow
  /\ unheard \in BOOLEAN
  /\ \A r \in Runs : ThreadBounds(run[r])
  /\ \A i \in DOMAIN logs : LogBounds(logs[i])
  /\ Expected <= MaxLogs

LEMMA OwedIsFinite == IsFiniteSet(Owed) /\ Cardinality(Owed) \in Nat
<1>1. IsFiniteSet(Runs \X Processes)
  BY SyncConstants, FS_Product
<1>2. Owed \subseteq Runs \X Processes
  BY DEF Owed
<1> QED
  BY <1>1, <1>2, FS_Subset, FS_CardinalityType

\* What a step of one run does to the searches that are still to be logged.
LEMMA OwedStep ==
  ASSUME Shape, NEW r \in Runs, NEW x, run' = [run EXCEPT ![r] = x]
  PROVE  /\ Cardinality(Owed) \in Nat /\ Cardinality(Owed') \in Nat
         /\ Unlogged(x) \subseteq Unlogged(run[r]) => Cardinality(Owed') <= Cardinality(Owed)
         /\ \A p \in Processes :
              p \in Unlogged(run[r]) /\ Unlogged(x) \subseteq Unlogged(run[r]) \ {p} =>
                Cardinality(Owed') + 1 <= Cardinality(Owed)
         /\ \A L \in SUBSET Processes :
              Unlogged(x) \subseteq L =>
                /\ Cardinality(L) \in Nat
                /\ Cardinality(Owed') <= Cardinality(Owed) + Cardinality(L)
<1>1. /\ IsFiniteSet(Owed) /\ Cardinality(Owed) \in Nat
      /\ IsFiniteSet(Owed') /\ Cardinality(Owed') \in Nat
  <2>1. IsFiniteSet(Runs \X Processes)
    BY SyncConstants, FS_Product
  <2>2. Owed \subseteq Runs \X Processes /\ Owed' \subseteq Runs \X Processes
    BY DEF Owed
  <2> QED
    BY <2>1, <2>2, FS_Subset, FS_CardinalityType
<1>2. run'[r] = x /\ \A s \in Runs \ {r} : run'[s] = run[s]
  BY DEF Shape
<1>3. ASSUME NEW c \in Owed', c[1] # r PROVE c \in Owed
  BY <1>2, <1>3 DEF Owed
<1>4. ASSUME NEW c \in Owed', c[1] = r
      PROVE  c = <<r, c[2]>> /\ c[2] \in Unlogged(x) /\ c[2] \in Processes
  BY <1>2, <1>4 DEF Owed
<1>5. ASSUME NEW p \in Processes, p \in Unlogged(run[r]) PROVE <<r, p>> \in Owed
  BY <1>5 DEF Owed
<1>6. ASSUME Unlogged(x) \subseteq Unlogged(run[r]) PROVE Owed' \subseteq Owed
  BY <1>3, <1>4, <1>5, <1>6
<1>7. ASSUME NEW p \in Processes, p \in Unlogged(run[r]),
             Unlogged(x) \subseteq Unlogged(run[r]) \ {p}
      PROVE  Cardinality(Owed') + 1 <= Cardinality(Owed)
  <2>1. <<r, p>> \in Owed
    BY <1>5, <1>7
  <2>2. /\ IsFiniteSet(Owed \ {<<r, p>>})
        /\ Cardinality(Owed \ {<<r, p>>}) = Cardinality(Owed) - 1
    BY <1>1, <2>1, FS_RemoveElement
  <2>3. Owed' \subseteq Owed \ {<<r, p>>}
    BY <1>3, <1>4, <1>6, <1>7
  <2>4. Cardinality(Owed') <= Cardinality(Owed \ {<<r, p>>})
    BY <2>2, <2>3, FS_Subset
  <2> QED
    BY <1>1, <2>2, <2>4
<1>8. ASSUME NEW L \in SUBSET Processes, Unlogged(x) \subseteq L
      PROVE  /\ Cardinality(L) \in Nat
             /\ Cardinality(Owed') <= Cardinality(Owed) + Cardinality(L)
  <2>1. IsFiniteSet(L) /\ Cardinality(L) \in Nat
    BY SyncConstants, FS_Subset, FS_CardinalityType
  <2>2. IsFiniteSet({r}) /\ Cardinality({r}) = 1
    BY FS_Singleton
  <2>3. IsFiniteSet({r} \X L) /\ Cardinality({r} \X L) = Cardinality(L)
    BY <2>1, <2>2, FS_Product
  <2>4. /\ IsFiniteSet(Owed \union ({r} \X L))
        /\ Cardinality(Owed \union ({r} \X L)) <= Cardinality(Owed) + Cardinality({r} \X L)
    <3>1. Cardinality(Owed \intersect ({r} \X L)) \in Nat
      BY <1>1, FS_Intersection, FS_CardinalityType
    <3>2. /\ IsFiniteSet(Owed \union ({r} \X L))
          /\ Cardinality(Owed \union ({r} \X L))
               = Cardinality(Owed) + Cardinality({r} \X L) - Cardinality(Owed \intersect ({r} \X L))
      BY <1>1, <2>3, FS_Union
    <3> QED
      BY <1>1, <2>1, <2>3, <3>1, <3>2
  <2>5. Owed' \subseteq Owed \union ({r} \X L)
    BY <1>3, <1>4, <1>8
  <2>6. Cardinality(Owed') <= Cardinality(Owed \union ({r} \X L))
    BY <2>4, <2>5, FS_Subset
  <2>7. Cardinality(Owed \union ({r} \X L)) \in Nat
    BY <2>4, FS_CardinalityType
  <2> QED
    BY <1>1, <2>1, <2>3, <2>4, <2>6, <2>7
<1> QED
  BY <1>1, <1>6, <1>7, <1>8, FS_Subset

\* A step of one run keeps the bounds when the run, the rows and the places
\* that are taken stay within them.
LEMMA OneRunBounds ==
  ASSUME SyncInv, BoundsOK, NEW r \in Runs, NEW x, run' = [run EXCEPT ![r] = x],
         now' = now, unheard' \in BOOLEAN, ThreadBounds(x),
         \A i \in DOMAIN logs' : LogBounds(logs'[i]),
         Len(logs') + Cardinality(Owed') <= MaxLogs
  PROVE  BoundsOK'
<1>1. \A s \in Runs : run'[s] = IF s = r THEN x ELSE run[s]
  BY DEF SyncInv, Shape
<1>2. \A s \in Runs : ThreadBounds(run[s])'
  BY <1>1 DEF BoundsOK, ThreadBounds
<1>3. \A i \in DOMAIN logs' : LogBounds(logs[i])'
  BY DEF LogBounds
<1> QED
  BY <1>2, <1>3 DEF BoundsOK, Expected

\* ... in particular when the table stays and the run owes no more than before.
LEMMA QuietRunBounds ==
  ASSUME SyncInv, BoundsOK, NEW r \in Runs, NEW x, run' = [run EXCEPT ![r] = x],
         now' = now, unheard' \in BOOLEAN, logs' = logs, ThreadBounds(x),
         Unlogged(x) \subseteq Unlogged(run[r])
  PROVE  BoundsOK'
<1>1. /\ Cardinality(Owed) \in Nat /\ Cardinality(Owed') \in Nat
      /\ Cardinality(Owed') <= Cardinality(Owed)
  BY OwedStep DEF SyncInv
<1>2. Len(logs) \in Nat /\ Len(logs) + Cardinality(Owed) <= MaxLogs /\ MaxLogs \in Nat
  BY LenProperties, SyncConstants DEF SyncInv, Shape, BoundsOK, Expected
<1>3. \A i \in DOMAIN logs' : LogBounds(logs'[i])
  BY DEF BoundsOK
<1>4. Len(logs') + Cardinality(Owed') <= MaxLogs
  BY <1>1, <1>2
<1> QED
  BY <1>3, <1>4, OneRunBounds

LEMMA IdleBounds ==
  ASSUME SyncInv, BoundsOK, NEW r \in Runs, run' = [run EXCEPT ![r] = Idle],
         now' = now, unheard' \in BOOLEAN, logs' = logs
  PROVE  BoundsOK'
<1>1. ThreadBounds(Idle) /\ Unlogged(Idle) = {}
  BY SyncConstants DEF ThreadBounds, Unlogged, Idle, Begun
<1> QED
  BY <1>1, QuietRunBounds

\* A run starts when there is a place for each search it lists.
LEMMA StartBounds ==
  ASSUME SyncInv, BoundsOK, NEW r \in Runs, NEW listed \in SUBSET Processes, NEW todo, NEW cur,
         NEW pc, run' = [run EXCEPT ![r] = Begun(pc, listed, todo, cur, now)],
         \/ pc = "next" /\ todo = listed /\ cur = NoProcess
         \/ pc = "search" /\ todo = {} /\ cur \in Processes /\ listed = {cur},
         logs' = logs, now' = now, unheard' = unheard,
         Expected + Cardinality(listed) <= MaxLogs
  PROVE  BoundsOK'
<1> DEFINE x == Begun(pc, listed, todo, cur, now)
<1>1. ThreadBounds(x) /\ Unlogged(x) \subseteq listed
  BY SyncConstants DEF BoundsOK, ThreadBounds, Unlogged, Begun
<1> HIDE DEF x
<1>2. run' = [run EXCEPT ![r] = x]
  BY DEF x
<1>3. /\ Cardinality(Owed) \in Nat /\ Cardinality(Owed') \in Nat /\ Cardinality(listed) \in Nat
      /\ Cardinality(Owed') <= Cardinality(Owed) + Cardinality(listed)
  BY <1>1, <1>2, OwedStep DEF SyncInv
<1>4. Len(logs) \in Nat /\ MaxLogs \in Nat
      /\ Len(logs) + Cardinality(Owed) + Cardinality(listed) <= MaxLogs
  BY LenProperties, SyncConstants DEF SyncInv, Shape, Expected
<1>5. \A i \in DOMAIN logs' : LogBounds(logs'[i])
  BY DEF BoundsOK
<1>6. unheard' \in BOOLEAN
  BY DEF BoundsOK
<1>7. Len(logs') + Cardinality(Owed') <= MaxLogs
  BY <1>3, <1>4
<1> QED
  BY <1>1, <1>2, <1>5, <1>6, <1>7, OneRunBounds

LEMMA StartBatchBounds ==
  ASSUME SyncInv, BoundsOK, NEW r \in Runs, NEW active \in SUBSET Processes, NEW alias,
         StartBatch(r, active, alias)
  PROVE  BoundsOK'
<1>1. ListActive(active, alias) \in SUBSET Processes
  BY DEF ListActive, Candidates
<1> QED
  BY <1>1, StartBounds DEF StartBatch

LEMMA StartOneBounds ==
  ASSUME SyncInv, BoundsOK, NEW r \in Runs, NEW p \in Processes, NEW alias, StartOne(r, p, alias)
  PROVE  BoundsOK'
<1>1. Cardinality({p}) = 1
  BY FS_Singleton
<1>2. Expected \in Int /\ MaxLogs \in Nat /\ Expected < MaxLogs
  BY OwedIsFinite, LenProperties, SyncConstants DEF SyncInv, Shape, Expected, StartOne
<1>3. Expected + Cardinality({p}) <= MaxLogs
  BY <1>1, <1>2
<1> QED
  BY <1>3, StartBounds DEF StartOne

LEMMA NextProcessBounds ==
  ASSUME SyncInv, BoundsOK, NEW r \in Runs, NextProcess(r) PROVE BoundsOK'
<1>1. PICK p \in run[r].todo :
        run' = [run EXCEPT ![r].pc = "search", ![r].cur = p, ![r].attempt = 0,
                           ![r].todo = @ \ {p}]
  BY DEF NextProcess
<1>2. PICK x : /\ x = [run[r] EXCEPT !.pc = "search", !.cur = p, !.attempt = 0, !.todo = @ \ {p}]
               /\ run' = [run EXCEPT ![r] = x]
  BY <1>1
<1>3. /\ run[r] \in ThreadShape /\ ThreadBounds(run[r])
      /\ logs' = logs /\ now' = now /\ unheard' \in BOOLEAN
  BY DEF NextProcess, SyncInv, Shape, BoundsOK
<1>4. /\ x.pc = "search" /\ x.cur = p /\ x.attempt = 0 /\ x.todo = run[r].todo \ {p}
      /\ x.tx = run[r].tx /\ p \in Processes
  BY <1>2, <1>3 DEF ThreadShape
<1>5. ThreadBounds(x) /\ Unlogged(x) \subseteq Unlogged(run[r])
  BY <1>3, <1>4, SyncConstants DEF ThreadBounds, Unlogged
<1> QED
  BY <1>2, <1>3, <1>5, QuietRunBounds

LEMMA RetryBounds == ASSUME SyncInv, BoundsOK, NEW r \in Runs, Retry(r) PROVE BoundsOK'
<1>1. /\ run[r] \in ThreadShape /\ ThreadBounds(run[r])
      /\ logs' = logs /\ now' = now /\ unheard' \in BOOLEAN
      /\ run[r].pc = "search" /\ run[r].attempt < MaxRetries
      /\ run' = [run EXCEPT ![r].attempt = @ + 1]
  BY DEF Retry, AttemptsLeft, SyncInv, Shape, BoundsOK
<1>2. PICK x : x = [run[r] EXCEPT !.attempt = @ + 1] /\ run' = [run EXCEPT ![r] = x]
  BY <1>1
<1>3. /\ x.pc = run[r].pc /\ x.cur = run[r].cur /\ x.attempt = run[r].attempt + 1
      /\ x.todo = run[r].todo /\ x.tx = run[r].tx
  BY <1>1, <1>2 DEF ThreadShape
<1>4. ThreadBounds(x) /\ Unlogged(x) \subseteq Unlogged(run[r])
  BY <1>1, <1>3, SyncConstants DEF ThreadBounds, Unlogged
<1> QED
  BY <1>1, <1>2, <1>4, QuietRunBounds

LEMMA FoundBounds ==
  ASSUME SyncInv, BoundsOK, NEW r \in Runs, NEW answer \in Answers, Found(r, answer)
  PROVE  BoundsOK'
<1>1. /\ run[r] \in ThreadShape /\ ThreadBounds(run[r])
      /\ logs' = logs /\ now' = now /\ unheard' \in BOOLEAN /\ run[r].pc = "search"
      /\ run' = [run EXCEPT ![r].pc = "import", ![r].attempt = 0,
                            ![r].answer = answer, ![r].left = answer]
  BY DEF Found, SyncInv, Shape, BoundsOK
<1>2. PICK x : /\ x = [run[r] EXCEPT !.pc = "import", !.attempt = 0, !.answer = answer, !.left = answer]
               /\ run' = [run EXCEPT ![r] = x]
  BY <1>1
<1>3. /\ x.pc = "import" /\ x.cur = run[r].cur /\ x.attempt = 0
      /\ x.todo = run[r].todo /\ x.tx = run[r].tx
  BY <1>1, <1>2 DEF ThreadShape
<1>4. ThreadBounds(x) /\ Unlogged(x) \subseteq Unlogged(run[r])
  BY <1>1, <1>3, SyncConstants DEF ThreadBounds, Unlogged
<1> QED
  BY <1>1, <1>2, <1>4, QuietRunBounds

LEMMA CheckMovementBounds ==
  ASSUME SyncInv, BoundsOK, NEW r \in Runs, NEW ext \in MovementIds, CheckMovement(r, ext)
  PROVE  BoundsOK'
<1>1. /\ run[r] \in ThreadShape /\ ThreadBounds(run[r]) /\ run[r].pc = "import"
      /\ logs' = logs /\ now' = now /\ unheard' \in BOOLEAN
  BY DEF CheckMovement, SyncInv, Shape, BoundsOK
<1>2. PICK x : /\ \/ x = [run[r] EXCEPT !.left = @ \ {ext}]
                  \/ x = [run[r] EXCEPT !.pc = "insert", !.left = @ \ {ext}, !.ext = {ext}]
               /\ run' = [run EXCEPT ![r] = x]
  BY Zenon DEF CheckMovement
<1>3. /\ x.pc \in {"import", "insert"} /\ x.cur = run[r].cur /\ x.attempt = run[r].attempt
      /\ x.todo = run[r].todo /\ x.tx = run[r].tx
  BY <1>1, <1>2 DEF ThreadShape
<1>4. ThreadBounds(x) /\ Unlogged(x) \subseteq Unlogged(run[r])
  BY <1>1, <1>3 DEF ThreadBounds, Unlogged
<1> QED
  BY <1>1, <1>2, <1>4, QuietRunBounds

LEMMA InsertMovementBounds ==
  ASSUME SyncInv, BoundsOK, NEW r \in Runs, InsertMovement(r) PROVE BoundsOK'
<1>1. /\ run[r] \in ThreadShape /\ ThreadBounds(run[r]) /\ run[r].pc = "insert"
      /\ logs' = logs /\ now' = now /\ unheard' \in BOOLEAN
  BY DEF InsertMovement, SyncInv, Shape, BoundsOK
<1>2. CASE \E e \in run[r].ext : Exists(run[r].cur, e)
  BY <1>1, <1>2, IdleBounds DEF InsertMovement, Abort
<1>3. CASE ~\E e \in run[r].ext : Exists(run[r].cur, e)
  <2>1. PICK x : /\ x = [run[r] EXCEPT !.pc = "import", !.ext = {},
                                       !.pending = @ \union run[r].ext]
                 /\ run' = [run EXCEPT ![r] = x]
    BY <1>3 DEF InsertMovement
  <2>2. /\ x.pc = "import" /\ x.cur = run[r].cur /\ x.attempt = run[r].attempt
        /\ x.todo = run[r].todo /\ x.tx = run[r].tx
    BY <1>1, <2>1 DEF ThreadShape
  <2>3. ThreadBounds(x) /\ Unlogged(x) \subseteq Unlogged(run[r])
    BY <1>1, <2>2 DEF ThreadBounds, Unlogged
  <2> QED
    BY <1>1, <2>1, <2>3, QuietRunBounds
<1> QED
  BY <1>2, <1>3

\* A log takes the place that was left for it.
LEMMA LoggedBounds ==
  ASSUME SyncInv, BoundsOK, NEW r \in Runs, NEW ok \in BOOLEAN, logs' = Logged(r, ok),
         run[r].pc \in {"search", "import"}, NEW x, run' = [run EXCEPT ![r] = x],
         now' = now, unheard' = unheard, ThreadBounds(x),
         Unlogged(x) \subseteq run[r].todo
  PROVE  BoundsOK'
<1>1. /\ ThreadBounds(run[r]) /\ unheard' \in BOOLEAN
      /\ run[r].cur \in Processes \ run[r].todo /\ run[r].tx \in 0..MaxNow
  BY DEF BoundsOK, ThreadBounds
<1>2. /\ run[r].cur \in Processes /\ run[r].cur \in Unlogged(run[r])
      /\ Unlogged(x) \subseteq Unlogged(run[r]) \ {run[r].cur}
  BY <1>1 DEF Unlogged
<1>3. /\ Cardinality(Owed) \in Nat /\ Cardinality(Owed') \in Nat
      /\ Cardinality(Owed') + 1 <= Cardinality(Owed)
  BY <1>1, <1>2, OwedStep DEF SyncInv
<1>4. /\ Len(logs') = Len(logs) + 1 /\ DOMAIN logs' = DOMAIN logs \union {Len(logs')}
      /\ \A i \in DOMAIN logs : logs'[i] = logs[i]
      /\ logs'[Len(logs')].process = run[r].cur
      /\ logs'[Len(logs')].at = run[r].tx /\ logs'[Len(logs')].counted = 0
  BY LoggedRows
<1>5. ASSUME NEW i \in DOMAIN logs' PROVE LogBounds(logs'[i])
  <2>1. CASE i \in DOMAIN logs
    BY <1>4, <2>1 DEF BoundsOK
  <2>2. CASE i = Len(logs')
    BY <1>1, <1>4, <2>2, SyncConstants DEF LogBounds
  <2> QED
    BY <1>4, <2>1, <2>2
<1>6. /\ Len(logs) \in Nat /\ MaxLogs \in Nat
      /\ Len(logs) + Cardinality(Owed) <= MaxLogs
  BY LenProperties, SyncConstants DEF SyncInv, Shape, BoundsOK, Expected
<1>7. Len(logs') + Cardinality(Owed') <= MaxLogs
  BY <1>3, <1>4, <1>6
<1> QED
  BY <1>1, <1>5, <1>7, OneRunBounds

LEMMA FailSearchBounds == ASSUME SyncInv, BoundsOK, NEW r \in Runs, FailSearch(r) PROVE BoundsOK'
<1>1. /\ run[r] \in ThreadShape /\ ThreadBounds(run[r]) /\ run[r].pc = "search"
      /\ logs' = Logged(r, FALSE) /\ now' = now /\ unheard' = unheard
      /\ run' = [run EXCEPT ![r].pc = "notify", ![r].attempt = 0,
                            ![r].made = @ \union {Len(logs')}]
  BY DEF FailSearch, SyncInv, Shape, BoundsOK
<1>2. PICK n : n = Len(logs')
  OBVIOUS
<1>3. PICK x : /\ x = [run[r] EXCEPT !.pc = "notify", !.attempt = 0, !.made = @ \union {n}]
               /\ run' = [run EXCEPT ![r] = x]
  BY <1>1, <1>2
<1>4. x.pc = "notify" /\ x.attempt = 0 /\ x.todo = run[r].todo /\ x.tx = run[r].tx
  BY <1>1, <1>3 DEF ThreadShape
<1>5. ThreadBounds(x) /\ Unlogged(x) \subseteq run[r].todo
  BY <1>1, <1>4, SyncConstants DEF ThreadBounds, Unlogged
<1> QED
  BY <1>1, <1>3, <1>5, LoggedBounds

LEMMA CommitImportBounds ==
  ASSUME SyncInv, BoundsOK, NEW r \in Runs, CommitImport(r) PROVE BoundsOK'
<1>1. /\ run[r] \in ThreadShape /\ ThreadBounds(run[r]) /\ run[r].pc = "import"
      /\ logs' = Logged(r, TRUE) /\ now' = now /\ unheard' = unheard
      /\ run' = [run EXCEPT ![r].pc = "next", ![r].cur = NoProcess, ![r].answer = {},
                        ![r].pending = {}, ![r].made = @ \union {Len(logs')},
                        ![r].tx = now]
  BY DEF CommitImport, SyncInv, Shape, BoundsOK
<1>2. PICK n : n = Len(logs')
  OBVIOUS
<1>3. PICK x : /\ x = [run[r] EXCEPT !.pc = "next", !.cur = NoProcess, !.answer = {},
                          !.pending = {}, !.made = @ \union {n}, !.tx = now]
               /\ run' = [run EXCEPT ![r] = x]
  BY <1>1, <1>2
<1>4. /\ x.pc = "next" /\ x.attempt = run[r].attempt /\ x.todo = run[r].todo
      /\ x.tx = now /\ now \in 0..MaxNow
  BY <1>1, <1>3 DEF ThreadShape, BoundsOK
<1>5. ThreadBounds(x) /\ Unlogged(x) \subseteq run[r].todo
  BY <1>1, <1>4 DEF ThreadBounds, Unlogged
<1> QED
  BY <1>1, <1>3, <1>5, LoggedBounds

LEMMA NotifyFailureBounds ==
  ASSUME SyncInv, BoundsOK, NEW r \in Runs, NotifyFailure(r) PROVE BoundsOK'
<1>1. /\ run[r] \in ThreadShape /\ ThreadBounds(run[r]) /\ run[r].pc = "notify"
      /\ now' = now /\ unheard' \in BOOLEAN /\ now \in 0..MaxNow
      /\ run' = [run EXCEPT ![r].pc = "next", ![r].cur = NoProcess, ![r].tx = now]
  BY DEF NotifyFailure, SyncInv, Shape, BoundsOK
<1>2. PICK i, told : /\ told \in {"throttled", "mailed"}
                     /\ logs' = [logs EXCEPT ![i].counted = now, ![i].told = told]
  <2>1. PICK i : logs' = [logs EXCEPT ![i].counted = now,
                            ![i].told = IF Throttled(i) THEN "throttled" ELSE "mailed"]
    BY Zenon DEF NotifyFailure
  <2>2. (IF Throttled(i) THEN "throttled" ELSE "mailed") \in {"throttled", "mailed"}
    OBVIOUS
  <2> QED
    BY <2>1, <2>2
<1>3. /\ LogsGrow /\ DOMAIN logs' = DOMAIN logs
      /\ \A j \in DOMAIN logs : j # i => logs'[j] = logs[j]
      /\ i \in DOMAIN logs => logs'[i].counted = now
  BY <1>2, NotedRows
<1>4. ASSUME NEW j \in DOMAIN logs' PROVE LogBounds(logs'[j])
  <2>1. LogBounds(logs[j]) /\ logs'[j].process = logs[j].process /\ logs'[j].at = logs[j].at
    BY <1>3 DEF BoundsOK, LogsGrow
  <2> QED
    BY <1>1, <1>3, <2>1 DEF LogBounds
<1>5. PICK x : /\ x = [run[r] EXCEPT !.pc = "next", !.cur = NoProcess, !.tx = now]
               /\ run' = [run EXCEPT ![r] = x]
  BY <1>1
<1>6. x.pc = "next" /\ x.attempt = run[r].attempt /\ x.todo = run[r].todo /\ x.tx = now
  BY <1>1, <1>5 DEF ThreadShape
<1>7. ThreadBounds(x) /\ Unlogged(x) \subseteq Unlogged(run[r])
  BY <1>1, <1>6 DEF ThreadBounds, Unlogged
<1>8. /\ Cardinality(Owed) \in Nat /\ Cardinality(Owed') \in Nat
      /\ Cardinality(Owed') <= Cardinality(Owed)
  BY <1>5, <1>7, OwedStep DEF SyncInv
<1>9. Len(logs') = Len(logs) /\ Len(logs) \in Nat
  BY <1>3, LenProperties DEF SyncInv, Shape, LogsGrow
<1>10. Len(logs') + Cardinality(Owed') <= MaxLogs
  BY <1>8, <1>9, SyncConstants DEF BoundsOK, Expected
<1> QED
  BY <1>1, <1>4, <1>5, <1>7, <1>10, OneRunBounds

LEMMA BoundsInit == Init => BoundsOK
<1> SUFFICES ASSUME Init PROVE BoundsOK
  OBVIOUS
<1>1. \A r \in Runs : ThreadBounds(run[r]) /\ Unlogged(run[r]) = {}
  BY SyncConstants DEF Init, ThreadBounds, Unlogged, Idle, Begun
<1>2. Owed = {}
  <2>1. ASSUME NEW c \in Runs \X Processes PROVE c[2] \notin Unlogged(run[c[1]])
    BY <1>1
  <2> QED
    BY <2>1 DEF Owed
<1>3. Len(logs) = 0 /\ DOMAIN logs = {}
  BY DEF Init
<1>4. Expected = 0
  BY <1>2, <1>3, FS_EmptySet DEF Expected
<1>5. 0 \in 0..MaxNow /\ 0 <= MaxLogs
  BY SyncConstants
<1>6. now = 0 /\ unheard = FALSE
  BY DEF Init
<1> QED
  BY <1>1, <1>3, <1>4, <1>5, <1>6 DEF BoundsOK

LEMMA BoundsStep == SyncInv /\ BoundsOK /\ [Next]_vars => BoundsOK'
<1> SUFFICES ASSUME SyncInv, BoundsOK, [Next]_vars PROVE BoundsOK'
  OBVIOUS
<1>1. ASSUME UNCHANGED <<logs, run, unheard>>, now' \in 0..MaxNow PROVE BoundsOK'
  BY <1>1 DEF BoundsOK, ThreadBounds, LogBounds, Expected, Owed, Unlogged
<1>2. CASE UNCHANGED vars
  BY <1>1, <1>2 DEF vars, BoundsOK
<1>3. CASE Tick
  BY <1>1, <1>3, SyncConstants DEF Tick, BoundsOK
<1>4. ASSUME NEW r \in Runs, RunStep(r) PROVE BoundsOK'
  <2>1. CASE BreakWaitCycle(r) \/ Finish(r)
    BY <2>1, IdleBounds DEF BreakWaitCycle, Finish, Abort, BoundsOK
  <2> QED
    BY <1>4, <2>1, NextProcessBounds, RetryBounds, FailSearchBounds, NotifyFailureBounds,
       FoundBounds, CheckMovementBounds, InsertMovementBounds, CommitImportBounds DEF RunStep
<1>5. ASSUME NEW r \in Runs, LoseRun(r) PROVE BoundsOK'
  BY <1>5, IdleBounds DEF LoseRun, Abort, BoundsOK
<1>6. ASSUME NEW r \in Runs, FireJob(r) \/ RunScript(r) \/ Request(r) PROVE BoundsOK'
  BY <1>6, StartBatchBounds, StartOneBounds DEF FireJob, RunScript, Request
<1> QED
  BY <1>2, <1>3, <1>4, <1>5, <1>6 DEF Next

LEMMA ShapesAndBounds == SyncInv /\ BoundsOK => SyncTypeOK
<1> SUFFICES ASSUME SyncInv, BoundsOK PROVE SyncTypeOK
  OBVIOUS
<1>1. /\ logs \in Seq(LogShape) /\ DOMAIN logs = 1..Len(logs) /\ Len(logs) \in Nat
      /\ Len(logs) <= MaxLogs
  <2>1. logs \in Seq(LogShape) /\ DOMAIN logs = 1..Len(logs) /\ Len(logs) \in Nat
    BY LenProperties DEF SyncInv, Shape
  <2> QED
    BY <2>1, OwedIsFinite, SyncConstants DEF BoundsOK, Expected
<1>2. ASSUME NEW i \in DOMAIN logs PROVE logs[i] \in LogRow
  <2>1. logs[i] \in LogShape
    BY <1>1, ElementOfSeq
  <2> QED
    BY <2>1 DEF BoundsOK, LogBounds, LogShape, LogRow
<1>3. logs \in Seq(LogRow)
  <2>1. logs \in [1..Len(logs) -> LogShape]
    BY <1>1, LenProperties
  <2>2. logs \in [1..Len(logs) -> LogRow]
    BY <1>1, <1>2, <2>1
  <2> QED
    BY <1>1, <2>2, SeqDef
<1>4. ASSUME NEW m \in movements PROVE m \in MovementRow
  <2>1. m \in [process : Processes \union {NoProcess}, ext : MovementIds, log : Int]
    BY DEF SyncInv, Shape
  <2>2. m.log \in DOMAIN logs /\ logs[m.log].process = m.process
    BY DEF SyncInv, ImportsMatchTheirLogs
  <2>3. m.process \in Processes
    BY <2>2 DEF BoundsOK, LogBounds
  <2>4. m.log \in 1..MaxLogs
    BY <1>1, <2>2, SyncConstants
  <2> QED
    BY <2>1, <2>3, <2>4 DEF MovementRow
<1>5. ASSUME NEW r \in Runs PROVE run[r] \in Thread
  <2>1. run[r] \in ThreadShape /\ ThreadBounds(run[r]) /\ run[r].made \subseteq DOMAIN logs
    BY DEF SyncInv, Shape, BoundsOK, RunsOK, MadeOK
  <2>2. run[r].made \subseteq 1..MaxLogs
    BY <1>1, <2>1, SyncConstants
  <2> QED
    BY <2>1, <2>2 DEF ThreadShape, ThreadBounds, Thread
<1>6. run \in [Runs -> Thread]
  BY <1>5 DEF SyncInv, Shape
<1> QED
  BY <1>1, <1>3, <1>4, <1>6 DEF SyncTypeOK, BoundsOK

\* Every run keeps to its retries, and every row to its table, for any number
\* of runs; in particular a search never takes more requests than
\* DATAJUD_MAX_RETRIES + 1 (datajud_service.py:93).
THEOREM TypeCorrect == Spec => []SyncTypeOK
BY SyncInit, SyncStep, BoundsInit, BoundsStep, ShapesAndBounds, PTL DEF Spec
-----------------------------------------------------------------------------
(* OutagesAreAnnounced                                                     *)

\* The failure a run is about to notify of is the last search it logged, and
\* nobody has noted anything in it: no other run made that row.
NotifierInv ==
  /\ \A r \in Runs : run[r].pc = "notify" =>
       \E i \in run[r].made :
         /\ \A m \in run[r].made : m <= i
         /\ i \in Failures /\ logs[i].told = "waiting"
  /\ \A r, s \in Runs : r # s => run[r].made \intersect run[s].made = {}

LEMMA QuietNotifier ==
  ASSUME SyncInv, NotifierInv, NEW r \in Runs, NEW x, run' = [run EXCEPT ![r] = x],
         logs' = logs, x.pc # "notify", x.made \subseteq run[r].made
  PROVE  NotifierInv'
<1>1. \A s \in Runs : run'[s] = IF s = r THEN x ELSE run[s]
  BY DEF SyncInv, Shape
<1>2. Failures' = Failures
  BY DEF Failures
<1> QED
  BY <1>1, <1>2 DEF NotifierInv

LEMMA IdleNotifier ==
  ASSUME SyncInv, NotifierInv, NEW r \in Runs, NEW x, run' = [run EXCEPT ![r] = x],
         logs' = logs, x.pc # "notify", x.made = {}
  PROVE  NotifierInv'
BY QuietNotifier

LEMMA LoggedNotifier ==
  ASSUME SyncInv, NotifierInv, NEW r \in Runs, NEW ok \in BOOLEAN, logs' = Logged(r, ok),
         NEW x, run' = [run EXCEPT ![r] = x],
         x.made = run[r].made \union {Len(logs')}, x.pc = "notify" => ~ok
  PROVE  NotifierInv'
<1>1. /\ Len(logs') = Len(logs) + 1 /\ DOMAIN logs' = DOMAIN logs \union {Len(logs')}
      /\ Len(logs') \notin DOMAIN logs
      /\ \A i \in DOMAIN logs : logs'[i] = logs[i]
      /\ logs'[Len(logs')].ok = ok /\ logs'[Len(logs')].told = "waiting"
  BY LoggedRows
<1>2. DOMAIN logs = 1..Len(logs) /\ Len(logs) \in Nat
  BY LenProperties DEF SyncInv, Shape
<1>3. \A s \in Runs : run'[s] = IF s = r THEN x ELSE run[s]
  BY DEF SyncInv, Shape
<1>4. \A s \in Runs : run[s].made \subseteq DOMAIN logs
  BY DEF SyncInv, RunsOK, MadeOK
<1>5. ASSUME NEW s \in Runs, run'[s].pc = "notify"
      PROVE  \E i \in run'[s].made :
               /\ \A m \in run'[s].made : m <= i
               /\ i \in Failures' /\ logs'[i].told = "waiting"
  <2>1. CASE s = r
    <3>1. Len(logs') \in run'[s].made /\ Len(logs') \in Failures'
      BY <1>1, <1>3, <1>5, <2>1 DEF Failures
    <3>2. \A m \in run'[s].made : m <= Len(logs')
      BY <1>1, <1>2, <1>3, <1>4, <2>1
    <3> QED
      BY <1>1, <3>1, <3>2
  <2>2. CASE s # r
    <3>1. run'[s] = run[s]
      BY <1>3, <2>2
    <3>2. PICK i \in run[s].made : /\ \A m \in run[s].made : m <= i
                                   /\ i \in Failures /\ logs[i].told = "waiting"
      BY <1>5, <3>1 DEF NotifierInv
    <3> QED
      BY <1>1, <3>1, <3>2 DEF Failures
  <2> QED
    BY <2>1, <2>2
<1>6. ASSUME NEW s \in Runs, NEW t \in Runs, s # t
      PROVE  run'[s].made \intersect run'[t].made = {}
  BY <1>1, <1>3, <1>4, <1>6 DEF NotifierInv
<1> QED
  BY <1>5, <1>6 DEF NotifierInv

\* The row the notifier writes in is the one of NotifierInv.
LEMMA NotifiedRow ==
  ASSUME SyncInv, NotifierInv, NEW r \in Runs, run[r].pc = "notify"
  PROVE  /\ Max(run[r].made) \in run[r].made
         /\ Max(run[r].made) \in Failures /\ logs[Max(run[r].made)].told = "waiting"
<1>1. PICK i \in run[r].made : /\ \A m \in run[r].made : m <= i
                               /\ i \in Failures /\ logs[i].told = "waiting"
  BY DEF NotifierInv
<1>2. run[r].made \subseteq Nat
  BY DEF SyncInv, Shape, ThreadShape
<1>3. Max(run[r].made) = i
  <2>1. \A j \in run[r].made : (\A m \in run[r].made : m <= j) => j = i
    BY <1>1, <1>2
  <2> QED
    BY <1>1, <1>2, <2>1 DEF Max
<1> QED
  BY <1>1, <1>3

LEMMA NotifyNotifier ==
  ASSUME SyncInv, NotifierInv, NEW r \in Runs, NotifyFailure(r) PROVE NotifierInv'
<1>1. /\ run[r] \in ThreadShape /\ run[r].pc = "notify"
      /\ run' = [run EXCEPT ![r].pc = "next", ![r].cur = NoProcess, ![r].tx = now]
  BY DEF NotifyFailure, SyncInv, Shape
<1>2. PICK n : n = Max(run[r].made)
  OBVIOUS
<1>3. n \in run[r].made
  BY <1>1, <1>2, NotifiedRow
<1>4. PICK told : /\ told \in {"throttled", "mailed"}
                  /\ logs' = [logs EXCEPT ![n].counted = now, ![n].told = told]
  <2>1. logs' = [logs EXCEPT ![n].counted = now,
                   ![n].told = IF Throttled(n) THEN "throttled" ELSE "mailed"]
    BY <1>2, Zenon DEF NotifyFailure
  <2>2. (IF Throttled(n) THEN "throttled" ELSE "mailed") \in {"throttled", "mailed"}
    OBVIOUS
  <2> QED
    BY <2>1, <2>2
<1>5. /\ LogsGrow /\ DOMAIN logs' = DOMAIN logs
      /\ \A j \in DOMAIN logs : j # n => logs'[j] = logs[j]
  BY <1>4, NotedRows
<1>6. PICK x : /\ x = [run[r] EXCEPT !.pc = "next", !.cur = NoProcess, !.tx = now]
               /\ run' = [run EXCEPT ![r] = x]
  BY <1>1
<1>7. x.pc = "next" /\ x.made = run[r].made
  BY <1>1, <1>6 DEF ThreadShape
<1>8. \A s \in Runs : run'[s] = IF s = r THEN x ELSE run[s]
  BY <1>6 DEF SyncInv, Shape
<1>9. ASSUME NEW s \in Runs, run'[s].pc = "notify"
      PROVE  \E i \in run'[s].made :
               /\ \A m \in run'[s].made : m <= i
               /\ i \in Failures' /\ logs'[i].told = "waiting"
  <2>1. s # r /\ run'[s] = run[s]
    BY <1>7, <1>8, <1>9
  <2>2. PICK i \in run[s].made : /\ \A m \in run[s].made : m <= i
                                 /\ i \in Failures /\ logs[i].told = "waiting"
    BY <1>9, <2>1 DEF NotifierInv
  <2>3. i # n
    BY <1>3, <2>1 DEF NotifierInv
  <2> QED
    BY <1>5, <2>1, <2>2, <2>3 DEF Failures
<1>10. \A s, t \in Runs : s # t => run'[s].made \intersect run'[t].made = {}
  BY <1>7, <1>8 DEF NotifierInv
<1> QED
  BY <1>9, <1>10 DEF NotifierInv

LEMMA NotifierStep == SyncInv /\ NotifierInv /\ [Next]_vars => NotifierInv'
<1> SUFFICES ASSUME SyncInv, NotifierInv, [Next]_vars PROVE NotifierInv'
  OBVIOUS
<1>1. ASSUME UNCHANGED <<logs, run>> PROVE NotifierInv'
  BY <1>1 DEF NotifierInv, Failures
<1>2. CASE UNCHANGED vars \/ Tick
  BY <1>1, <1>2 DEF vars, Tick
<1>3. Idle.pc # "notify" /\ Idle.made = {}
  BY DEF Idle, Begun
<1>4. ASSUME NEW r \in Runs, RunStep(r) PROVE NotifierInv'
  <2>0. run[r] \in ThreadShape
    BY DEF SyncInv, Shape
  <2>1. CASE BreakWaitCycle(r) \/ Finish(r)
    BY <1>3, <2>1, IdleNotifier DEF BreakWaitCycle, Finish, Abort
  <2>2. CASE NextProcess(r)
    <3>1. PICK p : /\ logs' = logs
                   /\ run' = [run EXCEPT ![r].pc = "search", ![r].cur = p, ![r].attempt = 0,
                                         ![r].todo = @ \ {p}]
      BY <2>2 DEF NextProcess
    <3>2. PICK x : /\ x = [run[r] EXCEPT !.pc = "search", !.cur = p, !.attempt = 0,
                                         !.todo = @ \ {p}]
                   /\ run' = [run EXCEPT ![r] = x]
      BY <3>1
    <3>3. x.pc = "search" /\ x.made = run[r].made
      BY <2>0, <3>2 DEF ThreadShape
    <3> QED
      BY <3>1, <3>2, <3>3, QuietNotifier
  <2>3. CASE Retry(r)
    <3>1. PICK x : x = [run[r] EXCEPT !.attempt = @ + 1] /\ run' = [run EXCEPT ![r] = x]
      BY <2>3 DEF Retry
    <3>2. x.pc = "search" /\ x.made = run[r].made /\ logs' = logs
      BY <2>0, <2>3, <3>1 DEF ThreadShape, Retry
    <3> QED
      BY <3>1, <3>2, QuietNotifier
  <2>4. CASE FailSearch(r)
    <3>1. PICK n : n = Len(logs')
      OBVIOUS
    <3>2. PICK x : /\ x = [run[r] EXCEPT !.pc = "notify", !.attempt = 0, !.made = @ \union {n}]
                   /\ run' = [run EXCEPT ![r] = x]
      BY <2>4, <3>1 DEF FailSearch
    <3>3. x.made = run[r].made \union {n} /\ logs' = Logged(r, FALSE)
      BY <2>0, <2>4, <3>2 DEF ThreadShape, FailSearch
    <3> QED
      BY <3>1, <3>2, <3>3, LoggedNotifier
  <2>5. CASE CommitImport(r)
    <3>1. PICK n : n = Len(logs')
      OBVIOUS
    <3>2. PICK x : /\ x = [run[r] EXCEPT !.pc = "next", !.cur = NoProcess, !.answer = {},
                              !.pending = {}, !.made = @ \union {n}, !.tx = now]
                   /\ run' = [run EXCEPT ![r] = x]
      BY <2>5, <3>1 DEF CommitImport
    <3>3. /\ x.pc = "next" /\ x.made = run[r].made \union {n} /\ logs' = Logged(r, TRUE)
      BY <2>0, <2>5, <3>2 DEF ThreadShape, CommitImport
    <3> QED
      BY <3>1, <3>2, <3>3, LoggedNotifier
  <2>6. CASE NotifyFailure(r)
    BY <2>6, NotifyNotifier
  <2>7. ASSUME NEW answer \in Answers, Found(r, answer) PROVE NotifierInv'
    <3>1. PICK x : /\ x = [run[r] EXCEPT !.pc = "import", !.attempt = 0,
                                         !.answer = answer, !.left = answer]
                   /\ run' = [run EXCEPT ![r] = x]
      BY <2>7 DEF Found
    <3>2. x.pc = "import" /\ x.made = run[r].made /\ logs' = logs
      BY <2>0, <2>7, <3>1 DEF ThreadShape, Found
    <3> QED
      BY <3>1, <3>2, QuietNotifier
  <2>8. ASSUME NEW ext \in MovementIds, CheckMovement(r, ext) PROVE NotifierInv'
    <3>1. PICK x : /\ \/ x = [run[r] EXCEPT !.left = @ \ {ext}]
                      \/ x = [run[r] EXCEPT !.pc = "insert", !.left = @ \ {ext}, !.ext = {ext}]
                   /\ run' = [run EXCEPT ![r] = x]
      BY <2>8, Zenon DEF CheckMovement
    <3>2. run[r].pc = "import" /\ logs' = logs
      BY <2>8 DEF CheckMovement
    <3>3. x.pc # "notify" /\ x.made = run[r].made
      BY <2>0, <3>1, <3>2 DEF ThreadShape
    <3> QED
      BY <3>1, <3>2, <3>3, QuietNotifier
  <2>9. CASE InsertMovement(r)
    <3>1. CASE \E e \in run[r].ext : Exists(run[r].cur, e)
      BY <1>3, <2>9, <3>1, IdleNotifier DEF InsertMovement, Abort
    <3>2. CASE ~\E e \in run[r].ext : Exists(run[r].cur, e)
      <4>1. PICK x : /\ x = [run[r] EXCEPT !.pc = "import", !.ext = {},
                                           !.pending = @ \union run[r].ext]
                     /\ run' = [run EXCEPT ![r] = x]
        BY <2>9, <3>2 DEF InsertMovement
      <4>2. x.pc = "import" /\ x.made = run[r].made /\ logs' = logs
        BY <2>0, <2>9, <4>1 DEF ThreadShape, InsertMovement
      <4> QED
        BY <4>1, <4>2, QuietNotifier
    <3> QED
      BY <3>1, <3>2
  <2> QED
    BY <1>4, <2>1, <2>2, <2>3, <2>4, <2>5, <2>6, <2>7, <2>8, <2>9 DEF RunStep
<1>5. ASSUME NEW r \in Runs, LoseRun(r) PROVE NotifierInv'
  BY <1>3, <1>5, IdleNotifier DEF LoseRun, Abort
<1>6. ASSUME NEW r \in Runs, FireJob(r) \/ RunScript(r) \/ Request(r) PROVE NotifierInv'
  <2>1. PICK pc, listed, todo, cur :
          /\ run' = [run EXCEPT ![r] = Begun(pc, listed, todo, cur, now)]
          /\ logs' = logs /\ pc # "notify"
    <3>1. CASE FireJob(r) \/ RunScript(r)
      <4>1. PICK listed : /\ run' = [run EXCEPT ![r] = Begun("next", listed, listed, NoProcess, now)]
                          /\ logs' = logs
        BY <3>1 DEF FireJob, RunScript, StartBatch
      <4> QED
        BY <4>1
    <3>2. CASE Request(r)
      <4>1. PICK p : run' = [run EXCEPT ![r] = Begun("search", {p}, {}, p, now)] /\ logs' = logs
        BY <3>2 DEF Request, StartOne
      <4> QED
        BY <4>1
    <3> QED
      BY <1>6, <3>1, <3>2
  <2>2. /\ Begun(pc, listed, todo, cur, now).pc # "notify"
        /\ Begun(pc, listed, todo, cur, now).made = {}
    BY <2>1 DEF Begun
  <2> QED
    BY <2>1, <2>2, IdleNotifier
<1> QED
  BY <1>2, <1>4, <1>5, <1>6 DEF Next

Decided(i) == i \in Failures /\ logs[i].told # "waiting"

\* As long as every failure is counted before the next one is committed, they
\* are counted in the order of their rows; and what silences a failure is an
\* earlier one in the window that ended when it was counted.
Counted ==
  /\ \A i, j \in Failures : i < j /\ Decided(j) => Decided(i) /\ logs[i].counted <= logs[j].counted
  /\ \A i \in Failures : logs[i].told = "throttled" =>
       /\ Throttle # 0
       /\ \E h \in Failures : h < i /\ logs[i].counted - logs[h].at <= Throttle

OutageInv ==
  /\ \A i \in Failures : logs[i].counted <= now
  /\ ~unheard => Counted

\* A row at the end of the table was neither counted nor mailed.
LEMMA LoggedCounts ==
  ASSUME SyncInv, BoundsOK, OutageInv, NEW r \in Runs, NEW ok \in BOOLEAN,
         logs' = Logged(r, ok), now' = now, unheard' = unheard
  PROVE  OutageInv'
<1>1. PICK n : /\ DOMAIN logs' = DOMAIN logs \union {n}
               /\ n \in Nat /\ n = Len(logs) + 1
               /\ \A i \in DOMAIN logs : logs'[i] = logs[i]
               /\ logs'[n].told = "waiting" /\ logs'[n].counted = 0
  BY LoggedRows
<1>2. /\ DOMAIN logs = 1..Len(logs) /\ Len(logs) \in Nat /\ now \in Nat
  BY LenProperties DEF SyncInv, Shape, BoundsOK
<1>3. Failures \subseteq Failures' /\ Failures' \subseteq Failures \union {n}
      /\ \A i \in Failures : i < n /\ i \in Int /\ logs'[i] = logs[i]
  BY <1>1, <1>2 DEF Failures
<1>4. \A i \in Failures' : logs'[i].counted <= now'
  BY <1>1, <1>2, <1>3 DEF OutageInv
<1>5. ASSUME Counted PROVE Counted'
  <2>1. ASSUME NEW i \in Failures', NEW j \in Failures', i < j, Decided(j)'
        PROVE  Decided(i)' /\ logs'[i].counted <= logs'[j].counted
    <3>1. j \in Failures /\ Decided(j)
      BY <1>1, <1>3, <2>1 DEF Decided
    <3>2. i \in Failures
      BY <1>1, <1>2, <1>3, <2>1, <3>1
    <3> QED
      BY <1>3, <1>5, <2>1, <3>1, <3>2 DEF Counted, Decided
  <2>2. ASSUME NEW i \in Failures', logs'[i].told = "throttled"
        PROVE  /\ Throttle # 0
               /\ \E h \in Failures' : h < i /\ logs'[i].counted - logs'[h].at <= Throttle
    <3>1. i \in Failures
      BY <1>1, <1>3, <2>2
    <3> QED
      BY <1>3, <1>5, <2>2, <3>1 DEF Counted
  <2> QED
    BY <2>1, <2>2 DEF Counted
<1> QED
  BY <1>4, <1>5 DEF OutageInv

LEMMA NotifyCounts ==
  ASSUME SyncInv, BoundsOK, NotifierInv, OutageInv, NEW r \in Runs, NotifyFailure(r)
  PROVE  OutageInv'
<1>1. PICK n : n = Max(run[r].made)
  OBVIOUS
<1>2. /\ n \in Failures /\ logs[n].told = "waiting" /\ n \in DOMAIN logs
  BY <1>1, NotifiedRow DEF NotifyFailure, Failures
<1>3. PICK told : /\ told = IF Throttled(n) THEN "throttled" ELSE "mailed"
                  /\ logs' = [logs EXCEPT ![n].counted = now, ![n].told = told]
  BY <1>1, Zenon DEF NotifyFailure
<1>4. told \in {"throttled", "mailed"} /\ (told = "throttled" => Throttled(n))
  BY <1>3
<1>5. /\ LogsGrow /\ DOMAIN logs' = DOMAIN logs
      /\ \A j \in DOMAIN logs : j # n => logs'[j] = logs[j]
      /\ logs'[n].counted = now /\ logs'[n].told = told
  BY <1>2, <1>3, <1>4, NotedRows
<1>6. Failures' = Failures /\ \A j \in Failures : logs'[j].at = logs[j].at
  BY <1>5 DEF Failures, LogsGrow
<1>7. /\ now' = now /\ now \in Nat /\ Throttle \in Nat
      /\ \A j \in Failures : /\ j \in Nat
                             /\ logs[j].at \in Int /\ logs[j].counted \in Int
  <2>1. DOMAIN logs = 1..Len(logs)
    BY LenProperties DEF SyncInv, Shape
  <2> QED
    BY <2>1, SyncConstants DEF NotifyFailure, BoundsOK, LogBounds, Failures
<1>8. \A i \in Failures' : logs'[i].counted <= now'
  BY <1>5, <1>6, <1>7 DEF OutageInv, Failures
<1>9. ASSUME ~unheard' PROVE Counted'
  <2>1. ~unheard /\ \A j \in Failures : j # n => Decided(j)
    BY <1>1, <1>9 DEF NotifyFailure, Decided
  <2>2. Counted
    BY <2>1 DEF OutageInv
  <2>3. \A j \in Failures : j # n => j < n
    <3>1. ~Decided(n)
      BY <1>2 DEF Decided
    <3> QED
      BY <1>2, <1>7, <2>1, <2>2, <3>1 DEF Counted
  <2>4. \A j \in Failures : j # n => logs'[j] = logs[j]
    BY <1>5 DEF Failures
  <2>5. ASSUME NEW i \in Failures', NEW j \in Failures', i < j, Decided(j)'
        PROVE  Decided(i)' /\ logs'[i].counted <= logs'[j].counted
    <3>1. i \in Failures /\ j \in Failures /\ i # n
      BY <1>2, <1>6, <1>7, <2>3, <2>5
    <3>2. Decided(i) /\ Decided(i)'
      BY <1>6, <2>1, <2>4, <3>1 DEF Decided
    <3>3. CASE j = n
      BY <1>5, <2>4, <3>1, <3>2, <3>3 DEF OutageInv
    <3>4. CASE j # n
      BY <2>1, <2>2, <2>4, <2>5, <3>1, <3>2, <3>4 DEF Counted
    <3> QED
      BY <3>3, <3>4
  <2>6. ASSUME NEW i \in Failures', logs'[i].told = "throttled"
        PROVE  /\ Throttle # 0
               /\ \E h \in Failures' : h < i /\ logs'[i].counted - logs'[h].at <= Throttle
    <3>1. CASE i = n
      <4>1. Throttled(n)
        BY <1>4, <1>5, <2>6, <3>1
      <4>2. PICK h \in Failures : h # n /\ logs[h].at >= now - Throttle
        BY <4>1 DEF Throttled, RecentFailures
      <4>3. now - logs[h].at <= Throttle
        BY <1>7, <4>2
      <4> QED
        BY <1>5, <1>6, <2>3, <3>1, <4>1, <4>2, <4>3 DEF Throttled
    <3>2. CASE i # n
      BY <1>6, <2>2, <2>4, <2>6, <3>2 DEF Counted
    <3> QED
      BY <3>1, <3>2
  <2> QED
    BY <2>5, <2>6 DEF Counted
<1> QED
  BY <1>8, <1>9 DEF OutageInv

LEMMA OutageStep ==
  SyncInv /\ BoundsOK /\ NotifierInv /\ OutageInv /\ [Next]_vars => OutageInv'
<1> SUFFICES ASSUME SyncInv, BoundsOK, NotifierInv, OutageInv, [Next]_vars PROVE OutageInv'
  OBVIOUS
<1>1. ASSUME logs' = logs, unheard => unheard', now' = now PROVE OutageInv'
  BY <1>1 DEF OutageInv, Counted, Decided, Failures
<1>2. CASE UNCHANGED vars
  BY <1>1, <1>2 DEF vars
<1>3. CASE Tick
  <2>1. Failures' = Failures /\ logs' = logs /\ now' = now + 1 /\ unheard' = unheard
    BY <1>3 DEF Tick, Failures
  <2>2. \A i \in Failures : logs[i].counted \in Int /\ now \in Int
    BY DEF BoundsOK, LogBounds, Failures
  <2>3. \A i \in Failures : logs[i].counted <= now + 1
    BY <2>2 DEF OutageInv
  <2>4. Counted => Counted'
    BY <2>1 DEF Counted, Decided
  <2> QED
    BY <2>1, <2>3, <2>4 DEF OutageInv
<1>4. ASSUME NEW r \in Runs, RunStep(r) PROVE OutageInv'
  <2>1. CASE FailSearch(r) \/ CommitImport(r)
    <3>1. now' = now
      BY <2>1 DEF FailSearch, CommitImport
    <3> QED
      BY <2>1, <3>1, LoggedCounts DEF FailSearch, CommitImport
  <2>2. CASE NotifyFailure(r)
    BY <2>2, NotifyCounts
  <2> QED
    BY <1>1, <1>4, <2>1, <2>2
    DEF RunStep, NextProcess, Retry, Found, CheckMovement, InsertMovement, BreakWaitCycle, Finish
<1>5. ASSUME NEW r \in Runs, FireJob(r) \/ RunScript(r) \/ Request(r) \/ LoseRun(r)
      PROVE  OutageInv'
  BY <1>1, <1>5 DEF FireJob, RunScript, Request, StartBatch, StartOne, LoseRun
<1> QED
  BY <1>2, <1>3, <1>4, <1>5 DEF Next

LEMMA LeastNatural ==
  ASSUME NEW S \in SUBSET Nat, S # {}
  PROVE  \E x \in S : \A y \in S : x <= y
<1>1. PICK x \in S : \A y \in S : <<y, x>> \notin OpToRel(<, Nat)
  BY NatLessThanWellFounded, WFMin, Zenon
<1>2. \A y \in S : ~(y < x)
  BY <1>1, Zenon DEF OpToRel
<1> QED
  BY <1>2

\* What silences a failure goes back, one earlier failure after the other, to
\* the last one before it that was mailed: a failure that has none before it is
\* mailed, and a mail leaves everything before it out of the later windows.
LEMMA AnnouncedAtTheLastMail ==
  ASSUME SyncInv, BoundsOK, MailedAlone, Counted, NEW i \in Failures, logs[i].told = "throttled"
  PROVE  \E k \in Failures :
           /\ k < i /\ logs[k].told = "mailed"
           /\ \A j \in Failures : k < j /\ j <= i /\ logs[j].told # "waiting" =>
                \E h \in Failures : k <= h /\ h < j /\ logs[j].counted - logs[h].at <= Throttle
<1>1. /\ Throttle \in Nat
      /\ \A j \in Failures : /\ j \in Nat
                             /\ logs[j].at \in Int /\ logs[j].counted \in Int
                             /\ logs[j].told \in {"waiting", "throttled", "mailed"}
  <2>1. DOMAIN logs = 1..Len(logs) /\ \A j \in DOMAIN logs : logs[j] \in LogShape
    BY LenProperties, ElementOfSeq DEF SyncInv, Shape
  <2> QED
    BY <2>1, SyncConstants DEF BoundsOK, LogBounds, Failures, LogShape
<1>2. Throttle # 0 /\ \A j \in Failures : j < i => logs[j].told \in {"throttled", "mailed"}
  <2>1. Decided(i)
    BY DEF Decided
  <2> QED
    BY <1>1, <2>1 DEF Counted, Decided
<1> DEFINE Mailed == {k \in Failures : k < i /\ logs[k].told = "mailed"}
<1>3. Mailed # {}
  <2>1. PICK f \in Failures : \A j \in Failures : f <= j
    <3>1. Failures \in SUBSET Nat /\ Failures # {}
      BY <1>1
    <3> QED
      BY <3>1, LeastNatural
  <2>2. logs[f].told # "throttled"
    <3>1. \A h \in Failures : ~(h < f)
      BY <1>1, <2>1
    <3> QED
      BY <3>1 DEF Counted
  <2>3. f < i
    BY <1>1, <2>1, <2>2
  <2> QED
    BY <1>2, <2>2, <2>3
<1>4. PICK k \in Mailed : \A m \in Mailed : m <= k
  <2> DEFINE Before == {i - m : m \in Mailed}
  <2>1. Before \in SUBSET Nat /\ Before # {}
    BY <1>1, <1>3
  <2>2. PICK b \in Before : \A c \in Before : b <= c
    <3> HIDE DEF Before
    <3> QED
      BY <2>1, LeastNatural
  <2>3. PICK m \in Mailed : b = i - m
    OBVIOUS
  <2>4. ASSUME NEW n \in Mailed PROVE n <= m
    <3>1. b <= i - n
      BY <2>2
    <3> QED
      BY <1>1, <2>3, <3>1
  <2> QED
    BY <2>4
<1>5. ASSUME NEW j \in Failures, k < j, j <= i, logs[j].told # "waiting"
      PROVE  \E h \in Failures : k <= h /\ h < j /\ logs[j].counted - logs[h].at <= Throttle
  <2>1. logs[j].told = "throttled"
    <3>1. CASE logs[j].told = "mailed"
      <4>1. j < i
        BY <1>1, <1>5, <3>1
      <4>2. j <= k
        BY <1>4, <3>1, <4>1
      <4> QED
        BY <1>1, <1>5, <4>2
    <3> QED
      BY <1>1, <1>5, <3>1
  <2>2. PICK h \in Failures : h < j /\ logs[j].counted - logs[h].at <= Throttle
    BY <2>1 DEF Counted
  <2>3. ~(h < k)
    <3> SUFFICES ASSUME h < k PROVE FALSE
      OBVIOUS
    <3>1. logs[k].counted - logs[h].at > Throttle
      BY <1>2, <1>4 DEF MailedAlone
    <3>2. logs[k].counted <= logs[j].counted
      BY <1>4, <1>5 DEF Counted, Decided
    <3> QED
      BY <1>1, <1>4, <2>2, <3>1, <3>2
  <2> QED
    BY <1>1, <1>4, <2>2, <2>3
<1> QED
  BY <1>4, <1>5

\* A failure is silenced only inside an outage that was announced to the
\* administrators, however many runs fail and whatever the window is
\* (notifier.py:62-74), as long as each failure is counted before the next.
THEOREM AnnouncedOutages == Spec => []OutagesAreAnnounced
<1>1. Init => MailedAlone
  BY DEF Init, MailedAlone, Failures
<1>2. Init => NotifierInv /\ OutageInv
  BY DEF Init, NotifierInv, OutageInv, Counted, Decided, Failures, Idle, Begun
<1>3. SyncInv /\ BoundsOK /\ MailedAlone /\ OutageInv => OutagesAreAnnounced
  <2> SUFFICES ASSUME SyncInv, BoundsOK, MailedAlone, OutageInv, ~unheard,
                      NEW i \in Failures, logs[i].told = "throttled"
               PROVE  \E k \in Failures :
                        /\ k < i /\ logs[k].told = "mailed"
                        /\ \A j \in Failures : k < j /\ j <= i /\ logs[j].told # "waiting" =>
                             \E h \in Failures :
                               k <= h /\ h < j /\ logs[j].counted - logs[h].at <= Throttle
    BY DEF OutagesAreAnnounced
  <2> QED
    BY AnnouncedAtTheLastMail DEF OutageInv
<1> QED
  BY <1>1, <1>2, <1>3, SyncInit, SyncStep, BoundsInit, BoundsStep, MailedStep, NotifierStep,
     OutageStep, PTL DEF Spec
=============================================================================
