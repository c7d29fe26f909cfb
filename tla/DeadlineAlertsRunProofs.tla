------------------------ MODULE DeadlineAlertsRunProofs ------------------------
(***************************************************************************)
(* What a run of the alert job achieves from the snapshot it works on:     *)
(* recorded DEADLINE_EXPIRED alerts are true, and no deadline it has been  *)
(* through is left without the alert it is owed.  With one scheduler       *)
(* process the job implements AlertLedger and its alerts only escalate.    *)
(***************************************************************************)
EXTENDS DeadlineAlertsProofs

Handling(s) == pc[s] \in {"decide", "notify", "record", "log"}

-------------------------------------------------------------------------------
(* Truth of the recorded alerts.                                           *)

AlertsBelongToLive == \A a \in alerts : a[1] \in LiveDeadlines

\* As long as a due date only moves closer, what a run holds is a later due
\* date than the current one, and the day of the run is not in the future.
TruthInv ==
    \A s \in Schedulers :
        /\ runDay[s] <= today
        /\ \A d \in Deadlines : snapshot[s][d] # NoDeadline => d \in created
        /\ \A d \in LiveDeadlines \ eased :
              /\ snapshot[s][d] # NoDeadline =>
                    deadline[d].due_date <= snapshot[s][d].due_date
              /\ Handling(s) /\ cur[s] = d =>
                    deadline[d].due_date <= held[s].due_date
        /\ pc[s] \in {"notify", "record"} /\ key[s] = EXPIRED_DAYS_BEFORE =>
              held[s].due_date < runDay[s]

TruthAll == AlertsBelongToLive /\ TruthInv /\ ExpiredAlertsAreTrue

LEMMA TruthInit == Init => TruthAll
  BY DaysAssumption DEF Init, TruthAll, AlertsBelongToLive, TruthInv,
     ExpiredAlertsAreTrue, LiveDeadlines, NoRows, Handling

LEMMA DueDatesAreIntegers ==
    ASSUME TypeInv
    PROVE  /\ \A d \in LiveDeadlines : deadline[d] \in Rows
           /\ \A r \in Rows : r.due_date \in Int
           /\ today \in Int /\ \A s \in Schedulers : runDay[s] \in Int
  BY DaysAssumption DEF TypeInv, TypeOK, LiveDeadlines, Rows, Days

\* The due date of a surviving deadline did not move away, or is flagged.
LEMMA SurvivorsMoveCloser ==
    ASSUME TypeInv, Request
    PROVE  \A d \in LiveDeadlines' \ eased' :
              \/ /\ d \in LiveDeadlines \ eased
                 /\ deadline'[d].due_date <= deadline[d].due_date
              \/ d \notin created
<1>1. ASSUME NEW d \in Deadlines, NEW u \in Creators, NEW due \in Days,
             CreateDeadline(d, u, due), NEW e \in LiveDeadlines' \ eased'
      PROVE  \/ /\ e \in LiveDeadlines \ eased
                /\ deadline'[e].due_date <= deadline[e].due_date
             \/ e \notin created
  <2>1. e # d => e \in LiveDeadlines \ eased /\ deadline'[e] = deadline[e]
    BY <1>1 DEF TypeInv, TypeOK, CreateDeadline, LiveDeadlines
  <2> QED
    BY <1>1, <2>1, DueDatesAreIntegers DEF CreateDeadline
<1>2. ASSUME NEW d \in Deadlines, NEW due \in Days, UpdateDeadline(d, due),
             NEW e \in LiveDeadlines' \ eased'
      PROVE  /\ e \in LiveDeadlines \ eased
             /\ deadline'[e].due_date <= deadline[e].due_date
  <2>1. e \in LiveDeadlines \ eased
    BY <1>2 DEF TypeInv, TypeOK, UpdateDeadline, LiveDeadlines
  <2>2. CASE e = d
    <3>1. deadline[d] \in Rows /\ due \in Int
      BY <2>1, <2>2, DueDatesAreIntegers, DaysAssumption DEF Days
    <3>2. deadline'[d].due_date = due
      BY <1>2, <3>1 DEF TypeInv, TypeOK, UpdateDeadline, Rows
    <3>3. ~(due > deadline[d].due_date)
      BY <1>2, <2>2 DEF UpdateDeadline
    <3>4. deadline[d].due_date \in Int
      BY <3>1, DueDatesAreIntegers
    <3>5. deadline'[d].due_date <= deadline[d].due_date
      BY <3>1, <3>2, <3>3, <3>4
    <3> QED
      BY <2>1, <2>2, <3>5
  <2>3. CASE e # d
    <3>1. deadline'[e] = deadline[e]
      BY <1>2, <2>1, <2>3 DEF TypeInv, TypeOK, UpdateDeadline, LiveDeadlines
    <3> QED
      BY <2>1, <3>1, DueDatesAreIntegers
  <2> QED
    BY <2>2, <2>3
<1>3. ASSUME NEW d \in Deadlines, DeleteDeadline(d),
             NEW e \in LiveDeadlines' \ eased'
      PROVE  /\ e \in LiveDeadlines \ eased
             /\ deadline'[e].due_date <= deadline[e].due_date
  <2>1. e \in LiveDeadlines \ eased /\ deadline'[e] = deadline[e]
    BY <1>3 DEF TypeInv, TypeOK, DeleteDeadline, LiveDeadlines
  <2> QED
    BY <2>1, DueDatesAreIntegers
<1>4. ASSUME NEW h \in HolidayDates, EditCalendar(h),
             NEW e \in LiveDeadlines' \ eased'
      PROVE  /\ e \in LiveDeadlines \ eased
             /\ deadline'[e].due_date <= deadline[e].due_date
  <2>1. e \in LiveDeadlines \ eased /\ deadline'[e] = deadline[e]
    BY <1>4 DEF TypeInv, TypeOK, EditCalendar, LiveDeadlines
  <2> QED
    BY <2>1, DueDatesAreIntegers
<1> QED
  BY <1>1, <1>2, <1>3, <1>4 DEF Request

LEMMA TruthRequest == TypeInv /\ TruthAll /\ Request => TruthAll'
<1> SUFFICES ASSUME TypeInv, TruthAll, Request PROVE TruthAll'
  OBVIOUS
<1>1. \A d \in LiveDeadlines' \ eased' :
         \/ /\ d \in LiveDeadlines \ eased
            /\ deadline'[d].due_date <= deadline[d].due_date
         \/ d \notin created
  BY SurvivorsMoveCloser
<1>2. \A a \in alerts' : a[1] \in LiveDeadlines => a[1] \in LiveDeadlines'
  <2>1. ASSUME NEW d \in Deadlines, NEW u \in Creators, NEW due \in Days,
               CreateDeadline(d, u, due)
        PROVE  LiveDeadlines \subseteq LiveDeadlines'
    <3>1. d \notin LiveDeadlines
      BY <2>1 DEF TypeInv, LiveWereCreated, CreateDeadline
    <3> QED
      BY <2>1, <3>1 DEF TypeInv, TypeOK, CreateDeadline, LiveDeadlines
  <2>2. ASSUME NEW d \in Deadlines, NEW due \in Days, UpdateDeadline(d, due)
        PROVE  LiveDeadlines \subseteq LiveDeadlines'
    <3>1. deadline'[d] \in Rows
      <4>1. deadline[d] \in Rows
        BY <2>2, DueDatesAreIntegers DEF UpdateDeadline
      <4>2. [deadline[d] EXCEPT !.due_date = due] \in Rows
        BY <2>2, <4>1 DEF Rows
      <4> QED
        BY <2>2, <4>2 DEF TypeInv, TypeOK, UpdateDeadline
    <3> QED
      BY <2>2, <3>1, SentinelAssumption
         DEF TypeInv, TypeOK, UpdateDeadline, LiveDeadlines
  <2>3. ASSUME NEW d \in Deadlines, DeleteDeadline(d)
        PROVE  \A a \in alerts' : a[1] \in LiveDeadlines => a[1] \in LiveDeadlines'
    BY <2>3 DEF TypeInv, TypeOK, DeleteDeadline, LiveDeadlines
  <2>4. ASSUME NEW h \in HolidayDates, EditCalendar(h)
        PROVE  LiveDeadlines \subseteq LiveDeadlines'
    BY <2>4 DEF EditCalendar, LiveDeadlines
  <2> QED
    BY <2>1, <2>2, <2>3, <2>4 DEF Request
<1>3. created \subseteq created' /\ LiveDeadlines \subseteq created
  BY DEF TypeInv, LiveWereCreated, Request, CreateDeadline, UpdateDeadline,
         DeleteDeadline, EditCalendar
<1>4. AlertsBelongToLive'
  BY <1>2, RequestFrame DEF TruthAll, AlertsBelongToLive
<1>5. TruthInv'
  <2> SUFFICES ASSUME NEW s \in Schedulers,
                      NEW d \in LiveDeadlines' \ eased'
               PROVE  /\ snapshot[s][d] # NoDeadline =>
                           deadline'[d].due_date <= snapshot[s][d].due_date
                      /\ Handling(s) /\ cur[s] = d =>
                           deadline'[d].due_date <= held[s].due_date
    BY <1>3, RequestFrame DEF TruthAll, TruthInv, Handling
  <2>1. d \in Deadlines /\ deadline'[d] \in Rows /\ deadline'[d].due_date \in Int
    BY RequestTypes, DueDatesAreIntegers, DaysAssumption
       DEF TypeInv, TypeOK, LiveDeadlines, Rows, Days
  <2>2. CASE d \notin created
    BY <2>1, <2>2 DEF TypeInv, RunsHoldWhatTheyHandle, Handling, TruthAll, TruthInv
  <2>3. CASE /\ d \in LiveDeadlines \ eased
             /\ deadline'[d].due_date <= deadline[d].due_date
    <3>1. deadline[d].due_date \in Int
      BY <2>3, DueDatesAreIntegers
    <3>2. snapshot[s][d] # NoDeadline => snapshot[s][d].due_date \in Int
      <4>1. snapshot[s][d] \in Rows \cup {NoDeadline}
        BY <2>1 DEF TypeInv, TypeOK
      <4> QED
        BY <4>1, DueDatesAreIntegers
    <3>3. Handling(s) => held[s].due_date \in Int
      BY DueDatesAreIntegers DEF TypeInv, RunsHoldWhatTheyHandle, Handling
    <3> QED
      BY <2>1, <2>3, <3>1, <3>2, <3>3 DEF TruthAll, TruthInv
  <2> QED
    BY <1>1, <2>2, <2>3
<1>6. ExpiredAlertsAreTrue'
  <2> SUFFICES ASSUME NEW d \in LiveDeadlines' \ eased',
                      <<d, EXPIRED_DAYS_BEFORE>> \in alerts'
               PROVE  deadline'[d].due_date < today
    BY RequestFrame DEF ExpiredAlertsAreTrue
  <2>1. <<d, EXPIRED_DAYS_BEFORE>> \in alerts /\ d \in created
    BY <1>3, RequestFrame DEF TruthAll, AlertsBelongToLive
  <2>2. /\ d \in LiveDeadlines \ eased
        /\ deadline'[d].due_date <= deadline[d].due_date
    BY <1>1, <2>1
  <2>3. deadline'[d].due_date \in Int /\ deadline[d].due_date \in Int
    <3>1. deadline'[d] \in Rows
      BY RequestTypes DEF TypeInv, TypeOK, LiveDeadlines
    <3> QED
      BY <2>2, <3>1, DueDatesAreIntegers
  <2> QED
    BY <2>1, <2>2, <2>3, DueDatesAreIntegers DEF TruthAll, ExpiredAlertsAreTrue
<1> QED
  BY <1>4, <1>5, <1>6 DEF TruthAll

LEMMA TruthJob ==
    ASSUME TypeInv, TruthAll, NEW s \in Schedulers, JobStep(s) \/ LoseRun(s)
    PROVE  TruthAll'
<1>1. /\ UNCHANGED <<today, created, deadline, eased>>
      /\ LiveDeadlines' = LiveDeadlines
  BY DEF JobStep, Visit, Decide, Notify, Record, LogSent, FinishRun, LoseRun, tables,
         LiveDeadlines
<1>2. \A r \in Schedulers \ {s} :
         /\ pc'[r] = pc[r] /\ runDay'[r] = runDay[r] /\ snapshot'[r] = snapshot[r]
         /\ cur'[r] = cur[r] /\ held'[r] = held[r] /\ key'[r] = key[r]
  BY DEF TypeInv, TypeOK, JobStep, Visit, Decide, Notify, Record, LogSent, FinishRun,
     LoseRun, EndRun, Skip
\* The conjuncts of TruthInv about the scheduler that takes the step.
<1> DEFINE Keeps ==
        /\ runDay'[s] <= today
        /\ \A d \in Deadlines : snapshot'[s][d] # NoDeadline => d \in created
        /\ \A d \in LiveDeadlines \ eased :
              /\ snapshot'[s][d] # NoDeadline =>
                    deadline[d].due_date <= snapshot'[s][d].due_date
              /\ Handling(s)' /\ cur'[s] = d =>
                    deadline[d].due_date <= held'[s].due_date
        /\ pc'[s] \in {"notify", "record"} /\ key'[s] = EXPIRED_DAYS_BEFORE =>
              held'[s].due_date < runDay'[s]
<1>3. Keeps => TruthInv'
  BY <1>1, <1>2 DEF TruthAll, TruthInv, Handling
<1>4. ASSUME EndRun(s) PROVE Keeps
  <2>1. /\ pc'[s] = "idle" /\ runDay'[s] = FirstDay
        /\ \A d \in Deadlines : snapshot'[s][d] = NoDeadline
    BY <1>4 DEF TypeInv, TypeOK, EndRun, NoRows
  <2>2. FirstDay <= today
    BY DaysAssumption DEF TypeInv, TypeOK, Days
  <2> QED
    BY <2>1, <2>2 DEF Handling, LiveDeadlines
<1>5. ASSUME NEW e \in Deadlines, Skip(s, e) PROVE Keeps
  <2>1. /\ pc'[s] = "visit" /\ runDay'[s] = runDay[s]
        /\ \A d \in Deadlines : snapshot'[s][d] \in {NoDeadline, snapshot[s][d]}
    BY <1>5 DEF TypeInv, TypeOK, Skip
  <2> QED
    BY <2>1 DEF TruthAll, TruthInv, Handling, LiveDeadlines
<1>6. TruthInv'
  <2>1. ASSUME NEW e \in Deadlines, Visit(s, e) PROVE Keeps
    <3>1. CASE EndRun(s) \/ Skip(s, e)
      BY <3>1, <1>4, <1>5
    <3>2. CASE /\ Loaded(s, e) # NoDeadline
               /\ pc' = [pc EXCEPT ![s] = "decide"]
               /\ cur' = [cur EXCEPT ![s] = e]
               /\ held' = [held EXCEPT ![s] = Loaded(s, e)]
               /\ UNCHANGED <<runDay, todo, snapshot, expired, key>>
      <4>1. /\ pc'[s] = "decide" /\ cur'[s] = e /\ held'[s] = Loaded(s, e)
            /\ runDay'[s] = runDay[s] /\ snapshot'[s] = snapshot[s]
        BY <3>2 DEF TypeInv, TypeOK
      <4>2. e \in LiveDeadlines \ eased =>
               deadline[e].due_date <= Loaded(s, e).due_date
        BY <3>2, DueDatesAreIntegers DEF Loaded, TruthAll, TruthInv
      <4> QED
        BY <4>1, <4>2 DEF TruthAll, TruthInv, Handling
    <3> QED
      BY <2>1, <3>1, <3>2 DEF Visit
  <2>2. ASSUME Decide(s) PROVE Keeps
    <3> DEFINE owed == AlertDue(held[s].due_date, runDay[s], holidays, Intervals)
    <3>1. owed = EXPIRED_DAYS_BEFORE => held[s].due_date < runDay[s]
      BY AlertDueRange
    <3>2. cur[s] \in Deadlines
      BY <2>2 DEF TypeInv, TypeOK, RunsHoldWhatTheyHandle, Decide
    <3>3. CASE Skip(s, cur[s])
      BY <3>2, <3>3, <1>5
    <3>4. CASE /\ pc' = [pc EXCEPT ![s] = "notify"]
               /\ key' = [key EXCEPT ![s] = owed]
               /\ UNCHANGED <<runDay, todo, snapshot, expired, cur, held>>
      <4> HIDE DEF owed
      <4> QED
        BY <2>2, <3>1, <3>4 DEF TypeInv, TypeOK, TruthAll, TruthInv, Handling, Decide
    <3> QED
      BY <2>2, <3>3, <3>4 DEF Decide
  <2>3. ASSUME Notify(s) PROVE Keeps
    BY <2>3 DEF TypeInv, TypeOK, TruthAll, TruthInv, Handling, Notify
  <2>4. ASSUME Record(s) PROVE Keeps
    <3>1. CASE EndRun(s)
      BY <3>1, <1>4
    <3>2. CASE /\ pc' = [pc EXCEPT ![s] = "log"]
               /\ expired' = [expired EXCEPT ![s] = TRUE]
               /\ snapshot' = [snapshot EXCEPT ![s] = NoRows]
               /\ UNCHANGED <<runDay, todo, cur, held, key>>
      <4>1. \A d \in Deadlines : snapshot'[s][d] = NoDeadline
        BY <3>2 DEF TypeInv, TypeOK, NoRows
      <4> QED
        BY <2>4, <3>2, <4>1 DEF TypeInv, TypeOK, TruthAll, TruthInv, Handling, Record,
           LiveDeadlines
    <3> QED
      BY <2>4, <3>1, <3>2 DEF Record
  <2>5. ASSUME LogSent(s) PROVE Keeps
    <3>1. cur[s] \in Deadlines
      BY <2>5 DEF TypeInv, TypeOK, RunsHoldWhatTheyHandle, LogSent
    <3> QED
      BY <2>5, <3>1, <1>4, <1>5 DEF LogSent
  <2>6. ASSUME FinishRun(s) \/ LoseRun(s) PROVE Keeps
    BY <2>6, <1>4 DEF FinishRun, LoseRun
  <2> HIDE DEF Keeps
  <2> QED
    BY <1>3, <2>1, <2>2, <2>3, <2>4, <2>5, <2>6 DEF JobStep
<1>7. AlertsBelongToLive' /\ ExpiredAlertsAreTrue'
  <2>1. CASE alerts' = alerts
    BY <1>1, <2>1 DEF TruthAll, AlertsBelongToLive, ExpiredAlertsAreTrue
  <2>2. CASE /\ pc[s] = "record"
             /\ cur[s] \in LiveDeadlines
             /\ alerts' = alerts \cup {<<cur[s], key[s]>>}
    <3>1. AlertsBelongToLive'
      BY <1>1, <2>2 DEF TruthAll, AlertsBelongToLive
    <3>2. cur[s] \notin eased /\ key[s] = EXPIRED_DAYS_BEFORE =>
             deadline[cur[s]].due_date < today
      <4>1. /\ deadline[cur[s]].due_date \in Int /\ held[s].due_date \in Int
            /\ runDay[s] \in Int /\ today \in Int
        BY <2>2, DueDatesAreIntegers DEF TypeInv, RunsHoldWhatTheyHandle
      <4> QED
        BY <2>2, <4>1 DEF TruthAll, TruthInv, Handling
    <3> QED
      BY <1>1, <2>2, <3>1, <3>2 DEF TruthAll, ExpiredAlertsAreTrue
  <2> QED
    BY <2>1, <2>2 DEF JobStep, Visit, Decide, Notify, Record, LogSent, FinishRun,
       LoseRun
<1> QED
  BY <1>6, <1>7 DEF TruthAll

LEMMA TruthStep == TypeInv /\ TruthAll /\ [Next]_vars => TruthAll'
<1> SUFFICES ASSUME TypeInv, TruthAll, [Next]_vars PROVE TruthAll'
  OBVIOUS
<1>1. CASE Request
  BY <1>1, TruthRequest
<1>2. CASE NextDay
  <2>1. /\ UNCHANGED <<created, deadline, alerts, eased, pc, runDay, snapshot, cur,
                       held, key>>
        /\ today' \in Int /\ today <= today'
    BY <1>2, DueDatesAreIntegers DEF NextDay, runVars
  <2>2. \A s \in Schedulers : runDay[s] <= today'
    BY <2>1, DueDatesAreIntegers DEF TruthAll, TruthInv
  <2>3. ExpiredAlertsAreTrue'
    <3> SUFFICES ASSUME NEW d \in LiveDeadlines \ eased,
                        <<d, EXPIRED_DAYS_BEFORE>> \in alerts
                 PROVE  deadline[d].due_date < today'
      BY <2>1 DEF ExpiredAlertsAreTrue, LiveDeadlines
    <3>1. deadline[d].due_date < today /\ deadline[d].due_date \in Int
      BY DueDatesAreIntegers DEF TruthAll, ExpiredAlertsAreTrue
    <3> QED
      BY <2>1, <3>1, DueDatesAreIntegers
  <2> QED
    BY <2>1, <2>2, <2>3 DEF TruthAll, AlertsBelongToLive, TruthInv, Handling,
       LiveDeadlines
<1>3. ASSUME NEW s \in Schedulers, FireJob(s)
      PROVE  TruthAll'
  <2>1. UNCHANGED <<today, created, deadline, alerts, eased, cur, held, key>>
    BY <1>3 DEF FireJob, tables
  <2>2. LiveDeadlines' = LiveDeadlines /\ AlertsBelongToLive'
           /\ ExpiredAlertsAreTrue'
    BY <2>1 DEF TruthAll, AlertsBelongToLive, ExpiredAlertsAreTrue, LiveDeadlines
  <2>3. ASSUME NEW r \in Schedulers
        PROVE  \/ /\ pc'[r] = pc[r] /\ runDay'[r] = runDay[r]
                  /\ snapshot'[r] = snapshot[r]
               \/ pc'[r] = "visit" /\ runDay'[r] = today /\ snapshot'[r] = deadline
    BY <1>3 DEF TypeInv, TypeOK, FireJob
  <2>4. /\ \A d \in Deadlines : deadline[d] # NoDeadline => d \in created
        /\ \A d \in LiveDeadlines : deadline[d].due_date <= deadline[d].due_date
    BY DueDatesAreIntegers DEF TypeInv, LiveWereCreated, LiveDeadlines
  <2>5. TruthInv'
    BY <2>1, <2>2, <2>3, <2>4, DueDatesAreIntegers DEF TruthAll, TruthInv, Handling
  <2> QED
    BY <2>2, <2>5 DEF TruthAll
<1>4. ASSUME NEW s \in Schedulers, JobStep(s) \/ LoseRun(s)
      PROVE  TruthAll'
  BY <1>4, TruthJob
<1>5. CASE UNCHANGED vars
  BY <1>5 DEF TruthAll, AlertsBelongToLive, TruthInv, ExpiredAlertsAreTrue, Handling,
     LiveDeadlines, vars, tables, runVars
<1> QED
  BY <1>1, <1>2, <1>3, <1>4, <1>5 DEF Next

\* Whatever snapshot the runs work on, a recorded DEADLINE_EXPIRED alert is true
\* until somebody moves the due date of its deadline further away.
THEOREM ExpiredAlertsTellTheTruth == Spec => []ExpiredAlertsAreTrue
<1>1. TruthAll => ExpiredAlertsAreTrue
  BY DEF TruthAll
<1> QED
  BY <1>1, TruthInit, TruthStep, TypeInvariant, PTL DEF Spec

-------------------------------------------------------------------------------
(* No deadline is left out.                                                *)

OwedNow(s, d) ==
    AlertDue(deadline[d].due_date, runDay[s], holidays, Intervals)

\* For a deadline no request has changed since the run started, what the run
\* holds is its current row, the key it computed is the one owed, and the alert
\* is on record before the run passes to the next deadline.
CoveredBy(s) ==
    pc[s] # "idle" =>
        \A d \in LiveDeadlines \ touched[s] :
            /\ d \in todo[s] /\ ~expired[s] => snapshot[s][d] = deadline[d]
            /\ Handling(s) /\ cur[s] = d =>
                  /\ held[s] = deadline[d]
                  /\ d \in todo[s]
                  /\ pc[s] # "decide" => key[s] = OwedNow(s, d)
                  /\ pc[s] = "log" => InHand(s) \in alerts
            /\ d \notin todo[s] =>
                  \/ deadline[d].created_by = NoUser
                  \/ OwedNow(s, d) = NoInterval
                  \/ <<d, OwedNow(s, d)>> \in alerts

CoverInv == \A s \in Schedulers : CoveredBy(s)

\* A deadline that is live and untouched after a request was so before it, and
\* neither its row, nor the calendar, nor its alerts have changed.
LEMMA UntouchedByRequest ==
    ASSUME TypeInv, Request, NEW s \in Schedulers,
           NEW d \in LiveDeadlines' \ touched'[s]
    PROVE  /\ d \in LiveDeadlines \ touched[s]
           /\ deadline'[d] = deadline[d] /\ holidays' = holidays
           /\ \A a \in alerts : a[1] = d => a \in alerts'
<1>1. ASSUME NEW e \in Deadlines, NEW u \in Creators, NEW due \in Days,
             CreateDeadline(e, u, due)
      PROVE  /\ d # e /\ d \in LiveDeadlines \ touched[s]
             /\ deadline'[d] = deadline[d] /\ UNCHANGED <<holidays, alerts>>
  BY <1>1 DEF TypeInv, TypeOK, CreateDeadline, LiveDeadlines
<1>2. ASSUME NEW e \in Deadlines, NEW due \in Days, UpdateDeadline(e, due)
      PROVE  /\ d # e /\ d \in LiveDeadlines \ touched[s]
             /\ deadline'[d] = deadline[d] /\ UNCHANGED <<holidays, alerts>>
  BY <1>2 DEF TypeInv, TypeOK, UpdateDeadline, LiveDeadlines
<1>3. ASSUME NEW e \in Deadlines, DeleteDeadline(e)
      PROVE  /\ d # e /\ d \in LiveDeadlines \ touched[s]
             /\ deadline'[d] = deadline[d] /\ UNCHANGED holidays
             /\ alerts' = {a \in alerts : a[1] # e}
  BY <1>3 DEF TypeInv, TypeOK, DeleteDeadline, LiveDeadlines
<1>4. ASSUME NEW h \in HolidayDates, EditCalendar(h)
      PROVE  FALSE
  BY <1>4 DEF TypeInv, TypeOK, EditCalendar, LiveDeadlines
<1> QED
  BY <1>1, <1>2, <1>3, <1>4 DEF Request

LEMMA CoverRequest == TypeInv /\ CoverInv /\ Request => CoverInv'
<1> SUFFICES ASSUME TypeInv, CoverInv, Request, NEW s \in Schedulers
             PROVE  CoveredBy(s)'
  BY DEF CoverInv
<1>1. \A d \in LiveDeadlines' \ touched'[s] :
         /\ d \in LiveDeadlines \ touched[s]
         /\ deadline'[d] = deadline[d] /\ OwedNow(s, d)' = OwedNow(s, d)
         /\ \A a \in alerts : a[1] = d => a \in alerts'
  BY UntouchedByRequest, RequestFrame DEF OwedNow
<1>2. UNCHANGED <<pc, runDay, todo, snapshot, expired, cur, held, key>>
  BY RequestFrame
<1> QED
  BY <1>1, <1>2 DEF CoverInv, CoveredBy, Handling, InHand

LEMMA CoverJob ==
    ASSUME TypeInv, CoverInv, NEW s \in Schedulers, JobStep(s) \/ LoseRun(s)
    PROVE  CoverInv'
<1>1. /\ UNCHANGED <<holidays, deadline, touched>> /\ alerts \subseteq alerts'
      /\ LiveDeadlines' = LiveDeadlines
  BY DEF JobStep, Visit, Decide, Notify, Record, LogSent, FinishRun, LoseRun, tables,
         LiveDeadlines
<1>2. ASSUME NEW r \in Schedulers \ {s}
      PROVE  CoveredBy(r)'
  <2>1. /\ pc'[r] = pc[r] /\ runDay'[r] = runDay[r] /\ snapshot'[r] = snapshot[r]
        /\ todo'[r] = todo[r] /\ expired'[r] = expired[r]
        /\ cur'[r] = cur[r] /\ held'[r] = held[r] /\ key'[r] = key[r]
    BY DEF TypeInv, TypeOK, JobStep, Visit, Decide, Notify, Record, LogSent,
       FinishRun, LoseRun, EndRun, Skip
  <2>2. \A d \in Deadlines : OwedNow(r, d)' = OwedNow(r, d)
    BY <1>1, <2>1 DEF OwedNow
  <2> QED
    BY <1>1, <2>1, <2>2 DEF CoverInv, CoveredBy, Handling, InHand, LiveDeadlines
<1>3. ASSUME EndRun(s) PROVE CoveredBy(s)'
  BY <1>3 DEF TypeInv, TypeOK, EndRun, CoveredBy
\* Passing over a deadline is allowed when it is touched, gone or settled.
<1>4. ASSUME NEW e \in Deadlines, Skip(s, e), pc[s] # "idle",
             e \in LiveDeadlines \ touched[s] =>
                \/ deadline[e].created_by = NoUser
                \/ OwedNow(s, e) = NoInterval
                \/ <<e, OwedNow(s, e)>> \in alerts
      PROVE  CoveredBy(s)'
  <2>1. /\ pc'[s] = "visit" /\ todo'[s] = todo[s] \ {e}
        /\ \A d \in Deadlines \ {e} : snapshot'[s][d] = snapshot[s][d]
        /\ runDay'[s] = runDay[s] /\ expired'[s] = expired[s]
    BY <1>4 DEF TypeInv, TypeOK, Skip
  <2>2. \A d \in Deadlines : OwedNow(s, d)' = OwedNow(s, d)
    BY <1>1, <2>1 DEF OwedNow
  <2> QED
    BY <1>1, <1>4, <2>1, <2>2 DEF CoverInv, CoveredBy, Handling, LiveDeadlines
<1>5. CoveredBy(s)'
  <2>1. ASSUME NEW e \in Deadlines, Visit(s, e) PROVE CoveredBy(s)'
    <3>1. e \in LiveDeadlines \ touched[s] => Loaded(s, e) = deadline[e]
      BY <2>1 DEF Visit, Loaded, CoverInv, CoveredBy
    <3>2. CASE EndRun(s)
      BY <3>2, <1>3
    <3>3. CASE Loaded(s, e).created_by = NoUser /\ Skip(s, e)
      BY <2>1, <3>1, <3>3, <1>4 DEF Visit
    <3>4. CASE /\ pc' = [pc EXCEPT ![s] = "decide"]
               /\ cur' = [cur EXCEPT ![s] = e]
               /\ held' = [held EXCEPT ![s] = Loaded(s, e)]
               /\ UNCHANGED <<runDay, todo, snapshot, expired, key>>
      <4>1. /\ pc'[s] = "decide" /\ cur'[s] = e /\ held'[s] = Loaded(s, e)
        BY <3>4 DEF TypeInv, TypeOK
      <4>2. \A d \in Deadlines : OwedNow(s, d)' = OwedNow(s, d)
        BY <1>1, <3>4 DEF OwedNow
      <4> QED
        BY <1>1, <2>1, <3>1, <3>4, <4>1, <4>2
           DEF CoverInv, CoveredBy, Handling, LiveDeadlines, Visit
    <3> QED
      BY <2>1, <3>2, <3>3, <3>4 DEF Visit
  <2>2. ASSUME Decide(s) PROVE CoveredBy(s)'
    <3> DEFINE owed == AlertDue(held[s].due_date, runDay[s], holidays, Intervals)
    <3>1. cur[s] \in Deadlines /\ pc[s] = "decide"
      BY <2>2 DEF TypeInv, TypeOK, RunsHoldWhatTheyHandle, Decide
    <3>2. cur[s] \in LiveDeadlines \ touched[s] => owed = OwedNow(s, cur[s])
      BY <3>1 DEF CoverInv, CoveredBy, Handling, OwedNow
    <3>3. CASE (owed = NoInterval \/ <<cur[s], owed>> \in alerts) /\ Skip(s, cur[s])
      BY <3>1, <3>2, <3>3, <1>4
    <3>4. CASE /\ pc' = [pc EXCEPT ![s] = "notify"]
               /\ key' = [key EXCEPT ![s] = owed]
               /\ UNCHANGED <<runDay, todo, snapshot, expired, cur, held>>
      <4> HIDE DEF owed
      <4>1. pc'[s] = "notify" /\ key'[s] = owed
        BY <3>4 DEF TypeInv, TypeOK
      <4>2. \A d \in Deadlines : OwedNow(s, d)' = OwedNow(s, d)
        BY <1>1, <3>4 DEF OwedNow
      <4> QED
        BY <1>1, <3>1, <3>2, <3>4, <4>1, <4>2
           DEF CoverInv, CoveredBy, Handling, LiveDeadlines
    <3> QED
      BY <2>2, <3>3, <3>4 DEF Decide
  <2>3. ASSUME Notify(s) PROVE CoveredBy(s)'
    <3>1. /\ pc[s] = "notify" /\ pc'[s] = "record"
          /\ UNCHANGED <<runDay, todo, snapshot, expired, cur, held, key>>
      BY <2>3 DEF TypeInv, TypeOK, Notify
    <3>2. \A d \in Deadlines : OwedNow(s, d)' = OwedNow(s, d)
      BY <1>1, <3>1 DEF OwedNow
    <3> QED
      BY <1>1, <3>1, <3>2 DEF CoverInv, CoveredBy, Handling, LiveDeadlines
  <2>4. ASSUME Record(s) PROVE CoveredBy(s)'
    <3>1. CASE EndRun(s)
      BY <3>1, <1>3
    <3>2. CASE /\ alerts' = alerts \cup {InHand(s)}
               /\ pc' = [pc EXCEPT ![s] = "log"]
               /\ expired' = [expired EXCEPT ![s] = TRUE]
               /\ UNCHANGED <<runDay, todo, cur, held, key>>
      <4>1. pc[s] = "record" /\ pc'[s] = "log" /\ expired'[s]
        BY <2>4, <3>2 DEF TypeInv, TypeOK, Record
      <4>2. \A d \in Deadlines : OwedNow(s, d)' = OwedNow(s, d)
        BY <1>1, <3>2 DEF OwedNow
      <4>3. InHand(s)' = InHand(s)
        BY <3>2 DEF InHand
      <4> QED
        BY <1>1, <3>2, <4>1, <4>2, <4>3
           DEF CoverInv, CoveredBy, Handling, LiveDeadlines
    <3> QED
      BY <2>4, <3>1, <3>2 DEF Record, InHand
  <2>5. ASSUME LogSent(s) PROVE CoveredBy(s)'
    <3>1. cur[s] \in Deadlines /\ pc[s] = "log"
      BY <2>5 DEF TypeInv, TypeOK, RunsHoldWhatTheyHandle, LogSent
    <3>2. cur[s] \in LiveDeadlines \ touched[s] =>
             <<cur[s], OwedNow(s, cur[s])>> \in alerts
      BY <3>1 DEF CoverInv, CoveredBy, Handling, InHand
    <3> QED
      BY <2>5, <3>1, <3>2, <1>3, <1>4 DEF LogSent
  <2>6. ASSUME FinishRun(s) \/ LoseRun(s) PROVE CoveredBy(s)'
    BY <2>6, <1>3 DEF FinishRun, LoseRun
  <2> QED
    BY <2>1, <2>2, <2>3, <2>4, <2>5, <2>6 DEF JobStep
<1> QED
  BY <1>2, <1>5 DEF CoverInv

LEMMA CoverStep == TypeInv /\ CoverInv /\ [Next]_vars => CoverInv'
<1> SUFFICES ASSUME TypeInv, CoverInv, [Next]_vars PROVE CoverInv'
  OBVIOUS
<1>1. CASE Request
  BY <1>1, CoverRequest
<1>2. CASE NextDay
  BY <1>2 DEF CoverInv, CoveredBy, Handling, InHand, OwedNow, LiveDeadlines, NextDay,
     runVars
<1>3. ASSUME NEW s \in Schedulers, FireJob(s)
      PROVE  CoverInv'
  <2>1. /\ UNCHANGED <<holidays, deadline, alerts, expired, cur, held, key>>
        /\ LiveDeadlines' = LiveDeadlines
    BY <1>3 DEF FireJob, tables, LiveDeadlines
  <2>2. ASSUME NEW r \in Schedulers \ {s}
        PROVE  CoveredBy(r)'
    <3>1. /\ pc'[r] = pc[r] /\ runDay'[r] = runDay[r] /\ touched'[r] = touched[r]
          /\ snapshot'[r] = snapshot[r] /\ todo'[r] = todo[r]
      BY <1>3 DEF TypeInv, TypeOK, FireJob
    <3>2. \A d \in Deadlines : OwedNow(r, d)' = OwedNow(r, d)
      BY <2>1, <3>1 DEF OwedNow
    <3> QED
      BY <2>1, <3>1, <3>2 DEF CoverInv, CoveredBy, Handling, InHand, LiveDeadlines
  <2>3. CoveredBy(s)'
    <3>1. pc'[s] = "visit" /\ todo'[s] = LiveDeadlines /\ snapshot'[s] = deadline
      BY <1>3 DEF TypeInv, TypeOK, FireJob
    <3> QED
      BY <2>1, <3>1 DEF CoveredBy, Handling
  <2> QED
    BY <2>2, <2>3 DEF CoverInv
<1>4. ASSUME NEW s \in Schedulers, JobStep(s) \/ LoseRun(s)
      PROVE  CoverInv'
  BY <1>4, CoverJob
<1>5. CASE UNCHANGED vars
  BY <1>5 DEF CoverInv, CoveredBy, Handling, InHand, OwedNow, LiveDeadlines, vars,
     tables, runVars
<1> QED
  BY <1>1, <1>2, <1>3, <1>4, <1>5 DEF Next

\* As long as a run lasts, no deadline it has passed over lacks the alert it is
\* owed, unless a request changed that deadline or the calendar meanwhile.
THEOREM NoDeadlineIsLeftOut == Spec => []VisitedDeadlinesAreCovered
<1>1. Init => CoverInv
  BY DEF Init, CoverInv, CoveredBy
<1>2. CoverInv => VisitedDeadlinesAreCovered
  BY DEF CoverInv, CoveredBy, OwedNow, VisitedDeadlinesAreCovered
<1> QED
  BY <1>1, <1>2, CoverStep, TypeInvariant, PTL DEF Spec

-------------------------------------------------------------------------------
(* With a single scheduler process the alert job implements AlertLedger:   *)
(* its query-by-query runs amount to notifying, entering the ledger and    *)
(* removing a deadline with its entries.                                   *)

OneScheduler == \A s, r \in Schedulers : s = r

\* The values the refinement mapping gives to the ledger's variables.
EverNotified ==
    {a \in Deadlines \X AlertKeys : \E s \in Schedulers : notified[s][a] > 0}

Removed == created \ LiveDeadlines

\* What was read by Decide still holds at Notify, because nobody else writes to
\* the ledger; what Record enters has been notified.
LedgerInv ==
    \A s \in Schedulers :
        /\ pc[s] = "notify" => InHand(s) \notin alerts
        /\ pc[s] = "record" => notified[s][InHand(s)] > 0

LEMMA LedgerStep ==
    ASSUME OneScheduler
    PROVE  TypeInv /\ LedgerInv /\ [Next]_vars => LedgerInv'
<1> SUFFICES ASSUME TypeInv, LedgerInv, [Next]_vars PROVE LedgerInv'
  OBVIOUS
<1>1. CASE Request
  BY <1>1, RequestFrame DEF LedgerInv, InHand
<1>2. CASE NextDay
  BY <1>2 DEF LedgerInv, InHand, NextDay, runVars
<1>3. ASSUME NEW s \in Schedulers, FireJob(s)
      PROVE  LedgerInv'
  BY <1>3 DEF OneScheduler, TypeInv, TypeOK, LedgerInv, FireJob
<1>4. ASSUME NEW s \in Schedulers, JobStep(s)
      PROVE  LedgerInv'
  <2>1. CASE Decide(s)
    BY <2>1 DEF OneScheduler, TypeInv, TypeOK, LedgerInv, Decide, Skip, InHand
  <2>2. CASE Notify(s)
    <3>1. InHand(s) \in Deadlines \X AlertKeys
      BY <2>2 DEF TypeInv, TypeOK, RunsHoldWhatTheyHandle, Notify, InHand
    <3>2. notified'[s][InHand(s)] = notified[s][InHand(s)] + 1
      BY <2>2, <3>1 DEF TypeInv, TypeOK, Notify, InHand
    <3>3. notified[s][InHand(s)] \in Nat
      BY <3>1 DEF TypeInv, TypeOK
    <3>4. pc'[s] = "record" /\ InHand(s)' = InHand(s)
      BY <2>2 DEF TypeInv, TypeOK, Notify, InHand
    <3> QED
      BY <3>2, <3>3, <3>4 DEF OneScheduler, LedgerInv
  <2>3. CASE ~Decide(s) /\ ~Notify(s)
    <3>1. pc'[s] \in {"idle", "visit", "decide", "log"}
      BY <1>4, <2>3 DEF TypeInv, TypeOK, JobStep, Visit, Record, LogSent, FinishRun,
         EndRun, Skip
    <3> QED
      BY <3>1 DEF OneScheduler, LedgerInv
  <2> QED
    BY <2>1, <2>2, <2>3
<1>5. ASSUME NEW s \in Schedulers, LoseRun(s)
      PROVE  LedgerInv'
  BY <1>5 DEF OneScheduler, TypeInv, TypeOK, LedgerInv, LoseRun, EndRun
<1>6. CASE UNCHANGED vars
  BY <1>6 DEF LedgerInv, InHand, vars, runVars
<1> QED
  BY <1>1, <1>2, <1>3, <1>4, <1>5, <1>6 DEF Next

LEMMA RefinementInit == Init => Ledger!LedgerInit
  BY DEF Init, Ledger!LedgerInit, LiveDeadlines, NoRows

LEMMA RequestRefines ==
    ASSUME TypeInv, Request
    PROVE  \/ UNCHANGED <<EverNotified, alerts, Removed>>
           \/ \E d \in Deadlines :
                 /\ d \notin Removed
                 /\ Removed' = Removed \cup {d}
                 /\ alerts' = {a \in alerts : a[1] # d}
                 /\ UNCHANGED EverNotified
<1>1. UNCHANGED EverNotified
  BY RequestFrame DEF EverNotified
<1>2. ASSUME NEW d \in Deadlines, NEW u \in Creators, NEW due \in Days,
             CreateDeadline(d, u, due)
      PROVE  UNCHANGED <<alerts, Removed>>
  <2>1. [due_date |-> due, created_by |-> u] \in Rows
    BY DEF Rows
  <2>2. LiveDeadlines' = LiveDeadlines \cup {d}
    BY <1>2, <2>1, SentinelAssumption
       DEF TypeInv, TypeOK, CreateDeadline, LiveDeadlines
  <2> QED
    BY <1>2, <2>2 DEF CreateDeadline, Removed
<1>3. ASSUME NEW d \in Deadlines, NEW due \in Days, UpdateDeadline(d, due)
      PROVE  UNCHANGED <<alerts, Removed>>
  <2>1. deadline[d] \in Rows
    BY <1>3 DEF TypeInv, TypeOK, UpdateDeadline, LiveDeadlines
  <2>2. [deadline[d] EXCEPT !.due_date = due] \in Rows
    BY <2>1 DEF Rows
  <2>3. LiveDeadlines' = LiveDeadlines
    BY <1>3, <2>2, SentinelAssumption
       DEF TypeInv, TypeOK, UpdateDeadline, LiveDeadlines
  <2> QED
    BY <1>3, <2>3 DEF UpdateDeadline, Removed
<1>4. ASSUME NEW d \in Deadlines, DeleteDeadline(d)
      PROVE  /\ d \notin Removed /\ Removed' = Removed \cup {d}
             /\ alerts' = {a \in alerts : a[1] # d}
  <2>1. LiveDeadlines' = LiveDeadlines \ {d} /\ d \in LiveDeadlines
    BY <1>4 DEF TypeInv, TypeOK, DeleteDeadline, LiveDeadlines
  <2> QED
    BY <1>4, <2>1 DEF TypeInv, LiveWereCreated, DeleteDeadline, Removed
<1>5. ASSUME NEW h \in HolidayDates, EditCalendar(h)
      PROVE  UNCHANGED <<alerts, Removed>>
  BY <1>5 DEF EditCalendar, LiveDeadlines, Removed
<1> QED
  BY <1>1, <1>2, <1>3, <1>4, <1>5 DEF Request

LEMMA JobRefines ==
    ASSUME TypeInv, LedgerInv, NEW s \in Schedulers, JobStep(s)
    PROVE  /\ UNCHANGED Removed
           /\ \/ UNCHANGED <<EverNotified, alerts>>
              \/ /\ InHand(s) \in (Deadlines \X AlertKeys) \ alerts
                 /\ EverNotified' = EverNotified \cup {InHand(s)}
                 /\ UNCHANGED alerts
              \/ /\ InHand(s) \in EverNotified \ alerts
                 /\ cur[s] \notin Removed
                 /\ alerts' = alerts \cup {InHand(s)}
                 /\ UNCHANGED EverNotified
<1>1. UNCHANGED Removed
  BY DEF JobStep, Visit, Decide, Notify, Record, LogSent, FinishRun, tables, Removed,
     LiveDeadlines
<1>2. CASE Notify(s)
  <2>1. InHand(s) \in (Deadlines \X AlertKeys) \ alerts
    BY <1>2 DEF TypeInv, TypeOK, RunsHoldWhatTheyHandle, LedgerInv, Notify, InHand
  <2>2. ASSUME NEW r \in Schedulers, NEW a \in Deadlines \X AlertKeys
        PROVE  notified'[r][a] = IF r = s /\ a = InHand(s) THEN notified[r][a] + 1
                                                            ELSE notified[r][a]
    BY <1>2, <2>1 DEF TypeInv, TypeOK, Notify, InHand
  <2>3. \A r \in Schedulers, a \in Deadlines \X AlertKeys : notified[r][a] \in Nat
    BY DEF TypeInv, TypeOK
  <2>4. EverNotified' = EverNotified \cup {InHand(s)}
    BY <2>1, <2>2, <2>3 DEF EverNotified
  <2> QED
    BY <1>1, <1>2, <2>1, <2>4 DEF Notify
<1>3. CASE Record(s)
  <2>1. UNCHANGED EverNotified
    BY <1>3 DEF Record, EverNotified
  <2>2. InHand(s) \in EverNotified
    BY <1>3 DEF TypeInv, TypeOK, RunsHoldWhatTheyHandle, LedgerInv, Record, InHand,
       EverNotified
  <2> QED
    BY <1>1, <1>3, <2>1, <2>2 DEF Record, InHand, Removed
<1>4. CASE ~Notify(s) /\ ~Record(s)
  BY <1>1, <1>4 DEF JobStep, Visit, Decide, LogSent, FinishRun, EverNotified
<1> QED
  BY <1>2, <1>3, <1>4

LEMMA RefinementStep ==
    TypeInv /\ LedgerInv /\ [Next]_vars => [Ledger!LedgerNext]_(Ledger!lvars)
<1> SUFFICES ASSUME TypeInv, LedgerInv, [Next]_vars
             PROVE  \/ UNCHANGED <<EverNotified, alerts, Removed>>
                    \/ Ledger!LedgerNext
  BY DEF Ledger!lvars, EverNotified, Removed
<1>1. CASE Request
  BY <1>1, RequestRefines DEF Ledger!LedgerNext, Ledger!Remove, EverNotified, Removed
<1>2. ASSUME NEW s \in Schedulers, JobStep(s)
      PROVE  \/ UNCHANGED <<EverNotified, alerts, Removed>>
             \/ Ledger!LedgerNext
  <2>1. CASE UNCHANGED <<EverNotified, alerts, Removed>>
    BY <2>1
  <2>2. CASE /\ InHand(s) \in (Deadlines \X AlertKeys) \ alerts
             /\ EverNotified' = EverNotified \cup {InHand(s)}
             /\ UNCHANGED <<alerts, Removed>>
    <3>1. PICK d \in Deadlines, k \in AlertKeys : InHand(s) = <<d, k>>
      BY <2>2 DEF InHand
    <3>2. Ledger!NotifyOf(d, k)
      BY <2>2, <3>1 DEF Ledger!NotifyOf, EverNotified, Removed
    <3> QED
      BY <3>2 DEF Ledger!LedgerNext
  <2>3. CASE /\ InHand(s) \in EverNotified \ alerts
             /\ cur[s] \notin Removed
             /\ alerts' = alerts \cup {InHand(s)}
             /\ UNCHANGED <<EverNotified, Removed>>
    <3>1. PICK d \in Deadlines, k \in AlertKeys : InHand(s) = <<d, k>>
      BY <2>3 DEF InHand, EverNotified
    <3>2. Ledger!Enter(d, k)
      BY <2>3, <3>1 DEF Ledger!Enter, InHand, EverNotified, Removed
    <3> QED
      BY <3>2 DEF Ledger!LedgerNext
  <2> QED
    BY <1>2, <2>1, <2>2, <2>3, JobRefines
<1>3. CASE \/ NextDay
           \/ \E s \in Schedulers : FireJob(s) \/ LoseRun(s)
           \/ UNCHANGED vars
  BY <1>3 DEF NextDay, FireJob, LoseRun, vars, tables, EverNotified, Removed,
     LiveDeadlines
<1> QED
  BY <1>1, <1>2, <1>3 DEF Next

\* The deployed system (one scheduler process) keeps what AlertLedger promises,
\* for every number of deadlines, windows, requests and lost runs.
THEOREM LedgerImplemented ==
    ASSUME OneScheduler
    PROVE  Spec => ImplementsLedger
<1>1. Init => LedgerInv
  BY DEF Init, LedgerInv
<1>2. Spec => []LedgerInv
  BY <1>1, LedgerStep, TypeInvariant, PTL DEF Spec
<1> QED
  BY <1>2, RefinementInit, RefinementStep, TypeInvariant, PTL
     DEF Spec, ImplementsLedger, Ledger!LedgerSpec

-------------------------------------------------------------------------------
(* Alerts only escalate, with a single scheduler process.                  *)

\* The deadline is in the window of the alert, or past due for the last one.
InWindow(k, due, day, off) ==
    IF k = EXPIRED_DAYS_BEFORE THEN due < day
                               ELSE BusinessDaysUntil(due, day, off) <= k

\* A deadline due on `due` is, on `day`, in every window already used for d.
Fits(used, d, due, day, off) ==
    \A k \in AlertKeys : <<d, k>> \in used => InWindow(k, due, day, off)

\* What the run of s, in the middle of its work, knows about the alerts of d:
\* they fit d's current row, the row of its snapshot and the row it holds, and
\* the alert it is about to record is in a tighter window than all of them.
RunFits(s, d) ==
    /\ Fits(alerts, d, deadline[d].due_date, runDay[s], holidays)
    /\ snapshot[s][d] # NoDeadline =>
          Fits(alerts, d, snapshot[s][d].due_date, runDay[s], holidays)
    /\ pc[s] \in {"decide", "notify", "record"} /\ cur[s] = d =>
          Fits(alerts, d, held[s].due_date, runDay[s], holidays)
    /\ pc[s] \in {"notify", "record"} /\ cur[s] = d =>
          /\ InWindow(key[s], held[s].due_date, runDay[s], holidays)
          /\ \A k \in AlertKeys : <<d, k>> \in alerts => key[s] < k

EscalationInv ==
    \A d \in LiveDeadlines \ eased :
        /\ Fits(alerts, d, deadline[d].due_date, today, holidays)
        /\ \A s \in Schedulers : pc[s] # "idle" => RunFits(s, d)

\* business_days_until never grows when the due date moves closer, time passes
\* or a holiday is declared.
LEMMA DaysLeftShrink ==
    ASSUME NEW due \in Int, NEW day \in Int, NEW off,
           NEW sooner \in Int, NEW later \in Int, NEW more,
           sooner <= due, day <= later, off \subseteq more
    PROVE  /\ BusinessDaysUntil(due, day, off) \in Nat
           /\ BusinessDaysUntil(sooner, later, more) \in Nat
           /\ BusinessDaysUntil(sooner, later, more) <= BusinessDaysUntil(due, day, off)
<1> DEFINE before == {d \in (day + 1)..due : IsBusinessDay(d, off)}
           after == {d \in (later + 1)..sooner : IsBusinessDay(d, more)}
<1>1. after \subseteq before
  BY DEF IsBusinessDay
<1>2. IsFiniteSet((day + 1)..due)
  BY FS_Interval
<1>3. IsFiniteSet(before) /\ IsFiniteSet(after) /\ Cardinality(after) <= Cardinality(before)
  <2>1. before \subseteq (day + 1)..due
    OBVIOUS
  <2> HIDE DEF before, after
  <2> QED
    BY <1>1, <1>2, <2>1, FS_Subset
<1>4. Cardinality(before) \in Nat /\ Cardinality(after) \in Nat
  <2> HIDE DEF before, after
  <2> QED
    BY <1>3, FS_CardinalityType
<1>5. /\ BusinessDaysUntil(due, day, off) = IF due <= day THEN 0 ELSE Cardinality(before)
      /\ BusinessDaysUntil(sooner, later, more)
            = IF sooner <= later THEN 0 ELSE Cardinality(after)
  BY DEF BusinessDaysUntil
<1> HIDE DEF before, after
<1> QED
  BY <1>3, <1>4, <1>5

\* A deadline stays in the window of an alert.
LEMMA WindowsStay ==
    ASSUME NEW k \in AlertKeys, NEW due \in Int, NEW day \in Int, NEW off,
           NEW sooner \in Int, NEW later \in Int, NEW more,
           sooner <= due, day <= later, off \subseteq more,
           InWindow(k, due, day, off)
    PROVE  InWindow(k, sooner, later, more)
<1>1. k = EXPIRED_DAYS_BEFORE \/ k \in Nat
  BY IntervalsAssumption DEF AlertKeys
<1> DEFINE before == BusinessDaysUntil(due, day, off)
           after == BusinessDaysUntil(sooner, later, more)
<1>2. before \in Nat /\ after \in Nat /\ after <= before
  BY DaysLeftShrink
<1>3. CASE k = EXPIRED_DAYS_BEFORE
  <2>1. due < day
    BY <1>3 DEF InWindow
  <2>2. sooner < later
    BY <2>1
  <2> QED
    BY <1>3, <2>2 DEF InWindow
<1>4. CASE k # EXPIRED_DAYS_BEFORE
  <2>1. before <= k
    BY <1>4 DEF InWindow
  <2>2. after <= k
    <3> HIDE DEF before, after
    <3> QED
      BY <1>1, <1>2, <1>4, <2>1
  <2> QED
    BY <1>4, <2>2 DEF InWindow
<1> QED
  BY <1>3, <1>4

LEMMA FitsStay ==
    ASSUME NEW due \in Int, NEW day \in Int, NEW off, NEW used, NEW d,
           NEW sooner \in Int, NEW later \in Int, NEW more, NEW fewer,
           sooner <= due, day <= later, off \subseteq more, fewer \subseteq used,
           Fits(used, d, due, day, off)
    PROVE  Fits(fewer, d, sooner, later, more)
  BY WindowsStay DEF Fits

\* The alert owed is in its own window, and it is the tightest one: as wide as
\* no window the deadline is in.
LEMMA OwedIsTightest ==
    ASSUME NEW due \in Int, NEW day \in Int, NEW off
    PROVE  LET owed == AlertDue(due, day, off, Intervals)
           IN  /\ owed # NoInterval => InWindow(owed, due, day, off)
               /\ \A k \in AlertKeys : InWindow(k, due, day, off) => owed <= k
<1> DEFINE owed == AlertDue(due, day, off, Intervals)
           left == BusinessDaysUntil(due, day, off)
           inside == {i \in Intervals : left <= i}
<1>1. left \in Nat
  BY DaysLeftShrink
<1>2. \A k \in AlertKeys : k = EXPIRED_DAYS_BEFORE \/ (k \in Nat /\ k \in Intervals)
  BY IntervalsAssumption DEF AlertKeys
<1>3. CASE due < day
  <2>1. owed = EXPIRED_DAYS_BEFORE
    BY <1>3 DEF AlertDue
  <2> HIDE DEF owed
  <2>2. \A k \in AlertKeys : owed <= k
    BY <1>2, <2>1 DEF EXPIRED_DAYS_BEFORE
  <2>3. InWindow(owed, due, day, off)
    BY <1>3, <2>1 DEF InWindow
  <2> QED
    BY <2>2, <2>3 DEF owed
<1>4. CASE ~(due < day)
  <2>1. owed = SmallestInterval(Intervals, left)
    BY <1>4 DEF AlertDue
  <2>2. \A k : InWindow(k, due, day, off) => k # EXPIRED_DAYS_BEFORE /\ left <= k
    BY <1>4 DEF InWindow
  <2>3. CASE inside = {}
    <3>1. owed = NoInterval
      BY <2>1, <2>3 DEF SmallestInterval
    <3>2. \A k \in AlertKeys : ~InWindow(k, due, day, off)
      BY <1>2, <2>2, <2>3
    <3> QED
      BY <3>1, <3>2
  <2>4. CASE inside # {}
    <3>1. owed = Min(inside)
      BY <2>1, <2>4 DEF SmallestInterval
    <3>2. owed \in inside /\ \A i \in inside : owed <= i
      BY <2>4, <3>1, MinOfNaturals, IntervalsAssumption
    <3>3. owed # EXPIRED_DAYS_BEFORE
      BY <3>2, IntervalsAssumption DEF EXPIRED_DAYS_BEFORE
    <3>4. InWindow(owed, due, day, off)
      BY <3>2, <3>3 DEF InWindow
    <3>5. \A k \in AlertKeys : InWindow(k, due, day, off) => owed <= k
      BY <1>2, <2>2, <3>2
    <3> QED
      BY <3>4, <3>5
  <2> QED
    BY <2>3, <2>4
<1> QED
  BY <1>3, <1>4
LEMMA RequestEscalates ==
    ASSUME TypeInv, TypeInv', TruthAll, EscalationInv, Request
    PROVE  EscalationInv'
<1> SUFFICES ASSUME NEW d \in LiveDeadlines' \ eased'
             PROVE  /\ Fits(alerts', d, deadline'[d].due_date, today', holidays')
                    /\ \A s \in Schedulers : pc'[s] # "idle" => RunFits(s, d)'
  BY DEF EscalationInv
<1>1. /\ UNCHANGED <<pc, runDay, todo, snapshot, expired, cur, held, key, today>>
      /\ alerts' \subseteq alerts
  BY RequestFrame
<1>2. holidays \subseteq holidays'
  <2>1. ASSUME NEW h \in HolidayDates, EditCalendar(h)
        PROVE  holidays \subseteq holidays'
    BY <2>1 DEF EditCalendar, LiveDeadlines
  <2> QED
    BY <2>1 DEF Request, CreateDeadline, UpdateDeadline, DeleteDeadline
<1>3. CASE d \notin created
  <2>1. \A k \in AlertKeys : <<d, k>> \notin alerts'
    BY <1>1, <1>3 DEF TypeInv, LiveWereCreated, TruthAll, AlertsBelongToLive
  <2>2. \A s \in Schedulers :
           pc[s] \in {"decide", "notify", "record"} => cur[s] # d
    BY <1>3 DEF TypeInv, RunsHoldWhatTheyHandle
  <2> QED
    BY <1>1, <2>1, <2>2 DEF Fits, RunFits
<1>4. CASE d \in LiveDeadlines \ eased /\ deadline'[d].due_date <= deadline[d].due_date
  <2>1. deadline'[d].due_date \in Int /\ deadline[d].due_date \in Int /\ today \in Int
    <3>1. deadline[d] \in Rows /\ deadline'[d] \in Rows
      BY <1>4 DEF TypeInv, TypeOK, LiveDeadlines
    <3> QED
      BY <3>1, DueDatesAreIntegers
  <2>2. Fits(alerts', d, deadline'[d].due_date, today', holidays')
    <3>1. Fits(alerts, d, deadline[d].due_date, today, holidays)
      BY <1>4 DEF EscalationInv
    <3> QED
      BY <1>1, <1>2, <1>4, <2>1, <3>1, FitsStay
  <2>3. ASSUME NEW s \in Schedulers, pc'[s] # "idle"
        PROVE  RunFits(s, d)'
    <3>1. runDay[s] \in Int /\ RunFits(s, d)
      BY <1>1, <1>4, <2>3, DueDatesAreIntegers DEF EscalationInv
    <3>2. Fits(alerts', d, deadline'[d].due_date, runDay[s], holidays')
      BY <1>1, <1>2, <1>4, <2>1, <3>1, FitsStay DEF RunFits
    <3>3. snapshot[s][d] # NoDeadline =>
             Fits(alerts', d, snapshot[s][d].due_date, runDay[s], holidays')
      <4>1. snapshot[s][d] # NoDeadline => snapshot[s][d].due_date \in Int
        <5>1. snapshot[s][d] \in Rows \cup {NoDeadline}
          BY <1>4 DEF TypeInv, TypeOK, LiveDeadlines
        <5> QED
          BY <5>1, DueDatesAreIntegers
      <4> QED
        BY <1>1, <1>2, <3>1, <4>1, FitsStay DEF RunFits
    <3>4. pc[s] \in {"decide", "notify", "record"} => held[s].due_date \in Int
      BY DueDatesAreIntegers DEF TypeInv, RunsHoldWhatTheyHandle
    <3>5. pc[s] \in {"decide", "notify", "record"} /\ cur[s] = d =>
             Fits(alerts', d, held[s].due_date, runDay[s], holidays')
      BY <1>1, <1>2, <3>1, <3>4, FitsStay DEF RunFits
    <3>6. pc[s] \in {"notify", "record"} /\ cur[s] = d =>
             InWindow(key[s], held[s].due_date, runDay[s], holidays')
      BY <1>2, <3>1, <3>4, WindowsStay DEF RunFits, TypeInv, RunsHoldWhatTheyHandle
    <3> QED
      BY <1>1, <3>1, <3>2, <3>3, <3>5, <3>6 DEF RunFits
  <2> QED
    BY <2>2, <2>3
<1> QED
  BY <1>3, <1>4, SurvivorsMoveCloser

\* A step of the only run, given what it leaves the run with.
LEMMA RunEscalates ==
    ASSUME TypeInv, EscalationInv, OneScheduler, NEW s \in Schedulers,
           UNCHANGED <<tables, alerts>>,
           \A d \in LiveDeadlines \ eased : pc'[s] # "idle" => RunFits(s, d)'
    PROVE  EscalationInv'
<1>1. /\ LiveDeadlines' = LiveDeadlines /\ UNCHANGED <<alerts, deadline, today, holidays, eased>>
      /\ \A r \in Schedulers : r = s
  BY DEF tables, LiveDeadlines, OneScheduler
<1> QED
  BY <1>1 DEF EscalationInv

LEMMA JobEscalates ==
    ASSUME TypeInv, TruthAll, EscalationInv, OneScheduler,
           NEW s \in Schedulers, JobStep(s) \/ LoseRun(s) \/ FireJob(s)
    PROVE  EscalationInv'
<1>1. ASSUME EndRun(s), UNCHANGED <<tables, alerts>>
      PROVE  EscalationInv'
  <2>1. pc'[s] = "idle"
    BY <1>1 DEF TypeInv, TypeOK, EndRun
  <2> QED
    BY <1>1, <2>1, RunEscalates
<1>2. ASSUME NEW e \in Deadlines, pc[s] # "idle", Skip(s, e),
             UNCHANGED <<tables, alerts>>
      PROVE  EscalationInv'
  <2>1. /\ pc'[s] = "visit" /\ runDay'[s] = runDay[s]
        /\ \A d \in Deadlines : snapshot'[s][d] \in {NoDeadline, snapshot[s][d]}
    BY <1>2 DEF TypeInv, TypeOK, Skip
  <2>2. ASSUME NEW d \in LiveDeadlines \ eased
        PROVE  RunFits(s, d)'
    <3>1. RunFits(s, d) /\ d \in Deadlines
      BY <1>2 DEF EscalationInv, LiveDeadlines
    <3> QED
      BY <1>2, <2>1, <3>1 DEF RunFits, tables
  <2> QED
    BY <1>2, <2>2, RunEscalates
<1>3. ASSUME FireJob(s) PROVE EscalationInv'
  <2>1. /\ UNCHANGED <<tables, alerts>>
        /\ pc'[s] = "visit" /\ runDay'[s] = today /\ snapshot'[s] = deadline
    BY <1>3 DEF TypeInv, TypeOK, FireJob
  <2>2. ASSUME NEW d \in LiveDeadlines \ eased
        PROVE  RunFits(s, d)'
    <3>1. Fits(alerts, d, deadline[d].due_date, today, holidays)
      BY DEF EscalationInv
    <3> QED
      BY <2>1, <3>1 DEF RunFits, tables
  <2> QED
    BY <2>1, <2>2, RunEscalates
<1>4. ASSUME NEW e \in Deadlines, Visit(s, e) PROVE EscalationInv'
  <2>1. UNCHANGED <<tables, alerts>> /\ pc[s] = "visit"
    BY <1>4 DEF Visit
  <2>2. CASE EndRun(s) \/ Skip(s, e)
    BY <1>1, <1>2, <2>1, <2>2
  <2>3. CASE /\ Loaded(s, e) # NoDeadline
             /\ pc' = [pc EXCEPT ![s] = "decide"]
             /\ cur' = [cur EXCEPT ![s] = e]
             /\ held' = [held EXCEPT ![s] = Loaded(s, e)]
             /\ UNCHANGED <<runDay, todo, snapshot, expired, key>>
    <3>1. /\ pc'[s] = "decide" /\ cur'[s] = e /\ held'[s] = Loaded(s, e)
          /\ runDay' = runDay /\ snapshot' = snapshot
      BY <2>3 DEF TypeInv, TypeOK
    <3>2. ASSUME NEW d \in LiveDeadlines \ eased
          PROVE  RunFits(s, d)'
      <4>1. RunFits(s, d)
        BY <2>1 DEF EscalationInv
      <4>2. Loaded(s, d) # NoDeadline =>
               Fits(alerts, d, Loaded(s, d).due_date, runDay[s], holidays)
        BY <4>1 DEF RunFits, Loaded
      <4> QED
        BY <2>1, <2>3, <3>1, <4>1, <4>2 DEF RunFits, tables
    <3> QED
      BY <2>1, <3>2, RunEscalates
  <2> QED
    BY <1>4, <2>2, <2>3 DEF Visit
<1>5. ASSUME Decide(s) PROVE EscalationInv'
  <2> DEFINE owed == AlertDue(held[s].due_date, runDay[s], holidays, Intervals)
  <2>1. /\ UNCHANGED <<tables, alerts>> /\ pc[s] = "decide"
        /\ cur[s] \in Deadlines /\ held[s].due_date \in Int /\ runDay[s] \in Int
    BY <1>5, DueDatesAreIntegers DEF Decide, TypeInv, TypeOK, RunsHoldWhatTheyHandle
  <2>2. CASE Skip(s, cur[s])
    BY <1>2, <2>1, <2>2
  <2>3. /\ owed # NoInterval => InWindow(owed, held[s].due_date, runDay[s], holidays)
        /\ \A k \in AlertKeys :
              InWindow(k, held[s].due_date, runDay[s], holidays) => owed <= k
        /\ owed \in AlertKeys \cup {NoInterval}
    BY <2>1, OwedIsTightest, AlertDueRange
  <2>4. CASE /\ owed # NoInterval
             /\ <<cur[s], owed>> \notin alerts
             /\ pc' = [pc EXCEPT ![s] = "notify"]
             /\ key' = [key EXCEPT ![s] = owed]
             /\ UNCHANGED <<runDay, todo, snapshot, expired, cur, held>>
    <3> HIDE DEF owed
    <3>1. pc'[s] = "notify" /\ key'[s] = owed
      BY <2>4 DEF TypeInv, TypeOK
    <3>2. \A k \in AlertKeys : k \in Int
      BY IntervalsAssumption DEF AlertKeys, EXPIRED_DAYS_BEFORE
    <3>3. ASSUME NEW d \in LiveDeadlines \ eased
          PROVE  RunFits(s, d)'
      <4>1. RunFits(s, d)
        BY <2>1 DEF EscalationInv
      <4>2. ASSUME cur[s] = d, NEW k \in AlertKeys, <<d, k>> \in alerts
            PROVE  owed < k
        <5>1. InWindow(k, held[s].due_date, runDay[s], holidays)
          BY <2>1, <4>1, <4>2 DEF RunFits, Fits
        <5>2. owed <= k /\ owed # k /\ owed \in AlertKeys
          BY <2>3, <2>4, <4>2, <5>1
        <5> QED
          BY <3>2, <5>2
      <4> QED
        BY <2>1, <2>3, <2>4, <3>1, <4>1, <4>2 DEF RunFits, tables
    <3> QED
      BY <2>1, <3>3, RunEscalates
  <2> QED
    BY <1>5, <2>2, <2>4 DEF Decide
<1>6. ASSUME Notify(s) PROVE EscalationInv'
  <2>1. /\ UNCHANGED <<tables, alerts, runDay, snapshot, cur, held, key>>
        /\ pc[s] = "notify" /\ pc'[s] = "record"
    BY <1>6 DEF Notify, TypeInv, TypeOK
  <2>2. ASSUME NEW d \in LiveDeadlines \ eased
        PROVE  RunFits(s, d)'
    <3>1. RunFits(s, d)
      BY <2>1 DEF EscalationInv
    <3> QED
      BY <2>1, <3>1 DEF RunFits, tables
  <2> QED
    BY <2>1, <2>2, RunEscalates
<1>7. ASSUME Record(s) PROVE EscalationInv'
  <2>1. /\ UNCHANGED tables /\ pc[s] = "record"
        /\ LiveDeadlines' = LiveDeadlines
        /\ UNCHANGED <<today, holidays, deadline, eased>>
    BY <1>7 DEF Record, tables, LiveDeadlines
  <2>2. CASE EndRun(s) /\ UNCHANGED alerts
    BY <1>1, <2>1, <2>2
  <2>3. CASE /\ alerts' = alerts \cup {<<cur[s], key[s]>>}
             /\ pc' = [pc EXCEPT ![s] = "log"]
             /\ snapshot' = [snapshot EXCEPT ![s] = NoRows]
             /\ UNCHANGED <<runDay, todo, cur, held, key>>
    <3>1. /\ pc'[s] = "log" /\ runDay' = runDay
          /\ \A d \in Deadlines : snapshot'[s][d] = NoDeadline
      BY <2>3 DEF TypeInv, TypeOK, NoRows
    <3>2. ASSUME NEW d \in LiveDeadlines \ eased
          PROVE  /\ Fits(alerts', d, deadline[d].due_date, today, holidays)
                 /\ Fits(alerts', d, deadline[d].due_date, runDay[s], holidays)
      <4>1. /\ Fits(alerts, d, deadline[d].due_date, today, holidays)
            /\ RunFits(s, d)
        BY <2>1 DEF EscalationInv
      <4>2. CASE cur[s] # d
        BY <2>3, <4>1, <4>2 DEF Fits, RunFits
      <4>3. CASE cur[s] = d
        <5>1. /\ deadline[d].due_date \in Int /\ held[s].due_date \in Int
              /\ runDay[s] \in Int /\ today \in Int /\ key[s] \in AlertKeys
          BY <2>1, DueDatesAreIntegers DEF TypeInv, RunsHoldWhatTheyHandle
        <5>2. deadline[d].due_date <= held[s].due_date /\ runDay[s] <= today
          BY <2>1, <4>3 DEF TruthAll, TruthInv, Handling
        <5>3. InWindow(key[s], held[s].due_date, runDay[s], holidays)
          BY <2>1, <4>1, <4>3 DEF RunFits
        <5>4. /\ InWindow(key[s], deadline[d].due_date, today, holidays)
              /\ InWindow(key[s], deadline[d].due_date, runDay[s], holidays)
          BY <5>1, <5>2, <5>3, WindowsStay
        <5> QED
          BY <2>3, <4>1, <4>3, <5>4 DEF Fits, RunFits
      <4> QED
        BY <4>2, <4>3
    <3>3. ASSUME NEW d \in LiveDeadlines \ eased
          PROVE  RunFits(s, d)'
      <4>1. d \in Deadlines
        BY DEF LiveDeadlines
      <4> QED
        BY <2>1, <3>1, <3>2, <4>1 DEF RunFits
    <3> QED
      BY <2>1, <3>2, <3>3 DEF EscalationInv, OneScheduler
  <2> QED
    BY <1>7, <2>2, <2>3 DEF Record
<1>8. ASSUME LogSent(s) PROVE EscalationInv'
  <2>1. UNCHANGED <<tables, alerts>> /\ pc[s] = "log" /\ cur[s] \in Deadlines
    BY <1>8 DEF LogSent, TypeInv, TypeOK, RunsHoldWhatTheyHandle
  <2> QED
    BY <1>8, <2>1, <1>1, <1>2 DEF LogSent
<1>9. ASSUME FinishRun(s) \/ LoseRun(s) PROVE EscalationInv'
  BY <1>9, <1>1 DEF FinishRun, LoseRun
<1> QED
  BY <1>3, <1>4, <1>5, <1>6, <1>7, <1>8, <1>9 DEF JobStep

LEMMA EscalationStep ==
    ASSUME OneScheduler
    PROVE  TypeInv /\ TypeInv' /\ TruthAll /\ EscalationInv /\ [Next]_vars
              => EscalationInv'
<1> SUFFICES ASSUME TypeInv, TypeInv', TruthAll, EscalationInv, [Next]_vars
             PROVE  EscalationInv'
  OBVIOUS
<1>1. CASE NextDay
  <2>1. /\ UNCHANGED <<pc, runDay, snapshot, cur, held, key, alerts, deadline,
                       holidays, eased>>
        /\ LiveDeadlines' = LiveDeadlines
        /\ today \in Int /\ today' \in Int /\ today <= today'
    BY <1>1, DueDatesAreIntegers DEF NextDay, runVars, LiveDeadlines
  <2>2. ASSUME NEW d \in LiveDeadlines \ eased
        PROVE  Fits(alerts, d, deadline[d].due_date, today', holidays)
    <3>1. deadline[d].due_date \in Int
      BY DueDatesAreIntegers
    <3>2. Fits(alerts, d, deadline[d].due_date, today, holidays)
      BY DEF EscalationInv
    <3> QED
      BY <2>1, <3>1, <3>2, FitsStay
  <2> QED
    BY <2>1, <2>2 DEF EscalationInv, RunFits
<1>2. CASE UNCHANGED vars
  BY <1>2 DEF vars, tables, runVars, EscalationInv, RunFits, LiveDeadlines
<1> QED
  BY <1>1, <1>2, RequestEscalates, JobEscalates DEF Next

\* What a step that records an alert finds on record.
LEMMA RecordEscalates ==
    ASSUME OneScheduler
    PROVE  TypeInv /\ EscalationInv /\ [Next]_vars =>
              [\A a \in alerts' \ alerts :
                  a[1] \notin eased =>
                     \A b \in alerts : b[1] = a[1] => a[2] < b[2]]_vars
<1> SUFFICES ASSUME TypeInv, EscalationInv, [Next]_vars,
                    NEW a \in alerts' \ alerts, a[1] \notin eased,
                    NEW b \in alerts, b[1] = a[1]
             PROVE  a[2] < b[2]
  OBVIOUS
<1>1. PICK s \in Schedulers : Record(s)
  BY RequestFrame DEF Next, NextDay, FireJob, LoseRun, JobStep, Visit, Decide, Notify,
     LogSent, FinishRun, vars
<1>2. /\ pc[s] = "record" /\ cur[s] \in LiveDeadlines /\ a = <<cur[s], key[s]>>
  BY <1>1 DEF Record
<1>3. PICK k \in AlertKeys : b = <<cur[s], k>>
  BY <1>2 DEF TypeInv, TypeOK
<1>4. RunFits(s, cur[s])
  BY <1>2 DEF EscalationInv
<1> QED
  BY <1>2, <1>3, <1>4 DEF RunFits

\* With one scheduler process, the alerts on record of a deadline only ever get
\* more urgent, unless its due date moved away or a holiday was withdrawn.
THEOREM AlertsEscalate ==
    ASSUME OneScheduler
    PROVE  Spec => AlertsOnlyEscalate
<1>1. Init => EscalationInv
  BY DEF Init, EscalationInv, LiveDeadlines, NoRows
<1>2. Spec => [](TypeInv /\ TruthAll)
  BY TruthInit, TruthStep, TypeInvariant, PTL DEF Spec
<1>3. Spec => []EscalationInv
  BY <1>1, <1>2, EscalationStep, PTL DEF Spec
<1> QED
  BY <1>2, <1>3, RecordEscalates, PTL DEF Spec, AlertsOnlyEscalate
===============================================================================
