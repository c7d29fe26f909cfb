------------------------- MODULE DeadlineAlertsProofs --------------------------
(***************************************************************************)
(* Theorems about the daily alert job, for every set of deadlines,         *)
(* scheduler processes, alert windows and days.                            *)
(***************************************************************************)
EXTENDS DeadlineAlerts, FiniteSetTheorems, WellFoundedInduction, TLAPS

-------------------------------------------------------------------------------
(* The alert a deadline is owed.                                           *)

\* _smallest_interval's min() of a nonempty list of windows is one of them.
LEMMA MinOfNaturals ==
    ASSUME NEW S \in SUBSET Nat, S # {}
    PROVE  Min(S) \in S /\ \A x \in S : Min(S) <= x
<1>1. PICK x \in S : \A y \in S : <<y, x>> \notin OpToRel(<, Nat)
  BY NatLessThanWellFounded, WFMin, Zenon
<1>2. \A y \in S : ~(y < x)
  BY <1>1, Zenon DEF OpToRel
<1>3. \A y \in S : x <= y
  BY <1>2
<1> QED
  BY <1>3 DEF Min

\* AlertDue returns one of the keys of the deadline_alert table or nothing, and
\* the DEADLINE_EXPIRED key exactly for an overdue deadline.
LEMMA AlertDueRange ==
    ASSUME NEW due, NEW day, NEW off
    PROVE  /\ AlertDue(due, day, off, Intervals) \in AlertKeys \cup {NoInterval}
           /\ AlertDue(due, day, off, Intervals) = EXPIRED_DAYS_BEFORE
                <=> due < day
<1> DEFINE left == BusinessDaysUntil(due, day, off)
           inside == {i \in Intervals : left <= i}
<1> HIDE DEF left
<1>1. inside \in SUBSET Nat
  BY IntervalsAssumption
<1>2. SmallestInterval(Intervals, left) \in Intervals \cup {NoInterval}
  <2>1. CASE inside = {}
    BY <2>1 DEF SmallestInterval
  <2>2. CASE inside # {}
    <3>1. Min(inside) \in inside
      BY <1>1, <2>2, MinOfNaturals
    <3> QED
      BY <2>2, <3>1 DEF SmallestInterval
  <2> QED
    BY <2>1, <2>2
<1>3. EXPIRED_DAYS_BEFORE \notin Intervals \cup {NoInterval}
  BY IntervalsAssumption DEF EXPIRED_DAYS_BEFORE, NoInterval
<1> QED
  BY <1>2, <1>3 DEF AlertDue, AlertKeys, left

-------------------------------------------------------------------------------
(* Type correctness.  TypeOK alone is not inductive: that a run which reached *)
(* _send_alert holds a deadline, its row and a key is a fact about control.   *)

RunTypeOK ==
    /\ pc \in [Schedulers ->
                {"idle", "visit", "decide", "notify", "record", "log"}]
    /\ runDay \in [Schedulers -> Days]
    /\ todo \in [Schedulers -> SUBSET Deadlines]
    /\ snapshot \in [Schedulers -> [Deadlines -> Rows \cup {NoDeadline}]]
    /\ expired \in [Schedulers -> BOOLEAN]
    /\ cur \in [Schedulers -> Deadlines \cup {NoDeadline}]
    /\ held \in [Schedulers -> Rows \cup {NoDeadline}]
    /\ key \in [Schedulers -> AlertKeys \cup {NoInterval}]

TableTypeOK ==
    /\ today \in Days
    /\ holidays \subseteq HolidayDates
    /\ created \subseteq Deadlines
    /\ deadline \in [Deadlines -> Rows \cup {NoDeadline}]
    /\ edits \in 0..MaxEdits
    /\ eased \subseteq Deadlines

RestTypeOK ==
    /\ alerts \subseteq Deadlines \X AlertKeys
    /\ fired \in [Schedulers -> BOOLEAN]
    /\ notified \in [Schedulers -> [Deadlines \X AlertKeys -> Nat]]
    /\ lost \in [Schedulers -> 0..MaxLost]
    /\ touched \in [Schedulers -> SUBSET Deadlines]

RunsHoldWhatTheyHandle ==
    \A s \in Schedulers :
        /\ pc[s] \in {"decide", "notify", "record", "log"} =>
              cur[s] \in created /\ held[s] \in Rows
        /\ pc[s] \in {"notify", "record", "log"} => key[s] \in AlertKeys
        /\ todo[s] \subseteq created

LiveWereCreated == LiveDeadlines \subseteq created

TypeInv == TypeOK /\ RunsHoldWhatTheyHandle /\ LiveWereCreated

LEMMA TypeInit == Init => TypeInv
<1> SUFFICES ASSUME Init PROVE TypeInv
  OBVIOUS
<1>1. 0 \in 0..MaxEdits /\ 0 \in 0..MaxLost /\ FirstDay \in Days
  BY BoundsAssumption, DaysAssumption DEF Days
<1>2. TypeOK
  BY <1>1 DEF Init, TypeOK, NoRows
<1>3. RunsHoldWhatTheyHandle /\ LiveWereCreated
  BY DEF Init, RunsHoldWhatTheyHandle, LiveWereCreated, LiveDeadlines, NoRows
<1> QED
  BY <1>2, <1>3 DEF TypeInv

\* Ending a run or passing to the next deadline leaves the run well formed.
LEMMA EndRunTypes ==
    ASSUME TypeInv, NEW s \in Schedulers, EndRun(s)
    PROVE  RunTypeOK' /\ (created' = created => RunsHoldWhatTheyHandle')
<1>1. FirstDay \in Days
  BY DaysAssumption DEF Days
<1>2. RunTypeOK'
  BY <1>1 DEF TypeInv, TypeOK, RunTypeOK, EndRun, NoRows
<1>3. created' = created => RunsHoldWhatTheyHandle'
  BY DEF TypeInv, TypeOK, EndRun, RunsHoldWhatTheyHandle
<1> QED
  BY <1>2, <1>3

LEMMA SkipTypes ==
    ASSUME TypeInv, NEW s \in Schedulers, NEW d \in Deadlines, Skip(s, d)
    PROVE  RunTypeOK' /\ (created' = created => RunsHoldWhatTheyHandle')
<1>1. RunTypeOK'
  BY DEF TypeInv, TypeOK, RunTypeOK, Skip
<1>2. created' = created => RunsHoldWhatTheyHandle'
  BY DEF TypeInv, TypeOK, Skip, RunsHoldWhatTheyHandle
<1> QED
  BY <1>1, <1>2

\* Requests do not touch the runs.
LEMMA RequestFrame ==
    ASSUME Request
    PROVE  /\ UNCHANGED <<pc, runDay, todo, snapshot, expired, cur, held, key>>
           /\ UNCHANGED <<today, fired, notified, lost>>
           /\ alerts' \subseteq alerts
  BY DEF Request, CreateDeadline, UpdateDeadline, DeleteDeadline, EditCalendar,
         runVars

LEMMA RequestTypes == TypeInv /\ Request => TypeInv'
<1> SUFFICES ASSUME TypeInv, Request PROVE TypeInv'
  OBVIOUS
<1>1. RunTypeOK'
  BY RequestFrame DEF TypeInv, TypeOK, RunTypeOK
<1>2. touched' \in [Schedulers -> SUBSET Deadlines]
  BY DEF TypeInv, TypeOK, Request, CreateDeadline, UpdateDeadline, DeleteDeadline,
         EditCalendar
<1>3. RestTypeOK'
  BY <1>2, RequestFrame DEF TypeInv, TypeOK, RestTypeOK
<1>4. TableTypeOK'
  <2>1. ASSUME NEW d \in Deadlines, NEW u \in Creators, NEW due \in Days,
               CreateDeadline(d, u, due)
        PROVE  TableTypeOK'
    BY <2>1 DEF TypeInv, TypeOK, TableTypeOK, CreateDeadline, Rows
  <2>2. ASSUME NEW d \in Deadlines, NEW due \in Days, UpdateDeadline(d, due)
        PROVE  TableTypeOK'
    <3>1. deadline[d] \in Rows /\ edits + 1 \in 0..MaxEdits
      BY <2>2, BoundsAssumption DEF TypeInv, TypeOK, UpdateDeadline, LiveDeadlines
    <3>2. [deadline[d] EXCEPT !.due_date = due] \in Rows
      BY <3>1 DEF Rows
    <3> QED
      BY <2>2, <3>1, <3>2 DEF TypeInv, TypeOK, TableTypeOK, UpdateDeadline
  <2>3. ASSUME NEW d \in Deadlines, DeleteDeadline(d)
        PROVE  TableTypeOK'
    BY <2>3 DEF TypeInv, TypeOK, TableTypeOK, DeleteDeadline
  <2>4. ASSUME NEW h \in HolidayDates, EditCalendar(h)
        PROVE  TableTypeOK'
    BY <2>4, BoundsAssumption DEF TypeInv, TypeOK, TableTypeOK, EditCalendar
  <2> QED
    BY <2>1, <2>2, <2>3, <2>4 DEF Request
<1>5. created \subseteq created' /\ LiveWereCreated'
  BY DEF TypeInv, TypeOK, Request, CreateDeadline, UpdateDeadline, DeleteDeadline,
         EditCalendar, LiveWereCreated, LiveDeadlines
<1>6. RunsHoldWhatTheyHandle'
  BY <1>5, RequestFrame DEF TypeInv, RunsHoldWhatTheyHandle
<1> QED
  BY <1>1, <1>3, <1>4, <1>5, <1>6 DEF TypeInv, TypeOK, TableTypeOK, RunTypeOK,
     RestTypeOK

\* A step of the job leaves the tables alone, but for deadline_alert.
LEMMA JobTypes ==
    ASSUME TypeInv, NEW s \in Schedulers, JobStep(s)
    PROVE  TypeInv'
<1>1. UNCHANGED <<tables, fired, lost, touched>>
  BY DEF JobStep, Visit, Decide, Notify, Record, LogSent, FinishRun
<1>2. TableTypeOK' /\ LiveWereCreated'
  BY <1>1 DEF TypeInv, TypeOK, TableTypeOK, LiveWereCreated, LiveDeadlines, tables
<1>3. created' = created
  BY <1>1 DEF tables
<1>4. RunTypeOK' /\ RunsHoldWhatTheyHandle'
         /\ alerts' \subseteq Deadlines \X AlertKeys
         /\ notified' \in [Schedulers -> [Deadlines \X AlertKeys -> Nat]]
  <2>1. ASSUME NEW d \in Deadlines, Visit(s, d)
        PROVE  RunTypeOK' /\ RunsHoldWhatTheyHandle'
    <3>1. Loaded(s, d) \in Rows \cup {NoDeadline} /\ d \in created
      BY <2>1 DEF TypeInv, TypeOK, RunsHoldWhatTheyHandle, Loaded, Visit
    <3>2. CASE EndRun(s) \/ Skip(s, d)
      BY <3>2, <1>3, EndRunTypes, SkipTypes
    <3>3. CASE /\ Loaded(s, d) # NoDeadline
               /\ pc' = [pc EXCEPT ![s] = "decide"]
               /\ cur' = [cur EXCEPT ![s] = d]
               /\ held' = [held EXCEPT ![s] = Loaded(s, d)]
               /\ UNCHANGED <<runDay, todo, snapshot, expired, key>>
      <4>1. RunTypeOK'
        BY <3>1, <3>3 DEF TypeInv, TypeOK, RunTypeOK
      <4>2. RunsHoldWhatTheyHandle'
        BY <3>1, <3>3, <1>3 DEF TypeInv, TypeOK, RunsHoldWhatTheyHandle
      <4> QED
        BY <4>1, <4>2
    <3> QED
      BY <2>1, <3>2, <3>3 DEF Visit
  <2>2. ASSUME Decide(s)
        PROVE  RunTypeOK' /\ RunsHoldWhatTheyHandle'
    <3> DEFINE owed == AlertDue(held[s].due_date, runDay[s], holidays, Intervals)
    <3>1. owed \in AlertKeys \cup {NoInterval}
      BY AlertDueRange
    <3>2. cur[s] \in Deadlines
      BY <2>2 DEF TypeInv, TypeOK, RunsHoldWhatTheyHandle, Decide
    <3>3. CASE Skip(s, cur[s])
      BY <3>2, <3>3, <1>3, SkipTypes
    <3>4. CASE /\ owed # NoInterval
               /\ pc' = [pc EXCEPT ![s] = "notify"]
               /\ key' = [key EXCEPT ![s] = owed]
               /\ UNCHANGED <<runDay, todo, snapshot, expired, cur, held>>
      <4> HIDE DEF owed
      <4>1. RunTypeOK'
        BY <3>1, <3>4 DEF TypeInv, TypeOK, RunTypeOK
      <4>2. RunsHoldWhatTheyHandle'
        BY <2>2, <3>1, <3>4, <1>3
           DEF TypeInv, TypeOK, RunsHoldWhatTheyHandle, Decide
      <4> QED
        BY <4>1, <4>2
    <3> QED
      BY <2>2, <3>3, <3>4 DEF Decide
  <2>3. ASSUME Notify(s)
        PROVE  /\ RunTypeOK' /\ RunsHoldWhatTheyHandle'
               /\ notified' \in [Schedulers -> [Deadlines \X AlertKeys -> Nat]]
    <3>1. <<cur[s], key[s]>> \in Deadlines \X AlertKeys
      BY <2>3 DEF TypeInv, TypeOK, RunsHoldWhatTheyHandle, Notify
    <3>2. RunTypeOK'
      BY <2>3 DEF TypeInv, TypeOK, RunTypeOK, Notify
    <3>3. RunsHoldWhatTheyHandle'
      BY <2>3, <1>3 DEF TypeInv, TypeOK, RunsHoldWhatTheyHandle, Notify
    <3>4. notified' \in [Schedulers -> [Deadlines \X AlertKeys -> Nat]]
      <4> DEFINE alert == <<cur[s], key[s]>>
                 more == [notified[s] EXCEPT ![alert] = @ + 1]
      <4>1. notified \in [Schedulers -> [Deadlines \X AlertKeys -> Nat]]
        BY DEF TypeInv, TypeOK
      <4>2. notified' = [notified EXCEPT ![s] = more]
        BY <2>3 DEF Notify
      <4>3. notified[s][alert] + 1 \in Nat
        BY <3>1, <4>1
      <4> HIDE DEF alert
      <4>4. more \in [Deadlines \X AlertKeys -> Nat]
        BY <3>1, <4>1, <4>3
      <4> HIDE DEF more
      <4> QED
        BY <4>1, <4>2, <4>4
    <3> QED
      BY <3>2, <3>3, <3>4
  <2>4. ASSUME Record(s)
        PROVE  /\ RunTypeOK' /\ RunsHoldWhatTheyHandle'
               /\ alerts' \subseteq Deadlines \X AlertKeys
    <3>1. <<cur[s], key[s]>> \in Deadlines \X AlertKeys
      BY <2>4 DEF TypeInv, TypeOK, RunsHoldWhatTheyHandle, Record
    <3>2. alerts' \subseteq Deadlines \X AlertKeys
      BY <2>4, <3>1 DEF TypeInv, TypeOK, Record
    <3>3. CASE EndRun(s)
      BY <3>2, <3>3, <1>3, EndRunTypes
    <3>4. CASE /\ pc' = [pc EXCEPT ![s] = "log"]
               /\ expired' = [expired EXCEPT ![s] = TRUE]
               /\ snapshot' = [snapshot EXCEPT ![s] = NoRows]
               /\ UNCHANGED <<runDay, todo, cur, held, key>>
      <4>1. RunTypeOK'
        BY <3>4 DEF TypeInv, TypeOK, RunTypeOK, NoRows
      <4>2. RunsHoldWhatTheyHandle'
        BY <2>4, <3>4, <1>3 DEF TypeInv, TypeOK, RunsHoldWhatTheyHandle, Record
      <4> QED
        BY <4>1, <4>2, <3>2
    <3> QED
      BY <2>4, <3>3, <3>4 DEF Record
  <2>5. ASSUME LogSent(s)
        PROVE  RunTypeOK' /\ RunsHoldWhatTheyHandle'
    <3>1. cur[s] \in Deadlines
      BY <2>5 DEF TypeInv, TypeOK, RunsHoldWhatTheyHandle, LogSent
    <3> QED
      BY <2>5, <3>1, <1>3, EndRunTypes, SkipTypes DEF LogSent
  <2>6. ASSUME FinishRun(s)
        PROVE  RunTypeOK' /\ RunsHoldWhatTheyHandle'
    BY <2>6, <1>3, EndRunTypes DEF FinishRun
  <2>7. ~Record(s) => alerts' = alerts
    BY DEF JobStep, Visit, Decide, Notify, Record, LogSent, FinishRun
  <2>8. ~Notify(s) => notified' = notified
    BY DEF JobStep, Visit, Decide, Notify, Record, LogSent, FinishRun
  <2>9. Record(s) => ~Notify(s)
    BY DEF Record, Notify
  <2> QED
    BY <2>1, <2>2, <2>3, <2>4, <2>5, <2>6, <2>7, <2>8, <2>9
       DEF JobStep, TypeInv, TypeOK
<1>5. RestTypeOK'
  BY <1>1, <1>4 DEF TypeInv, TypeOK, RestTypeOK
<1> QED
  BY <1>2, <1>4, <1>5 DEF TypeInv, TypeOK, TableTypeOK, RunTypeOK, RestTypeOK

LEMMA TypeStep == TypeInv /\ [Next]_vars => TypeInv'
<1> SUFFICES ASSUME TypeInv, [Next]_vars PROVE TypeInv'
  OBVIOUS
<1>1. CASE Request
  BY <1>1, RequestTypes
<1>2. CASE NextDay
  <2>1. UNCHANGED runVars /\ today' \in Days
    BY <1>2, DaysAssumption DEF TypeInv, TypeOK, NextDay, Days
  <2>2. fired' \in [Schedulers -> BOOLEAN]
    BY <1>2 DEF NextDay
  <2> QED
    BY <1>2, <2>1, <2>2 DEF TypeInv, TypeOK, RunsHoldWhatTheyHandle,
       LiveWereCreated, LiveDeadlines, NextDay, runVars
<1>3. ASSUME NEW s \in Schedulers, FireJob(s)
      PROVE  TypeInv'
  <2>1. /\ UNCHANGED <<tables, expired, cur, held, key, alerts, notified, lost>>
        /\ LiveDeadlines \in SUBSET Deadlines
    BY <1>3 DEF FireJob, LiveDeadlines
  <2>2. RunTypeOK'
    BY <1>3, <2>1 DEF TypeInv, TypeOK, RunTypeOK, FireJob, tables
  <2>3. RestTypeOK'
    BY <1>3, <2>1 DEF TypeInv, TypeOK, RestTypeOK, FireJob
  <2>4. RunsHoldWhatTheyHandle'
    BY <1>3, <2>1 DEF TypeInv, TypeOK, RunsHoldWhatTheyHandle, LiveWereCreated,
                      FireJob, tables
  <2> QED
    BY <2>1, <2>2, <2>3, <2>4 DEF TypeInv, TypeOK, RunTypeOK, RestTypeOK,
       LiveWereCreated, LiveDeadlines, tables
<1>4. ASSUME NEW s \in Schedulers, JobStep(s)
      PROVE  TypeInv'
  BY <1>4, JobTypes
<1>5. ASSUME NEW s \in Schedulers, LoseRun(s)
      PROVE  TypeInv'
  <2>1. lost' \in [Schedulers -> 0..MaxLost]
    BY <1>5, BoundsAssumption DEF TypeInv, TypeOK, LoseRun
  <2>2. RunTypeOK' /\ RunsHoldWhatTheyHandle'
    BY <1>5, EndRunTypes DEF LoseRun, tables
  <2> QED
    BY <1>5, <2>1, <2>2 DEF TypeInv, TypeOK, RunTypeOK, LoseRun,
       LiveWereCreated, LiveDeadlines, tables
<1>6. CASE UNCHANGED vars
  BY <1>6 DEF TypeInv, TypeOK, RunsHoldWhatTheyHandle, LiveWereCreated,
              LiveDeadlines, vars, tables, runVars
<1> QED
  BY <1>1, <1>2, <1>3, <1>4, <1>5, <1>6 DEF Next

LEMMA TypeInvariant == Spec => []TypeInv
  BY TypeInit, TypeStep, PTL DEF Spec

\* Every variable keeps its type; in particular the rows written to
\* deadline_alert name deadlines and configured windows only.
THEOREM TypeCorrect == Spec => []TypeOK
<1>1. TypeInv => TypeOK
  BY DEF TypeInv
<1> QED
  BY <1>1, TypeInvariant, PTL

-------------------------------------------------------------------------------
(* Repeated notifications.                                                  *)

\* The alert scheduler s is working on.
InHand(s) == <<cur[s], key[s]>>

\* The count of an existing deadline's alert can be one ahead of the lost runs
\* only once the alert is on record or is about to be recorded by the scheduler
\* that has just sent it; a scheduler about to notify is never ahead.
MailInv ==
    \A s \in Schedulers, a \in Deadlines \X AlertKeys :
        /\ a[1] \notin created => notified[s][a] = 0
        /\ a[1] \in LiveDeadlines =>
              /\ notified[s][a] <= lost[s] + 1
              /\ \/ notified[s][a] <= lost[s]
                 \/ a \in alerts
                 \/ pc[s] = "record" /\ a = InHand(s)
              /\ pc[s] = "notify" /\ a = InHand(s) => notified[s][a] <= lost[s]

LEMMA MailInit == Init => MailInv
  BY BoundsAssumption DEF Init, MailInv, LiveDeadlines, NoRows

\* A deadline that exists after a request existed before it, or is a new one
\* nobody was notified of; its alerts are still on record.
LEMMA MailRequest == TypeInv /\ MailInv /\ Request => MailInv'
<1> SUFFICES ASSUME TypeInv, MailInv, Request,
                    NEW s \in Schedulers, NEW a \in Deadlines \X AlertKeys
             PROVE  /\ a[1] \notin created' => notified'[s][a] = 0
                    /\ a[1] \in LiveDeadlines' =>
                          /\ notified'[s][a] <= lost'[s] + 1
                          /\ \/ notified'[s][a] <= lost'[s]
                             \/ a \in alerts'
                             \/ pc'[s] = "record" /\ a = InHand(s)'
                          /\ pc'[s] = "notify" /\ a = InHand(s)' =>
                                notified'[s][a] <= lost'[s]
  BY DEF MailInv
<1>1. /\ notified'[s][a] = notified[s][a]
      /\ lost'[s] = lost[s] /\ lost[s] \in Nat
      /\ pc'[s] = pc[s] /\ InHand(s)' = InHand(s)
  BY RequestFrame, BoundsAssumption DEF TypeInv, TypeOK, InHand
<1>2. created \subseteq created'
  BY DEF Request, CreateDeadline, UpdateDeadline, DeleteDeadline, EditCalendar
<1>3. a[1] \in LiveDeadlines' => a[1] \in LiveDeadlines \/ a[1] \notin created
  BY DEF TypeInv, TypeOK, LiveDeadlines, Request, CreateDeadline, UpdateDeadline,
         DeleteDeadline, EditCalendar
<1>4. a[1] \in LiveDeadlines' /\ a \in alerts => a \in alerts'
  BY DEF TypeInv, TypeOK, LiveDeadlines, Request, CreateDeadline, UpdateDeadline,
         DeleteDeadline, EditCalendar
<1> QED
  BY <1>1, <1>2, <1>3, <1>4 DEF MailInv

\* Steps of another scheduler leave the counts of s as they are.
LEMMA MailJob ==
    ASSUME TypeInv, MailInv, NEW s \in Schedulers, JobStep(s) \/ LoseRun(s)
    PROVE  MailInv'
<1> SUFFICES ASSUME NEW r \in Schedulers, NEW a \in Deadlines \X AlertKeys
             PROVE  /\ a[1] \notin created' => notified'[r][a] = 0
                    /\ a[1] \in LiveDeadlines' =>
                          /\ notified'[r][a] <= lost'[r] + 1
                          /\ \/ notified'[r][a] <= lost'[r]
                             \/ a \in alerts'
                             \/ pc'[r] = "record" /\ a = InHand(r)'
                          /\ pc'[r] = "notify" /\ a = InHand(r)' =>
                                notified'[r][a] <= lost'[r]
  BY DEF MailInv
<1>1. UNCHANGED <<created, deadline>> /\ alerts \subseteq alerts'
  BY DEF JobStep, Visit, Decide, Notify, Record, LogSent, FinishRun, LoseRun, tables
<1>2. LiveDeadlines' = LiveDeadlines
  BY <1>1 DEF LiveDeadlines
<1>3. notified[r][a] \in Nat /\ lost[r] \in Nat
  BY BoundsAssumption DEF TypeInv, TypeOK
<1>4. CASE r # s
  <2>1. /\ pc'[r] = pc[r] /\ InHand(r)' = InHand(r)
        /\ notified'[r] = notified[r] /\ lost'[r] = lost[r]
    BY <1>4 DEF TypeInv, TypeOK, InHand, JobStep, Visit, Decide, Notify, Record,
       LogSent, FinishRun, LoseRun, EndRun, Skip
  <2> QED
    BY <1>1, <1>2, <2>1 DEF MailInv
<1>5. CASE r = s /\ Notify(s)
  <2>1. InHand(s) \in Deadlines \X AlertKeys /\ cur[s] \in created
    BY <1>5 DEF TypeInv, TypeOK, RunsHoldWhatTheyHandle, Notify, InHand
  <2>2. /\ pc[s] = "notify" /\ pc'[s] = "record"
        /\ InHand(s)' = InHand(s) /\ lost' = lost
    BY <1>5 DEF TypeInv, TypeOK, Notify, InHand
  <2>3. CASE a = InHand(s)
    <3>1. notified'[s][a] = notified[s][a] + 1
      BY <1>5, <2>1, <2>3 DEF TypeInv, TypeOK, Notify, InHand
    <3>2. a[1] \in LiveDeadlines => notified[s][a] <= lost[s]
      BY <2>2, <2>3 DEF MailInv
    <3> QED
      BY <1>1, <1>2, <1>3, <1>5, <2>1, <2>2, <2>3, <3>1, <3>2 DEF InHand
  <2>4. CASE a # InHand(s)
    <3>1. notified'[s][a] = notified[s][a]
      BY <1>5, <2>4 DEF TypeInv, TypeOK, Notify, InHand
    <3> QED
      BY <1>1, <1>2, <1>5, <2>2, <2>4, <3>1 DEF MailInv
  <2> QED
    BY <2>3, <2>4
<1>6. CASE r = s /\ Decide(s)
  <2>1. notified' = notified /\ lost' = lost /\ alerts' = alerts /\ pc[s] = "decide"
    BY <1>6 DEF Decide
  <2>2. \/ pc'[s] = "visit"
        \/ pc'[s] = "notify" /\ InHand(s)' \notin alerts
    BY <1>6 DEF TypeInv, TypeOK, Decide, Skip, InHand
  <2> QED
    BY <1>1, <1>2, <1>6, <2>1, <2>2 DEF MailInv
<1>7. CASE r = s /\ Record(s)
  <2>1. notified' = notified /\ lost' = lost /\ pc'[s] \in {"idle", "log"}
    BY <1>7 DEF TypeInv, TypeOK, Record, EndRun
  <2>2. InHand(s) \in alerts' \/ cur[s] \notin LiveDeadlines
    BY <1>7 DEF Record, InHand
  <2> QED
    BY <1>1, <1>2, <1>7, <2>1, <2>2 DEF MailInv, InHand
<1>8. CASE r = s /\ (\/ \E d \in Deadlines : Visit(s, d)
                    \/ LogSent(s) \/ FinishRun(s))
  <2>1. /\ notified' = notified /\ lost' = lost
        /\ pc[s] \in {"visit", "log"} /\ pc'[s] \in {"idle", "visit", "decide"}
    BY <1>8 DEF TypeInv, TypeOK, Visit, LogSent, FinishRun, EndRun, Skip
  <2> QED
    BY <1>1, <1>2, <1>8, <2>1 DEF MailInv
<1>9. CASE r = s /\ LoseRun(s)
  <2>1. notified' = notified /\ lost'[s] = lost[s] + 1 /\ pc'[s] = "idle"
    BY <1>9 DEF TypeInv, TypeOK, LoseRun, EndRun
  <2> QED
    BY <1>1, <1>2, <1>3, <1>9, <2>1 DEF MailInv
<1> QED
  BY <1>4, <1>5, <1>6, <1>7, <1>8, <1>9 DEF JobStep

LEMMA MailStep == TypeInv /\ MailInv /\ [Next]_vars => MailInv'
<1> SUFFICES ASSUME TypeInv, MailInv, [Next]_vars PROVE MailInv'
  OBVIOUS
<1>1. CASE Request
  BY <1>1, MailRequest
<1>2. CASE NextDay
  BY <1>2 DEF MailInv, InHand, LiveDeadlines, NextDay, runVars
<1>3. ASSUME NEW s \in Schedulers, FireJob(s)
      PROVE  MailInv'
  <2>1. /\ UNCHANGED <<created, deadline, alerts, notified, lost, cur, key>>
        /\ \A r \in Schedulers :
              pc'[r] = pc[r] \/ (pc'[r] = "visit" /\ pc[r] = "idle")
    BY <1>3 DEF TypeInv, TypeOK, FireJob, tables
  <2> QED
    BY <2>1 DEF MailInv, InHand, LiveDeadlines
<1>4. ASSUME NEW s \in Schedulers, JobStep(s) \/ LoseRun(s)
      PROVE  MailInv'
  BY <1>4, MailJob
<1>5. CASE UNCHANGED vars
  BY <1>5 DEF MailInv, InHand, LiveDeadlines, vars, tables, runVars
<1> QED
  BY <1>1, <1>2, <1>3, <1>4, <1>5 DEF Next

\* A scheduler process notifies of an alert at most once more than the runs it
\* lost, with any number of schedulers, deadlines, windows and lost runs.
THEOREM MailsAreBounded == Spec => []MailsBoundedByLostRuns
<1>1. MailInv /\ TypeInv => MailsBoundedByLostRuns
  <2>1. ASSUME MailInv, TypeInv, NEW s \in Schedulers,
               NEW a \in Deadlines \X AlertKeys, a[1] \in LiveDeadlines
        PROVE  notified[s][a] <= 1 + lost[s]
    BY <2>1, BoundsAssumption DEF MailInv, TypeInv, TypeOK
  <2> QED
    BY <2>1 DEF MailsBoundedByLostRuns
<1>2. Spec => []MailInv
  BY MailInit, MailStep, TypeInvariant, PTL DEF Spec
<1> QED
  BY <1>1, <1>2, TypeInvariant, PTL

===============================================================================
