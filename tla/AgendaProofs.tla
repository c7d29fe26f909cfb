------------------------------ MODULE AgendaProofs ------------------------------
(***************************************************************************)
(* Theorems about the appointments and their events in Google Calendar,    *)
(* for any number of appointments, events, users, requests in flight and   *)
(* requests in all.                                                        *)
(***************************************************************************)
EXTENDS Agenda, FiniteSetTheorems, TLAPS

Distinct(s) == \A i, j \in DOMAIN s : s[i] = s[j] => i = j

\* The requests that may carry a batch.
Carries(r) == r.op \in {"load", "call", "store", "report"} /\ r.batch # NoBatch

\* A batch comes to each of its appointments once, and only creates events.
Orderly(r) ==
  Carries(r) =>
    /\ Distinct(r.batch.rest)
    /\ r.op # "report" => r.id \notin ToSet(r.batch.rest)
    /\ r.op \in {"load", "call"} => r.action = "create"

\* What a batch has yet to come to, after the appointment at hand.
Waiting(r) == IF Carries(r) /\ r.op # "report" THEN ToSet(r.batch.rest) ELSE {}

-----------------------------------------------------------------------------
(* The inductive invariant.                                                *)

Known == DOMAIN rows \union deleted

\* Requests and events are about appointments that exist or existed.
TypeInv ==
  /\ TypeOK
  /\ IsFiniteSet(DOMAIN rows)
  /\ \A t \in Threads : Orderly(thread[t]) /\ Touched(thread[t]) \subseteq Known
  /\ \A e \in DOMAIN calendar : calendar[e].of \in Known

EventIsOf(e, a) == e # None => e \in DOMAIN calendar /\ calendar[e].of = a

\* The id of an event is only ever kept for the appointment it shows.
LinkInv ==
  /\ \A a \in DOMAIN rows :
       EventIsOf(rows[a].event, a) /\ (rows[a].synced <=> rows[a].event # None)
  /\ \A t \in Threads :
       /\ thread[t].op \in {"patch", "delete", "call"} =>
            EventIsOf(thread[t].row.event, thread[t].id)
       /\ thread[t].op = "store" => EventIsOf(thread[t].event, thread[t].id)
       /\ Carries(thread[t]) =>
            \A a \in DOMAIN thread[t].batch.cached : thread[t].batch.cached[a].event = None

Undisturbed(a) == ~Excused(a, {"overlap"})

\* What a request knows of an appointment nobody else works on.
Current(t, a) ==
  /\ a \in Touched(thread[t]) => a \in DOMAIN rows
  /\ thread[t].op \in {"patch", "delete", "call"} /\ thread[t].id = a =>
       thread[t].row = rows[a]
  /\ thread[t].op \in {"load", "call"} /\ thread[t].action = "create" /\ thread[t].id = a =>
       rows[a].event = None
  /\ thread[t].op = "store" /\ thread[t].id = a =>
       /\ rows[a].event = None
       /\ ~calendar[thread[t].event].gone
       /\ calendar[thread[t].event].content = rows[a].content
  /\ a \in Waiting(thread[t]) => rows[a].event = None
  /\ Carries(thread[t]) /\ a \in DOMAIN thread[t].batch.cached
       /\ (a \in Waiting(thread[t]) \/ (thread[t].op = "load" /\ thread[t].id = a)) =>
       thread[t].batch.cached[a] = rows[a]

AloneAt(a) ==
  Undisturbed(a) =>
    /\ \A s, t \in Threads : a \in Touched(thread[s]) \intersect Touched(thread[t]) => s = t
    /\ \A t \in Threads : Current(t, a)

\* The events of an appointment are those its row, or a request about to store
\* one, knows of.
EventsAt(a) ==
  ~Excused(a, {"overlap", "unanswered", "lost"}) =>
    /\ \A e, f \in EventsOf(a) : e = f
    /\ \A e \in EventsOf(a) :
         \/ a \in deleted
         \/ a \in DOMAIN rows /\ rows[a].event = e
         \/ \E t \in Threads :
              thread[t].op = "store" /\ thread[t].id = a /\ thread[t].event = e

Leaving(a) == a \in deleted \/ \E t \in Threads : thread[t].op = "drop" /\ thread[t].id = a

RemovalAt(a) ==
  Leaving(a) /\ ~Excused(a, {"overlap", "unanswered", "lost", "missed"}) => EventsOf(a) = {}

\* An event that does not show its row is about to be updated or was removed.
SyncAt(a) ==
  a \in DOMAIN rows /\ rows[a].event # None /\ ~Excused(a, {"overlap", "lost", "missed"}) =>
    \/ \E t \in Threads : thread[t].op = "drop" /\ thread[t].id = a
    \/ /\ ~calendar[rows[a].event].gone
       /\ \/ calendar[rows[a].event].content = rows[a].content
          \/ \E t \in Threads :
               thread[t].op \in {"load", "call"} /\ thread[t].action = "update" /\ thread[t].id = a

Fate(a) == AloneAt(a) /\ EventsAt(a) /\ RemovalAt(a) /\ SyncAt(a)

FateInv == \A a \in Appointments : Fate(a)

\* The appointments a batch has come to and left with an event, or without a row.
Settled(t) ==
  {a \in thread[t].batch.listed \ Touched(thread[t]) : a \in DOMAIN rows => rows[a].synced}

CountInv ==
  \A t \in Threads :
    Carries(thread[t]) =>
      /\ IsFiniteSet(thread[t].batch.listed)
      /\ thread[t].batch.listed \subseteq Known
      /\ Touched(thread[t]) \subseteq thread[t].batch.listed
      /\ thread[t].batch.synced <= Cardinality(Settled(t))

-----------------------------------------------------------------------------
(* Records.                                                                *)

RealBatches ==
  [listed : SUBSET Appointments, rest : Seq(Appointments), synced : Nat,
   cached : UNION {[S -> Row] : S \in SUBSET Appointments}]

LEMMA BatchKinds ==
  /\ Batches = {NoBatch} \union RealBatches
  /\ NoBatch \notin RealBatches
<1>1. ASSUME NEW b \in RealBatches PROVE b # NoBatch
  <2>1. "rest" \in DOMAIN b
    BY DEF RealBatches
  <2>2. "rest" \notin DOMAIN NoBatch
    BY DEF NoBatch
  <2> QED
    BY <2>1, <2>2
<1> QED
  BY <1>1 DEF Batches, RealBatches

\* A batch with another rest, or with its count and its rows replaced.
LEMMA BatchWithRest ==
  ASSUME NEW b \in RealBatches, NEW s \in Seq(Appointments), NEW c,
         c = [b EXCEPT !.rest = s]
  PROVE  /\ c \in RealBatches
         /\ c.rest = s
         /\ c.listed = b.listed /\ c.synced = b.synced /\ c.cached = b.cached
  BY DEF RealBatches

LEMMA NoBatchIsABatch == NoBatch \in Batches
  BY DEF Batches

\* The step that follows an appointment of a batch.
LEMMA AfterTypes ==
  ASSUME NEW b \in Batches
  PROVE  Step(After(b))
<1>1. CASE b = NoBatch
  BY <1>1 DEF After, Step
<1>2. CASE b # NoBatch /\ b.rest = <<>>
  BY <1>2 DEF After, Step
<1>3. CASE b # NoBatch /\ b.rest # <<>>
  <2> DEFINE next == [b EXCEPT !.rest = Tail(b.rest)]
  <2>1. b \in RealBatches
    BY <1>3, BatchKinds
  <2>2. Tail(b.rest) \in Seq(Appointments) /\ Head(b.rest) \in Appointments
    BY <1>3, <2>1 DEF RealBatches
  <2>3. next \in Batches
    BY <2>1, <2>2, BatchWithRest, BatchKinds
  <2>4. After(b) = [op |-> "load", action |-> "create", id |-> Head(b.rest),
                    batch |-> next]
    BY <1>3 DEF After
  <2> QED
    BY <2>2, <2>3, <2>4 DEF Step
<1> QED
  BY <1>1, <1>2, <1>3

LEMMA AfterFacts ==
  ASSUME NEW b \in Batches
  PROVE  /\ b = NoBatch => After(b) = Idle
         /\ b # NoBatch =>
              /\ After(b).op \in {"report", "load"}
              /\ After(b).batch # NoBatch
              /\ After(b).batch.listed = b.listed
              /\ After(b).batch.synced = b.synced
              /\ After(b).batch.cached = b.cached
              /\ Touched(After(b)) = ToSet(b.rest)
              /\ Waiting(After(b)) \subseteq ToSet(b.rest)
              /\ Distinct(b.rest) => Orderly(After(b))
              /\ After(b).op = "load" =>
                   After(b).action = "create" /\ After(b).id \in ToSet(b.rest)
<1>1. CASE b = NoBatch
  BY <1>1 DEF After
<1>2. CASE b # NoBatch /\ b.rest = <<>>
  <2>1. After(b) = [op |-> "report", batch |-> b]
    BY <1>2 DEF After
  <2>2. ToSet(b.rest) = {}
    BY <1>2 DEF ToSet
  <2> QED
    BY <1>2, <2>1, <2>2 DEF Touched, Waiting, Carries, Orderly
<1>3. CASE b # NoBatch /\ b.rest # <<>>
  <2> DEFINE next == [b EXCEPT !.rest = Tail(b.rest)]
  <2>1. b \in RealBatches /\ Tail(b.rest) \in Seq(Appointments)
    BY <1>3, BatchKinds DEF RealBatches
  <2>2. After(b) = [op |-> "load", action |-> "create", id |-> Head(b.rest),
                    batch |-> next]
    BY <1>3 DEF After
  <2>3. /\ next # NoBatch
        /\ next.rest = Tail(b.rest)
        /\ next.listed = b.listed /\ next.synced = b.synced /\ next.cached = b.cached
    <3>1. next = [b EXCEPT !.rest = Tail(b.rest)]
      OBVIOUS
    <3> HIDE DEF next
    <3>2. /\ next \in RealBatches
          /\ next.rest = Tail(b.rest)
          /\ next.listed = b.listed /\ next.synced = b.synced /\ next.cached = b.cached
      BY <2>1, <3>1, BatchWithRest
    <3> QED
      BY <3>2, BatchKinds
  <2>4. /\ b.rest \in Seq(Appointments)
        /\ Len(b.rest) \in Nat \ {0}
        /\ DOMAIN b.rest = 1 .. Len(b.rest)
        /\ Head(b.rest) = b.rest[1]
        /\ DOMAIN Tail(b.rest) = 1 .. Len(b.rest) - 1
        /\ \A i \in 1 .. Len(b.rest) - 1 : Tail(b.rest)[i] = b.rest[i + 1]
    BY <1>3, <2>1 DEF RealBatches
  <2>5. ToSet(b.rest) = {Head(b.rest)} \union ToSet(Tail(b.rest))
    <3>1. ASSUME NEW i \in DOMAIN b.rest
          PROVE  b.rest[i] \in {Head(b.rest)} \union ToSet(Tail(b.rest))
      <4>1. CASE i = 1
        BY <4>1, <2>4
      <4>2. CASE i # 1
        <5>1. i - 1 \in 1 .. Len(b.rest) - 1 /\ b.rest[i] = Tail(b.rest)[i - 1]
          BY <4>2, <2>4
        <5> QED
          BY <5>1, <2>4 DEF ToSet
      <4> QED
        BY <4>1, <4>2
    <3>2. Head(b.rest) \in ToSet(b.rest)
      BY <2>4 DEF ToSet
    <3>3. ASSUME NEW i \in DOMAIN Tail(b.rest)
          PROVE  Tail(b.rest)[i] \in ToSet(b.rest)
      <4>1. i + 1 \in DOMAIN b.rest /\ Tail(b.rest)[i] = b.rest[i + 1]
        BY <2>4
      <4> QED
        BY <4>1 DEF ToSet
    <3> QED
      BY <3>1, <3>2, <3>3 DEF ToSet
  <2>6. ASSUME Distinct(b.rest)
        PROVE  /\ Distinct(Tail(b.rest))
               /\ Head(b.rest) \notin ToSet(Tail(b.rest))
    <3>1. \A i \in 1 .. Len(b.rest) - 1 : i + 1 \in DOMAIN b.rest /\ i + 1 # 1
      BY <2>4
    <3>2. ASSUME NEW i \in 1 .. Len(b.rest) - 1, Tail(b.rest)[i] = b.rest[1]
          PROVE  FALSE
      BY <3>1, <3>2, <2>4, <2>6 DEF Distinct
    <3>3. ASSUME NEW i \in 1 .. Len(b.rest) - 1, NEW j \in 1 .. Len(b.rest) - 1,
                 Tail(b.rest)[i] = Tail(b.rest)[j]
          PROVE  i = j
      <4>1. i + 1 = j + 1
        BY <3>1, <3>3, <2>4, <2>6 DEF Distinct
      <4> QED
        BY <4>1
    <3> QED
      BY <3>2, <3>3, <2>4 DEF Distinct, ToSet
  <2>7. /\ After(b).batch.listed = b.listed
        /\ After(b).batch.synced = b.synced
        /\ After(b).batch.cached = b.cached
        /\ After(b).batch.rest = Tail(b.rest)
        /\ After(b).batch # NoBatch
        /\ After(b).op = "load" /\ After(b).action = "create"
        /\ After(b).id = Head(b.rest)
    <3> HIDE DEF next
    <3> QED
      BY <2>2, <2>3
  <2>8. Waiting(After(b)) = ToSet(Tail(b.rest)) /\ Touched(After(b)) = ToSet(b.rest)
    BY <2>5, <2>7 DEF Waiting, Touched, Carries
  <2> QED
    BY <1>3, <2>5, <2>6, <2>7, <2>8 DEF Orderly
<1> QED
  BY <1>1, <1>2, <1>3

LEMMA CountedFacts ==
  ASSUME NEW b \in Batches
  PROVE  /\ Counted(b) \in Batches
         /\ b = NoBatch => Counted(b) = NoBatch
         /\ b # NoBatch =>
              /\ Counted(b) # NoBatch
              /\ Counted(b).listed = b.listed
              /\ Counted(b).rest = b.rest
              /\ Counted(b).synced = b.synced + 1
              /\ DOMAIN Counted(b).cached = {}
<1>1. CASE b = NoBatch
  BY <1>1 DEF Counted
<1>2. CASE b # NoBatch
  <2>1. b \in RealBatches
    BY <1>2, BatchKinds
  <2>2. b.synced + 1 \in Nat
    BY <2>1 DEF RealBatches
  <2>3. <<>> \in UNION {[S -> Row] : S \in SUBSET Appointments}
    <3>1. <<>> \in [{} -> Row]
      OBVIOUS
    <3> QED
      BY <3>1
  <2> DEFINE c == Counted(b)
             n == b.synced + 1
  <2>4. c = [b EXCEPT !.synced = n, !.cached = <<>>]
    BY <1>2 DEF Counted
  <2>5. n \in Nat
    BY <2>2
  <2>6. /\ c \in RealBatches
        /\ c.listed = b.listed /\ c.rest = b.rest
        /\ c.synced = n /\ c.cached = <<>>
    <3> HIDE DEF c, n
    <3> QED
      BY <2>1, <2>3, <2>4, <2>5 DEF RealBatches
  <2> QED
    BY <1>2, <2>6, BatchKinds
<1> QED
  BY <1>1, <1>2

LEMMA TouchedFacts ==
  ASSUME NEW r
  PROVE  /\ r.op \in {"idle", "report"} => Touched(r) = {} /\ Waiting(r) = {}
         /\ r.op \in {"load", "call", "store"} => Touched(r) = {r.id} \union Waiting(r)
         /\ r.op \in {"patch", "delete", "drop"} => Touched(r) = {r.id} /\ Waiting(r) = {}
  BY DEF Touched, Waiting, Carries

LEMMA IdleFacts ==
  /\ Idle.op = "idle" /\ Step(Idle) /\ Orderly(Idle) /\ ~Carries(Idle)
  /\ Touched(Idle) = {} /\ Waiting(Idle) = {}
<1>1. Idle.op = "idle"
  BY DEF Idle
<1> QED
  BY <1>1, TouchedFacts DEF Step, Orderly, Carries

\* How a request goes on with its batch, of which one more may be counted.
LEMMA MovesOn ==
  ASSUME NEW r, Step(r), Orderly(r), r.op \in {"load", "call", "store"},
         NEW x, x = After(r.batch) \/ x = After(Counted(r.batch))
  PROVE  /\ Step(x) /\ Orderly(x)
         /\ x.op \in {"idle", "report", "load"}
         /\ Touched(x) = Waiting(r)
         /\ r.id \notin Touched(x)
         /\ Carries(r) <=> Carries(x)
         /\ Carries(x) =>
              /\ x.batch.listed = r.batch.listed
              /\ x = After(r.batch) => x.batch.synced = r.batch.synced
              /\ x = After(Counted(r.batch)) => x.batch.synced = r.batch.synced + 1
              /\ \A a \in DOMAIN x.batch.cached :
                   a \in DOMAIN r.batch.cached /\ x.batch.cached[a] = r.batch.cached[a]
         /\ x.op = "load" => Carries(x) /\ x.action = "create" /\ x.id \in Waiting(r)
<1>1. r.batch \in Batches
  BY IdleFacts DEF Step
<1>2. PICK b : x = After(b) /\ (b = r.batch \/ b = Counted(r.batch))
  OBVIOUS
<1>3. /\ b \in Batches
      /\ r.batch = NoBatch <=> b = NoBatch
      /\ r.batch # NoBatch =>
           /\ b.rest = r.batch.rest /\ b.listed = r.batch.listed
           /\ \A a \in DOMAIN b.cached :
                a \in DOMAIN r.batch.cached /\ b.cached[a] = r.batch.cached[a]
  BY <1>1, <1>2, CountedFacts
<1>4. CASE r.batch = NoBatch
  <2>1. x = Idle
    BY <1>2, <1>3, <1>4, AfterFacts
  <2>2. ~Carries(r) /\ Waiting(r) = {}
    BY <1>4 DEF Carries, Waiting
  <2> QED
    BY <2>1, <2>2, IdleFacts
<1>5. CASE r.batch # NoBatch
  <2>1. Carries(r) /\ Distinct(r.batch.rest) /\ r.id \notin ToSet(r.batch.rest)
        /\ Waiting(r) = ToSet(r.batch.rest)
    BY <1>5 DEF Carries, Orderly, Waiting
  <2>2. /\ x.op \in {"report", "load"} /\ x.batch # NoBatch
        /\ x.batch.listed = b.listed /\ x.batch.cached = b.cached
        /\ x.batch.synced = b.synced
        /\ Touched(x) = ToSet(b.rest) /\ Orderly(x)
        /\ x.op = "load" => x.action = "create" /\ x.id \in ToSet(b.rest)
    BY <1>2, <1>3, <1>5, <2>1, AfterFacts
  <2>3. x = After(Counted(r.batch)) => x.batch.synced = r.batch.synced + 1
    BY <1>1, <1>5, CountedFacts, AfterFacts
  <2>4. x = After(r.batch) => x.batch.synced = r.batch.synced
    BY <1>1, <1>5, AfterFacts
  <2>5. Carries(x)
    BY <2>2 DEF Carries
  <2>6. Step(x)
    BY <1>2, <1>3, AfterTypes
  <2> QED
    BY <1>3, <1>5, <2>1, <2>2, <2>3, <2>4, <2>5, <2>6
<1> QED
  BY <1>4, <1>5

-----------------------------------------------------------------------------
(* Type correctness.                                                       *)

\* Only one request takes a step.
Alone(t) ==
  /\ DOMAIN thread' = Threads
  /\ \A s \in Threads \ {t} : thread'[s] = thread[s]

LEMMA GotoFacts ==
  ASSUME TypeInv, NEW t \in Threads, NEW r, Goto(t, r)
  PROVE  thread'[t] = r /\ Alone(t)
  BY DEF TypeInv, TypeOK, Goto, Alone

LEMMA TypeInit == Init => TypeInv
<1> SUFFICES ASSUME Init PROVE TypeInv
  OBVIOUS
<1>1. DOMAIN rows = {} /\ DOMAIN calendar = {}
  BY DEF Init
<1>2. \A t \in Threads : thread[t] = Idle
  BY DEF Init
<1>3. TypeOK
  BY <1>1, <1>2, AgendaConstants, IdleFacts DEF Init, TypeOK
<1> QED
  BY <1>1, <1>2, <1>3, IdleFacts, FS_EmptySet DEF TypeInv

\* The tables are left as they are.
LEMMA TypeOfRequest ==
  ASSUME TypeInv, NEW t \in Threads, NEW r, Goto(t, r),
         Step(r), Orderly(r), Touched(r) \subseteq Known,
         UNCHANGED <<rows, deleted, connected, calendar>>,
         requests' \in 0 .. MaxRequests, marks' \subseteq Marks
  PROVE  TypeInv'
<1>1. thread'[t] = r /\ Alone(t)
  BY GotoFacts
<1>2. Known' = Known
  BY DEF Known
<1>3. \A s \in Threads : /\ Step(thread'[s]) /\ Orderly(thread'[s])
                         /\ Touched(thread'[s]) \subseteq Known
  BY <1>1 DEF Alone, TypeInv, TypeOK
<1> QED
  BY <1>1, <1>2, <1>3 DEF TypeInv, TypeOK, Alone

\* One row is added, changed or removed.
LEMMA TypeOfWrite ==
  ASSUME TypeInv, NEW t \in Threads, NEW r, Goto(t, r),
         Step(r), Orderly(r), Touched(r) \subseteq Known', Known \subseteq Known',
         DOMAIN rows' \subseteq Appointments, \A a \in DOMAIN rows' : rows'[a] \in Row,
         IsFiniteSet(DOMAIN rows'),
         deleted' \subseteq Appointments \ DOMAIN rows',
         UNCHANGED <<connected, calendar, marks>>, requests' \in 0 .. MaxRequests
  PROVE  TypeInv'
<1>1. thread'[t] = r /\ Alone(t)
  BY GotoFacts
<1>2. \A s \in Threads : /\ Step(thread'[s]) /\ Orderly(thread'[s])
                         /\ Touched(thread'[s]) \subseteq Known'
  BY <1>1 DEF Alone, TypeInv, TypeOK
<1> QED
  BY <1>1, <1>2 DEF TypeInv, TypeOK, Alone

\* One event is inserted, changed or removed.
LEMMA TypeOfCall ==
  ASSUME TypeInv, NEW t \in Threads, NEW r, Goto(t, r),
         Step(r), Orderly(r), Touched(r) \subseteq Known,
         DOMAIN calendar' \subseteq Events,
         \A e \in DOMAIN calendar' : calendar'[e] \in Event /\ calendar'[e].of \in Known,
         UNCHANGED <<rows, deleted, connected, requests>>, marks' \subseteq Marks
  PROVE  TypeInv'
<1>1. thread'[t] = r /\ Alone(t)
  BY GotoFacts
<1>2. Known' = Known
  BY DEF Known
<1>3. \A s \in Threads : /\ Step(thread'[s]) /\ Orderly(thread'[s])
                         /\ Touched(thread'[s]) \subseteq Known
  BY <1>1 DEF Alone, TypeInv, TypeOK
<1> QED
  BY <1>1, <1>2, <1>3 DEF TypeInv, TypeOK, Alone

LEMMA MarksAreMarks ==
  ASSUME TypeInv, NEW S \in SUBSET Appointments,
         NEW why \in {"overlap", "unanswered", "lost", "missed"}, Mark(S, why)
  PROVE  marks' \subseteq Marks /\ marks \subseteq marks'
  BY DEF Mark, Marks, TypeInv, TypeOK

LEMMA PutFacts ==
  ASSUME NEW f, NEW x, NEW v
  PROVE  /\ DOMAIN Put(f, x, v) = DOMAIN f \union {x}
         /\ Put(f, x, v)[x] = v
         /\ \A y \in DOMAIN f : y # x => Put(f, x, v)[y] = f[y]
  BY DEF Put

LEMMA CountsFacts ==
  ASSUME TypeInv, Counts
  PROVE  requests' \in 0 .. MaxRequests
  BY AgendaConstants DEF TypeInv, TypeOK, Counts

-----------------------------------------------------------------------------
(* What each step does, and that it keeps the types.                       *)

LEMMA CreateTypes ==
  ASSUME TypeInv, NEW t \in Threads, NEW u \in Users, NEW a \in Appointments,
         NEW c \in Contents, CreateAppointment(t, u, a, c)
  PROVE  TypeInv'
<1> DEFINE r == [op |-> "load", action |-> "create", id |-> a, batch |-> NoBatch]
           row == [owner |-> u, content |-> c, event |-> None, synced |-> FALSE]
<1>1. Goto(t, r) /\ Counts /\ rows' = Put(rows, a, row) /\ a \notin Known
      /\ UNCHANGED <<deleted, connected, calendar, marks>>
  BY DEF CreateAppointment, Starts, Known
<1>2. Step(r) /\ Orderly(r) /\ Touched(r) = {a}
  <2>1. ~Carries(r) /\ Waiting(r) = {}
    BY DEF Carries, Waiting
  <2> QED
    BY <2>1, NoBatchIsABatch, TouchedFacts DEF Step, Orderly
<1>3. row \in Row
  BY DEF Row
<1> HIDE DEF r, row
<1>4. DOMAIN rows' = DOMAIN rows \union {a} /\ \A b \in DOMAIN rows' : rows'[b] \in Row
  <2>1. /\ DOMAIN rows' = DOMAIN rows \union {a} /\ rows'[a] = row
        /\ \A b \in DOMAIN rows : b # a => rows'[b] = rows[b]
    BY <1>1 DEF Put
  <2> QED
    BY <2>1, <1>3 DEF TypeInv, TypeOK
<1>5. IsFiniteSet(DOMAIN rows')
  BY <1>4, FS_AddElement DEF TypeInv
<1>6. Known' = Known \union {a}
  BY <1>1, <1>4 DEF Known
<1>7. deleted' \subseteq Appointments \ DOMAIN rows'
  BY <1>1, <1>4 DEF TypeInv, TypeOK, Known
<1>8. DOMAIN rows' \subseteq Appointments /\ Touched(r) \subseteq Known' /\ Known \subseteq Known'
  BY <1>2, <1>4, <1>6 DEF TypeInv, TypeOK
<1> QED
  BY <1>1, <1>2, <1>4, <1>5, <1>7, <1>8, CountsFacts, TypeOfWrite

LEMMA ReadTypes ==
  ASSUME TypeInv, NEW t \in Threads, NEW u \in Users, NEW a \in Appointments,
         \/ \E c \in Contents : ReadPatch(t, u, a, c)
         \/ ReadDelete(t, u, a)
  PROVE  TypeInv'
<1>1. PICK r : /\ Goto(t, r) /\ Step(r) /\ Orderly(r) /\ Touched(r) = {a}
               /\ a \in DOMAIN rows /\ Counts /\ Mark({a} \intersect Busy, "overlap")
               /\ UNCHANGED <<rows, deleted, connected, calendar>>
  <2>1. ASSUME NEW c \in Contents, ReadPatch(t, u, a, c)
        PROVE  \E r : /\ Goto(t, r) /\ Step(r) /\ Orderly(r) /\ Touched(r) = {a}
                      /\ a \in DOMAIN rows /\ Counts /\ Mark({a} \intersect Busy, "overlap")
                      /\ UNCHANGED <<rows, deleted, connected, calendar>>
    <3> DEFINE r == [op |-> "patch", id |-> a, row |-> rows[a], data |-> c]
    <3>1. Goto(t, r)
      BY <2>1 DEF ReadPatch
    <3>2. rows[a] \in Row
      BY <2>1 DEF ReadPatch, TypeInv, TypeOK
    <3>3. Step(r) /\ Orderly(r) /\ Touched(r) = {a}
      BY <3>2, TouchedFacts DEF Step, Orderly, Carries
    <3> HIDE DEF r
    <3> QED
      BY <2>1, <3>1, <3>3 DEF ReadPatch, Starts
  <2>2. ASSUME ReadDelete(t, u, a)
        PROVE  \E r : /\ Goto(t, r) /\ Step(r) /\ Orderly(r) /\ Touched(r) = {a}
                      /\ a \in DOMAIN rows /\ Counts /\ Mark({a} \intersect Busy, "overlap")
                      /\ UNCHANGED <<rows, deleted, connected, calendar>>
    <3> DEFINE r == [op |-> "delete", id |-> a, row |-> rows[a]]
    <3>1. Goto(t, r)
      BY <2>2 DEF ReadDelete
    <3>2. rows[a] \in Row
      BY <2>2 DEF ReadDelete, TypeInv, TypeOK
    <3>3. Step(r) /\ Orderly(r) /\ Touched(r) = {a}
      BY <3>2, TouchedFacts DEF Step, Orderly, Carries
    <3> HIDE DEF r
    <3> QED
      BY <2>2, <3>1, <3>3 DEF ReadDelete, Starts
  <2> QED
    BY <2>1, <2>2
<1>2. marks' \subseteq Marks /\ requests' \in 0 .. MaxRequests
  BY <1>1, MarksAreMarks, CountsFacts
<1>3. Touched(r) \subseteq Known
  BY <1>1 DEF Known
<1> QED
  BY <1>1, <1>2, <1>3, TypeOfRequest

LEMMA ListFacts ==
  ASSUME TypeInv, NEW t \in Threads, NEW u \in Users, NEW order \in SetToSeqs(Upcoming(u)),
         ListUnsynced(t, u, order)
  PROVE  \E b \in RealBatches :
           /\ Goto(t, After(b)) /\ Distinct(b.rest)
           /\ b.listed = Upcoming(u) /\ ToSet(b.rest) = Upcoming(u) /\ b.synced = 0
           /\ DOMAIN b.cached = Upcoming(u) /\ \A a \in Upcoming(u) : b.cached[a] = rows[a]
           /\ Upcoming(u) \subseteq DOMAIN rows /\ IsFiniteSet(Upcoming(u))
<1> DEFINE U == Upcoming(u)
           b == [listed |-> U, rest |-> order, synced |-> 0, cached |-> [a \in U |-> rows[a]]]
<1>1. U \subseteq DOMAIN rows /\ U \subseteq Appointments /\ IsFiniteSet(U)
  BY FS_Subset DEF Upcoming, TypeInv, TypeOK
<1>2. Cardinality(U) \in Nat
  BY <1>1, FS_CardinalityType
<1>3. order \in Seq(Appointments) /\ Distinct(order)
  <2>1. /\ order \in [1 .. Cardinality(U) -> U]
        /\ \A i, j \in 1 .. Cardinality(U) : i # j => order[i] # order[j]
    BY DEF SetToSeqs
  <2> HIDE DEF U
  <2>2. order \in Seq(U)
    BY <1>2, <2>1
  <2> QED
    BY <1>1, <2>1, <2>2 DEF Distinct
<1>4. [a \in U |-> rows[a]] \in [U -> Row]
  BY <1>1 DEF TypeInv, TypeOK
<1>5. b \in RealBatches
  <2>1. 0 \in Nat
    OBVIOUS
  <2> HIDE DEF U
  <2> QED
    BY <1>1, <1>3, <1>4, <2>1 DEF RealBatches
<1>6. Goto(t, After(b)) /\ ToSet(order) = U
  BY DEF ListUnsynced
<1>7. /\ b.listed = U /\ b.rest = order /\ b.synced = 0
      /\ b.cached = [a \in U |-> rows[a]]
  OBVIOUS
<1> HIDE DEF U, b
<1>8. DOMAIN b.cached = U /\ \A a \in U : b.cached[a] = rows[a]
  BY <1>7
<1>9. /\ Goto(t, After(b)) /\ Distinct(b.rest)
      /\ b.listed = U /\ ToSet(b.rest) = U /\ b.synced = 0
      /\ DOMAIN b.cached = U /\ \A a \in U : b.cached[a] = rows[a]
      /\ U \subseteq DOMAIN rows /\ IsFiniteSet(U)
  BY <1>1, <1>3, <1>6, <1>7, <1>8
<1> USE DEF U
<1> QED
  BY <1>5, <1>9

LEMMA ListTypes ==
  ASSUME TypeInv, NEW t \in Threads, NEW u \in Users, NEW order \in SetToSeqs(Upcoming(u)),
         ListUnsynced(t, u, order)
  PROVE  TypeInv'
<1>1. PICK b \in RealBatches :
        /\ Goto(t, After(b)) /\ Distinct(b.rest) /\ ToSet(b.rest) = Upcoming(u)
        /\ Upcoming(u) \subseteq DOMAIN rows
  BY ListFacts
<1>2. b \in Batches /\ b # NoBatch
  BY BatchKinds
<1>3. Step(After(b)) /\ Orderly(After(b)) /\ Touched(After(b)) \subseteq Known
  BY <1>1, <1>2, AfterTypes, AfterFacts DEF Known
<1>4. /\ Counts /\ UNCHANGED <<rows, deleted, connected, calendar>>
      /\ Mark(Upcoming(u) \intersect Busy, "overlap")
  BY DEF ListUnsynced, Starts
<1>5. Upcoming(u) \intersect Busy \in SUBSET Appointments
  BY <1>1 DEF TypeInv, TypeOK
<1>6. marks' \subseteq Marks /\ requests' \in 0 .. MaxRequests
  BY <1>4, <1>5, MarksAreMarks, CountsFacts
<1> QED
  BY <1>1, <1>3, <1>4, <1>6, TypeOfRequest

\* What an update of a patch leads to.
LEMMA PatchFacts ==
  ASSUME TypeInv, NEW t \in Threads, CommitPatch(t)
  PROVE  LET r == thread[t]
             x == thread'[t]
         IN  /\ r.op = "patch" /\ Alone(t) /\ r.id \in Known
             /\ Step(x) /\ Orderly(x) /\ Waiting(x) = {} /\ ~Carries(x)
             /\ UNCHANGED <<deleted, connected, calendar, requests, marks>>
             /\ Touched(x) \subseteq {r.id}
             /\ \/ /\ x.op = "load" /\ x.action = "update" /\ x.id = r.id
                   /\ \/ rows' = rows
                      \/ r.id \in DOMAIN rows /\ rows' = [rows EXCEPT ![r.id].content = r.data]
                \/ x = Idle /\ r.id \notin DOMAIN rows /\ rows' = rows
<1> DEFINE r == thread[t]
           next == [op |-> "load", action |-> "update", id |-> r.id, batch |-> NoBatch]
<1>1. /\ r.op = "patch"
      /\ UNCHANGED <<deleted, connected, calendar, requests, marks>>
      /\ \/ /\ Goto(t, next)
            /\ \/ rows' = rows
               \/ r.id \in DOMAIN rows /\ rows' = [rows EXCEPT ![r.id].content = r.data]
         \/ Goto(t, Idle) /\ r.id \notin DOMAIN rows /\ rows' = rows
  BY DEF CommitPatch
<1>2. r.id \in Appointments /\ r.id \in Known
  BY <1>1, IdleFacts, TouchedFacts DEF TypeInv, TypeOK, Step
<1>3. /\ Step(next) /\ Orderly(next) /\ Waiting(next) = {} /\ ~Carries(next)
      /\ Touched(next) = {r.id}
      /\ next.op = "load" /\ next.action = "update" /\ next.id = r.id
  <2>1. next.op = "load" /\ next.action = "update" /\ next.id = r.id /\ next.batch = NoBatch
    OBVIOUS
  <2> HIDE DEF next
  <2> QED
    BY <1>2, <2>1, NoBatchIsABatch, TouchedFacts DEF Step, Orderly, Carries, Waiting
<1> HIDE DEF next
<1>4. CASE Goto(t, next)
  BY <1>1, <1>2, <1>3, <1>4, GotoFacts, IdleFacts
<1>5. CASE Goto(t, Idle) /\ r.id \notin DOMAIN rows /\ rows' = rows
  BY <1>1, <1>2, <1>5, GotoFacts, IdleFacts
<1> QED
  BY <1>1, <1>4, <1>5

\* A change of one row that exists.
LEMMA TypeOfEdit ==
  ASSUME TypeInv, NEW a \in DOMAIN rows, DOMAIN rows' = DOMAIN rows, rows'[a] \in Row,
         \A b \in DOMAIN rows \ {a} : rows'[b] = rows[b], deleted' = deleted
  PROVE  /\ Known' = Known
         /\ DOMAIN rows' \subseteq Appointments
         /\ \A b \in DOMAIN rows' : rows'[b] \in Row
         /\ IsFiniteSet(DOMAIN rows')
         /\ deleted' \subseteq Appointments \ DOMAIN rows'
  BY DEF Known, TypeInv, TypeOK

LEMMA RowEdits ==
  ASSUME NEW row \in Row
  PROVE  /\ \A c \in Contents :
              /\ [row EXCEPT !.content = c] \in Row
              /\ [row EXCEPT !.content = c].event = row.event
              /\ [row EXCEPT !.content = c].synced = row.synced
              /\ [row EXCEPT !.content = c].content = c
         /\ \A e \in Events :
              /\ [row EXCEPT !.event = e, !.synced = TRUE] \in Row
              /\ [row EXCEPT !.event = e, !.synced = TRUE].event = e
              /\ [row EXCEPT !.event = e, !.synced = TRUE].synced = TRUE
              /\ [row EXCEPT !.event = e, !.synced = TRUE].content = row.content
  BY DEF Row

LEMMA PatchTypes ==
  ASSUME TypeInv, NEW t \in Threads, CommitPatch(t)
  PROVE  TypeInv'
<1> DEFINE r == thread[t]
           x == thread'[t]
<1>1. /\ r.op = "patch" /\ r.id \in Known
      /\ Step(x) /\ Orderly(x) /\ Touched(x) \subseteq {r.id}
      /\ UNCHANGED <<deleted, connected, calendar, requests, marks>>
      /\ \/ rows' = rows
         \/ r.id \in DOMAIN rows /\ rows' = [rows EXCEPT ![r.id].content = r.data]
  BY PatchFacts
<1>2. Goto(t, x)
  BY DEF CommitPatch, Goto, TypeInv, TypeOK
<1>3. requests' \in 0 .. MaxRequests /\ marks' \subseteq Marks
  BY <1>1 DEF TypeInv, TypeOK
<1>4. CASE rows' = rows
  BY <1>1, <1>2, <1>3, <1>4, TypeOfRequest
<1>5. CASE r.id \in DOMAIN rows /\ rows' = [rows EXCEPT ![r.id].content = r.data]
  <2>1. r.data \in Contents /\ rows[r.id] \in Row
    BY <1>1, <1>5, IdleFacts DEF TypeInv, TypeOK, Step
  <2>2. /\ DOMAIN rows' = DOMAIN rows
        /\ rows'[r.id] = [rows[r.id] EXCEPT !.content = r.data]
        /\ \A b \in DOMAIN rows \ {r.id} : rows'[b] = rows[b]
    BY <1>5
  <2>3. rows'[r.id] \in Row
    <3> HIDE DEF r, x
    <3>1. [rows[r.id] EXCEPT !.content = r.data] \in Row
      BY <2>1 DEF Row
    <3> QED
      BY <2>2, <3>1
  <2> HIDE DEF x
  <2> QED
    BY <1>1, <1>2, <1>3, <1>5, <2>2, <2>3, TypeOfEdit, TypeOfWrite
<1> QED
  BY <1>1, <1>4, <1>5

LEMMA LoadFacts ==
  ASSUME TypeInv, NEW t \in Threads, Load(t)
  PROVE  LET r == thread[t]
             x == thread'[t]
         IN  /\ r.op = "load" /\ Alone(t) /\ Goto(t, x)
             /\ UNCHANGED <<rows, deleted, connected, calendar, requests>>
             /\ marks' \subseteq Marks /\ marks \subseteq marks'
             /\ Step(x) /\ Orderly(x) /\ Touched(x) \subseteq Touched(r)
             /\ \/ x = Idle /\ r.id \notin DOMAIN rows
                \/ /\ x.op = "call" /\ x.id = r.id /\ x.action = r.action
                   /\ x.batch = r.batch /\ x.row = Loaded(r)
                   /\ Waiting(x) = Waiting(r) /\ Touched(x) = Touched(r)
                   /\ Carries(x) <=> Carries(r)
                \/ /\ x = After(r.batch)
                   /\ Loaded(r).event = None \/ <<r.id, "missed">> \in marks'
<1> DEFINE r == thread[t]
           call == [op |-> "call", action |-> r.action, id |-> r.id,
                    row |-> Loaded(r), batch |-> r.batch]
           readable == r.id \in DOMAIN rows \/ (r.batch # NoBatch /\ r.id \in DOMAIN r.batch.cached)
<1>1. /\ r.op = "load" /\ UNCHANGED <<rows, deleted, connected, calendar, requests>>
      /\ \/ Goto(t, Idle) /\ ~readable /\ UNCHANGED marks
         \/ Goto(t, call) /\ readable /\ UNCHANGED marks
         \/ /\ Goto(t, After(r.batch))
            /\ Mark(IF Loaded(r).event = None THEN {} ELSE {r.id}, "missed")
  BY DEF Load
<1>2. /\ r.id \in Appointments /\ r.action \in {"create", "update"} /\ r.batch \in Batches
      /\ Orderly(r) /\ Step(r)
  BY <1>1, IdleFacts DEF TypeInv, TypeOK, Step
<1>3. CASE Goto(t, Idle) /\ ~readable /\ UNCHANGED marks
  <2>1. thread'[t] = Idle /\ Alone(t)
    BY <1>3, GotoFacts
  <2> QED
    BY <1>1, <1>3, <2>1, IdleFacts DEF TypeInv, TypeOK
<1>4. CASE Goto(t, call) /\ readable /\ UNCHANGED marks
  <2>1. Loaded(r) \in Row
    <3>1. CASE r.batch # NoBatch /\ r.id \in DOMAIN r.batch.cached
      <4>1. r.batch \in RealBatches
        BY <1>2, <3>1, BatchKinds
      <4>2. r.batch.cached \in UNION {[S -> Row] : S \in SUBSET Appointments}
        BY <4>1 DEF RealBatches
      <4> QED
        BY <3>1, <4>2 DEF Loaded
    <3>2. CASE ~(r.batch # NoBatch /\ r.id \in DOMAIN r.batch.cached)
      BY <1>4, <3>2 DEF Loaded, TypeInv, TypeOK
    <3> QED
      BY <3>1, <3>2
  <2>2. /\ call.op = "call" /\ call.id = r.id /\ call.action = r.action
        /\ call.batch = r.batch /\ call.row = Loaded(r)
    OBVIOUS
  <2>3. thread'[t] = call /\ Alone(t)
    BY <1>4, GotoFacts
  <2> HIDE DEF call, readable
  <2>4. Step(call)
    BY <1>2, <2>1, <2>2 DEF Step
  <2>5. Carries(call) <=> Carries(r)
    BY <1>1, <2>2 DEF Carries
  <2>6. Orderly(call)
    BY <1>1, <1>2, <2>2, <2>5 DEF Orderly
  <2>7. Waiting(call) = Waiting(r)
    BY <1>1, <2>2, <2>5 DEF Waiting
  <2>8. Touched(call) = Touched(r)
    BY <1>1, <2>2, <2>7, TouchedFacts
  <2> QED
    BY <1>1, <1>4, <2>2, <2>3, <2>4, <2>5, <2>6, <2>7, <2>8 DEF TypeInv, TypeOK
<1>5. CASE /\ Goto(t, After(r.batch))
           /\ Mark(IF Loaded(r).event = None THEN {} ELSE {r.id}, "missed")
  <2>1. thread'[t] = After(r.batch) /\ Alone(t)
    BY <1>5, GotoFacts
  <2>2. marks' \subseteq Marks /\ marks \subseteq marks'
    BY <1>2, <1>5, MarksAreMarks
  <2>3. Loaded(r).event = None \/ <<r.id, "missed">> \in marks'
    BY <1>5 DEF Mark
  <2>4. Step(After(r.batch)) /\ Orderly(After(r.batch)) /\ Touched(After(r.batch)) \subseteq Touched(r)
    BY <1>1, <1>2, MovesOn, TouchedFacts
  <2> QED
    BY <1>1, <1>5, <2>1, <2>2, <2>3, <2>4
<1> QED
  BY <1>1, <1>3, <1>4, <1>5

LEMMA InsertFacts ==
  ASSUME TypeInv, NEW t \in Threads, NEW e \in Events,
         \E answered \in BOOLEAN : InsertEvent(t, e, answered)
  PROVE  LET r == thread[t]
             x == thread'[t]
         IN  /\ r.op = "call" /\ Alone(t) /\ Goto(t, x) /\ r.id \in Known
             /\ r.action = "create" \/ r.row.event = None
             /\ UNCHANGED <<rows, deleted, connected, requests>>
             /\ e \notin DOMAIN calendar /\ DOMAIN calendar' = DOMAIN calendar \union {e}
             /\ calendar'[e] \in Event /\ calendar'[e].of = r.id
             /\ calendar'[e].content = r.row.content /\ ~calendar'[e].gone
             /\ \A f \in DOMAIN calendar : calendar'[f] = calendar[f]
             /\ marks' \subseteq Marks /\ marks \subseteq marks'
             /\ Step(x) /\ Orderly(x) /\ Touched(x) \subseteq Touched(r)
             /\ \/ /\ x.op = "store" /\ x.id = r.id /\ x.event = e /\ x.batch = r.batch
                   /\ Waiting(x) = Waiting(r) /\ Touched(x) = Touched(r)
                   /\ Carries(x) <=> Carries(r)
                \/ x = After(r.batch) /\ <<r.id, "unanswered">> \in marks'
<1> DEFINE r == thread[t]
           store == [op |-> "store", id |-> r.id, event |-> e, batch |-> r.batch]
           event == [of |-> r.id, content |-> r.row.content, gone |-> FALSE]
<1> PICK answered \in BOOLEAN : InsertEvent(t, e, answered)
  OBVIOUS
<1>1. /\ r.op = "call" /\ (r.action = "create" \/ r.row.event = None)
      /\ UNCHANGED <<rows, deleted, connected, requests>>
      /\ e \notin DOMAIN calendar
      /\ calendar' = Put(calendar, e, event)
      /\ Goto(t, IF answered THEN store ELSE After(r.batch))
      /\ Mark(IF answered THEN {} ELSE {r.id}, "unanswered")
  BY DEF InsertEvent
<1>2. /\ r.id \in Appointments /\ r.row \in Row /\ r.batch \in Batches
      /\ Orderly(r) /\ Step(r) /\ r.id \in Known
  BY <1>1, IdleFacts, TouchedFacts DEF TypeInv, TypeOK, Step
<1>3. event \in Event /\ event.of = r.id /\ event.content = r.row.content /\ ~event.gone
  BY <1>2 DEF Event, Row
<1>4. /\ DOMAIN calendar' = DOMAIN calendar \union {e} /\ calendar'[e] = event
      /\ \A f \in DOMAIN calendar : calendar'[f] = calendar[f]
  BY <1>1 DEF Put
<1>5. marks' \subseteq Marks /\ marks \subseteq marks'
  BY <1>1, <1>2, MarksAreMarks
<1>6. CASE answered
  <2>1. store.op = "store" /\ store.id = r.id /\ store.event = e /\ store.batch = r.batch
    OBVIOUS
  <2>2. thread'[t] = store /\ Alone(t)
    BY <1>1, <1>6, GotoFacts
  <2> HIDE DEF store, event
  <2>3. Step(store)
    BY <1>2, <2>1 DEF Step
  <2>4. Carries(store) <=> Carries(r)
    BY <1>1, <2>1 DEF Carries
  <2>5. Orderly(store)
    BY <1>1, <1>2, <2>1, <2>4 DEF Orderly
  <2>6. Waiting(store) = Waiting(r)
    BY <1>1, <2>1, <2>4 DEF Waiting
  <2>7. Touched(store) = Touched(r)
    BY <1>1, <2>1, <2>6, TouchedFacts
  <2>8. Goto(t, store)
    BY <1>1, <1>6
  <2> QED
    BY <1>1, <1>2, <1>3, <1>4, <1>5, <2>1, <2>2, <2>3, <2>4, <2>5, <2>6, <2>7, <2>8
<1>7. CASE ~answered
  <2>1. thread'[t] = After(r.batch) /\ Alone(t) /\ Goto(t, After(r.batch))
    BY <1>1, <1>7, GotoFacts
  <2>2. Step(After(r.batch)) /\ Orderly(After(r.batch)) /\ Touched(After(r.batch)) \subseteq Touched(r)
    BY <1>1, <1>2, MovesOn, TouchedFacts
  <2>3. <<r.id, "unanswered">> \in marks'
    BY <1>1, <1>7 DEF Mark
  <2> QED
    BY <1>1, <1>2, <1>3, <1>4, <1>5, <2>1, <2>2, <2>3
<1> QED
  BY <1>6, <1>7

LEMMA UpdateFacts ==
  ASSUME TypeInv, LinkInv, NEW t \in Threads, NEW answered \in BOOLEAN, UpdateEvent(t, answered)
  PROVE  LET r == thread[t]
             x == thread'[t]
             e == thread[t].row.event
         IN  /\ r.op = "call" /\ r.action = "update" /\ Alone(t) /\ Goto(t, x)
             /\ UNCHANGED <<rows, deleted, connected, requests>>
             /\ e \in DOMAIN calendar /\ calendar[e].of = r.id /\ ~calendar[e].gone
             /\ DOMAIN calendar' = DOMAIN calendar
             /\ calendar'[e] = [calendar[e] EXCEPT !.content = r.row.content]
             /\ calendar'[e] \in Event /\ calendar'[e].of = r.id /\ ~calendar'[e].gone
             /\ calendar'[e].content = r.row.content
             /\ \A f \in DOMAIN calendar : f # e => calendar'[f] = calendar[f]
             /\ marks' \subseteq Marks /\ marks \subseteq marks'
             /\ Step(x) /\ Orderly(x) /\ Touched(x) \subseteq Touched(r)
             /\ x = After(r.batch)
<1> DEFINE r == thread[t]
           e == r.row.event
<1>1. /\ r.op = "call" /\ r.action = "update" /\ e # None /\ ~calendar[e].gone
      /\ UNCHANGED <<rows, deleted, connected, requests>>
      /\ calendar' = [calendar EXCEPT ![e].content = r.row.content]
      /\ Goto(t, After(r.batch))
      /\ Mark(IF answered THEN {} ELSE {r.id}, "unanswered")
  BY DEF UpdateEvent
<1>2. /\ r.id \in Appointments /\ r.row \in Row /\ r.batch \in Batches
      /\ Orderly(r) /\ Step(r)
  BY <1>1, IdleFacts DEF TypeInv, TypeOK, Step
<1>3. e \in DOMAIN calendar /\ calendar[e].of = r.id
  BY <1>1 DEF LinkInv, EventIsOf
<1>4. calendar[e] \in Event /\ r.row.content \in Contents
  BY <1>2, <1>3 DEF TypeInv, TypeOK, Row
<1>5. /\ DOMAIN calendar' = DOMAIN calendar
      /\ calendar'[e] = [calendar[e] EXCEPT !.content = r.row.content]
      /\ \A f \in DOMAIN calendar : f # e => calendar'[f] = calendar[f]
  BY <1>1, <1>3
<1>6. /\ calendar'[e] \in Event /\ calendar'[e].of = r.id /\ ~calendar'[e].gone
      /\ calendar'[e].content = r.row.content
  <2> DEFINE v == calendar[e]
             c == r.row.content
  <2>1. v \in Event /\ c \in Contents /\ v.of = r.id /\ ~v.gone
    BY <1>1, <1>3, <1>4
  <2>2. calendar'[e] = [v EXCEPT !.content = c]
    BY <1>5
  <2> HIDE DEF v, c
  <2>3. /\ [v EXCEPT !.content = c] \in Event
        /\ [v EXCEPT !.content = c].of = v.of
        /\ [v EXCEPT !.content = c].gone = v.gone
        /\ [v EXCEPT !.content = c].content = c
    BY <2>1 DEF Event
  <2> USE DEF c
  <2> QED
    BY <2>1, <2>2, <2>3
<1>7. marks' \subseteq Marks /\ marks \subseteq marks'
  BY <1>1, <1>2, MarksAreMarks
<1>8. thread'[t] = After(r.batch) /\ Alone(t)
  BY <1>1, GotoFacts
<1>9. Step(After(r.batch)) /\ Orderly(After(r.batch)) /\ Touched(After(r.batch)) \subseteq Touched(r)
  BY <1>1, <1>2, MovesOn, TouchedFacts
<1> QED
  BY <1>1, <1>3, <1>5, <1>6, <1>7, <1>8, <1>9

LEMMA RefuseFacts ==
  ASSUME TypeInv, NEW t \in Threads, Refuse(t)
  PROVE  LET r == thread[t]
             x == thread'[t]
         IN  /\ r.op = "call" /\ Alone(t) /\ Goto(t, x)
             /\ UNCHANGED <<rows, deleted, connected, calendar, requests>>
             /\ marks' \subseteq Marks /\ marks \subseteq marks'
             /\ Step(x) /\ Orderly(x) /\ Touched(x) \subseteq Touched(r)
             /\ x = After(r.batch)
             /\ r.row.event = None \/ <<r.id, "missed">> \in marks'
<1> DEFINE r == thread[t]
<1>1. /\ r.op = "call" /\ Goto(t, After(r.batch))
      /\ Mark(IF r.row.event = None THEN {} ELSE {r.id}, "missed")
      /\ UNCHANGED <<rows, deleted, connected, calendar, requests>>
  BY DEF Refuse
<1>2. r.id \in Appointments /\ r.batch \in Batches /\ Orderly(r) /\ Step(r)
  BY <1>1, IdleFacts DEF TypeInv, TypeOK, Step
<1>3. marks' \subseteq Marks /\ marks \subseteq marks'
  BY <1>1, <1>2, MarksAreMarks
<1>4. r.row.event = None \/ <<r.id, "missed">> \in marks'
  BY <1>1 DEF Mark
<1>5. thread'[t] = After(r.batch) /\ Alone(t)
  BY <1>1, GotoFacts
<1>6. Step(After(r.batch)) /\ Orderly(After(r.batch)) /\ Touched(After(r.batch)) \subseteq Touched(r)
  BY <1>1, <1>2, MovesOn, TouchedFacts
<1> QED
  BY <1>1, <1>3, <1>4, <1>5, <1>6

LEMMA StoreFacts ==
  ASSUME TypeInv, NEW t \in Threads, StoreEvent(t)
  PROVE  LET r == thread[t]
             x == thread'[t]
         IN  /\ r.op = "store" /\ r.event \in Events /\ Alone(t) /\ Goto(t, x)
             /\ UNCHANGED <<deleted, connected, calendar, requests, marks>>
             /\ Step(x) /\ Orderly(x) /\ Touched(x) \subseteq Touched(r)
             /\ \/ x = Idle /\ r.id \notin DOMAIN rows /\ rows' = rows
                \/ /\ x = After(Counted(r.batch)) /\ r.id \in DOMAIN rows
                   /\ DOMAIN rows' = DOMAIN rows /\ rows'[r.id] \in Row
                   /\ rows'[r.id].event = r.event /\ rows'[r.id].synced
                   /\ rows'[r.id].content = rows[r.id].content
                   /\ \A b \in DOMAIN rows \ {r.id} : rows'[b] = rows[b]
<1> DEFINE r == thread[t]
<1>1. /\ r.op = "store"
      /\ UNCHANGED <<deleted, connected, calendar, requests, marks>>
      /\ \/ Goto(t, Idle) /\ r.id \notin DOMAIN rows /\ rows' = rows
         \/ /\ Goto(t, After(Counted(r.batch))) /\ r.id \in DOMAIN rows
            /\ rows' = [rows EXCEPT ![r.id].event = r.event, ![r.id].synced = TRUE]
  BY DEF StoreEvent
<1>2. r.id \in Appointments /\ r.event \in Events /\ r.batch \in Batches /\ Orderly(r) /\ Step(r)
  BY <1>1, IdleFacts DEF TypeInv, TypeOK, Step
<1>3. CASE Goto(t, Idle) /\ r.id \notin DOMAIN rows /\ rows' = rows
  <2>1. thread'[t] = Idle /\ Alone(t)
    BY <1>3, GotoFacts
  <2> QED
    BY <1>1, <1>2, <1>3, <2>1, IdleFacts
<1>4. CASE /\ Goto(t, After(Counted(r.batch))) /\ r.id \in DOMAIN rows
           /\ rows' = [rows EXCEPT ![r.id].event = r.event, ![r.id].synced = TRUE]
  <2>1. thread'[t] = After(Counted(r.batch)) /\ Alone(t)
    BY <1>4, GotoFacts
  <2>2. rows[r.id] \in Row
    BY <1>4 DEF TypeInv, TypeOK
  <2>3. /\ DOMAIN rows' = DOMAIN rows
        /\ rows'[r.id] = [rows[r.id] EXCEPT !.event = r.event, !.synced = TRUE]
        /\ \A b \in DOMAIN rows \ {r.id} : rows'[b] = rows[b]
    BY <1>4
  <2>4. /\ rows'[r.id] \in Row /\ rows'[r.id].event = r.event /\ rows'[r.id].synced
        /\ rows'[r.id].content = rows[r.id].content
    <3> DEFINE row == rows[r.id]
               e == r.event
    <3>1. row \in Row /\ e \in Events /\ rows'[r.id] = [row EXCEPT !.event = e, !.synced = TRUE]
      BY <1>2, <2>2, <2>3
    <3> HIDE DEF row, e
    <3>2. /\ [row EXCEPT !.event = e, !.synced = TRUE] \in Row
          /\ [row EXCEPT !.event = e, !.synced = TRUE].event = e
          /\ [row EXCEPT !.event = e, !.synced = TRUE].synced
          /\ [row EXCEPT !.event = e, !.synced = TRUE].content = row.content
      BY <3>1 DEF Row
    <3> USE DEF row, e
    <3> QED
      BY <3>1, <3>2
  <2>5. /\ Step(After(Counted(r.batch))) /\ Orderly(After(Counted(r.batch)))
        /\ Touched(After(Counted(r.batch))) \subseteq Touched(r)
    BY <1>1, <1>2, MovesOn, TouchedFacts
  <2> QED
    BY <1>1, <1>2, <1>4, <2>1, <2>3, <2>4, <2>5
<1> QED
  BY <1>1, <1>3, <1>4

LEMMA DeleteFacts ==
  ASSUME TypeInv, LinkInv, NEW t \in Threads, NEW reached \in BOOLEAN, DeleteEvent(t, reached)
  PROVE  LET r == thread[t]
             x == thread'[t]
             e == thread[t].row.event
         IN  /\ r.op = "delete" /\ Alone(t) /\ Goto(t, x)
             /\ UNCHANGED <<rows, deleted, connected, requests>>
             /\ marks' \subseteq Marks /\ marks \subseteq marks'
             /\ Step(x) /\ Orderly(x) /\ Touched(x) = {r.id} /\ x.op = "drop" /\ x.id = r.id
             /\ ~Carries(x) /\ Waiting(x) = {}
             /\ \/ calendar' = calendar /\ (e = None \/ <<r.id, "missed">> \in marks')
                \/ /\ e \in DOMAIN calendar /\ calendar[e].of = r.id
                   /\ DOMAIN calendar' = DOMAIN calendar
                   /\ calendar'[e] \in Event /\ calendar'[e].of = r.id /\ calendar'[e].gone
                   /\ \A f \in DOMAIN calendar : f # e => calendar'[f] = calendar[f]
<1> DEFINE r == thread[t]
           e == r.row.event
           drop == [op |-> "drop", id |-> r.id]
<1>1. /\ r.op = "delete" /\ Goto(t, drop)
      /\ reached => e # None
      /\ calendar' = IF reached THEN [calendar EXCEPT ![e].gone = TRUE] ELSE calendar
      /\ Mark(IF reached \/ e = None THEN {} ELSE {r.id}, "missed")
      /\ UNCHANGED <<rows, deleted, connected, requests>>
  BY DEF DeleteEvent
<1>2. r.id \in Appointments /\ r.row \in Row
  BY <1>1, IdleFacts DEF TypeInv, TypeOK, Step
<1>3. drop.op = "drop" /\ drop.id = r.id
  OBVIOUS
<1>4. thread'[t] = drop /\ Alone(t)
  BY <1>1, GotoFacts
<1> HIDE DEF drop
<1>5. /\ Step(drop) /\ Orderly(drop) /\ Touched(drop) = {r.id} /\ ~Carries(drop)
      /\ Waiting(drop) = {}
  BY <1>2, <1>3, TouchedFacts DEF Step, Orderly, Carries
<1>6. marks' \subseteq Marks /\ marks \subseteq marks'
  BY <1>1, <1>2, MarksAreMarks
<1>7. CASE ~reached
  <2>1. calendar' = calendar /\ (e = None \/ <<r.id, "missed">> \in marks')
    BY <1>1, <1>7 DEF Mark
  <2> QED
    BY <1>1, <1>3, <1>4, <1>5, <1>6, <2>1
<1>8. CASE reached
  <2>1. e \in DOMAIN calendar /\ calendar[e].of = r.id
    BY <1>1, <1>8 DEF LinkInv, EventIsOf
  <2>2. /\ DOMAIN calendar' = DOMAIN calendar
        /\ calendar'[e] = [calendar[e] EXCEPT !.gone = TRUE]
        /\ \A f \in DOMAIN calendar : f # e => calendar'[f] = calendar[f]
    BY <1>1, <1>8, <2>1
  <2>3. calendar'[e] \in Event /\ calendar'[e].of = r.id /\ calendar'[e].gone
    <3> DEFINE v == calendar[e]
    <3>1. v \in Event /\ v.of = r.id /\ calendar'[e] = [v EXCEPT !.gone = TRUE]
      BY <2>1, <2>2 DEF TypeInv, TypeOK
    <3> HIDE DEF v
    <3> QED
      BY <3>1 DEF Event
  <2> QED
    BY <1>1, <1>3, <1>4, <1>5, <1>6, <2>1, <2>2, <2>3
<1> QED
  BY <1>7, <1>8

LEMMA DropFacts ==
  ASSUME TypeInv, NEW t \in Threads, Drop(t)
  PROVE  LET a == thread[t].id
         IN  /\ thread[t].op = "drop" /\ Alone(t) /\ Goto(t, Idle) /\ thread'[t] = Idle
             /\ a \in Known /\ a \in Appointments
             /\ UNCHANGED <<connected, calendar, requests, marks>>
             /\ DOMAIN rows' = DOMAIN rows \ {a} /\ deleted' = deleted \union {a}
             /\ \A b \in DOMAIN rows' : rows'[b] = rows[b]
             /\ Known' = Known
<1>1. /\ thread[t].op = "drop" /\ Goto(t, Idle)
      /\ UNCHANGED <<connected, calendar, requests, marks>>
      /\ rows' = [x \in DOMAIN rows \ {thread[t].id} |-> rows[x]]
      /\ deleted' = deleted \union {thread[t].id}
  BY DEF Drop
<1>2. thread[t].id \in Known /\ thread[t].id \in Appointments
  BY <1>1, IdleFacts, TouchedFacts DEF TypeInv, TypeOK, Step
<1>3. thread'[t] = Idle /\ Alone(t)
  BY <1>1, GotoFacts
<1>4. /\ DOMAIN rows' = DOMAIN rows \ {thread[t].id}
      /\ \A b \in DOMAIN rows' : rows'[b] = rows[b]
  BY <1>1
<1>5. Known' = Known
  BY <1>1, <1>2, <1>4 DEF Known
<1> QED
  BY <1>1, <1>2, <1>3, <1>4, <1>5

LEMMA LoseFacts ==
  ASSUME TypeInv, NEW t \in Threads, LoseRequest(t)
  PROVE  /\ Alone(t) /\ Goto(t, Idle) /\ thread'[t] = Idle
         /\ UNCHANGED <<rows, deleted, connected, calendar, requests>>
         /\ marks' \subseteq Marks /\ marks \subseteq marks'
         /\ thread[t].op \in {"load", "call", "store", "drop"} =>
              <<thread[t].id, "lost">> \in marks'
<1> DEFINE r == thread[t]
<1>1. /\ Goto(t, Idle)
      /\ Mark(IF r.op \in {"load", "call", "store", "drop"} THEN {r.id} ELSE {}, "lost")
      /\ UNCHANGED <<rows, deleted, connected, calendar, requests>>
  BY DEF LoseRequest
<1>2. r.op \in {"load", "call", "store", "drop"} => r.id \in Appointments
  BY IdleFacts DEF TypeInv, TypeOK, Step
<1>3. marks' \subseteq Marks /\ marks \subseteq marks'
  BY <1>1, <1>2, MarksAreMarks
<1>4. r.op \in {"load", "call", "store", "drop"} => <<r.id, "lost">> \in marks'
  BY <1>1 DEF Mark
<1> QED
  BY <1>1, <1>3, <1>4, GotoFacts

LEMMA UnchangedTypes ==
  ASSUME TypeInv
  PROVE  /\ requests \in 0 .. MaxRequests
         /\ \A t \in Threads : Touched(thread[t]) \subseteq Known
         /\ DOMAIN rows \subseteq Appointments /\ \A a \in DOMAIN rows : rows[a] \in Row
         /\ IsFiniteSet(DOMAIN rows) /\ marks \subseteq Marks
         /\ deleted \subseteq Appointments \ DOMAIN rows
         /\ DOMAIN calendar \subseteq Events
         /\ \A e \in DOMAIN calendar : calendar[e] \in Event /\ calendar[e].of \in Known
  BY DEF TypeInv, TypeOK

LEMMA SyncTypes ==
  ASSUME TypeInv, LinkInv, NEW t \in Threads, SyncStep(t)
  PROVE  TypeInv'
<1> DEFINE r == thread[t]
           x == thread'[t]
<1>1. CASE Load(t)
  <2>1. /\ Goto(t, x) /\ Step(x) /\ Orderly(x) /\ Touched(x) \subseteq Touched(r)
        /\ UNCHANGED <<rows, deleted, connected, calendar, requests>> /\ marks' \subseteq Marks
    BY <1>1, LoadFacts
  <2> HIDE DEF x
  <2> QED
    BY <2>1, UnchangedTypes, TypeOfRequest
<1>2. CASE Refuse(t)
  <2>1. /\ Goto(t, x) /\ Step(x) /\ Orderly(x) /\ Touched(x) \subseteq Touched(r)
        /\ UNCHANGED <<rows, deleted, connected, calendar, requests>> /\ marks' \subseteq Marks
    BY <1>2, RefuseFacts
  <2> HIDE DEF x
  <2> QED
    BY <2>1, UnchangedTypes, TypeOfRequest
<1>3. ASSUME NEW e \in Events, NEW answered \in BOOLEAN, InsertEvent(t, e, answered)
      PROVE  TypeInv'
  <2>1. /\ Goto(t, x) /\ Step(x) /\ Orderly(x) /\ Touched(x) \subseteq Touched(r)
        /\ UNCHANGED <<rows, deleted, connected, requests>> /\ marks' \subseteq Marks
        /\ DOMAIN calendar' = DOMAIN calendar \union {e}
        /\ calendar'[e] \in Event /\ calendar'[e].of = r.id /\ r.id \in Known
        /\ \A f \in DOMAIN calendar : calendar'[f] = calendar[f]
    BY <1>3, InsertFacts
  <2> HIDE DEF x, r
  <2>2. /\ DOMAIN calendar' \subseteq Events
        /\ \A f \in DOMAIN calendar' : calendar'[f] \in Event /\ calendar'[f].of \in Known
    BY <2>1, UnchangedTypes
  <2>3. Touched(x) \subseteq Known
    BY <2>1, UnchangedTypes DEF r
  <2> QED
    BY <2>1, <2>2, <2>3, TypeOfCall
<1>4. ASSUME NEW answered \in BOOLEAN, UpdateEvent(t, answered)
      PROVE  TypeInv'
  <2> DEFINE e == r.row.event
  <2>1. /\ Goto(t, x) /\ Step(x) /\ Orderly(x) /\ Touched(x) \subseteq Touched(r)
        /\ UNCHANGED <<rows, deleted, connected, requests>> /\ marks' \subseteq Marks
        /\ DOMAIN calendar' = DOMAIN calendar /\ e \in DOMAIN calendar
        /\ calendar'[e] \in Event /\ calendar'[e].of = calendar[e].of
        /\ \A f \in DOMAIN calendar : f # e => calendar'[f] = calendar[f]
    BY <1>4, UpdateFacts
  <2> HIDE DEF x, r, e
  <2>2. /\ DOMAIN calendar' \subseteq Events
        /\ \A f \in DOMAIN calendar' : calendar'[f] \in Event /\ calendar'[f].of \in Known
    BY <2>1, UnchangedTypes
  <2>3. Touched(x) \subseteq Known
    BY <2>1, UnchangedTypes DEF r
  <2> QED
    BY <2>1, <2>2, <2>3, TypeOfCall
<1>5. CASE StoreEvent(t)
  <2>1. /\ Goto(t, x) /\ Step(x) /\ Orderly(x) /\ Touched(x) \subseteq Touched(r)
        /\ UNCHANGED <<deleted, connected, calendar, requests, marks>>
        /\ \/ rows' = rows
           \/ /\ r.id \in DOMAIN rows /\ DOMAIN rows' = DOMAIN rows /\ rows'[r.id] \in Row
              /\ \A b \in DOMAIN rows \ {r.id} : rows'[b] = rows[b]
    BY <1>5, StoreFacts
  <2>2. Touched(x) \subseteq Known
    BY <2>1, UnchangedTypes
  <2> HIDE DEF x, r
  <2>3. CASE rows' = rows
    BY <2>1, <2>2, <2>3, UnchangedTypes, TypeOfRequest
  <2>4. CASE /\ r.id \in DOMAIN rows /\ DOMAIN rows' = DOMAIN rows /\ rows'[r.id] \in Row
             /\ \A b \in DOMAIN rows \ {r.id} : rows'[b] = rows[b]
    BY <2>1, <2>2, <2>4, UnchangedTypes, TypeOfEdit, TypeOfWrite
  <2> QED
    BY <2>1, <2>3, <2>4
<1> QED
  BY <1>1, <1>2, <1>3, <1>4, <1>5 DEF SyncStep

LEMMA TypeStep == TypeInv /\ LinkInv /\ [Next]_vars => TypeInv'
<1> SUFFICES ASSUME TypeInv, LinkInv, [Next]_vars PROVE TypeInv'
  OBVIOUS
<1>1. ASSUME NEW t \in Threads, NEW u \in Users, AppointmentRequest(t, u)
      PROVE  TypeInv'
  BY <1>1, CreateTypes, ReadTypes DEF AppointmentRequest
<1>2. ASSUME NEW u \in Users, Connect(u) \/ Disconnect(u)
      PROVE  TypeInv'
  <2>1. /\ UNCHANGED <<rows, deleted, calendar, thread, marks>>
        /\ connected' \subseteq Users /\ Counts
    BY <1>2 DEF Connect, Disconnect, TypeInv, TypeOK
  <2> QED
    BY <2>1, CountsFacts DEF TypeInv, TypeOK, Known
<1>3. ASSUME NEW t \in Threads, NEW u \in Users, IntegrationRequest(t, u)
      PROVE  TypeInv'
  BY <1>2, <1>3, ListTypes DEF IntegrationRequest
<1>4. ASSUME NEW t \in Threads, NEW reached \in BOOLEAN, DeleteEvent(t, reached)
      PROVE  TypeInv'
  <2> DEFINE r == thread[t]
             x == thread'[t]
             e == r.row.event
  <2>1. /\ Goto(t, x) /\ Step(x) /\ Orderly(x) /\ Touched(x) = {r.id} /\ r.op = "delete"
        /\ UNCHANGED <<rows, deleted, connected, requests>> /\ marks' \subseteq Marks
        /\ \/ calendar' = calendar
           \/ /\ DOMAIN calendar' = DOMAIN calendar /\ e \in DOMAIN calendar
              /\ calendar'[e] \in Event /\ calendar'[e].of = calendar[e].of
              /\ \A f \in DOMAIN calendar : f # e => calendar'[f] = calendar[f]
    BY <1>4, DeleteFacts
  <2>2. Touched(x) \subseteq Known
    BY <2>1, TouchedFacts, UnchangedTypes
  <2> HIDE DEF x, r, e
  <2>3. /\ DOMAIN calendar' \subseteq Events
        /\ \A f \in DOMAIN calendar' : calendar'[f] \in Event /\ calendar'[f].of \in Known
    BY <2>1, UnchangedTypes
  <2> QED
    BY <2>1, <2>2, <2>3, TypeOfCall
<1>5. ASSUME NEW t \in Threads, Drop(t)
      PROVE  TypeInv'
  <2> DEFINE a == thread[t].id
  <2>1. /\ Goto(t, Idle) /\ a \in Known /\ a \in Appointments
        /\ UNCHANGED <<connected, calendar, requests, marks>>
        /\ DOMAIN rows' = DOMAIN rows \ {a} /\ deleted' = deleted \union {a}
        /\ \A b \in DOMAIN rows' : rows'[b] = rows[b]
        /\ Known' = Known
    BY <1>5, DropFacts
  <2> HIDE DEF a
  <2>2. IsFiniteSet(DOMAIN rows')
    BY <2>1, UnchangedTypes, FS_RemoveElement
  <2>3. /\ DOMAIN rows' \subseteq Appointments /\ \A b \in DOMAIN rows' : rows'[b] \in Row
        /\ deleted' \subseteq Appointments \ DOMAIN rows'
    BY <2>1, UnchangedTypes
  <2> QED
    BY <2>1, <2>2, <2>3, IdleFacts, UnchangedTypes, TypeOfWrite
<1>6. ASSUME NEW t \in Threads, Report(t) \/ LoseRequest(t)
      PROVE  TypeInv'
  <2>1. /\ Goto(t, Idle) /\ UNCHANGED <<rows, deleted, connected, calendar, requests>>
        /\ marks' \subseteq Marks
    BY <1>6, LoseFacts, UnchangedTypes DEF Report
  <2> QED
    BY <2>1, IdleFacts, UnchangedTypes, TypeOfRequest
<1>7. CASE UNCHANGED vars
  BY <1>7 DEF vars, TypeInv, TypeOK, Known
<1> QED
  BY <1>1, <1>3, <1>4, <1>5, <1>6, <1>7, PatchTypes, SyncTypes DEF Next

-----------------------------------------------------------------------------
(* The ids of events.                                                      *)

LEMMA LinkFrame ==
  ASSUME LinkInv, NEW t \in Threads, Alone(t),
         \A e \in DOMAIN calendar : e \in DOMAIN calendar' /\ calendar'[e].of = calendar[e].of,
         \A a \in DOMAIN rows' :
           \/ /\ a \in DOMAIN rows
              /\ rows'[a].event = rows[a].event /\ rows'[a].synced = rows[a].synced
           \/ rows'[a].event = None /\ ~rows'[a].synced
           \/ /\ rows'[a].event # None /\ rows'[a].synced
              /\ rows'[a].event \in DOMAIN calendar /\ calendar[rows'[a].event].of = a,
         NEW x, x = thread'[t],
         x.op \in {"patch", "delete", "call"} =>
           EventIsOf(x.row.event, x.id) \/ x.row.event = None,
         x.op = "store" => x.event \in DOMAIN calendar' /\ calendar'[x.event].of = x.id,
         Carries(x) => \A a \in DOMAIN x.batch.cached : x.batch.cached[a].event = None
  PROVE  LinkInv'
<1>1. ASSUME NEW a \in DOMAIN rows'
      PROVE  /\ rows'[a].event # None =>
                  rows'[a].event \in DOMAIN calendar' /\ calendar'[rows'[a].event].of = a
             /\ rows'[a].synced <=> rows'[a].event # None
  BY <1>1 DEF LinkInv, EventIsOf
<1>2. ASSUME NEW s \in Threads
      PROVE  /\ thread'[s].op \in {"patch", "delete", "call"} =>
                  (thread'[s].row.event # None =>
                     /\ thread'[s].row.event \in DOMAIN calendar'
                     /\ calendar'[thread'[s].row.event].of = thread'[s].id)
             /\ thread'[s].op = "store" =>
                  (thread'[s].event # None =>
                     /\ thread'[s].event \in DOMAIN calendar'
                     /\ calendar'[thread'[s].event].of = thread'[s].id)
             /\ Carries(thread'[s]) =>
                  \A a \in DOMAIN thread'[s].batch.cached :
                    thread'[s].batch.cached[a].event = None
  <2>1. CASE s = t
    BY <2>1 DEF EventIsOf
  <2>2. CASE s # t
    <3>1. thread'[s] = thread[s]
      BY <2>2 DEF Alone
    <3> QED
      BY <3>1 DEF LinkInv, EventIsOf
  <2> QED
    BY <2>1, <2>2
<1> QED
  BY <1>1, <1>2 DEF LinkInv, EventIsOf, Carries

LEMMA LinkStep == TypeInv /\ LinkInv /\ [Next]_vars => LinkInv'
<1> SUFFICES ASSUME TypeInv, LinkInv, [Next]_vars PROVE LinkInv'
  OBVIOUS
<1> DEFINE SameRows ==
             \A a \in DOMAIN rows' :
               /\ a \in DOMAIN rows
               /\ rows'[a].event = rows[a].event /\ rows'[a].synced = rows[a].synced
           SameOwners ==
             \A e \in DOMAIN calendar :
               e \in DOMAIN calendar' /\ calendar'[e].of = calendar[e].of
<1>1. ASSUME NEW t \in Threads, NEW u \in Users, NEW a \in Appointments, NEW c \in Contents,
             CreateAppointment(t, u, a, c)
      PROVE  LinkInv'
  <2> DEFINE x == [op |-> "load", action |-> "create", id |-> a, batch |-> NoBatch]
             row == [owner |-> u, content |-> c, event |-> None, synced |-> FALSE]
  <2>1. Goto(t, x) /\ rows' = Put(rows, a, row) /\ a \notin DOMAIN rows /\ calendar' = calendar
    BY <1>1 DEF CreateAppointment
  <2>2. x = thread'[t] /\ Alone(t)
    BY <2>1, GotoFacts
  <2>3. x.op = "load" /\ ~Carries(x) /\ row.event = None /\ ~row.synced
    BY DEF Carries
  <2> HIDE DEF x, row
  <2>4. /\ DOMAIN rows' = DOMAIN rows \union {a} /\ rows'[a] = row
        /\ \A b \in DOMAIN rows : b # a => rows'[b] = rows[b]
    BY <2>1 DEF Put
  <2> QED
    BY <2>1, <2>2, <2>3, <2>4, LinkFrame
<1>2. ASSUME NEW t \in Threads, NEW u \in Users, NEW a \in Appointments, NEW c \in Contents,
             ReadPatch(t, u, a, c)
      PROVE  LinkInv'
  <2> DEFINE x == [op |-> "patch", id |-> a, row |-> rows[a], data |-> c]
  <2>1. Goto(t, x) /\ rows' = rows /\ a \in DOMAIN rows /\ calendar' = calendar
    BY <1>2 DEF ReadPatch
  <2>2. x = thread'[t] /\ Alone(t)
    BY <2>1, GotoFacts
  <2>3. x.op = "patch" /\ x.id = a /\ x.row = rows[a] /\ ~Carries(x)
    BY DEF Carries
  <2> HIDE DEF x
  <2>4. EventIsOf(x.row.event, x.id)
    BY <2>1, <2>3 DEF LinkInv
  <2> QED
    BY <2>1, <2>2, <2>3, <2>4, LinkFrame
<1>3. ASSUME NEW t \in Threads, NEW u \in Users, NEW a \in Appointments, ReadDelete(t, u, a)
      PROVE  LinkInv'
  <2> DEFINE x == [op |-> "delete", id |-> a, row |-> rows[a]]
  <2>1. Goto(t, x) /\ rows' = rows /\ a \in DOMAIN rows /\ calendar' = calendar
    BY <1>3 DEF ReadDelete
  <2>2. x = thread'[t] /\ Alone(t)
    BY <2>1, GotoFacts
  <2>3. x.op = "delete" /\ x.id = a /\ x.row = rows[a] /\ ~Carries(x)
    BY DEF Carries
  <2> HIDE DEF x
  <2>4. EventIsOf(x.row.event, x.id)
    BY <2>1, <2>3 DEF LinkInv
  <2> QED
    BY <2>1, <2>2, <2>3, <2>4, LinkFrame
<1>4. ASSUME NEW t \in Threads, NEW u \in Users, NEW order \in SetToSeqs(Upcoming(u)),
             ListUnsynced(t, u, order)
      PROVE  LinkInv'
  <2>1. PICK b \in RealBatches :
          /\ Goto(t, After(b)) /\ DOMAIN b.cached = Upcoming(u)
          /\ \A a \in Upcoming(u) : b.cached[a] = rows[a]
    BY <1>4, ListFacts
  <2>2. After(b) = thread'[t] /\ Alone(t)
    BY <2>1, GotoFacts
  <2>3. After(b).op \in {"report", "load"} /\ After(b).batch.cached = b.cached
    BY BatchKinds, AfterFacts
  <2>4. \A a \in Upcoming(u) : rows[a].event = None
    BY DEF Upcoming, LinkInv
  <2>5. rows' = rows /\ calendar' = calendar
    BY <1>4 DEF ListUnsynced
  <2> QED
    BY <2>1, <2>2, <2>3, <2>4, <2>5, LinkFrame
<1>5. ASSUME NEW t \in Threads, NEW x, x = thread'[t], Alone(t), SameRows, SameOwners,
             x.op \notin {"patch", "delete", "call", "store"}, ~Carries(x)
      PROVE  LinkInv'
  <2> HIDE DEF Carries
  <2> QED
    BY <1>5, LinkFrame
<1>6. ASSUME NEW t \in Threads, CommitPatch(t)
      PROVE  LinkInv'
  <2> DEFINE r == thread[t]
             x == thread'[t]
  <2>1. /\ Alone(t) /\ ~Carries(x) /\ x.op \in {"load", "idle"} /\ calendar' = calendar
        /\ r.op = "patch"
        /\ \/ rows' = rows
           \/ r.id \in DOMAIN rows /\ rows' = [rows EXCEPT ![r.id].content = r.data]
    BY <1>6, PatchFacts, IdleFacts
  <2>2. SameRows
    <3>1. CASE rows' = rows
      BY <3>1
    <3>2. CASE r.id \in DOMAIN rows /\ rows' = [rows EXCEPT ![r.id].content = r.data]
      <4>1. rows[r.id] \in Row
        BY <3>2, UnchangedTypes
      <4>2. /\ DOMAIN rows' = DOMAIN rows
            /\ rows'[r.id] = [rows[r.id] EXCEPT !.content = r.data]
            /\ \A b \in DOMAIN rows \ {r.id} : rows'[b] = rows[b]
        BY <3>2
      <4>3. rows'[r.id].event = rows[r.id].event /\ rows'[r.id].synced = rows[r.id].synced
        BY <4>1, <4>2 DEF Row
      <4> QED
        BY <4>2, <4>3
    <3> QED
      BY <2>1, <3>1, <3>2
  <2> HIDE DEF SameRows
  <2> QED
    BY <1>5, <2>1, <2>2
<1>7. ASSUME NEW t \in Threads, NEW x, x = thread'[t], Alone(t), SameRows, SameOwners,
             \/ x = Idle
             \/ x = After(thread[t].batch) \/ x = After(Counted(thread[t].batch)),
             thread[t].op \in {"load", "call", "store"}
      PROVE  LinkInv'
  <2>1. CASE x = Idle
    BY <1>5, <1>7, <2>1, IdleFacts
  <2>2. CASE x = After(thread[t].batch) \/ x = After(Counted(thread[t].batch))
    <3>1. Step(thread[t]) /\ Orderly(thread[t])
      BY DEF TypeInv, TypeOK
    <3>2. /\ x.op \in {"idle", "report", "load"}
          /\ Carries(x) => Carries(thread[t])
          /\ Carries(x) => \A a \in DOMAIN x.batch.cached :
               a \in DOMAIN thread[t].batch.cached
                 /\ x.batch.cached[a] = thread[t].batch.cached[a]
      BY <1>7, <2>2, <3>1, MovesOn
    <3>3. Carries(x) => \A a \in DOMAIN x.batch.cached : x.batch.cached[a].event = None
      BY <3>2 DEF LinkInv
    <3> QED
      BY <1>7, <3>2, <3>3, LinkFrame
  <2> QED
    BY <1>7, <2>1, <2>2
<1>8. ASSUME NEW t \in Threads, Load(t)
      PROVE  LinkInv'
  <2> DEFINE r == thread[t]
             x == thread'[t]
  <2>1. /\ r.op = "load" /\ Alone(t) /\ rows' = rows /\ calendar' = calendar
        /\ \/ x = Idle
           \/ /\ x.op = "call" /\ x.id = r.id /\ x.batch = r.batch /\ x.row = Loaded(r)
              /\ Carries(x) <=> Carries(r)
           \/ x = After(r.batch)
    BY <1>8, LoadFacts
  <2>2. CASE x = Idle \/ x = After(r.batch)
    BY <1>7, <2>1, <2>2
  <2>3. CASE /\ x.op = "call" /\ x.id = r.id /\ x.batch = r.batch /\ x.row = Loaded(r)
             /\ Carries(x) <=> Carries(r)
    <3>1. EventIsOf(x.row.event, x.id) \/ x.row.event = None
      <4>1. CASE r.batch # NoBatch /\ r.id \in DOMAIN r.batch.cached
        <5>1. Carries(r) /\ x.row = r.batch.cached[r.id]
          BY <2>1, <2>3, <4>1 DEF Carries, Loaded
        <5> QED
          BY <4>1, <5>1 DEF LinkInv
      <4>2. CASE ~(r.batch # NoBatch /\ r.id \in DOMAIN r.batch.cached)
        <5>1. x.row = rows[r.id] /\ r.id \in DOMAIN rows
          BY <1>8, <2>1, <2>3, <4>2, IdleFacts, GotoFacts DEF Load, Loaded
        <5> QED
          BY <2>3, <5>1 DEF LinkInv
      <4> QED
        BY <4>1, <4>2
    <3>2. Carries(x) => \A a \in DOMAIN x.batch.cached : x.batch.cached[a].event = None
      BY <2>3 DEF LinkInv
    <3> HIDE DEF x
    <3> QED
      BY <2>1, <2>3, <3>1, <3>2, LinkFrame DEF x
  <2> QED
    BY <2>1, <2>2, <2>3
<1>9. ASSUME NEW t \in Threads, NEW e \in Events, NEW answered \in BOOLEAN,
             InsertEvent(t, e, answered)
      PROVE  LinkInv'
  <2> DEFINE r == thread[t]
             x == thread'[t]
  <2>1. /\ r.op = "call" /\ Alone(t) /\ rows' = rows
        /\ DOMAIN calendar' = DOMAIN calendar \union {e} /\ calendar'[e].of = r.id
        /\ \A f \in DOMAIN calendar : calendar'[f] = calendar[f]
        /\ \/ /\ x.op = "store" /\ x.id = r.id /\ x.event = e /\ x.batch = r.batch
              /\ Carries(x) <=> Carries(r)
           \/ x = After(r.batch)
    BY <1>9, InsertFacts
  <2>2. CASE x = After(r.batch)
    BY <1>7, <2>1, <2>2
  <2>3. CASE /\ x.op = "store" /\ x.id = r.id /\ x.event = e /\ x.batch = r.batch
             /\ Carries(x) <=> Carries(r)
    <3>1. Carries(x) => \A a \in DOMAIN x.batch.cached : x.batch.cached[a].event = None
      BY <2>3 DEF LinkInv
    <3> HIDE DEF x
    <3> QED
      BY <2>1, <2>3, <3>1, LinkFrame DEF x
  <2> QED
    BY <2>1, <2>2, <2>3
<1>10. ASSUME NEW t \in Threads, NEW answered \in BOOLEAN, UpdateEvent(t, answered)
       PROVE  LinkInv'
  <2>1. SameRows /\ SameOwners
    BY <1>10, UpdateFacts
  <2> QED
    BY <1>7, <1>10, <2>1, UpdateFacts
<1>11. ASSUME NEW t \in Threads, Refuse(t)
       PROVE  LinkInv'
  BY <1>7, <1>11, RefuseFacts
<1>12. ASSUME NEW t \in Threads, StoreEvent(t)
       PROVE  LinkInv'
  <2> DEFINE r == thread[t]
             x == thread'[t]
  <2>1. /\ r.op = "store" /\ r.event \in Events /\ Alone(t) /\ calendar' = calendar
        /\ \/ x = Idle /\ rows' = rows
           \/ /\ x = After(Counted(r.batch)) /\ r.id \in DOMAIN rows
              /\ DOMAIN rows' = DOMAIN rows
              /\ rows'[r.id].event = r.event /\ rows'[r.id].synced
              /\ \A b \in DOMAIN rows \ {r.id} : rows'[b] = rows[b]
    BY <1>12, StoreFacts
  <2>2. CASE x = Idle /\ rows' = rows
    BY <1>7, <2>1, <2>2
  <2>3. CASE /\ x = After(Counted(r.batch)) /\ r.id \in DOMAIN rows
             /\ DOMAIN rows' = DOMAIN rows
             /\ rows'[r.id].event = r.event /\ rows'[r.id].synced
             /\ \A b \in DOMAIN rows \ {r.id} : rows'[b] = rows[b]
    <3>1. r.event # None
      BY <2>1, AgendaConstants
    <3>2. r.event \in DOMAIN calendar /\ calendar[r.event].of = r.id
      BY <2>1, <3>1 DEF LinkInv, EventIsOf
    <3>3. Step(r) /\ Orderly(r)
      BY DEF TypeInv, TypeOK
    <3>4. /\ x.op \in {"idle", "report", "load"}
          /\ Carries(x) => Carries(r)
          /\ Carries(x) => \A a \in DOMAIN x.batch.cached :
               a \in DOMAIN r.batch.cached /\ x.batch.cached[a] = r.batch.cached[a]
      BY <2>1, <2>3, <3>3, MovesOn
    <3>5. Carries(x) => \A a \in DOMAIN x.batch.cached : x.batch.cached[a].event = None
      BY <3>4 DEF LinkInv
    <3> HIDE DEF x, r
    <3> QED
      BY <2>1, <2>3, <3>1, <3>2, <3>4, <3>5, LinkFrame DEF x
  <2> QED
    BY <2>1, <2>2, <2>3
<1>13. ASSUME NEW t \in Threads, NEW reached \in BOOLEAN, DeleteEvent(t, reached)
       PROVE  LinkInv'
  <2>1. SameRows /\ SameOwners
    BY <1>13, DeleteFacts
  <2> QED
    BY <1>5, <1>13, <2>1, DeleteFacts
<1>14. ASSUME NEW t \in Threads, Drop(t)
       PROVE  LinkInv'
  <2>1. SameRows /\ SameOwners
    BY <1>14, DropFacts
  <2> QED
    BY <1>5, <1>14, <2>1, DropFacts, IdleFacts
<1>15. ASSUME NEW t \in Threads, Report(t) \/ LoseRequest(t)
       PROVE  LinkInv'
  <2>1. Goto(t, Idle) /\ rows' = rows /\ calendar' = calendar
    BY <1>15, LoseFacts DEF Report
  <2> QED
    BY <1>5, <2>1, GotoFacts, IdleFacts
<1>16. CASE (\E u \in Users : Connect(u) \/ Disconnect(u)) \/ UNCHANGED vars
  <2>1. rows' = rows /\ calendar' = calendar /\ thread' = thread
    BY <1>16 DEF Connect, Disconnect, vars
  <2> QED
    BY <2>1 DEF LinkInv, EventIsOf, Carries
<1> QED
  BY <1>1, <1>2, <1>3, <1>4, <1>6, <1>8, <1>9, <1>10, <1>11, <1>12, <1>13, <1>14, <1>15, <1>16
     DEF Next, AppointmentRequest, IntegrationRequest, SyncStep

-----------------------------------------------------------------------------
(* What a batch counts.                                                    *)

\* No appointment that is synced, or gone, turns up unsynced again.
StaysSettled ==
  \A a \in Known : (a \in DOMAIN rows => rows[a].synced) =>
                     (a \in DOMAIN rows' => rows'[a].synced)

LEMMA SettledGrows ==
  ASSUME NEW listed, IsFiniteSet(listed), NEW old, NEW new, NEW n \in Nat,
         old \subseteq listed, new \subseteq listed, n <= Cardinality(old), old \subseteq new
  PROVE  /\ n <= Cardinality(new)
         /\ \A a : a \in new \ old => n + 1 <= Cardinality(new)
<1>1. IsFiniteSet(old) /\ IsFiniteSet(new) /\ Cardinality(old) <= Cardinality(new)
  <2>1. IsFiniteSet(new)
    BY FS_Subset
  <2> QED
    BY <2>1, FS_Subset
<1>2. Cardinality(old) \in Nat /\ Cardinality(new) \in Nat
  BY <1>1, FS_CardinalityType
<1>3. ASSUME NEW a, a \in new \ old
      PROVE  n + 1 <= Cardinality(new)
  <2>1. IsFiniteSet(old \union {a}) /\ Cardinality(old \union {a}) = Cardinality(old) + 1
    BY <1>1, <1>3, FS_AddElement
  <2>2. old \union {a} \in SUBSET new
    BY <1>3
  <2>3. Cardinality(old \union {a}) <= Cardinality(new)
    BY <1>1, <2>2, FS_Subset
  <2> QED
    BY <1>2, <2>1, <2>3
<1> QED
  BY <1>1, <1>2, <1>3

LEMMA CountFrame ==
  ASSUME TypeInv, CountInv, NEW t \in Threads, Alone(t), Known \subseteq Known', StaysSettled,
         NEW x, x = thread'[t],
         Carries(x) =>
           \/ /\ Carries(thread[t]) /\ x.batch.listed = thread[t].batch.listed
              /\ Touched(x) \subseteq Touched(thread[t])
              /\ \/ x.batch.synced = thread[t].batch.synced
                 \/ /\ x.batch.synced = thread[t].batch.synced + 1
                    /\ thread[t].id \in Touched(thread[t]) \ Touched(x)
                    /\ thread[t].id \in DOMAIN rows' => rows'[thread[t].id].synced
           \/ /\ IsFiniteSet(x.batch.listed) /\ x.batch.listed \subseteq Known'
              /\ Touched(x) \subseteq x.batch.listed /\ x.batch.synced = 0
  PROVE  CountInv'
<1>1. ASSUME NEW s \in Threads, Carries(thread'[s])
      PROVE  /\ IsFiniteSet(thread'[s].batch.listed)
             /\ thread'[s].batch.listed \subseteq Known'
             /\ Touched(thread'[s]) \subseteq thread'[s].batch.listed
             /\ thread'[s].batch.synced <= Cardinality(Settled(s)')
  <2>1. Settled(s)' = {a \in thread'[s].batch.listed \ Touched(thread'[s]) :
                         a \in DOMAIN rows' => rows'[a].synced}
    BY DEF Settled
  <2>2. ASSUME Carries(thread[s]), thread'[s].batch.listed = thread[s].batch.listed,
               Touched(thread'[s]) \subseteq Touched(thread[s]),
               \/ thread'[s].batch.synced = thread[s].batch.synced
               \/ /\ thread'[s].batch.synced = thread[s].batch.synced + 1
                  /\ thread[s].id \in Touched(thread[s]) \ Touched(thread'[s])
                  /\ thread[s].id \in DOMAIN rows' => rows'[thread[s].id].synced
        PROVE  /\ IsFiniteSet(thread'[s].batch.listed)
               /\ thread'[s].batch.listed \subseteq Known'
               /\ Touched(thread'[s]) \subseteq thread'[s].batch.listed
               /\ thread'[s].batch.synced <= Cardinality(Settled(s)')
    <3> DEFINE listed == thread[s].batch.listed
    <3>1. /\ IsFiniteSet(listed) /\ listed \subseteq Known /\ Touched(thread[s]) \subseteq listed
          /\ thread[s].batch.synced <= Cardinality(Settled(s))
      BY <2>2 DEF CountInv
    <3>2. thread[s].batch.synced \in Nat
      <4>1. thread[s].batch \in Batches
        BY <2>2, IdleFacts DEF TypeInv, TypeOK, Step, Carries
      <4>2. thread[s].batch \in RealBatches
        BY <2>2, <4>1, BatchKinds DEF Carries
      <4> QED
        BY <4>2 DEF RealBatches
    <3>3. Settled(s) = {a \in listed \ Touched(thread[s]) : a \in DOMAIN rows => rows[a].synced}
      BY DEF Settled
    <3>4. Settled(s) \subseteq listed /\ Settled(s)' \subseteq listed
      BY <2>1, <2>2, <3>3
    <3>5. Settled(s) \subseteq Settled(s)'
      BY <2>1, <2>2, <3>1, <3>3 DEF StaysSettled
    <3>6. thread[s].batch.synced <= Cardinality(Settled(s)')
      BY <3>1, <3>2, <3>4, <3>5, SettledGrows
    <3>7. CASE /\ thread'[s].batch.synced = thread[s].batch.synced + 1
               /\ thread[s].id \in Touched(thread[s]) \ Touched(thread'[s])
               /\ thread[s].id \in DOMAIN rows' => rows'[thread[s].id].synced
      <4>1. thread[s].id \in Settled(s)' \ Settled(s)
        BY <2>1, <2>2, <3>1, <3>3, <3>7
      <4>2. thread[s].batch.synced + 1 <= Cardinality(Settled(s)')
        BY <3>1, <3>2, <3>4, <3>5, <4>1, SettledGrows
      <4> QED
        BY <2>2, <3>1, <3>7, <4>2
    <3>8. CASE thread'[s].batch.synced = thread[s].batch.synced
      BY <2>2, <3>1, <3>6, <3>8
    <3> QED
      BY <2>2, <3>7, <3>8
  <2>3. CASE s # t
    <3>1. thread'[s] = thread[s]
      BY <2>3 DEF Alone
    <3> QED
      BY <1>1, <2>2, <3>1
  <2>4. CASE s = t /\ IsFiniteSet(x.batch.listed) /\ x.batch.listed \subseteq Known'
             /\ Touched(x) \subseteq x.batch.listed /\ x.batch.synced = 0
    <3>1. IsFiniteSet(Settled(s)')
      <4>1. Settled(s)' \in SUBSET x.batch.listed
        BY <2>1, <2>4
      <4> QED
        BY <2>4, <4>1, FS_Subset
    <3>2. Cardinality(Settled(s)') \in Nat
      BY <3>1, FS_CardinalityType
    <3> QED
      BY <2>4, <3>2
  <2> QED
    BY <1>1, <2>2, <2>3, <2>4
<1> QED
  BY <1>1 DEF CountInv, Carries

LEMMA CountStep == TypeInv /\ LinkInv /\ CountInv /\ [Next]_vars => CountInv'
<1> SUFFICES ASSUME TypeInv, LinkInv, CountInv, [Next]_vars PROVE CountInv'
  OBVIOUS
\* The rows stay, and the request takes no batch along.
<1>1. ASSUME NEW t \in Threads, NEW x, Goto(t, x), ~Carries(x),
             UNCHANGED <<rows, deleted>>
      PROVE  CountInv'
  <2>1. x = thread'[t] /\ Alone(t) /\ Known' = Known /\ StaysSettled
    BY <1>1, GotoFacts DEF Known, StaysSettled
  <2> QED
    BY <1>1, <2>1, CountFrame
\* The rows stay, and the request keeps its batch.
<1>2. ASSUME NEW t \in Threads, NEW x, Goto(t, x),
             UNCHANGED <<rows, deleted>>, Touched(x) \subseteq Touched(thread[t]),
             thread[t].op \in {"load", "call", "store"},
             \/ x.op \in {"call", "store"} /\ x.batch = thread[t].batch
             \/ x = After(thread[t].batch)
      PROVE  CountInv'
  <2>1. x = thread'[t] /\ Alone(t) /\ Known' = Known /\ StaysSettled
    BY <1>2, GotoFacts DEF Known, StaysSettled
  <2>2. Step(thread[t]) /\ Orderly(thread[t])
    BY DEF TypeInv, TypeOK
  <2>3. Carries(x) => /\ Carries(thread[t]) /\ x.batch.listed = thread[t].batch.listed
                      /\ x.batch.synced = thread[t].batch.synced
    <3>1. CASE x.op \in {"call", "store"} /\ x.batch = thread[t].batch
      BY <1>2, <3>1 DEF Carries
    <3>2. CASE x = After(thread[t].batch)
      BY <1>2, <2>2, <3>2, MovesOn
    <3> QED
      BY <1>2, <3>1, <3>2
  <2> QED
    BY <1>2, <2>1, <2>3, CountFrame
<1>3. ASSUME NEW t \in Threads, NEW u \in Users, NEW a \in Appointments, NEW c \in Contents,
             CreateAppointment(t, u, a, c)
      PROVE  CountInv'
  <2> DEFINE x == [op |-> "load", action |-> "create", id |-> a, batch |-> NoBatch]
  <2>1. /\ Goto(t, x) /\ a \notin Known /\ UNCHANGED deleted
        /\ \E row : rows' = Put(rows, a, row)
    BY <1>3 DEF CreateAppointment, Known
  <2>2. x = thread'[t] /\ Alone(t)
    BY <2>1, GotoFacts
  <2>3. ~Carries(x)
    BY DEF Carries
  <2> HIDE DEF x
  <2>4. /\ DOMAIN rows' = DOMAIN rows \union {a}
        /\ \A b \in DOMAIN rows : b # a => rows'[b] = rows[b]
    BY <2>1 DEF Put
  <2>5. Known \subseteq Known' /\ StaysSettled
    BY <2>1, <2>4 DEF Known, StaysSettled
  <2> QED
    BY <2>2, <2>3, <2>5, CountFrame
<1>4. ASSUME NEW t \in Threads, NEW u \in Users, NEW a \in Appointments,
             \/ \E c \in Contents : ReadPatch(t, u, a, c)
             \/ ReadDelete(t, u, a)
      PROVE  CountInv'
  <2>1. \E x : Goto(t, x) /\ ~Carries(x)
    <3>1. ASSUME NEW c \in Contents, ReadPatch(t, u, a, c)
          PROVE  \E x : Goto(t, x) /\ ~Carries(x)
      BY <3>1 DEF ReadPatch, Carries
    <3>2. ASSUME ReadDelete(t, u, a)
          PROVE  \E x : Goto(t, x) /\ ~Carries(x)
      BY <3>2 DEF ReadDelete, Carries
    <3> QED
      BY <1>4, <3>1, <3>2
  <2> QED
    BY <1>1, <1>4, <2>1 DEF ReadPatch, ReadDelete
<1>5. ASSUME NEW t \in Threads, NEW u \in Users, NEW order \in SetToSeqs(Upcoming(u)),
             ListUnsynced(t, u, order)
      PROVE  CountInv'
  <2>1. PICK b \in RealBatches :
          /\ Goto(t, After(b)) /\ b.listed = Upcoming(u) /\ ToSet(b.rest) = Upcoming(u)
          /\ b.synced = 0 /\ Upcoming(u) \subseteq DOMAIN rows /\ IsFiniteSet(Upcoming(u))
    BY <1>5, ListFacts
  <2>2. /\ After(b).batch.listed = b.listed /\ After(b).batch.synced = b.synced
        /\ Touched(After(b)) = ToSet(b.rest)
    BY BatchKinds, AfterFacts
  <2>3. After(b) = thread'[t] /\ Alone(t) /\ Known' = Known /\ StaysSettled
    BY <1>5, <2>1, GotoFacts DEF ListUnsynced, Known, StaysSettled
  <2>4. Upcoming(u) \subseteq Known
    BY <2>1 DEF Known
  <2> QED
    BY <2>1, <2>2, <2>3, <2>4, CountFrame
<1>6. ASSUME NEW t \in Threads, CommitPatch(t)
      PROVE  CountInv'
  <2> DEFINE r == thread[t]
             x == thread'[t]
  <2>1. /\ Alone(t) /\ ~Carries(x) /\ deleted' = deleted
        /\ \/ rows' = rows
           \/ r.id \in DOMAIN rows /\ rows' = [rows EXCEPT ![r.id].content = r.data]
    BY <1>6, PatchFacts
  <2>2. DOMAIN rows' = DOMAIN rows
    BY <2>1
  <2>3. \A a \in DOMAIN rows : rows'[a].synced = rows[a].synced
    <3>1. \A a \in DOMAIN rows : rows[a] \in Row
      BY UnchangedTypes
    <3> HIDE DEF x, r
    <3> QED
      BY <2>1, <3>1 DEF Row
  <2>4. Known' = Known /\ StaysSettled
    BY <2>1, <2>2, <2>3 DEF Known, StaysSettled
  <2> QED
    BY <2>1, <2>4, CountFrame
<1>7. ASSUME NEW t \in Threads, Load(t)
      PROVE  CountInv'
  <2>1. /\ thread[t].op = "load" /\ Goto(t, thread'[t]) /\ UNCHANGED <<rows, deleted>>
        /\ Touched(thread'[t]) \subseteq Touched(thread[t])
        /\ \/ thread'[t] = Idle
           \/ thread'[t].op = "call" /\ thread'[t].batch = thread[t].batch
           \/ thread'[t] = After(thread[t].batch)
    BY <1>7, LoadFacts
  <2> QED
    BY <1>1, <1>2, <2>1, IdleFacts
<1>8. ASSUME NEW t \in Threads, NEW e \in Events, NEW answered \in BOOLEAN,
             InsertEvent(t, e, answered)
      PROVE  CountInv'
  <2>1. /\ thread[t].op = "call" /\ Goto(t, thread'[t]) /\ UNCHANGED <<rows, deleted>>
        /\ Touched(thread'[t]) \subseteq Touched(thread[t])
        /\ \/ thread'[t].op = "store" /\ thread'[t].batch = thread[t].batch
           \/ thread'[t] = After(thread[t].batch)
    BY <1>8, InsertFacts
  <2> QED
    BY <1>2, <2>1
<1>9. ASSUME NEW t \in Threads,
             (\E answered \in BOOLEAN : UpdateEvent(t, answered)) \/ Refuse(t)
      PROVE  CountInv'
  <2>1. /\ thread[t].op = "call" /\ Goto(t, thread'[t]) /\ UNCHANGED <<rows, deleted>>
        /\ Touched(thread'[t]) \subseteq Touched(thread[t])
        /\ thread'[t] = After(thread[t].batch)
    BY <1>9, UpdateFacts, RefuseFacts
  <2> QED
    BY <1>2, <2>1
<1>10. ASSUME NEW t \in Threads, StoreEvent(t)
       PROVE  CountInv'
  <2> DEFINE r == thread[t]
             x == thread'[t]
  <2>1. /\ r.op = "store" /\ Alone(t) /\ Goto(t, x) /\ deleted' = deleted
        /\ Touched(x) \subseteq Touched(r)
        /\ \/ x = Idle /\ rows' = rows
           \/ /\ x = After(Counted(r.batch)) /\ r.id \in DOMAIN rows
              /\ DOMAIN rows' = DOMAIN rows /\ rows'[r.id].synced
              /\ \A b \in DOMAIN rows \ {r.id} : rows'[b] = rows[b]
    BY <1>10, StoreFacts
  <2>2. CASE x = Idle /\ rows' = rows
    BY <1>1, <2>1, <2>2, IdleFacts
  <2>3. CASE /\ x = After(Counted(r.batch)) /\ r.id \in DOMAIN rows
             /\ DOMAIN rows' = DOMAIN rows /\ rows'[r.id].synced
             /\ \A b \in DOMAIN rows \ {r.id} : rows'[b] = rows[b]
    <3>1. Step(r) /\ Orderly(r)
      BY DEF TypeInv, TypeOK
    <3>2. /\ r.id \notin Touched(x) /\ r.id \in Touched(r)
          /\ Carries(x) => /\ Carries(r) /\ x.batch.listed = r.batch.listed
                           /\ x.batch.synced = r.batch.synced + 1
      BY <2>1, <2>3, <3>1, MovesOn, TouchedFacts
    <3>3. Known' = Known /\ StaysSettled
      BY <2>1, <2>3 DEF Known, StaysSettled
    <3> QED
      BY <2>1, <2>3, <3>2, <3>3, CountFrame
  <2> QED
    BY <2>1, <2>2, <2>3
<1>11. ASSUME NEW t \in Threads, NEW reached \in BOOLEAN, DeleteEvent(t, reached)
       PROVE  CountInv'
  <2>1. Goto(t, thread'[t]) /\ ~Carries(thread'[t]) /\ UNCHANGED <<rows, deleted>>
    BY <1>11, DeleteFacts
  <2> QED
    BY <1>1, <2>1
<1>12. ASSUME NEW t \in Threads, Drop(t)
       PROVE  CountInv'
  <2>1. /\ Alone(t) /\ thread'[t] = Idle /\ Known' = Known
        /\ DOMAIN rows' \subseteq DOMAIN rows /\ \A b \in DOMAIN rows' : rows'[b] = rows[b]
    BY <1>12, DropFacts
  <2>2. StaysSettled
    BY <2>1 DEF StaysSettled
  <2> QED
    BY <2>1, <2>2, IdleFacts, CountFrame
<1>13. ASSUME NEW t \in Threads, Report(t) \/ LoseRequest(t)
       PROVE  CountInv'
  <2>1. Goto(t, Idle) /\ UNCHANGED <<rows, deleted>>
    BY <1>13, LoseFacts DEF Report
  <2> QED
    BY <1>1, <2>1, IdleFacts
<1>14. CASE (\E u \in Users : Connect(u) \/ Disconnect(u)) \/ UNCHANGED vars
  <2>1. UNCHANGED <<rows, deleted, thread>>
    BY <1>14 DEF Connect, Disconnect, vars
  <2> QED
    BY <2>1 DEF CountInv, Settled, Known, Carries
<1> QED
  BY <1>3, <1>4, <1>5, <1>6, <1>7, <1>8, <1>9, <1>10, <1>11, <1>12, <1>13, <1>14
     DEF Next, AppointmentRequest, IntegrationRequest, SyncStep

LEMMA CountIsReported ==
  TypeInv /\ CountInv => ReportsCountWhatIsMissing
<1> SUFFICES ASSUME TypeInv, CountInv, NEW t \in Threads, thread[t].op = "report"
             PROVE  LET batch == thread[t].batch
                        missing == {a \in batch.listed \intersect DOMAIN rows : ~rows[a].synced}
                    IN  Cardinality(missing) <= Cardinality(batch.listed) - batch.synced
  BY DEF ReportsCountWhatIsMissing
<1> DEFINE batch == thread[t].batch
           listed == batch.listed
           missing == {a \in listed \intersect DOMAIN rows : ~rows[a].synced}
<1>1. batch \in Batches /\ batch # NoBatch
  BY IdleFacts DEF TypeInv, TypeOK, Step
<1>2. Carries(thread[t])
  BY <1>1 DEF Carries
<1>3. IsFiniteSet(listed) /\ batch.synced <= Cardinality(Settled(t))
  BY <1>2 DEF CountInv
<1>4. batch.synced \in Nat
  BY <1>1, BatchKinds DEF RealBatches
<1>5. Touched(thread[t]) = {}
  BY TouchedFacts
<1>6. missing = listed \ Settled(t) /\ Settled(t) \subseteq listed
  BY <1>5 DEF Settled
<1> HIDE DEF missing, listed
<1>7. listed \intersect Settled(t) = Settled(t)
  BY <1>6
<1>8. Cardinality(missing) = Cardinality(listed) - Cardinality(Settled(t))
  BY <1>3, <1>6, <1>7, FS_Difference
<1>9. Cardinality(listed) \in Nat /\ Cardinality(Settled(t)) \in Nat
  BY <1>3, <1>6, FS_CardinalityType, FS_Subset
<1>10. Cardinality(missing) <= Cardinality(listed) - batch.synced
  BY <1>3, <1>4, <1>8, <1>9
<1> QED
  BY <1>10 DEF missing, listed

-----------------------------------------------------------------------------
(* What becomes of an appointment and its events.                          *)

\* A step leaves an appointment's row and its events alone.
Kept(a) ==
  /\ a \in DOMAIN rows' <=> a \in DOMAIN rows
  /\ a \in DOMAIN rows => rows'[a] = rows[a]
  /\ a \in deleted' <=> a \in deleted
  /\ \A e \in DOMAIN calendar : calendar[e].of = a =>
       e \in DOMAIN calendar' /\ calendar'[e] = calendar[e]
  /\ \A e \in DOMAIN calendar' : calendar'[e].of = a =>
       e \in DOMAIN calendar /\ calendar[e].of = a

\* The last step of a request on an appointment is the one at hand.
WorksOn(t, a) == thread[t].op \in {"load", "call", "store", "drop"} /\ thread[t].id = a

LEMMA KeptEvents ==
  ASSUME NEW a, Kept(a)
  PROVE  EventsOf(a)' = EventsOf(a)
<1>1. EventsOf(a)' = {e \in DOMAIN calendar' : calendar'[e].of = a /\ ~calendar'[e].gone}
  BY DEF EventsOf
<1>2. EventsOf(a) = {e \in DOMAIN calendar : calendar[e].of = a /\ ~calendar[e].gone}
  BY DEF EventsOf
<1> QED
  BY <1>1, <1>2 DEF Kept

LEMMA ExcusesStay ==
  ASSUME NEW a, NEW reasons, marks \subseteq marks'
  PROVE  Excused(a, reasons) => Excused(a, reasons)'
  BY DEF Excused

LEMMA ExcusesSpread ==
  ASSUME NEW a, NEW reasons, NEW more, reasons \subseteq more
  PROVE  /\ Excused(a, reasons) => Excused(a, more)
         /\ Excused(a, reasons)' => Excused(a, more)'
  BY DEF Excused

\* What a request is not concerned with, or does not change, stays as it was.
LEMMA ElsewhereEvents ==
  ASSUME NEW a, NEW t \in Threads, Alone(t), Kept(a), marks \subseteq marks',
         ~WorksOn(t, a), thread'[t].op # "drop" \/ thread'[t].id # a,
         EventsAt(a), RemovalAt(a), SyncAt(a), LinkInv
  PROVE  EventsAt(a)' /\ RemovalAt(a)' /\ SyncAt(a)'
<1>1. EventsOf(a)' = EventsOf(a)
  BY KeptEvents
<1>2. \A s \in Threads : WorksOn(s, a) => thread'[s] = thread[s]
  BY DEF Alone
<1>3. EventsAt(a)'
  <2> SUFFICES ASSUME ~Excused(a, {"overlap", "unanswered", "lost"})'
               PROVE  /\ \A e, f \in EventsOf(a)' : e = f
                      /\ \A e \in EventsOf(a)' :
                           \/ a \in deleted'
                           \/ a \in DOMAIN rows' /\ rows'[a].event = e
                           \/ \E s \in Threads : /\ thread'[s].op = "store"
                                                 /\ thread'[s].id = a /\ thread'[s].event = e
    BY DEF EventsAt
  <2>1. ~Excused(a, {"overlap", "unanswered", "lost"})
    BY ExcusesStay
  <2>2. /\ \A e, f \in EventsOf(a) : e = f
        /\ \A e \in EventsOf(a) :
             \/ a \in deleted
             \/ a \in DOMAIN rows /\ rows[a].event = e
             \/ \E s \in Threads :
                  thread[s].op = "store" /\ thread[s].id = a /\ thread[s].event = e
    BY <2>1 DEF EventsAt
  <2> QED
    BY <1>1, <1>2, <2>2 DEF Kept, WorksOn
<1>4. RemovalAt(a)'
  <2>1. Leaving(a)' => Leaving(a)
    BY DEF Leaving, Kept, Alone
  <2> QED
    BY <1>1, <2>1, ExcusesStay DEF RemovalAt
<1>5. SyncAt(a)'
  <2> SUFFICES ASSUME a \in DOMAIN rows', rows'[a].event # None,
                      ~Excused(a, {"overlap", "lost", "missed"})'
               PROVE  \/ \E s \in Threads : thread'[s].op = "drop" /\ thread'[s].id = a
                      \/ /\ ~calendar'[rows'[a].event].gone
                         /\ \/ calendar'[rows'[a].event].content = rows'[a].content
                            \/ \E s \in Threads : /\ thread'[s].op \in {"load", "call"}
                                                  /\ thread'[s].action = "update"
                                                  /\ thread'[s].id = a
    BY DEF SyncAt
  <2>1. ~Excused(a, {"overlap", "lost", "missed"})
    BY ExcusesStay
  <2>2. a \in DOMAIN rows /\ rows'[a] = rows[a]
    BY DEF Kept
  <2>3. calendar'[rows[a].event] = calendar[rows[a].event]
    BY <2>2 DEF Kept, LinkInv, EventIsOf
  <2>4. \/ \E s \in Threads : thread[s].op = "drop" /\ thread[s].id = a
        \/ /\ ~calendar[rows[a].event].gone
           /\ \/ calendar[rows[a].event].content = rows[a].content
              \/ \E s \in Threads :
                   thread[s].op \in {"load", "call"} /\ thread[s].action = "update" /\ thread[s].id = a
    BY <2>1, <2>2 DEF SyncAt
  <2>5. CASE \E s \in Threads : thread[s].op = "drop" /\ thread[s].id = a
    BY <1>2, <2>5 DEF WorksOn
  <2>6. CASE \E s \in Threads :
               thread[s].op \in {"load", "call"} /\ thread[s].action = "update" /\ thread[s].id = a
    <3>1. \E s \in Threads :
            thread'[s].op \in {"load", "call"} /\ thread'[s].action = "update" /\ thread'[s].id = a
      BY <1>2, <2>6 DEF WorksOn
    <3> QED
      BY <2>2, <2>3, <2>4, <2>5, <3>1
  <2> QED
    BY <2>2, <2>3, <2>4, <2>5, <2>6
<1> QED
  BY <1>3, <1>4, <1>5

\* Nothing is known of an appointment by a request that does not touch it.
LEMMA NotTouchedIsCurrent ==
  ASSUME NEW t \in Threads, NEW a, Step(thread'[t]), a \notin Touched(thread'[t])
  PROVE  Current(t, a)'
<1>1. /\ thread'[t].op \in {"load", "call", "store"} =>
           thread'[t].id # a /\ a \notin Waiting(thread'[t])
      /\ thread'[t].op \in {"patch", "delete", "drop"} => thread'[t].id # a
      /\ a \notin Waiting(thread'[t])
  BY TouchedFacts DEF Waiting, Carries
<1> QED
  BY <1>1 DEF Current

\* Who else works on the appointment is not disturbed.
LEMMA AloneStep ==
  ASSUME TypeInv, TypeInv', NEW t \in Threads, NEW a \in Appointments, Alone(t),
         marks \subseteq marks', AloneAt(a), LinkInv,
         Kept(a) \/ a \in Touched(thread[t]),
         a \in Touched(thread'[t]) => a \in Touched(thread[t]) \/ a \notin Busy
                                        \/ <<a, "overlap">> \in marks',
         Undisturbed(a)' /\ Undisturbed(a) => Current(t, a)'
  PROVE  AloneAt(a)'
<1> SUFFICES ASSUME Undisturbed(a)'
             PROVE  /\ \A s, q \in Threads :
                         a \in Touched(thread'[s]) \intersect Touched(thread'[q]) => s = q
                    /\ \A s \in Threads : Current(s, a)'
  BY DEF AloneAt, Touched
<1>1. Undisturbed(a) /\ <<a, "overlap">> \notin marks'
  BY ExcusesStay DEF Undisturbed, Excused
<1>2. /\ \A s, q \in Threads :
           a \in Touched(thread[s]) \intersect Touched(thread[q]) => s = q
      /\ \A s \in Threads : Current(s, a)
  BY <1>1 DEF AloneAt
<1>3. \A s \in Threads : s # t => thread'[s] = thread[s]
  BY DEF Alone
<1>4. ASSUME NEW s \in Threads, NEW q \in Threads, a \in Touched(thread'[s]),
             a \in Touched(thread'[q]), s # q
      PROVE  FALSE
  <2>1. ASSUME NEW p \in Threads, p # t, a \in Touched(thread'[p]), a \in Touched(thread'[t])
        PROVE  FALSE
    <3>1. a \in Touched(thread[p])
      BY <1>3, <2>1
    <3>2. a \in Busy
      BY <3>1 DEF Busy
    <3>3. a \in Touched(thread[t])
      BY <1>1, <2>1, <3>2
    <3> QED
      BY <1>2, <2>1, <3>1, <3>3
  <2> QED
    BY <1>2, <1>3, <1>4, <2>1
<1>5. ASSUME NEW s \in Threads
      PROVE  Current(s, a)'
  <2>1. CASE s = t
    BY <1>1, <2>1
  <2>2. CASE a \notin Touched(thread'[s])
    <3>1. Step(thread'[s])
      BY DEF TypeInv, TypeOK
    <3> QED
      BY <2>2, <3>1, NotTouchedIsCurrent
  <2>3. CASE s # t /\ a \in Touched(thread'[s])
    <3>1. thread'[s] = thread[s] /\ a \in Touched(thread[s])
      BY <1>3, <2>3
    <3>2. Kept(a)
      BY <1>2, <2>3, <3>1
    <3>3. Current(s, a)
      BY <1>2
    <3>4. thread[s].op = "store" /\ thread[s].id = a =>
            /\ thread[s].event \in DOMAIN calendar
            /\ calendar'[thread[s].event] = calendar[thread[s].event]
      <4>1. ASSUME thread[s].op = "store", thread[s].id = a
            PROVE  thread[s].event # None
        BY <4>1, IdleFacts, AgendaConstants DEF TypeInv, TypeOK, Step
      <4> QED
        BY <3>2, <4>1 DEF LinkInv, EventIsOf, Kept
    <3>5. a \in DOMAIN rows /\ a \in DOMAIN rows' /\ rows'[a] = rows[a]
      BY <3>1, <3>2, <3>3 DEF Current, Kept
    <3> QED
      BY <3>1, <3>3, <3>4, <3>5 DEF Current, Waiting, Carries, Touched
  <2> QED
    BY <2>1, <2>2, <2>3
<1> QED
  BY <1>4, <1>5

\* A batch goes on: what it knows of the appointments to come is still true.
LEMMA WaitingIsCurrent ==
  ASSUME TypeInv', NEW t \in Threads, NEW a \in Appointments, Kept(a), Current(t, a),
         a \in Touched(thread'[t]) => a \in Waiting(thread[t]),
         thread'[t].op \in {"patch", "delete", "call", "store"} => thread'[t].id # a,
         thread'[t].op = "load" /\ thread'[t].id = a => thread'[t].action = "create",
         Carries(thread'[t]) =>
           /\ Carries(thread[t])
           /\ \A b \in DOMAIN thread'[t].batch.cached :
                /\ b \in DOMAIN thread[t].batch.cached
                /\ thread'[t].batch.cached[b] = thread[t].batch.cached[b]
  PROVE  Current(t, a)'
<1>1. Step(thread'[t])
  BY DEF TypeInv, TypeOK
<1>2. CASE a \notin Touched(thread'[t])
  BY <1>1, <1>2, NotTouchedIsCurrent
<1>3. CASE a \in Touched(thread'[t])
  <2>1. a \in Waiting(thread[t])
    BY <1>3
  <2>2. a \in Touched(thread[t])
    BY <2>1, TouchedFacts DEF Waiting, Carries
  <2>3. a \in DOMAIN rows' /\ rows'[a] = rows[a] /\ rows[a].event = None
    BY <2>1, <2>2 DEF Current, Kept
  <2>4. Carries(thread'[t]) /\ a \in DOMAIN thread'[t].batch.cached =>
          thread'[t].batch.cached[a] = rows[a]
    BY <2>1 DEF Current
  <2> QED
    BY <2>3, <2>4 DEF Current, Waiting, Carries, Touched
<1> QED
  BY <1>2, <1>3

LEMMA SameIsKept ==
  ASSUME NEW a, UNCHANGED <<rows, deleted, calendar>>
  PROVE  Kept(a)
  BY DEF Kept

\* Nothing is promised of an appointment two requests worked on.
LEMMA DisturbedFate ==
  ASSUME NEW a
  PROVE  ~Undisturbed(a)' => Fate(a)'
<1> SUFFICES ASSUME Excused(a, {"overlap"})' PROVE Fate(a)'
  BY DEF Undisturbed
<1>1. /\ Excused(a, {"overlap", "unanswered", "lost"})'
      /\ Excused(a, {"overlap", "unanswered", "lost", "missed"})'
      /\ Excused(a, {"overlap", "lost", "missed"})'
  BY ExcusesSpread
<1>2. ~Undisturbed(a)'
  BY DEF Undisturbed
<1> QED
  BY <1>1, <1>2 DEF Fate, AloneAt, EventsAt, RemovalAt, SyncAt

\* The request alone works on its appointment.
LEMMA MineAlone ==
  ASSUME NEW t \in Threads, NEW a, a \in Touched(thread[t]), Undisturbed(a), AloneAt(a), Alone(t)
  PROVE  /\ a \in DOMAIN rows /\ Current(t, a)
         /\ \A s \in Threads \ {t} :
              /\ a \notin Touched(thread[s]) /\ ~WorksOn(s, a) /\ thread'[s] = thread[s]
<1>1. a \in DOMAIN rows /\ Current(t, a)
  BY DEF AloneAt, Current
<1>2. ASSUME NEW s \in Threads \ {t}
      PROVE  a \notin Touched(thread[s]) /\ ~WorksOn(s, a) /\ thread'[s] = thread[s]
  BY TouchedFacts DEF AloneAt, WorksOn, Alone
<1> QED
  BY <1>1, <1>2

\* The other appointments of a batch, and those the request has no part in.
LEMMA OthersFate ==
  ASSUME TypeInv, TypeInv', LinkInv, NEW t \in Threads, NEW a \in Appointments,
         Alone(t), marks \subseteq marks', Fate(a), Kept(a),
         thread[t].op \notin {"idle", "report"}, a # thread[t].id,
         NEW x, x = thread'[t],
         \/ x = Idle
         \/ /\ x.op \in {"load", "call", "store", "drop"} /\ x.id = thread[t].id
            /\ Touched(x) \subseteq Touched(thread[t])
            /\ Carries(x) => Carries(thread[t]) /\ x.batch = thread[t].batch
         \/ /\ thread[t].op \in {"load", "call", "store"}
            /\ x = After(thread[t].batch) \/ x = After(Counted(thread[t].batch))
  PROVE  Fate(a)'
<1>1. Step(thread[t]) /\ Orderly(thread[t])
  BY DEF TypeInv, TypeOK
<1>2. /\ x.op \in {"load", "call", "store", "drop", "idle", "report"}
      /\ a \in Touched(x) => a \in Waiting(thread[t])
      /\ x.op \in {"patch", "delete", "call", "store", "drop"} => x.id # a
      /\ x.op = "load" /\ x.id = a => x.action = "create"
      /\ Carries(x) =>
           /\ Carries(thread[t])
           /\ \A b \in DOMAIN x.batch.cached :
                /\ b \in DOMAIN thread[t].batch.cached
                /\ x.batch.cached[b] = thread[t].batch.cached[b]
  <2>1. a \in Touched(thread[t]) => a \in Waiting(thread[t])
    <3>1. thread[t].op \in {"load", "call", "store", "patch", "delete", "drop"}
      BY <1>1, IdleFacts DEF Step
    <3> QED
      BY <3>1, TouchedFacts
  <2>2. CASE x = Idle
    BY <2>2, IdleFacts
  <2>3. CASE /\ x.op \in {"load", "call", "store", "drop"} /\ x.id = thread[t].id
             /\ Touched(x) \subseteq Touched(thread[t])
             /\ Carries(x) => Carries(thread[t]) /\ x.batch = thread[t].batch
    BY <2>1, <2>3
  <2>4. CASE /\ thread[t].op \in {"load", "call", "store"}
             /\ x = After(thread[t].batch) \/ x = After(Counted(thread[t].batch))
    BY <1>1, <2>4, MovesOn
  <2> QED
    BY <2>2, <2>3, <2>4
<1>3. a \in Touched(x) => a \in Touched(thread[t])
  BY <1>2, TouchedFacts DEF Waiting, Carries
<1>4. ASSUME Undisturbed(a)
      PROVE  Current(t, a)'
  <2>1. Current(t, a)
    BY <1>4 DEF Fate, AloneAt
  <2> QED
    BY <1>2, <2>1, WaitingIsCurrent
<1>5. AloneAt(a)'
  BY <1>3, <1>4, AloneStep DEF Fate
<1>6. ~WorksOn(t, a) /\ (x.op # "drop" \/ x.id # a)
  BY <1>2 DEF WorksOn
<1>7. EventsAt(a)' /\ RemovalAt(a)' /\ SyncAt(a)'
  BY <1>6, ElsewhereEvents DEF Fate
<1> QED
  BY <1>5, <1>7 DEF Fate

LEMMA CreateFate ==
  ASSUME TypeInv, TypeInv', LinkInv, FateInv, NEW t \in Threads, NEW u \in Users,
         NEW b \in Appointments, NEW c \in Contents, CreateAppointment(t, u, b, c),
         NEW a \in Appointments
  PROVE  Fate(a)'
<1> DEFINE x == [op |-> "load", action |-> "create", id |-> b, batch |-> NoBatch]
           row == [owner |-> u, content |-> c, event |-> None, synced |-> FALSE]
<1>1. /\ Goto(t, x) /\ rows' = Put(rows, b, row) /\ b \notin Known /\ thread[t] = Idle
      /\ UNCHANGED <<deleted, calendar, marks>>
  BY DEF CreateAppointment, Starts, Known
<1>2. thread'[t] = x /\ Alone(t)
  BY <1>1, GotoFacts
<1>3. /\ x.op = "load" /\ x.id = b /\ ~Carries(x) /\ Waiting(x) = {}
      /\ row.event = None
  BY DEF Carries, Waiting
<1> HIDE DEF x, row
<1>4. Touched(x) = {b}
  BY <1>3, TouchedFacts
<1>5. /\ DOMAIN rows' = DOMAIN rows \union {b} /\ rows'[b] = row
      /\ \A d \in DOMAIN rows : d # b => rows'[d] = rows[d]
  BY <1>1 DEF Put
<1>6. b \notin Touched(thread[t]) /\ b \notin Busy
  BY <1>1, IdleFacts DEF TypeInv, Busy
<1>7. ~WorksOn(t, a)
  BY <1>1, IdleFacts DEF WorksOn
<1>8. Fate(a)
  BY DEF FateInv
<1>9. CASE a # b
  <2>1. Kept(a)
    BY <1>1, <1>5, <1>9 DEF Kept
  <2>2. a \notin Touched(thread'[t])
    BY <1>2, <1>4, <1>9
  <2>3. Current(t, a)'
    BY <2>2, NotTouchedIsCurrent DEF TypeInv, TypeOK
  <2>4. AloneAt(a)'
    BY <1>1, <1>2, <1>8, <2>1, <2>2, <2>3, AloneStep DEF Fate
  <2>5. EventsAt(a)' /\ RemovalAt(a)' /\ SyncAt(a)'
    BY <1>1, <1>2, <1>3, <1>7, <1>8, <2>1, ElsewhereEvents DEF Fate
  <2> QED
    BY <2>4, <2>5 DEF Fate
<1>10. CASE a = b
  <2>1. EventsOf(a)' = {}
    BY <1>1, <1>10 DEF EventsOf, TypeInv
  <2>2. EventsAt(a)' /\ RemovalAt(a)'
    BY <2>1 DEF EventsAt, RemovalAt
  <2>3. SyncAt(a)'
    BY <1>3, <1>5, <1>10 DEF SyncAt
  <2>4. \A s \in Threads \ {t} : a \notin Touched(thread'[s]) /\ Step(thread'[s])
    BY <1>1, <1>2, <1>10 DEF TypeInv, TypeOK, Alone
  <2>5. \A s \in Threads \ {t} : Current(s, a)'
    BY <2>4, NotTouchedIsCurrent
  <2>6. Current(t, a)'
    BY <1>2, <1>3, <1>4, <1>5, <1>10 DEF Current
  <2>7. AloneAt(a)'
    BY <2>4, <2>5, <2>6 DEF AloneAt
  <2> QED
    BY <2>2, <2>3, <2>7 DEF Fate
<1> QED
  BY <1>9, <1>10

\* A request that only starts to read.
LEMMA ReadFate ==
  ASSUME TypeInv, TypeInv', LinkInv, FateInv, NEW t \in Threads, NEW x, Goto(t, x),
         thread[t] = Idle, UNCHANGED <<rows, deleted, calendar>>, marks \subseteq marks',
         x.op # "drop", NEW a \in Appointments,
         a \in Touched(x) => a \notin Busy \/ <<a, "overlap">> \in marks',
         Current(t, a)'
  PROVE  Fate(a)'
<1>1. thread'[t] = x /\ Alone(t) /\ Kept(a) /\ Fate(a)
  BY GotoFacts, SameIsKept DEF FateInv
<1>2. ~WorksOn(t, a)
  BY IdleFacts DEF WorksOn
<1>3. AloneAt(a)'
  BY <1>1, AloneStep DEF Fate
<1>4. EventsAt(a)' /\ RemovalAt(a)' /\ SyncAt(a)'
  BY <1>1, <1>2, ElsewhereEvents DEF Fate
<1> QED
  BY <1>3, <1>4 DEF Fate

LEMMA RequestFate ==
  ASSUME TypeInv, TypeInv', LinkInv, FateInv, NEW t \in Threads, NEW u \in Users,
         NEW b \in Appointments,
         (\E c \in Contents : ReadPatch(t, u, b, c)) \/ ReadDelete(t, u, b),
         NEW a \in Appointments
  PROVE  Fate(a)'
<1>1. ASSUME NEW c \in Contents, ReadPatch(t, u, b, c)
      PROVE  Fate(a)'
  <2> DEFINE x == [op |-> "patch", id |-> b, row |-> rows[b], data |-> c]
  <2>1. /\ Goto(t, x) /\ thread[t] = Idle /\ UNCHANGED <<rows, deleted, calendar>>
        /\ b \in DOMAIN rows /\ Mark({b} \intersect Busy, "overlap")
    BY <1>1 DEF ReadPatch, Starts
  <2>2. x.op = "patch" /\ x.id = b /\ x.row = rows[b] /\ ~Carries(x)
    BY DEF Carries
  <2> HIDE DEF x
  <2>3. thread'[t] = x
    BY <2>1, GotoFacts
  <2>4. Touched(x) = {b} /\ Waiting(x) = {}
    BY <2>2, TouchedFacts
  <2>5. Current(t, a)'
    BY <2>1, <2>2, <2>3, <2>4 DEF Current
  <2>6. marks \subseteq marks' /\ (a \in Touched(x) => a \notin Busy \/ <<a, "overlap">> \in marks')
    BY <2>1, <2>4 DEF Mark
  <2> QED
    BY <2>1, <2>2, <2>5, <2>6, ReadFate
<1>2. ASSUME ReadDelete(t, u, b)
      PROVE  Fate(a)'
  <2> DEFINE x == [op |-> "delete", id |-> b, row |-> rows[b]]
  <2>1. /\ Goto(t, x) /\ thread[t] = Idle /\ UNCHANGED <<rows, deleted, calendar>>
        /\ b \in DOMAIN rows /\ Mark({b} \intersect Busy, "overlap")
    BY <1>2 DEF ReadDelete, Starts
  <2>2. x.op = "delete" /\ x.id = b /\ x.row = rows[b] /\ ~Carries(x)
    BY DEF Carries
  <2> HIDE DEF x
  <2>3. thread'[t] = x
    BY <2>1, GotoFacts
  <2>4. Touched(x) = {b} /\ Waiting(x) = {}
    BY <2>2, TouchedFacts
  <2>5. Current(t, a)'
    BY <2>1, <2>2, <2>3, <2>4 DEF Current
  <2>6. marks \subseteq marks' /\ (a \in Touched(x) => a \notin Busy \/ <<a, "overlap">> \in marks')
    BY <2>1, <2>4 DEF Mark
  <2> QED
    BY <2>1, <2>2, <2>5, <2>6, ReadFate
<1> QED
  BY <1>1, <1>2

LEMMA ListFate ==
  ASSUME TypeInv, TypeInv', LinkInv, FateInv, NEW t \in Threads, NEW u \in Users,
         NEW order \in SetToSeqs(Upcoming(u)), ListUnsynced(t, u, order),
         NEW a \in Appointments
  PROVE  Fate(a)'
<1>1. PICK b \in RealBatches :
        /\ Goto(t, After(b)) /\ ToSet(b.rest) = Upcoming(u) /\ DOMAIN b.cached = Upcoming(u)
        /\ \A d \in Upcoming(u) : b.cached[d] = rows[d]
        /\ Upcoming(u) \subseteq DOMAIN rows
  BY ListFacts
<1> DEFINE x == After(b)
<1>2. /\ x.op \in {"report", "load"} /\ x.batch.cached = b.cached
      /\ Touched(x) = Upcoming(u) /\ Waiting(x) \subseteq Upcoming(u)
      /\ x.op = "load" => x.id \in Upcoming(u)
  BY <1>1, BatchKinds, AfterFacts
<1> HIDE DEF x
<1>3. /\ thread[t] = Idle /\ UNCHANGED <<rows, deleted, calendar>>
      /\ Mark(Upcoming(u) \intersect Busy, "overlap")
  BY DEF ListUnsynced, Starts
<1>4. Goto(t, x) /\ thread'[t] = x
  BY <1>1, GotoFacts DEF x
<1>5. \A d \in Upcoming(u) : rows[d].event = None
  BY DEF Upcoming, LinkInv
<1>6. Current(t, a)'
  BY <1>1, <1>2, <1>3, <1>4, <1>5 DEF Current
<1>7. marks \subseteq marks' /\ (a \in Touched(x) => a \notin Busy \/ <<a, "overlap">> \in marks')
  BY <1>2, <1>3 DEF Mark
<1> QED
  BY <1>2, <1>3, <1>4, <1>6, <1>7, ReadFate

\* What is known of the appointment at hand before its request takes a step.
LEMMA MineBefore ==
  ASSUME TypeInv, NEW t \in Threads, NEW a, a \in Touched(thread[t]), Alone(t),
         marks \subseteq marks', Fate(a), Undisturbed(a)'
  PROVE  /\ a \in DOMAIN rows /\ Current(t, a)
         /\ \A s \in Threads \ {t} : ~WorksOn(s, a) /\ thread'[s] = thread[s]
         /\ ~Excused(a, {"overlap", "unanswered", "lost"})' =>
              /\ \A e, f \in EventsOf(a) : e = f
              /\ \A e \in EventsOf(a) :
                   \/ rows[a].event = e
                   \/ thread[t].op = "store" /\ thread[t].id = a /\ thread[t].event = e
         /\ thread[t].op # "drop" /\ rows[a].event # None
              /\ ~Excused(a, {"overlap", "lost", "missed"})' =>
              /\ ~calendar[rows[a].event].gone
              /\ \/ calendar[rows[a].event].content = rows[a].content
                 \/ thread[t].op \in {"load", "call"} /\ thread[t].action = "update"
<1>1. Undisturbed(a)
  BY ExcusesStay DEF Undisturbed
<1>2. /\ a \in DOMAIN rows /\ Current(t, a)
      /\ \A s \in Threads \ {t} : ~WorksOn(s, a) /\ thread'[s] = thread[s]
  BY <1>1, MineAlone DEF Fate
<1>3. a \notin deleted
  BY <1>2 DEF TypeInv, TypeOK
<1>4. \A s \in Threads : WorksOn(s, a) => s = t
  BY <1>2
<1>5. ASSUME ~Excused(a, {"overlap", "unanswered", "lost"})'
      PROVE  /\ \A e, f \in EventsOf(a) : e = f
             /\ \A e \in EventsOf(a) :
                  \/ rows[a].event = e
                  \/ thread[t].op = "store" /\ thread[t].id = a /\ thread[t].event = e
  <2>1. ~Excused(a, {"overlap", "unanswered", "lost"})
    BY <1>5, ExcusesStay
  <2> QED
    BY <1>3, <1>4, <2>1 DEF Fate, EventsAt, WorksOn
<1>6. ASSUME thread[t].op # "drop", rows[a].event # None,
             ~Excused(a, {"overlap", "lost", "missed"})'
      PROVE  /\ ~calendar[rows[a].event].gone
             /\ \/ calendar[rows[a].event].content = rows[a].content
                \/ thread[t].op \in {"load", "call"} /\ thread[t].action = "update"
  <2>1. ~Excused(a, {"overlap", "lost", "missed"})
    BY <1>6, ExcusesStay
  <2> QED
    BY <1>2, <1>4, <1>6, <2>1 DEF Fate, SyncAt, WorksOn
<1> QED
  BY <1>2, <1>5, <1>6

\* What a step owes to the appointment at hand, if the row is still there.
LEMMA OwnFate ==
  ASSUME TypeInv, TypeInv', LinkInv, NEW t \in Threads, NEW a \in Appointments, Alone(t),
         marks \subseteq marks', Fate(a), a \in Touched(thread[t]), NEW x, x = thread'[t],
         Undisturbed(a)' =>
           /\ a \in DOMAIN rows' /\ Current(t, a)'
           /\ ~Excused(a, {"overlap", "unanswered", "lost"})' =>
                /\ \A e, f \in EventsOf(a)' : e = f
                /\ \A e \in EventsOf(a)' :
                     \/ rows'[a].event = e
                     \/ x.op = "store" /\ x.id = a /\ x.event = e
           /\ x.op = "drop" /\ ~Excused(a, {"overlap", "unanswered", "lost", "missed"})' =>
                EventsOf(a)' = {}
           /\ rows'[a].event # None /\ ~Excused(a, {"overlap", "lost", "missed"})' =>
                \/ x.op = "drop" /\ x.id = a
                \/ /\ ~calendar'[rows'[a].event].gone
                   /\ \/ calendar'[rows'[a].event].content = rows'[a].content
                      \/ x.op \in {"load", "call"} /\ x.action = "update" /\ x.id = a
  PROVE  Fate(a)'
<1> SUFFICES ASSUME Undisturbed(a)' PROVE Fate(a)'
  BY DisturbedFate
<1>1. \A s \in Threads \ {t} : ~WorksOn(s, a) /\ thread'[s] = thread[s]
  BY MineBefore
<1>2. AloneAt(a)'
  BY AloneStep DEF Fate
<1>3. EventsAt(a)'
  BY DEF EventsAt
<1>4. RemovalAt(a)'
  <2>1. a \notin deleted'
    BY DEF TypeInv, TypeOK
  <2>2. Leaving(a)' => x.op = "drop"
    <3>1. ASSUME NEW s \in Threads, thread'[s].op = "drop", thread'[s].id = a
          PROVE  s = t
      BY <1>1, <3>1 DEF WorksOn
    <3> QED
      BY <2>1, <3>1 DEF Leaving
  <2> QED
    BY <2>2 DEF RemovalAt
<1>5. SyncAt(a)'
  BY DEF SyncAt
<1> QED
  BY <1>2, <1>3, <1>4, <1>5 DEF Fate

LEMMA PatchFate ==
  ASSUME TypeInv, TypeInv', LinkInv, FateInv, NEW t \in Threads, CommitPatch(t),
         NEW a \in Appointments
  PROVE  Fate(a)'
<1> DEFINE r == thread[t]
           x == thread'[t]
<1>1. /\ r.op = "patch" /\ Alone(t) /\ Waiting(x) = {} /\ ~Carries(x)
      /\ UNCHANGED <<deleted, calendar, marks>> /\ Touched(x) \subseteq {r.id}
      /\ \/ /\ x.op = "load" /\ x.action = "update" /\ x.id = r.id
            /\ \/ rows' = rows
               \/ r.id \in DOMAIN rows /\ rows' = [rows EXCEPT ![r.id].content = r.data]
         \/ x = Idle /\ r.id \notin DOMAIN rows /\ rows' = rows
  BY PatchFacts
<1>2. /\ DOMAIN rows' = DOMAIN rows
      /\ \A b \in DOMAIN rows : b # r.id => rows'[b] = rows[b]
      /\ r.id \in DOMAIN rows => rows'[r.id].event = rows[r.id].event
  <2>1. CASE rows' = rows
    BY <2>1
  <2>2. CASE r.id \in DOMAIN rows /\ rows' = [rows EXCEPT ![r.id].content = r.data]
    <3>1. rows[r.id] \in Row
      BY <2>2, UnchangedTypes
    <3>2. rows'[r.id] = [rows[r.id] EXCEPT !.content = r.data]
      BY <2>2
    <3> HIDE DEF r, x
    <3>3. rows'[r.id].event = rows[r.id].event
      BY <3>1, <3>2 DEF Row
    <3> QED
      BY <2>2, <3>3
  <2> QED
    BY <1>1, <2>1, <2>2
<1>3. Touched(r) = {r.id}
  BY <1>1, TouchedFacts
<1>4. Fate(a)
  BY DEF FateInv
<1>5. CASE a # r.id
  <2>1. Kept(a)
    BY <1>1, <1>2, <1>5 DEF Kept
  <2> QED
    BY <1>1, <1>3, <1>4, <1>5, <2>1, OthersFate
<1>6. CASE a = r.id
  <2>1. EventsOf(a)' = EventsOf(a)
    BY <1>1 DEF EventsOf
  <2>2. ASSUME Undisturbed(a)'
        PROVE  /\ a \in DOMAIN rows' /\ Current(t, a)'
               /\ ~Excused(a, {"overlap", "unanswered", "lost"})' =>
                    /\ \A e, f \in EventsOf(a)' : e = f
                    /\ \A e \in EventsOf(a)' : rows'[a].event = e
               /\ x.op # "drop"
               /\ rows'[a].event # None /\ ~Excused(a, {"overlap", "lost", "missed"})' =>
                    /\ ~calendar'[rows'[a].event].gone
                    /\ x.op \in {"load", "call"} /\ x.action = "update" /\ x.id = a
    <3> HIDE DEF r, x
    <3>1. /\ a \in DOMAIN rows
          /\ ~Excused(a, {"overlap", "unanswered", "lost"})' =>
               /\ \A e, f \in EventsOf(a) : e = f
               /\ \A e \in EventsOf(a) : rows[a].event = e
          /\ rows[a].event # None /\ ~Excused(a, {"overlap", "lost", "missed"})' =>
               ~calendar[rows[a].event].gone
      BY <1>1, <1>3, <1>4, <1>6, <2>2, MineBefore DEF r
    <3>2. x.op = "load" /\ x.action = "update" /\ x.id = r.id
      BY <1>1, <1>6, <3>1
    <3>3. Current(t, a)'
      BY <1>1, <1>2, <3>1, <3>2 DEF Current, x
    <3> QED
      BY <1>1, <1>2, <1>6, <2>1, <3>1, <3>2, <3>3
  <2> QED
    BY <1>1, <1>3, <1>4, <1>6, <2>2, OwnFate
<1> QED
  BY <1>5, <1>6

\* The session's row of the appointment at hand is the one in the table.
LEMMA LoadedIsCurrent ==
  ASSUME TypeInv, NEW t \in Threads, thread[t].op = "load", Current(t, thread[t].id)
  PROVE  Loaded(thread[t]) = rows[thread[t].id]
  BY DEF Loaded, Current, Carries

LEMMA LoadFate ==
  ASSUME TypeInv, TypeInv', LinkInv, FateInv, NEW t \in Threads, Load(t),
         NEW a \in Appointments
  PROVE  Fate(a)'
<1> DEFINE r == thread[t]
           x == thread'[t]
<1>1. /\ r.op = "load" /\ Alone(t) /\ UNCHANGED <<rows, deleted, calendar>>
      /\ marks \subseteq marks' /\ Touched(x) \subseteq Touched(r)
      /\ \/ x = Idle /\ r.id \notin DOMAIN rows
         \/ /\ x.op = "call" /\ x.id = r.id /\ x.action = r.action
            /\ x.batch = r.batch /\ x.row = Loaded(r)
            /\ Waiting(x) = Waiting(r) /\ (Carries(x) <=> Carries(r))
         \/ /\ x = After(r.batch)
            /\ Loaded(r).event = None \/ <<r.id, "missed">> \in marks'
  BY LoadFacts
<1>2. r.id \in Touched(r) /\ Step(r) /\ Orderly(r) /\ Step(x)
  BY <1>1, TouchedFacts DEF TypeInv, TypeOK
<1>3. Fate(a) /\ Kept(a)
  BY <1>1, SameIsKept DEF FateInv
<1>4. CASE a # r.id
  BY <1>1, <1>3, <1>4, OthersFate
<1>5. CASE a = r.id
  <2>1. EventsOf(a)' = EventsOf(a)
    BY <1>3, KeptEvents
  <2>2. ASSUME Undisturbed(a)'
        PROVE  /\ a \in DOMAIN rows' /\ Current(t, a)'
               /\ ~Excused(a, {"overlap", "unanswered", "lost"})' =>
                    /\ \A e, f \in EventsOf(a)' : e = f
                    /\ \A e \in EventsOf(a)' : rows'[a].event = e
               /\ x.op # "drop"
               /\ rows'[a].event # None /\ ~Excused(a, {"overlap", "lost", "missed"})' =>
                    /\ ~calendar'[rows'[a].event].gone
                    /\ \/ calendar'[rows'[a].event].content = rows'[a].content
                       \/ x.op \in {"load", "call"} /\ x.action = "update" /\ x.id = a
    <3> HIDE DEF r, x
    <3>1. /\ a \in DOMAIN rows /\ Current(t, a)
          /\ ~Excused(a, {"overlap", "unanswered", "lost"})' =>
               /\ \A e, f \in EventsOf(a) : e = f
               /\ \A e \in EventsOf(a) : rows[a].event = e
          /\ rows[a].event # None /\ ~Excused(a, {"overlap", "lost", "missed"})' =>
               /\ ~calendar[rows[a].event].gone
               /\ \/ calendar[rows[a].event].content = rows[a].content
                  \/ r.action = "update"
      BY <1>1, <1>2, <1>3, <1>5, <2>2, MineBefore DEF r
    <3>2. Loaded(r) = rows[a]
      BY <1>1, <1>5, <3>1, LoadedIsCurrent DEF r
    <3>3. CASE /\ x.op = "call" /\ x.id = r.id /\ x.action = r.action
               /\ x.batch = r.batch /\ x.row = Loaded(r)
               /\ Waiting(x) = Waiting(r) /\ (Carries(x) <=> Carries(r))
      <4>1. Current(t, a)'
        BY <1>1, <1>5, <3>1, <3>2, <3>3 DEF Current, r, x
      <4> QED
        BY <1>1, <1>5, <2>1, <3>1, <3>3, <4>1
    <3>4. CASE /\ x = After(r.batch)
               /\ Loaded(r).event = None \/ <<r.id, "missed">> \in marks'
      <4>1. x.op \in {"idle", "report", "load"} /\ a \notin Touched(x)
        BY <1>1, <1>2, <1>5, <3>4, MovesOn
      <4>2. Current(t, a)'
        BY <1>2, <4>1, NotTouchedIsCurrent DEF x
      <4>3. rows[a].event = None \/ Excused(a, {"overlap", "lost", "missed"})'
        BY <1>5, <3>2, <3>4 DEF Excused
      <4> QED
        BY <1>1, <2>1, <3>1, <4>1, <4>2, <4>3
    <3> QED
      BY <1>1, <1>5, <3>1, <3>3, <3>4
  <2> QED
    BY <1>1, <1>2, <1>3, <1>5, <2>2, OwnFate
<1> QED
  BY <1>4, <1>5

LEMMA InsertFate ==
  ASSUME TypeInv, TypeInv', LinkInv, FateInv, NEW t \in Threads, NEW e \in Events,
         \E answered \in BOOLEAN : InsertEvent(t, e, answered),
         NEW a \in Appointments
  PROVE  Fate(a)'
<1> DEFINE r == thread[t]
           x == thread'[t]
<1>1. /\ r.op = "call" /\ Alone(t)
      /\ r.action = "create" \/ r.row.event = None
      /\ UNCHANGED <<rows, deleted>>
      /\ e \notin DOMAIN calendar /\ DOMAIN calendar' = DOMAIN calendar \union {e}
      /\ calendar'[e].of = r.id /\ calendar'[e].content = r.row.content /\ ~calendar'[e].gone
      /\ \A f \in DOMAIN calendar : calendar'[f] = calendar[f]
      /\ marks \subseteq marks' /\ Touched(x) \subseteq Touched(r)
      /\ \/ /\ x.op = "store" /\ x.id = r.id /\ x.event = e /\ x.batch = r.batch
            /\ Waiting(x) = Waiting(r) /\ (Carries(x) <=> Carries(r))
         \/ x = After(r.batch) /\ <<r.id, "unanswered">> \in marks'
  BY InsertFacts
<1>2. r.id \in Touched(r) /\ Step(r) /\ Orderly(r) /\ Step(x)
  BY <1>1, TouchedFacts DEF TypeInv, TypeOK
<1>3. Fate(a)
  BY DEF FateInv
<1>4. CASE a # r.id
  <2>1. Kept(a)
    BY <1>1, <1>4 DEF Kept
  <2> QED
    BY <1>1, <1>3, <1>4, <2>1, OthersFate
<1>5. CASE a = r.id
  <2>1. EventsOf(a)' \subseteq EventsOf(a) \union {e}
    BY <1>1 DEF EventsOf
  <2>2. ASSUME Undisturbed(a)'
        PROVE  /\ a \in DOMAIN rows' /\ Current(t, a)'
               /\ ~Excused(a, {"overlap", "unanswered", "lost"})' =>
                    /\ \A f, g \in EventsOf(a)' : f = g
                    /\ \A f \in EventsOf(a)' : x.op = "store" /\ x.id = a /\ x.event = f
               /\ x.op # "drop"
               /\ rows'[a].event = None
    <3> HIDE DEF r, x
    <3>1. /\ a \in DOMAIN rows /\ Current(t, a)
          /\ ~Excused(a, {"overlap", "unanswered", "lost"})' =>
               \A f \in EventsOf(a) : rows[a].event = f
      BY <1>1, <1>2, <1>3, <1>5, <2>2, MineBefore DEF r
    <3>2. r.row = rows[a] /\ rows[a].event = None
      BY <1>1, <1>5, <3>1 DEF Current, r
    <3>3. None \notin EventsOf(a)
      BY AgendaConstants DEF EventsOf, TypeInv, TypeOK
    <3>4. ~Excused(a, {"overlap", "unanswered", "lost"})' => EventsOf(a)' \subseteq {e}
      BY <2>1, <3>1, <3>2, <3>3
    <3>5. CASE /\ x.op = "store" /\ x.id = r.id /\ x.event = e /\ x.batch = r.batch
               /\ Waiting(x) = Waiting(r) /\ (Carries(x) <=> Carries(r))
      <4>1. Current(t, a)'
        BY <1>1, <1>5, <3>1, <3>2, <3>5 DEF Current, r, x
      <4> QED
        BY <1>1, <1>5, <3>1, <3>2, <3>4, <3>5, <4>1
    <3>6. CASE x = After(r.batch) /\ <<r.id, "unanswered">> \in marks'
      <4>1. x.op \in {"idle", "report", "load"} /\ a \notin Touched(x)
        BY <1>1, <1>2, <1>5, <3>6, MovesOn
      <4>2. Current(t, a)'
        BY <1>2, <4>1, NotTouchedIsCurrent DEF x
      <4>3. Excused(a, {"overlap", "unanswered", "lost"})'
        BY <1>5, <3>6 DEF Excused
      <4> QED
        BY <1>1, <3>1, <3>2, <4>1, <4>2, <4>3
    <3> QED
      BY <1>1, <3>5, <3>6
  <2> QED
    BY <1>1, <1>2, <1>3, <1>5, <2>2, OwnFate
<1> QED
  BY <1>4, <1>5

LEMMA UpdateFate ==
  ASSUME TypeInv, TypeInv', LinkInv, FateInv, NEW t \in Threads, NEW answered \in BOOLEAN,
         UpdateEvent(t, answered), NEW a \in Appointments
  PROVE  Fate(a)'
<1> DEFINE r == thread[t]
           x == thread'[t]
           e == thread[t].row.event
<1>1. /\ r.op = "call" /\ Alone(t) /\ UNCHANGED <<rows, deleted>>
      /\ e \in DOMAIN calendar /\ calendar[e].of = r.id /\ ~calendar[e].gone
      /\ DOMAIN calendar' = DOMAIN calendar
      /\ calendar'[e].of = r.id /\ ~calendar'[e].gone /\ calendar'[e].content = r.row.content
      /\ \A f \in DOMAIN calendar : f # e => calendar'[f] = calendar[f]
      /\ marks \subseteq marks' /\ x = After(r.batch)
  BY UpdateFacts
<1>2. r.id \in Touched(r) /\ Step(r) /\ Orderly(r) /\ Step(x)
  BY <1>1, TouchedFacts DEF TypeInv, TypeOK
<1>3. Fate(a)
  BY DEF FateInv
<1>4. CASE a # r.id
  <2>1. Kept(a)
    <3> HIDE DEF r, x, e
    <3> QED
      BY <1>1, <1>4 DEF Kept
  <2> QED
    BY <1>1, <1>3, <1>4, <2>1, OthersFate
<1>5. CASE a = r.id
  <2>1. EventsOf(a)' = EventsOf(a)
    <3> HIDE DEF r, x, e
    <3> QED
      BY <1>1 DEF EventsOf
  <2>2. ASSUME Undisturbed(a)'
        PROVE  /\ a \in DOMAIN rows' /\ Current(t, a)'
               /\ ~Excused(a, {"overlap", "unanswered", "lost"})' =>
                    /\ \A f, g \in EventsOf(a)' : f = g
                    /\ \A f \in EventsOf(a)' : rows'[a].event = f
               /\ x.op # "drop"
               /\ ~calendar'[rows'[a].event].gone
               /\ calendar'[rows'[a].event].content = rows'[a].content
    <3> HIDE DEF r, x
    <3>1. /\ a \in DOMAIN rows /\ Current(t, a)
          /\ ~Excused(a, {"overlap", "unanswered", "lost"})' =>
               /\ \A f, g \in EventsOf(a) : f = g
               /\ \A f \in EventsOf(a) : rows[a].event = f
      BY <1>1, <1>2, <1>3, <1>5, <2>2, MineBefore DEF r
    <3>2. r.row = rows[a] /\ e = rows[a].event
      BY <1>1, <1>5, <3>1 DEF Current, r
    <3>3. x.op \in {"idle", "report", "load"} /\ a \notin Touched(x)
      BY <1>1, <1>2, <1>5, MovesOn
    <3>4. Current(t, a)'
      BY <1>2, <3>3, NotTouchedIsCurrent DEF x
    <3> HIDE DEF e
    <3> QED
      BY <1>1, <2>1, <3>1, <3>2, <3>3, <3>4
  <2> QED
    BY <1>1, <1>2, <1>3, <1>5, <2>2, OwnFate
<1> QED
  BY <1>4, <1>5

LEMMA RefuseFate ==
  ASSUME TypeInv, TypeInv', LinkInv, FateInv, NEW t \in Threads, Refuse(t),
         NEW a \in Appointments
  PROVE  Fate(a)'
<1> DEFINE r == thread[t]
           x == thread'[t]
<1>1. /\ r.op = "call" /\ Alone(t) /\ UNCHANGED <<rows, deleted, calendar>>
      /\ marks \subseteq marks' /\ x = After(r.batch)
      /\ r.row.event = None \/ <<r.id, "missed">> \in marks'
  BY RefuseFacts
<1>2. r.id \in Touched(r) /\ Step(r) /\ Orderly(r) /\ Step(x)
  BY <1>1, TouchedFacts DEF TypeInv, TypeOK
<1>3. Fate(a) /\ Kept(a)
  BY <1>1, SameIsKept DEF FateInv
<1>4. CASE a # r.id
  BY <1>1, <1>3, <1>4, OthersFate
<1>5. CASE a = r.id
  <2>1. EventsOf(a)' = EventsOf(a)
    BY <1>3, KeptEvents
  <2>2. ASSUME Undisturbed(a)'
        PROVE  /\ a \in DOMAIN rows' /\ Current(t, a)'
               /\ ~Excused(a, {"overlap", "unanswered", "lost"})' =>
                    /\ \A e, f \in EventsOf(a)' : e = f
                    /\ \A e \in EventsOf(a)' : rows'[a].event = e
               /\ x.op # "drop"
               /\ rows'[a].event = None \/ Excused(a, {"overlap", "lost", "missed"})'
    <3> HIDE DEF r, x
    <3>1. /\ a \in DOMAIN rows /\ Current(t, a)
          /\ ~Excused(a, {"overlap", "unanswered", "lost"})' =>
               /\ \A e, f \in EventsOf(a) : e = f
               /\ \A e \in EventsOf(a) : rows[a].event = e
      BY <1>1, <1>2, <1>3, <1>5, <2>2, MineBefore DEF r
    <3>2. r.row = rows[a]
      BY <1>1, <1>5, <3>1 DEF Current, r
    <3>3. x.op \in {"idle", "report", "load"} /\ a \notin Touched(x)
      BY <1>1, <1>2, <1>5, MovesOn
    <3>4. Current(t, a)'
      BY <1>2, <3>3, NotTouchedIsCurrent DEF x
    <3>5. rows[a].event = None \/ Excused(a, {"overlap", "lost", "missed"})'
      BY <1>1, <1>5, <3>2 DEF Excused
    <3> QED
      BY <1>1, <2>1, <3>1, <3>3, <3>4, <3>5
  <2> QED
    BY <1>1, <1>2, <1>3, <1>5, <2>2, OwnFate
<1> QED
  BY <1>4, <1>5

LEMMA StoreFate ==
  ASSUME TypeInv, TypeInv', LinkInv, FateInv, NEW t \in Threads, StoreEvent(t),
         NEW a \in Appointments
  PROVE  Fate(a)'
<1> DEFINE r == thread[t]
           x == thread'[t]
<1>1. /\ r.op = "store" /\ Alone(t) /\ UNCHANGED <<deleted, calendar, marks>>
      /\ Touched(x) \subseteq Touched(r)
      /\ \/ x = Idle /\ r.id \notin DOMAIN rows /\ rows' = rows
         \/ /\ x = After(Counted(r.batch)) /\ r.id \in DOMAIN rows
            /\ DOMAIN rows' = DOMAIN rows
            /\ rows'[r.id].event = r.event /\ rows'[r.id].content = rows[r.id].content
            /\ \A b \in DOMAIN rows \ {r.id} : rows'[b] = rows[b]
  BY StoreFacts
<1>2. r.id \in Touched(r) /\ Step(r) /\ Orderly(r) /\ Step(x)
  BY <1>1, TouchedFacts DEF TypeInv, TypeOK
<1>3. Fate(a)
  BY DEF FateInv
<1>4. CASE a # r.id
  <2>1. Kept(a)
    <3> HIDE DEF r, x
    <3> QED
      BY <1>1, <1>4 DEF Kept
  <2> QED
    BY <1>1, <1>3, <1>4, <2>1, OthersFate
<1>5. CASE a = r.id
  <2>1. EventsOf(a)' = EventsOf(a)
    BY <1>1 DEF EventsOf
  <2>2. ASSUME Undisturbed(a)'
        PROVE  /\ a \in DOMAIN rows' /\ Current(t, a)'
               /\ ~Excused(a, {"overlap", "unanswered", "lost"})' =>
                    /\ \A e, f \in EventsOf(a)' : e = f
                    /\ \A e \in EventsOf(a)' : rows'[a].event = e
               /\ x.op # "drop"
               /\ ~calendar'[rows'[a].event].gone
               /\ calendar'[rows'[a].event].content = rows'[a].content
    <3> HIDE DEF r, x
    <3>1. /\ a \in DOMAIN rows /\ Current(t, a)
          /\ ~Excused(a, {"overlap", "unanswered", "lost"})' =>
               /\ \A e, f \in EventsOf(a) : e = f
               /\ \A e \in EventsOf(a) : rows[a].event = e \/ r.event = e
      BY <1>1, <1>2, <1>3, <1>5, <2>2, MineBefore DEF r
    <3>2. /\ rows[a].event = None
          /\ ~calendar[r.event].gone /\ calendar[r.event].content = rows[a].content
      BY <1>1, <1>5, <3>1 DEF Current, r
    <3>3. None \notin EventsOf(a)
      BY AgendaConstants DEF EventsOf, TypeInv, TypeOK
    <3>4. /\ x = After(Counted(r.batch)) /\ a \in DOMAIN rows'
          /\ rows'[a].event = r.event /\ rows'[a].content = rows[a].content
      BY <1>1, <1>5, <3>1
    <3>5. x.op \in {"idle", "report", "load"} /\ a \notin Touched(x)
      BY <1>1, <1>2, <1>5, <3>4, MovesOn
    <3>6. Current(t, a)'
      BY <1>2, <3>5, NotTouchedIsCurrent DEF x
    <3> QED
      BY <1>1, <2>1, <3>1, <3>2, <3>3, <3>4, <3>5, <3>6
  <2> QED
    BY <1>1, <1>2, <1>3, <1>5, <2>2, OwnFate
<1> QED
  BY <1>4, <1>5

LEMMA DeleteFate ==
  ASSUME TypeInv, TypeInv', LinkInv, FateInv, NEW t \in Threads, NEW reached \in BOOLEAN,
         DeleteEvent(t, reached), NEW a \in Appointments
  PROVE  Fate(a)'
<1> DEFINE r == thread[t]
           x == thread'[t]
           e == thread[t].row.event
<1>1. /\ r.op = "delete" /\ Alone(t) /\ UNCHANGED <<rows, deleted>>
      /\ marks \subseteq marks' /\ Touched(x) = {r.id} /\ x.op = "drop" /\ x.id = r.id
      /\ ~Carries(x) /\ Waiting(x) = {}
      /\ \/ calendar' = calendar /\ (e = None \/ <<r.id, "missed">> \in marks')
         \/ /\ e \in DOMAIN calendar /\ calendar[e].of = r.id
            /\ DOMAIN calendar' = DOMAIN calendar
            /\ calendar'[e].of = r.id /\ calendar'[e].gone
            /\ \A f \in DOMAIN calendar : f # e => calendar'[f] = calendar[f]
  BY DeleteFacts
<1>2. Touched(r) = {r.id}
  BY <1>1, TouchedFacts
<1>3. Fate(a)
  BY DEF FateInv
<1>4. CASE a # r.id
  <2>1. Kept(a)
    <3> HIDE DEF r, x, e
    <3> QED
      BY <1>1, <1>4 DEF Kept
  <2> QED
    BY <1>1, <1>2, <1>3, <1>4, <2>1, OthersFate
<1>5. CASE a = r.id
  <2>1. EventsOf(a)' \subseteq EventsOf(a)
    <3> HIDE DEF r, x, e
    <3> QED
      BY <1>1 DEF EventsOf
  <2>2. ASSUME Undisturbed(a)'
        PROVE  /\ a \in DOMAIN rows' /\ Current(t, a)'
               /\ ~Excused(a, {"overlap", "unanswered", "lost"})' =>
                    /\ \A f, g \in EventsOf(a)' : f = g
                    /\ \A f \in EventsOf(a)' : rows'[a].event = f
               /\ ~Excused(a, {"overlap", "unanswered", "lost", "missed"})' => EventsOf(a)' = {}
    <3> HIDE DEF r, x
    <3>1. /\ a \in DOMAIN rows /\ Current(t, a)
          /\ ~Excused(a, {"overlap", "unanswered", "lost"})' =>
               /\ \A f, g \in EventsOf(a) : f = g
               /\ \A f \in EventsOf(a) : rows[a].event = f
      BY <1>1, <1>2, <1>3, <1>5, <2>2, MineBefore DEF r
    <3>2. r.row = rows[a] /\ e = rows[a].event
      BY <1>1, <1>5, <3>1 DEF Current, r
    <3>3. Current(t, a)'
      BY <1>1, <1>5, <3>1 DEF Current, x
    <3>4. None \notin EventsOf(a)
      BY AgendaConstants DEF EventsOf, TypeInv, TypeOK
    <3> HIDE DEF e
    <3>5. ASSUME ~Excused(a, {"overlap", "unanswered", "lost", "missed"})'
          PROVE  EventsOf(a)' = {}
      <4>1. ~Excused(a, {"overlap", "unanswered", "lost"})' /\ <<a, "missed">> \notin marks'
        BY <3>5 DEF Excused
      <4>2. EventsOf(a) \subseteq {e}
        BY <3>1, <3>2, <4>1
      <4>3. CASE e = None
        BY <2>1, <3>4, <4>2, <4>3
      <4>4. CASE calendar'[e].gone
        <5>1. e \notin EventsOf(a)'
          BY <4>4 DEF EventsOf
        <5> QED
          BY <2>1, <4>2, <5>1
      <4> QED
        BY <1>1, <1>5, <4>1, <4>3, <4>4
    <3> QED
      BY <1>1, <2>1, <3>1, <3>3, <3>5
  <2> QED
    BY <1>1, <1>2, <1>3, <1>5, <2>2, OwnFate
<1> QED
  BY <1>4, <1>5

LEMMA DropFate ==
  ASSUME TypeInv, TypeInv', LinkInv, FateInv, NEW t \in Threads, Drop(t),
         NEW a \in Appointments
  PROVE  Fate(a)'
<1> DEFINE d == thread[t].id
<1>1. /\ thread[t].op = "drop" /\ Alone(t) /\ thread'[t] = Idle
      /\ UNCHANGED <<calendar, marks>>
      /\ DOMAIN rows' = DOMAIN rows \ {d} /\ deleted' = deleted \union {d}
      /\ \A b \in DOMAIN rows' : rows'[b] = rows[b]
  BY DropFacts
<1>2. Fate(a)
  BY DEF FateInv
<1>3. CASE a # d
  <2>1. Kept(a)
    BY <1>1, <1>3 DEF Kept
  <2> QED
    BY <1>1, <1>2, <1>3, <2>1, OthersFate
<1>4. CASE a = d
  <2>1. Touched(thread[t]) = {a} /\ Touched(thread'[t]) = {} /\ Step(thread'[t])
    BY <1>1, <1>4, TouchedFacts, IdleFacts
  <2>2. Current(t, a)'
    BY <2>1, NotTouchedIsCurrent
  <2>3. AloneAt(a)'
    BY <1>1, <1>2, <2>1, <2>2, AloneStep DEF Fate
  <2>4. EventsOf(a)' = EventsOf(a) /\ \A reasons : Excused(a, reasons)' <=> Excused(a, reasons)
    BY <1>1 DEF EventsOf, Excused
  <2>5. EventsAt(a)'
    BY <1>1, <1>2, <1>4, <2>4 DEF Fate, EventsAt
  <2>6. RemovalAt(a)'
    <3>1. Leaving(a)
      BY <1>1, <1>4 DEF Leaving
    <3> QED
      BY <1>2, <2>4, <3>1 DEF Fate, RemovalAt
  <2>7. SyncAt(a)'
    BY <1>1, <1>4 DEF SyncAt
  <2> QED
    BY <2>3, <2>5, <2>6, <2>7 DEF Fate
<1> QED
  BY <1>3, <1>4

\* A request that ends, by its answer or by its death.
LEMMA EndFate ==
  ASSUME TypeInv, TypeInv', LinkInv, FateInv, NEW t \in Threads,
         Report(t) \/ LoseRequest(t), NEW a \in Appointments
  PROVE  Fate(a)'
<1>1. /\ Alone(t) /\ thread'[t] = Idle /\ UNCHANGED <<rows, deleted, calendar>>
      /\ marks \subseteq marks'
      /\ WorksOn(t, a) => <<a, "lost">> \in marks'
  <2>1. CASE Report(t)
    BY <2>1, GotoFacts DEF Report, WorksOn
  <2>2. CASE LoseRequest(t)
    BY <2>2, LoseFacts DEF WorksOn
  <2> QED
    BY <2>1, <2>2
<1>2. Fate(a) /\ Kept(a)
  BY <1>1, SameIsKept DEF FateInv
<1>3. Current(t, a)' /\ a \notin Touched(thread'[t])
  BY <1>1, IdleFacts, NotTouchedIsCurrent
<1>4. AloneAt(a)'
  BY <1>1, <1>2, <1>3, AloneStep DEF Fate
<1>5. CASE WorksOn(t, a)
  <2>1. /\ Excused(a, {"overlap", "unanswered", "lost"})'
        /\ Excused(a, {"overlap", "unanswered", "lost", "missed"})'
        /\ Excused(a, {"overlap", "lost", "missed"})'
    BY <1>1, <1>5 DEF Excused
  <2> QED
    BY <1>4, <2>1 DEF Fate, EventsAt, RemovalAt, SyncAt
<1>6. CASE ~WorksOn(t, a)
  <2>1. thread'[t].op # "drop"
    BY <1>1, IdleFacts
  <2> QED
    BY <1>1, <1>2, <1>4, <1>6, <2>1, ElsewhereEvents DEF Fate
<1> QED
  BY <1>5, <1>6

LEMMA FateStep == TypeInv /\ TypeInv' /\ LinkInv /\ FateInv /\ [Next]_vars => FateInv'
<1> SUFFICES ASSUME TypeInv, TypeInv', LinkInv, FateInv, [Next]_vars,
                    NEW a \in Appointments
             PROVE  Fate(a)'
  BY DEF FateInv
<1>1. ASSUME NEW t \in Threads, NEW u \in Users, AppointmentRequest(t, u)
      PROVE  Fate(a)'
  BY <1>1, CreateFate, RequestFate DEF AppointmentRequest
<1>2. CASE (\E u \in Users : Connect(u) \/ Disconnect(u)) \/ UNCHANGED vars
  <2>1. UNCHANGED <<rows, deleted, calendar, thread, marks>>
    BY <1>2 DEF Connect, Disconnect, vars
  <2>2. Fate(a)
    BY DEF FateInv
  <2> QED
    BY <2>1, <2>2 DEF Fate, AloneAt, EventsAt, RemovalAt, SyncAt, Leaving, Undisturbed,
                      Excused, Current, EventsOf, Touched, Waiting, Carries
<1>3. ASSUME NEW t \in Threads, NEW u \in Users, IntegrationRequest(t, u)
      PROVE  Fate(a)'
  BY <1>2, <1>3, ListFate DEF IntegrationRequest
<1>4. ASSUME NEW t \in Threads, SyncStep(t)
      PROVE  Fate(a)'
  BY <1>4, LoadFate, InsertFate, UpdateFate, RefuseFate, StoreFate DEF SyncStep
<1>5. ASSUME NEW t \in Threads,
             \/ CommitPatch(t)
             \/ \E reached \in BOOLEAN : DeleteEvent(t, reached)
             \/ Drop(t)
             \/ Report(t)
             \/ LoseRequest(t)
      PROVE  Fate(a)'
  BY <1>5, PatchFate, DeleteFate, DropFate, EndFate
<1> QED
  BY <1>1, <1>2, <1>3, <1>4, <1>5 DEF Next

LEMMA InitiallyNothing == Init => LinkInv /\ FateInv /\ CountInv
<1> SUFFICES ASSUME Init PROVE LinkInv /\ FateInv /\ CountInv
  OBVIOUS
<1>1. /\ DOMAIN rows = {} /\ DOMAIN calendar = {} /\ deleted = {} /\ marks = {}
      /\ \A t \in Threads : thread[t] = Idle
  BY DEF Init
<1>2. LinkInv
  BY <1>1, IdleFacts DEF LinkInv
<1>3. CountInv
  BY <1>1, IdleFacts DEF CountInv
<1>4. ASSUME NEW a \in Appointments
      PROVE  Fate(a)
  <2>1. EventsOf(a) = {}
    BY <1>1 DEF EventsOf
  <2>2. AloneAt(a)
    BY <1>1, IdleFacts DEF AloneAt, Current
  <2>3. EventsAt(a) /\ RemovalAt(a) /\ SyncAt(a)
    BY <1>1, <2>1 DEF EventsAt, RemovalAt, SyncAt
  <2> QED
    BY <2>2, <2>3 DEF Fate
<1> QED
  BY <1>2, <1>3, <1>4 DEF FateInv

-----------------------------------------------------------------------------
(* The invariant and what follows from it.                                 *)

AgendaInv == TypeInv /\ LinkInv /\ FateInv /\ CountInv

LEMMA AlwaysInv == Spec => []AgendaInv
<1>1. Init => AgendaInv
  BY TypeInit, InitiallyNothing DEF AgendaInv
<1>2. AgendaInv /\ [Next]_vars => AgendaInv'
  BY TypeStep, LinkStep, FateStep, CountStep DEF AgendaInv
<1> QED
  BY <1>1, <1>2, PTL DEF Spec

\* Every row, event, mark and step of a request is of its kind: no request
\* brings a row back that another one removed, or adds to its batch
\* (appointments/service.py, google_calendar/service.py).
THEOREM TypeCorrect == Spec => []TypeOK
<1>1. AgendaInv => TypeOK
  BY DEF AgendaInv, TypeInv
<1> QED
  BY <1>1, AlwaysInv, PTL

\* Through any series of edits, refusals, disconnections and batches, an
\* appointment has at most one event on the calendar, unless requests on it
\* overlapped, one of them died half way, or an insertion took effect unheard
\* (_sync_google, sync_all).
THEOREM OneEvent == Spec => []OneEventPerAppointment
<1>1. AgendaInv => OneEventPerAppointment
  BY DEF AgendaInv, FateInv, Fate, EventsAt, OneEventPerAppointment
<1> QED
  BY <1>1, AlwaysInv, PTL

\* Once an appointment is removed no event is left behind, except for the
\* hazards named and for a removal that Google did not hear of
\* (delete_appointment).
THEOREM RemovalsReach == Spec => []RemovalsReachTheCalendar
<1>1. AgendaInv => RemovalsReachTheCalendar
  BY DEF AgendaInv, FateInv, Fate, RemovalAt, Leaving, TypeInv, TypeOK,
         RemovalsReachTheCalendar
<1> QED
  BY <1>1, AlwaysInv, PTL

\* Between requests a row flagged as synced has its event on the calendar,
\* showing what the row says, unless an update was not heard, requests
\* overlapped or one died half way (_sync_google, sync_appointment).
THEOREM SyncedRows == Spec => []SyncedRowsAreOnTheCalendar
<1>1. ASSUME AgendaInv, NEW a \in DOMAIN rows \ Busy, rows[a].synced,
             ~Excused(a, {"overlap", "lost", "missed"})
      PROVE  \E e \in EventsOf(a) : e = rows[a].event /\ calendar[e].content = rows[a].content
  <2>1. a \in Appointments /\ SyncAt(a)
    BY <1>1 DEF AgendaInv, TypeInv, TypeOK, FateInv, Fate
  <2>2. rows[a].event # None /\ EventIsOf(rows[a].event, a)
    BY <1>1 DEF AgendaInv, LinkInv
  <2>3. \A t \in Threads : thread[t].op \in {"load", "call", "drop"} => thread[t].id # a
    BY <1>1, TouchedFacts DEF Busy
  <2>4. ~calendar[rows[a].event].gone /\ calendar[rows[a].event].content = rows[a].content
    BY <1>1, <2>1, <2>2, <2>3 DEF SyncAt
  <2> QED
    BY <2>2, <2>4 DEF EventIsOf, EventsOf
<1>2. AgendaInv => SyncedRowsAreOnTheCalendar
  BY <1>1 DEF SyncedRowsAreOnTheCalendar
<1> QED
  BY <1>2, AlwaysInv, PTL

\* When sync-all answers, no more of the appointments it listed are still
\* without an event than it reports as failed: none of those it counted as
\* synced has lost the flag since (AppointmentSyncResult).
THEOREM ReportsCount == Spec => []ReportsCountWhatIsMissing
<1>1. AgendaInv => ReportsCountWhatIsMissing
  BY CountIsReported DEF AgendaInv
<1> QED
  BY <1>1, AlwaysInv, PTL

=============================================================================
