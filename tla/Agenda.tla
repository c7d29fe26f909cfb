------------------------------- MODULE Agenda -------------------------------
(***************************************************************************)
(* Appointments (src/app/modules/appointments) and their events in Google  *)
(* Calendar (src/app/modules/google_calendar).  A request is a chain of    *)
(* local transactions and calls to Google: what it loaded may no longer be *)
(* true when it calls, and the row may be gone when it stores the event    *)
(* id.  A call succeeds, is refused, or takes effect without an answer.    *)
(***************************************************************************)
EXTENDS Sequences, SequencesExt, FiniteSets

CONSTANTS
  Appointments, Events,   \* ids of rows and of Google's events
  Users, Admins,
  Contents, Past,         \* what an event shows, and what starts before now
  None,
  Threads,                \* requests in flight at the same time
  MaxRequests             \* bound: requests started

ASSUME AgendaConstants ==
  /\ Admins \subseteq Users
  /\ Past \subseteq Contents
  /\ None \notin Appointments \union Events
  /\ MaxRequests \in Nat

VARIABLES
  rows,        \* appointments by id
  deleted,     \* ids whose row was removed
  connected,   \* users with a google_credentials row
  calendar,    \* events by id, the removed ones marked "gone"
  thread,      \* what each request still has to do
  requests,    \* bound: requests so far
  marks        \* observation: what went wrong around an appointment

vars == <<rows, deleted, connected, calendar, thread, requests, marks>>

-----------------------------------------------------------------------------
(* Data *)

Row == [owner : Users, content : Contents, event : Events \union {None},
        synced : BOOLEAN]

Event == [of : Appointments, content : Contents, gone : BOOLEAN]

\* Around an appointment: two requests overlapped, Google did its part and
\* nobody heard of it, a request died half way, or an event was not reached.
Marks == Appointments \X {"overlap", "unanswered", "lost", "missed"}

Idle == [op |-> "idle"]

NoBatch == [listed |-> {}]

Batches ==
  {NoBatch}
    \union [listed : SUBSET Appointments, rest : Seq(Appointments), synced : Nat,
            cached : UNION {[S -> Row] : S \in SUBSET Appointments}]

\* What a request may still have to do.
Step(r) ==
  \/ r = Idle
  \/ r.op = "patch" /\ r.id \in Appointments /\ r.row \in Row /\ r.data \in Contents
  \/ r.op = "load" /\ r.id \in Appointments /\ r.action \in {"create", "update"}
                   /\ r.batch \in Batches
  \/ r.op = "call" /\ r.id \in Appointments /\ r.row \in Row
                   /\ r.action \in {"create", "update"} /\ r.batch \in Batches
  \/ r.op = "store" /\ r.id \in Appointments /\ r.event \in Events /\ r.batch \in Batches
  \/ r.op = "delete" /\ r.id \in Appointments /\ r.row \in Row
  \/ r.op = "drop" /\ r.id \in Appointments
  \/ r.op = "report" /\ r.batch \in Batches \ {NoBatch}

Put(f, x, v) == [y \in DOMAIN f \union {x} |-> IF y = x THEN v ELSE f[y]]

\* The appointments a request works on.
Touched(r) ==
  CASE r.op \in {"idle", "report"} -> {}
    [] r.op \in {"load", "call", "store"} ->
         {r.id} \union (IF r.batch = NoBatch THEN {} ELSE ToSet(r.batch.rest))
    [] OTHER -> {r.id}

Busy == UNION {Touched(thread[t]) : t \in Threads}

Mark(S, why) == marks' = marks \union (S \X {why})

Goto(t, r) == thread' = [thread EXCEPT ![t] = r]

MayEdit(u, row) == u \in Admins \/ row.owner = u

\* Mutant: the appointments that have an event are listed too.
UpcomingOfAnyFlag(u) ==
  {a \in DOMAIN rows : rows[a].owner = u /\ rows[a].content \notin Past}

\* list_unsynced_future
Upcoming(u) ==
  {a \in DOMAIN rows : rows[a].owner = u /\ ~rows[a].synced /\ rows[a].content \notin Past}

-----------------------------------------------------------------------------
(* Connections *)

Init ==
  /\ rows = <<>>
  /\ deleted = {}
  /\ connected \in SUBSET Users
  /\ calendar = <<>>
  /\ thread = [t \in Threads |-> Idle]
  /\ requests = 0
  /\ marks = {}

\* Bound: one request more.
Counts ==
  /\ requests < MaxRequests
  /\ requests' = requests + 1

Starts(t) == thread[t] = Idle /\ Counts

\* handle_callback, with a refresh token.
Connect(u) ==
  /\ Counts
  /\ u \notin connected
  /\ connected' = connected \union {u}
  /\ UNCHANGED <<rows, deleted, calendar, thread, marks>>

\* disconnect: the events stay, and so do the event ids of the rows.
Disconnect(u) ==
  /\ Counts
  /\ u \in connected
  /\ connected' = connected \ {u}
  /\ UNCHANGED <<rows, deleted, calendar, thread, marks>>

-----------------------------------------------------------------------------
(* Local transactions of the requests *)

CreateAppointment(t, u, a, c) ==
  /\ Starts(t)
  /\ a \notin DOMAIN rows \union deleted
  /\ c \notin Past
  /\ rows' = Put(rows, a, [owner |-> u, content |-> c, event |-> None, synced |-> FALSE])
  /\ Goto(t, [op |-> "load", action |-> "create", id |-> a, batch |-> NoBatch])
  /\ UNCHANGED <<deleted, connected, calendar, marks>>

ReadPatch(t, u, a, c) ==
  /\ Starts(t)
  /\ a \in DOMAIN rows
  /\ MayEdit(u, rows[a])
  /\ Goto(t, [op |-> "patch", id |-> a, row |-> rows[a], data |-> c])
  /\ Mark({a} \intersect Busy, "overlap")
  /\ UNCHANGED <<rows, deleted, connected, calendar>>

\* Mutant: the event is updated from the row as it was read before the commit.
CommitPatchStale(t) ==
  LET r == thread[t]
  IN  /\ r.op = "patch"
      /\ r.id \in DOMAIN rows
      /\ r.row.owner \in connected
      /\ rows' = [rows EXCEPT ![r.id].content = r.data]
      /\ Goto(t, [op |-> "call", action |-> "update", id |-> r.id, row |-> r.row,
                  batch |-> NoBatch])
      /\ UNCHANGED <<deleted, connected, calendar, requests, marks>>

\* Only a changed column is written, and a row that is gone ends the request.
CommitPatch(t) ==
  LET r == thread[t]
      next == [op |-> "load", action |-> "update", id |-> r.id, batch |-> NoBatch]
  IN  /\ r.op = "patch"
      /\ IF r.data = r.row.content
         THEN /\ Goto(t, next)
              /\ UNCHANGED rows
         ELSE IF r.id \in DOMAIN rows
         THEN /\ Goto(t, next)
              /\ rows' = [rows EXCEPT ![r.id].content = r.data]
         ELSE /\ Goto(t, Idle)
              /\ UNCHANGED rows
      /\ UNCHANGED <<deleted, connected, calendar, requests, marks>>

\* Mutant: Google is asked only for appointments still to come.
ReadDeleteUpcoming(t, u, a) ==
  /\ Starts(t)
  /\ a \in DOMAIN rows
  /\ MayEdit(u, rows[a])
  /\ Goto(t, IF rows[a].content \in Past THEN [op |-> "drop", id |-> a]
             ELSE [op |-> "delete", id |-> a, row |-> rows[a]])
  /\ Mark({a} \intersect Busy, "overlap")
  /\ UNCHANGED <<rows, deleted, connected, calendar>>

ReadDelete(t, u, a) ==
  /\ Starts(t)
  /\ a \in DOMAIN rows
  /\ MayEdit(u, rows[a])
  /\ Goto(t, [op |-> "delete", id |-> a, row |-> rows[a]])
  /\ Mark({a} \intersect Busy, "overlap")
  /\ UNCHANGED <<rows, deleted, connected, calendar>>

\* Removing a row that is already gone is no error.
Drop(t) ==
  LET a == thread[t].id
  IN  /\ thread[t].op = "drop"
      /\ rows' = [x \in DOMAIN rows \ {a} |-> rows[x]]
      /\ deleted' = deleted \union {a}
      /\ Goto(t, Idle)
      /\ UNCHANGED <<connected, calendar, requests, marks>>

-----------------------------------------------------------------------------
(* The batch of POST /integrations/google/sync-all *)

\* The next appointment of a batch, or its answer; a single request is over.
After(batch) ==
  IF batch = NoBatch THEN Idle
  ELSE IF batch.rest = <<>> THEN [op |-> "report", batch |-> batch]
  ELSE [op |-> "load", action |-> "create", id |-> Head(batch.rest),
        batch |-> [batch EXCEPT !.rest = Tail(batch.rest)]]

\* A commit expires the rows listed: the next ones are read again.
Counted(batch) ==
  IF batch = NoBatch THEN batch
  ELSE [batch EXCEPT !.synced = @ + 1, !.cached = <<>>]

ListUnsynced(t, u, order) ==
  /\ Starts(t)
  /\ u \in connected
  /\ ToSet(order) = Upcoming(u)
  /\ Goto(t, After([listed |-> Upcoming(u), rest |-> order, synced |-> 0,
                    cached |-> [a \in Upcoming(u) |-> rows[a]]]))
  /\ Mark(Upcoming(u) \intersect Busy, "overlap")
  /\ UNCHANGED <<rows, deleted, connected, calendar>>

Report(t) ==
  /\ thread[t].op = "report"
  /\ Goto(t, Idle)
  /\ UNCHANGED <<rows, deleted, connected, calendar, requests, marks>>

-----------------------------------------------------------------------------
(* sync_appointment and what its callers do with the answer *)

\* The row as the session holds it: listed by the batch, or read now.
Loaded(r) == IF r.batch # NoBatch /\ r.id \in DOMAIN r.batch.cached
             THEN r.batch.cached[r.id] ELSE rows[r.id]

\* A row that is gone ends the request, the whole batch too.
Load(t) ==
  LET r == thread[t]
      readable == r.id \in DOMAIN rows \/ (r.batch # NoBatch /\ r.id \in DOMAIN r.batch.cached)
  IN  /\ r.op = "load"
      /\ IF ~readable
         THEN /\ Goto(t, Idle)
              /\ UNCHANGED marks
         ELSE IF Loaded(r).owner \in connected
         THEN /\ Goto(t, [op |-> "call", action |-> r.action, id |-> r.id,
                          row |-> Loaded(r), batch |-> r.batch])
              /\ UNCHANGED marks
         ELSE /\ Goto(t, After(r.batch))
              /\ Mark(IF Loaded(r).event = None THEN {} ELSE {r.id}, "missed")
      /\ UNCHANGED <<rows, deleted, connected, calendar, requests>>

\* An event not yet known is inserted, by an update too.
InsertEvent(t, e, answered) ==
  LET r == thread[t]
  IN  /\ r.op = "call"
      /\ r.action = "create" \/ r.row.event = None
      /\ e \notin DOMAIN calendar
      /\ calendar' = Put(calendar, e, [of |-> r.id, content |-> r.row.content, gone |-> FALSE])
      /\ Goto(t, IF answered
                 THEN [op |-> "store", id |-> r.id, event |-> e, batch |-> r.batch]
                 ELSE After(r.batch))
      /\ Mark(IF answered THEN {} ELSE {r.id}, "unanswered")
      /\ UNCHANGED <<rows, deleted, connected, requests>>

\* The id comes back as it was: nothing to store.
UpdateEvent(t, answered) ==
  LET r == thread[t]
  IN  /\ r.op = "call"
      /\ r.action = "update"
      /\ r.row.event # None
      /\ ~calendar[r.row.event].gone
      /\ calendar' = [calendar EXCEPT ![r.row.event].content = r.row.content]
      /\ Goto(t, After(r.batch))
      /\ Mark(IF answered THEN {} ELSE {r.id}, "unanswered")
      /\ UNCHANGED <<rows, deleted, connected, requests>>

\* Mutant: the batch counts as synced what Google refused.
RefuseCounted(t) ==
  LET r == thread[t]
  IN  /\ r.op = "call"
      /\ Goto(t, After(Counted(r.batch)))
      /\ Mark(IF r.row.event = None THEN {} ELSE {r.id}, "missed")
      /\ UNCHANGED <<rows, deleted, connected, calendar, requests>>

\* The exception is logged and swallowed.
Refuse(t) ==
  LET r == thread[t]
  IN  /\ r.op = "call"
      /\ Goto(t, After(r.batch))
      /\ Mark(IF r.row.event = None THEN {} ELSE {r.id}, "missed")
      /\ UNCHANGED <<rows, deleted, connected, calendar, requests>>

\* Mutant: the row is written back whole, also when it is gone.
StoreEventMerged(t) ==
  LET r == thread[t]
  IN  /\ r.op = "store"
      /\ \E row \in Row :
           /\ row.event = r.event /\ row.synced
           /\ r.id \in DOMAIN rows =>
                row.owner = rows[r.id].owner /\ row.content = rows[r.id].content
           /\ rows' = Put(rows, r.id, row)
      /\ Goto(t, After(Counted(r.batch)))
      /\ UNCHANGED <<deleted, connected, calendar, requests, marks>>

StoreEvent(t) ==
  LET r == thread[t]
  IN  /\ r.op = "store"
      /\ IF r.id \in DOMAIN rows
         THEN /\ rows' = [rows EXCEPT ![r.id].event = r.event, ![r.id].synced = TRUE]
              /\ Goto(t, After(Counted(r.batch)))
         ELSE /\ Goto(t, Idle)
              /\ UNCHANGED rows
      /\ UNCHANGED <<deleted, connected, calendar, requests, marks>>

\* delete_appointment asks Google first; whatever happens there, the row goes.
DeleteEvent(t, reached) ==
  LET r == thread[t]
      e == r.row.event
  IN  /\ r.op = "delete"
      /\ reached => e # None /\ r.row.owner \in connected
      /\ calendar' = IF reached THEN [calendar EXCEPT ![e].gone = TRUE] ELSE calendar
      /\ Goto(t, [op |-> "drop", id |-> r.id])
      /\ Mark(IF reached \/ e = None THEN {} ELSE {r.id}, "missed")
      /\ UNCHANGED <<rows, deleted, connected, requests>>

\* The process dies, or the database refuses the next statement.
LoseRequest(t) ==
  LET r == thread[t]
  IN  /\ r.op # "idle"
      /\ Goto(t, Idle)
      /\ Mark(IF r.op \in {"load", "call", "store", "drop"} THEN {r.id} ELSE {}, "lost")
      /\ UNCHANGED <<rows, deleted, connected, calendar, requests>>

-----------------------------------------------------------------------------

AppointmentRequest(t, u) ==
  \E a \in Appointments :
    \/ \E c \in Contents : CreateAppointment(t, u, a, c) \/ ReadPatch(t, u, a, c)
    \/ ReadDelete(t, u, a)

IntegrationRequest(t, u) ==
  \/ Connect(u)
  \/ Disconnect(u)
  \/ \E order \in SetToSeqs(Upcoming(u)) : ListUnsynced(t, u, order)

SyncStep(t) ==
  \/ Load(t)
  \/ \E e \in Events, answered \in BOOLEAN : InsertEvent(t, e, answered)
  \/ \E answered \in BOOLEAN : UpdateEvent(t, answered)
  \/ Refuse(t)
  \/ StoreEvent(t)

Next ==
  \E t \in Threads :
    \/ \E u \in Users : AppointmentRequest(t, u) \/ IntegrationRequest(t, u)
    \/ CommitPatch(t)
    \/ SyncStep(t)
    \/ \E reached \in BOOLEAN : DeleteEvent(t, reached)
    \/ Drop(t)
    \/ Report(t)
    \/ LoseRequest(t)

Spec == Init /\ [][Next]_vars

-----------------------------------------------------------------------------
(* Properties *)

\* Every row, event, mark and step of a request is of its kind.
TypeOK ==
  /\ DOMAIN rows \subseteq Appointments /\ \A a \in DOMAIN rows : rows[a] \in Row
  /\ deleted \subseteq Appointments \ DOMAIN rows
  /\ connected \subseteq Users
  /\ DOMAIN calendar \subseteq Events /\ \A e \in DOMAIN calendar : calendar[e] \in Event
  /\ DOMAIN thread = Threads /\ \A t \in Threads : Step(thread[t])
  /\ requests \in 0 .. MaxRequests
  /\ marks \subseteq Marks

EventsOf(a) == {e \in DOMAIN calendar : calendar[e].of = a /\ ~calendar[e].gone}

Excused(a, reasons) == \E why \in reasons : <<a, why>> \in marks

\* An appointment never gets a second event while the first is on the calendar
\* (ENDPOINTS.md on sync-all: "rodar de novo nao recria eventos"), through any
\* series of edits, refusals, disconnections and repeated batches, unless two
\* requests on it overlapped, a request died half way, or an insertion took
\* effect unheard: the id that prevents the second is committed afterwards.
OneEventPerAppointment ==
  \A a \in Appointments : \A e, f \in EventsOf(a) :
    e # f => Excused(a, {"overlap", "unanswered", "lost"})

\* The removal of an appointment leaves no event behind (delete_appointment,
\* "apaga o evento no Google antes de remover local"), unless Google did not
\* hear of it, or one of the hazards above had left a second event.
RemovalsReachTheCalendar ==
  \A a \in deleted :
    EventsOf(a) # {} => Excused(a, {"overlap", "unanswered", "lost", "missed"})

\* The synced flag is true to the calendar (_sync_google): between requests a
\* row that carries it has its event there, showing the row's content, unless
\* an update was not heard, requests overlapped, or a request died half way
\* (a removal that lost its row's deletion leaves a synced row with no event).
SyncedRowsAreOnTheCalendar ==
  \A a \in DOMAIN rows \ Busy :
    rows[a].synced =>
      \/ \E e \in EventsOf(a) : e = rows[a].event /\ calendar[e].content = rows[a].content
      \/ Excused(a, {"overlap", "lost", "missed"})

\* The answer of sync-all (AppointmentSyncResult): of the appointments listed,
\* no more are still without an event than it reports as failed.
ReportsCountWhatIsMissing ==
  \A t \in Threads :
    thread[t].op = "report" =>
      LET batch == thread[t].batch
          missing == {a \in batch.listed \intersect DOMAIN rows : ~rows[a].synced}
      IN  Cardinality(missing) <= Cardinality(batch.listed) - batch.synced

=============================================================================
