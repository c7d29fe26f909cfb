--------------------------- MODULE ForensicDeadlines ---------------------------
(***************************************************************************)
(* The forensic holiday table (forensic_holidays, administered by ADMIN    *)
(* users and by the seed script) and the deadlines computed from it.       *)
(*                                                                         *)
(* The two PATCHes are modelled in two steps, because each request has its *)
(* own Session and nothing locks the row: the row is read and the new one  *)
(* computed from it and validated; then one UPDATE writes the attributes   *)
(* that changed with respect to the row read.  Every other request is one  *)
(* step.                                                                   *)
(***************************************************************************)
EXTENDS BusinessCalendar, Sequences

CONSTANTS
    MaxHolidays,    \* bound on the rows of forensic_holidays
    HolidayDates, Courts, Comarcas,
    ScopePayloads,  \* values PATCH /forensic-holidays may carry in "scope"
    SeedEntries,    \* _entries_for_year: a sequence of rows
    Deadlines, Requests,
    Admins,         \* requests to PATCH /forensic-holidays in flight at a time
    StartDates, DayCounts,
    Null, Unset,    \* NULL / JSON null, and a field absent from a PATCH body
    NoRow,
    MaxEdits        \* bound on calendar edits and on PATCHes

Scopes == {"NATIONAL", "COURT", "COMARCA"}

HolidayRow == [date : HolidayDates, scope : Scopes,
               court : Courts \cup {Null}, comarca : Comarcas \cup {Null}]

DeadlineRow ==
    [start_date : StartDates, business_days : DayCounts, due_date : Int,
     court : Courts \cup {Null}, comarca : Comarcas \cup {Null}]

HolidayPatch == [target : 1..MaxHolidays, read : HolidayRow, new : HolidayRow]

Patch == [target : Deadlines, read : DeadlineRow, new : DeadlineRow,
          recalculated : BOOLEAN, current : BOOLEAN]

\* A string that is true in Python: neither None nor empty.
Given(text) == text \notin {Null, ""}

\* _validate_scope_consistency; a scope of None passes every test.
ScopeConsistent(scope, court, comarca) ==
    /\ scope = "NATIONAL" => ~Given(court) /\ ~Given(comarca)
    /\ scope = "COURT" => Given(court) /\ ~Given(comarca)
    /\ scope = "COMARCA" => Given(comarca)

ASSUME ForensicConstants ==
    /\ HolidayDates \cup StartDates \subseteq Int
    /\ DayCounts \subseteq Nat
    /\ MaxHolidays \in Nat
    /\ MaxEdits \in Nat
    /\ ScopePayloads \subseteq Scopes \cup {Null}
    /\ Null \notin Scopes \cup Courts \cup Comarcas
    /\ Unset \notin HolidayDates \cup StartDates \cup DayCounts
    /\ Unset \notin ScopePayloads \cup Courts \cup Comarcas \cup {Null}
    /\ NoRow \notin HolidayRow \cup DeadlineRow \cup Patch \cup HolidayPatch

\* What _entries_for_year lists: NATIONAL rows, and COURT rows of the TJDFT.
ASSUME SeedAssumption ==
    /\ SeedEntries \in Seq(HolidayRow)
    /\ \A i \in DOMAIN SeedEntries :
          LET row == SeedEntries[i]
          IN  ScopeConsistent(row.scope, row.court, row.comarca)

VARIABLES
    holiday,        \* forensic_holidays: id -> row
    deadline,       \* deadlines: id -> row
    used,           \* deadline ids handed out
    editing,        \* admin's request -> holiday PATCH read but not written yet
    pending,        \* request -> deadline PATCH read but not written yet
    crossed,        \* observation: rows written over another PATCH's scope
    stale,          \* observation: due date older than the last calendar edit
    edits

vars == <<holiday, deadline, used, editing, pending, crossed, stale, edits>>

TypeOK ==
    /\ holiday \in [1..MaxHolidays -> HolidayRow \cup {NoRow}]
    /\ used \subseteq Deadlines
    /\ \A d \in Deadlines : deadline[d] \in DeadlineRow \cup {NoRow}
    /\ editing \in [Admins -> HolidayPatch \cup {NoRow}]
    /\ \A r \in Requests : pending[r] \in Patch \cup {NoRow}
    /\ crossed \subseteq 1..MaxHolidays
    /\ stale \subseteq Deadlines
    /\ edits \in 0..MaxEdits

Init ==
    /\ holiday = [h \in 1..MaxHolidays |-> NoRow]
    /\ deadline = [d \in Deadlines |-> NoRow]
    /\ used = {}
    /\ editing = [a \in Admins |-> NoRow]
    /\ pending = [r \in Requests |-> NoRow]
    /\ crossed = {}
    /\ stale = {}
    /\ edits = 0

-------------------------------------------------------------------------------
(* forensic_holidays                                                       *)

LiveHolidays == {h \in DOMAIN holiday : holiday[h] # NoRow}

\* Ids are never handed out again: a PATCH in flight keeps the one it read.
FreeIds ==
    {h \in DOMAIN holiday \ LiveHolidays :
        \A a \in Admins : editing[a] = NoRow \/ editing[a].target # h}

\* uq_forensic_holidays_natural: NULLs are distinct, so only a row with both
\* court and comarca can collide.
Collides(row, others) ==
    /\ row.court # Null
    /\ row.comarca # Null
    /\ \E h \in others : holiday[h] = row

\* list_applicable_in_range, the range being applied by BusinessCalendar.
Applicable(court, comarca) ==
    {holiday[h].date : h \in {g \in LiveHolidays :
        \/ holiday[g].scope = "NATIONAL"
        \/ /\ court # Null
           /\ holiday[g].scope = "COURT"
           /\ holiday[g].court = court
        \/ /\ comarca # Null
           /\ holiday[g].scope = "COMARCA"
           /\ holiday[g].comarca = comarca}}

\* Bound: one edit more.
Edit ==
    /\ edits < MaxEdits
    /\ edits' = edits + 1

\* A change of the calendar leaves stored and pending due dates as they are.
CalendarChanged ==
    /\ stale' = {d \in Deadlines : deadline[d] # NoRow}
    /\ pending' = [r \in Requests |->
                     IF pending[r] = NoRow THEN NoRow
                     ELSE [pending[r] EXCEPT !.current = FALSE]]
    /\ UNCHANGED <<deadline, used>>

CreateHoliday(h, row) ==
    /\ h \in FreeIds
    /\ ScopeConsistent(row.scope, row.court, row.comarca)
    /\ ~Collides(row, LiveHolidays)
    /\ Edit
    /\ holiday' = [holiday EXCEPT ![h] = row]
    /\ CalendarChanged
    /\ UNCHANGED <<editing, crossed>>

\* The row as the columns a PATCH changes leave it.
Written(row, p) ==
    [f \in DOMAIN row |-> IF p.new[f] # p.read[f] THEN p.new[f] ELSE row[f]]

\* Mutant: the new court and comarca are validated against the old scope.
ReadHolidayPatchOfOldScope(a, h, date, scope, court, comarca) ==
    LET row == holiday[h]
        merged(field, old) == IF field = Unset THEN old ELSE field
        new == [date |-> merged(date, row.date),
                scope |-> merged(scope, row.scope),
                court |-> merged(court, row.court),
                comarca |-> merged(comarca, row.comarca)]
    IN  /\ editing[a] = NoRow
        /\ h \in LiveHolidays
        /\ ScopeConsistent(row.scope, new.court, new.comarca)
        /\ Edit
        /\ editing' = [editing EXCEPT ![a] = [target |-> h, read |-> row, new |-> new]]
        /\ UNCHANGED <<holiday, deadline, used, pending, crossed, stale>>

\* Mutant: a court absent from the payload is written over the row's.
ReadHolidayPatchUnmerged(a, h, date, scope, court, comarca) ==
    LET row == holiday[h]
        merged(field, old) == IF field = Unset THEN old ELSE field
        new == [date |-> merged(date, row.date),
                scope |-> merged(scope, row.scope),
                court |-> court,
                comarca |-> merged(comarca, row.comarca)]
    IN  /\ editing[a] = NoRow
        /\ h \in LiveHolidays
        /\ ScopeConsistent(new.scope, new.court, new.comarca)
        /\ Edit
        /\ editing' = [editing EXCEPT ![a] = [target |-> h, read |-> row, new |-> new]]
        /\ UNCHANGED <<holiday, deadline, used, pending, crossed, stale>>

\* update of a holiday, up to the unit_of_work: the payload is merged over the
\* row read and the merge validated; the fields that are not None will be
\* written, and court and comarca can be cleared.
ReadHolidayPatch(a, h, date, scope, court, comarca) ==
    LET row == holiday[h]
        merged(field, old) == IF field = Unset THEN old ELSE field
        kept(field, old) == IF field \in {Unset, Null} THEN old ELSE field
        new == [date |-> kept(date, row.date),
                scope |-> kept(scope, row.scope),
                court |-> merged(court, row.court),
                comarca |-> merged(comarca, row.comarca)]
    IN  /\ editing[a] = NoRow
        /\ h \in LiveHolidays
        /\ ScopeConsistent(merged(scope, row.scope), new.court, new.comarca)
        /\ Edit
        /\ editing' = [editing EXCEPT ![a] = [target |-> h, read |-> row, new |-> new]]
        /\ UNCHANGED <<holiday, deadline, used, pending, crossed, stale>>

\* What a scope is validated with.
ScopeOf(row) == <<row.scope, row.court, row.comarca>>

\* The unit_of_work of update: nothing to write, a row that is gone, a row that
\* collides, or the changed columns, whatever the row has become meanwhile.
WriteHolidayPatch(a) ==
    LET p == editing[a]
        row == holiday[p.target]
        new == Written(row, p)
        written == /\ p.new # p.read
                   /\ row # NoRow
                   /\ ~Collides(new, LiveHolidays \ {p.target})
    IN  /\ p # NoRow
        /\ editing' = [editing EXCEPT ![a] = NoRow]
        /\ \/ /\ ~written
              /\ UNCHANGED <<holiday, deadline, used, pending, crossed, stale>>
           \/ /\ written
              /\ holiday' = [holiday EXCEPT ![p.target] = new]
              /\ crossed' = IF ScopeOf(row) = ScopeOf(p.read)
                            THEN crossed \ {p.target} ELSE crossed \cup {p.target}
              /\ CalendarChanged
        /\ UNCHANGED edits

DeleteHoliday(h) ==
    /\ h \in LiveHolidays
    /\ Edit
    /\ holiday' = [holiday EXCEPT ![h] = NoRow]
    /\ crossed' = crossed \ {h}
    /\ CalendarChanged
    /\ UNCHANGED editing

\* seed_years for one year: the Session does not autoflush, so an entry is
\* compared with the committed rows only, not with the ones just added.
MissingEntries ==
    {i \in DOMAIN SeedEntries : \A h \in LiveHolidays : holiday[h] # SeedEntries[i]}

SeedYear ==
    /\ \E slot \in Injection(MissingEntries, FreeIds) :
          holiday' = [h \in DOMAIN holiday |->
                        IF h \in Range(slot)
                        THEN SeedEntries[CHOOSE i \in MissingEntries : slot[i] = h]
                        ELSE holiday[h]]
    /\ Edit
    /\ CalendarChanged
    /\ UNCHANGED <<editing, crossed>>

-------------------------------------------------------------------------------
(* deadlines                                                               *)

ComputedDueDate(row) ==
    DueDate(row.start_date, row.business_days,
            Applicable(row.court, row.comarca))

\* create_for_process: the court is copied from the process.
CreateDeadline(d, start, days, court, comarca) ==
    LET row == [start_date |-> start, business_days |-> days,
                due_date |-> start, court |-> court, comarca |-> comarca]
    IN  /\ d \notin used
        /\ used' = used \cup {d}
        /\ deadline' = [deadline EXCEPT ![d] =
                           [row EXCEPT !.due_date = ComputedDueDate(row)]]
        /\ UNCHANGED <<holiday, editing, pending, crossed, stale, edits>>

\* Mutant: a change of the comarca alone does not recalculate the due date.
ReadPatchOfDatesOnly(r, d, start, days, comarca) ==
    LET row == deadline[d]
        merge(field, old) == IF field = Unset THEN old ELSE field
        merged == [row EXCEPT !.start_date = merge(start, @),
                              !.business_days = merge(days, @),
                              !.comarca = merge(comarca, @)]
        recalc == start # Unset \/ days # Unset
    IN  /\ pending[r] = NoRow
        /\ row # NoRow
        /\ Edit
        /\ pending' = [pending EXCEPT ![r] =
              [target |-> d, read |-> row, recalculated |-> recalc,
               current |-> TRUE,
               new |-> IF recalc
                       THEN [merged EXCEPT !.due_date = ComputedDueDate(merged)]
                       ELSE merged]]
        /\ UNCHANGED <<holiday, deadline, used, editing, crossed, stale>>

\* update, up to the unit_of_work: the due date is recalculated if one of its
\* inputs is in the payload.
ReadPatch(r, d, start, days, comarca) ==
    LET row == deadline[d]
        merge(field, old) == IF field = Unset THEN old ELSE field
        merged == [row EXCEPT !.start_date = merge(start, @),
                              !.business_days = merge(days, @),
                              !.comarca = merge(comarca, @)]
        recalc == start # Unset \/ days # Unset \/ comarca # Unset
    IN  /\ pending[r] = NoRow
        /\ row # NoRow
        /\ Edit
        /\ pending' = [pending EXCEPT ![r] =
              [target |-> d, read |-> row, recalculated |-> recalc,
               current |-> TRUE,
               new |-> IF recalc
                       THEN [merged EXCEPT !.due_date = ComputedDueDate(merged)]
                       ELSE merged]]
        /\ UNCHANGED <<holiday, deadline, used, editing, crossed, stale>>

\* The unit_of_work of update: the UPDATE names only the changed attributes;
\* if the row is gone it matches nothing and the request fails.
WritePatch(r) ==
    LET p == pending[r]
    IN  /\ p # NoRow
        /\ pending' = [pending EXCEPT ![r] = NoRow]
        /\ \/ /\ deadline[p.target] = NoRow
              /\ UNCHANGED <<deadline, stale>>
           \/ /\ deadline[p.target] # NoRow
              /\ deadline' = [deadline EXCEPT ![p.target] = Written(@, p)]
              /\ stale' = IF p.recalculated
                          THEN IF p.current THEN stale \ {p.target}
                                            ELSE stale \cup {p.target}
                          ELSE stale
        /\ UNCHANGED <<holiday, used, editing, crossed, edits>>

DeleteDeadline(d) ==
    /\ deadline[d] # NoRow
    /\ deadline' = [deadline EXCEPT ![d] = NoRow]
    /\ stale' = stale \ {d}
    /\ UNCHANGED <<holiday, used, editing, pending, crossed, edits>>

-------------------------------------------------------------------------------
CalendarRequest ==
    \/ \E h \in DOMAIN holiday, row \in HolidayRow : CreateHoliday(h, row)
    \/ \E a \in Admins, h \in DOMAIN holiday, date \in HolidayDates \cup {Unset},
          scope \in ScopePayloads \cup {Unset},
          court \in Courts \cup {Null, Unset},
          comarca \in Comarcas \cup {Null, Unset} :
             ReadHolidayPatch(a, h, date, scope, court, comarca)
    \/ \E a \in Admins : WriteHolidayPatch(a)
    \/ \E h \in DOMAIN holiday : DeleteHoliday(h)
    \/ SeedYear

DeadlineRequest ==
    \/ \E d \in Deadlines, start \in StartDates, days \in DayCounts,
          court \in Courts \cup {Null}, comarca \in Comarcas \cup {Null} :
             CreateDeadline(d, start, days, court, comarca)
    \/ \E r \in Requests, d \in Deadlines, start \in StartDates \cup {Unset},
          days \in DayCounts \cup {Unset},
          comarca \in Comarcas \cup {Null, Unset} :
             ReadPatch(r, d, start, days, comarca)
    \/ \E r \in Requests : WritePatch(r)
    \/ \E d \in Deadlines : DeleteDeadline(d)

Next == CalendarRequest \/ DeadlineRequest

Spec == Init /\ [][Next]_vars

-------------------------------------------------------------------------------
(* Properties.                                                             *)

\* Every stored due date is the one its own start date, business days, court
\* and comarca give, unless the calendar was edited after it was computed:
\* create and PATCH keep the row consistent when PATCHes do not overlap, and
\* docs/ENDPOINTS.md:2738 promises it ("recalculado automaticamente").
DueDatesFollowTheirInputs ==
    \A d \in Deadlines :
        deadline[d] # NoRow /\ d \notin stale =>
            deadline[d].due_date = ComputedDueDate(deadline[d])

\* Every row says what docs/ENDPOINTS.md:2511-2513 says of its scope, whatever
\* sequence of POST, PATCH and seed produced it and however PATCHes overlap,
\* unless the last PATCH to write it read it before another one changed its
\* scope, court or comarca: the merge it validated is then not the row it left.
ScopesStayConsistent ==
    \A h \in LiveHolidays \ crossed :
        ScopeConsistent(holiday[h].scope, holiday[h].court, holiday[h].comarca)

\* calculate_due_date against its definition, for any calendar with at most
\* business_days + 38 applicable holidays in the window in which they are looked
\* up (more could fill it, service.py:66): the due date is a business day and
\* exactly business_days business days lie after the (possibly postponed) start
\* and up to it; and business_days_until, which fetches its own window of
\* holidays, counts the same number of days back.
DueDateIsTheNthBusinessDay ==
    \A start \in StartDates, n \in DayCounts, court \in Courts \cup {Null},
       comarca \in Comarcas \cup {Null} :
        LET off == Applicable(court, comarca)
            due == DueDate(start, n, off)
            workdays(a, b) == {d \in a..b : IsBusinessDay(d, off)}
        IN  Cardinality(VisibleHolidays(start, n, off)) <= n + 38 =>
              /\ IsBusinessDay(due, off)
              /\ Cardinality(workdays(start, due)) = n + 1
              /\ \A from \in start..due :
                    workdays(start, from) = {from} =>
                        BusinessDaysUntil(due, from, off) = n

===============================================================================
