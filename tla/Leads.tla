------------------------------- MODULE Leads --------------------------------
(***************************************************************************)
(* Leads and the notification preferences (src/app/modules/leads,          *)
(* notifications) in an office whose users come and go (Accounts).  A      *)
(* lead's status, name and message are payload.                            *)
(***************************************************************************)
EXTENDS Accounts

CONSTANTS
  LeadIds, Emails,   \* rows, and the addresses of the contact form
  DedupWindow        \* lead_dedup_window_hours

ASSUME LeadConstants == DedupWindow \in Nat

VARIABLES
  leads,    \* rows by id
  optOut,   \* users whose stored preference refuses LEAD_ASSIGNED
  told,     \* observation: whom each lead's last assignment was mailed to
  silent,   \* observation: whom it was not mailed to, with a reason
  repeated  \* observation: addresses that two requests sent at the same time

leadRows == <<leads, optOut>>
leadNotes == <<told, silent, repeated>>
leadVars == <<leadRows, leadNotes>>

vars == <<accountRows, thread, now, requests, accountNotes, leadVars>>

-----------------------------------------------------------------------------

\* "at": created_at, the start of the transaction that looked for duplicates.
LeadRow == [email : Emails, at : 0 .. MaxNow, assignee : Users \union {None}]

Init ==
  /\ AccountsInit
  /\ leads = <<>>
  /\ optOut = {}
  /\ told = [l \in LeadIds |-> {}]
  /\ silent = [l \in LeadIds |-> {}]
  /\ repeated = {}

\* Mutant: the window is open at its start.
RecentlyAfter(email) ==
  {l \in DOMAIN leads : leads[l].email = email /\ leads[l].at > now - DedupWindow}

\* find_recent_by_email
Recent(email) ==
  {l \in DOMAIN leads : leads[l].email = email /\ leads[l].at >= now - DedupWindow}

Submitting(email) ==
  {t \in Threads : thread[t].op = "submit" /\ thread[t].email = email}

\* create_lead, public: no such address within the window.
ReadLeads(t, email) ==
  /\ Starts(t)
  /\ Recent(email) = {}
  /\ Goto(t, [op |-> "submit", email |-> email, at |-> now])
  /\ repeated' = repeated \union (IF Submitting(email) = {} THEN {} ELSE {email})
  /\ UNCHANGED <<accountRows, now, accountNotes, leadRows, told, silent>>

CommitLead(t, l) ==
  LET r == thread[t]
  IN  /\ r.op = "submit"
      /\ l \notin DOMAIN leads
      /\ leads' = Put(leads, l, [email |-> r.email, at |-> r.at, assignee |-> None])
      /\ Goto(t, Idle)
      /\ UNCHANGED <<accountRows, now, requests, accountNotes, optOut, leadNotes>>

\* update_lead with assigned_to: the assignee exists, active or not.
ReadLead(t, by, l, u) ==
  /\ Starts(t)
  /\ Admin(by)
  /\ l \in DOMAIN leads
  /\ u \in DOMAIN users \union {None}
  /\ Goto(t, [op |-> "assign", lead |-> l, loaded |-> leads[l].assignee, to |-> u, by |-> by])
  /\ UNCHANGED <<accountRows, now, accountNotes, leadVars>>

\* Mutant: the previous assignee is read after the update.
MustNotifyLate(r) == FALSE

MustNotify(r) == r.to \notin {None, r.loaded, r.by}

CommitAssign(t) ==
  LET r == thread[t]
      written == r.to # r.loaded
  IN  /\ r.op = "assign"
      /\ Goto(t, IF MustNotify(r) THEN [op |-> "tell", lead |-> r.lead] ELSE Idle)
      /\ leads' = IF written THEN [leads EXCEPT ![r.lead].assignee = r.to] ELSE leads
      /\ told' = IF written THEN [told EXCEPT ![r.lead] = {}] ELSE told
      /\ silent' = IF written THEN [silent EXCEPT ![r.lead] = {r.to} \intersect {r.by}]
                   ELSE silent
      /\ UNCHANGED <<accountRows, now, requests, accountNotes, optOut, repeated>>

\* notify: the lead is read again, with whoever it is assigned to by now; an
\* error is logged and swallowed.
Tell(t, sent) ==
  LET l == thread[t].lead
      u == leads[l].assignee
      wanted == u # None /\ users[u].active /\ u \notin optOut
  IN  /\ thread[t].op = "tell"
      /\ sent => wanted
      /\ Goto(t, Idle)
      /\ told' = IF sent THEN [told EXCEPT ![l] = @ \union {u}] ELSE told
      /\ silent' = IF sent THEN silent ELSE [silent EXCEPT ![l] = @ \union {u}]
      /\ UNCHANGED <<accountRows, now, requests, accountNotes, leadRows, repeated>>

\* update_preferences: what is not stored counts as wanted.
SetPreference(u, enabled) ==
  /\ Counts
  /\ u \in DOMAIN users
  /\ users[u].active
  /\ enabled <=> u \in optOut
  /\ optOut' = IF enabled THEN optOut \ {u} ELSE optOut \union {u}
  /\ UNCHANGED <<accountRows, thread, now, accountNotes, leads, leadNotes>>

LoseLeadRequest(t) ==
  LET r == thread[t]
  IN  /\ r.op \in {"submit", "assign", "tell"}
      /\ Goto(t, Idle)
      /\ silent' = IF r.op = "tell"
                   THEN [silent EXCEPT ![r.lead] = @ \union {leads[r.lead].assignee}]
                   ELSE silent
      /\ UNCHANGED <<accountRows, now, requests, accountNotes, leadRows, told, repeated>>

LeadStep(t) ==
  \/ \E email \in Emails : ReadLeads(t, email)
  \/ \E l \in LeadIds : CommitLead(t, l)
  \/ \E by \in Users, l \in LeadIds, u \in Users \union {None} : ReadLead(t, by, l, u)
  \/ CommitAssign(t)
  \/ \E sent \in BOOLEAN : Tell(t, sent)
  \/ LoseLeadRequest(t)

Next ==
  \/ \E t \in Threads : LeadStep(t)
  \/ \E u \in Users, enabled \in BOOLEAN : SetPreference(u, enabled)
  \/ (Tick \/ \E t \in Threads : AccountStep(t)) /\ UNCHANGED leadVars

Spec == Init /\ [][Next]_vars

-----------------------------------------------------------------------------
(* Properties *)

\* Every row, count, mark and step of a request is of its kind.
TypeOK ==
  /\ AccountsTypeOK
  /\ DOMAIN leads \subseteq LeadIds /\ \A l \in DOMAIN leads : leads[l] \in LeadRow
  /\ optOut \subseteq DOMAIN users
  /\ told \in [LeadIds -> SUBSET Users]
  /\ silent \in [LeadIds -> SUBSET (Users \union {None})]
  /\ repeated \subseteq Emails
  /\ \A t \in Threads :
       LET r == thread[t]
       IN  \/ r.op = "idle"
           \/ r.op \in {"welcome", "reset", "link", "confirm", "log"} /\ r.user \in DOMAIN users
           \/ r.op = "edit" /\ r.loaded.active \in BOOLEAN /\ r.data \in Patches
           \/ r.op = "submit" /\ r.email \in Emails
           \/ r.op \in {"assign", "tell"} /\ r.lead \in DOMAIN leads

\* Two leads with one address lie further apart than the window (ENDPOINTS.md
\* on POST /leads), unless the two requests that made them overlapped: the
\* search and the INSERT are separate (the comment in create_lead accepts it).
RepeatedLeadsAreRefused ==
  \A l, m \in DOMAIN leads :
    l # m /\ leads[l].email = leads[m].email =>
      \/ leads[l].email \in repeated
      \/ leads[l].at > leads[m].at + DedupWindow
      \/ leads[m].at > leads[l].at + DedupWindow

\* Whoever a lead is assigned to has been mailed about it once no request on
\* it is in flight (update_lead, _notify_assignee), however assignments
\* overlap: unless they assigned it themselves, were inactive or had opted out
\* when the mail was due, or the mail or its request was lost.
AssigneesAreTold ==
  \A l \in DOMAIN leads :
    \/ leads[l].assignee \in {None} \union told[l] \union silent[l]
    \/ \E t \in Threads : thread[t].op = "tell" /\ thread[t].lead = l

=============================================================================
