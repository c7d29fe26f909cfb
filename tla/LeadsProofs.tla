------------------------------ MODULE LeadsProofs ------------------------------
(***************************************************************************)
(* Theorems about users, password resets and leads, for any number of      *)
(* users, links, leads, requests in flight and ticks of the clock.         *)
(***************************************************************************)
EXTENDS Leads, FiniteSetTheorems, TLAPS

-----------------------------------------------------------------------------
(* Steps of one module leave the requests of the other alone.              *)

LeadOps == {"submit", "assign", "tell"}

\* A step of a user, reset or audit request is no step of a lead's request.
LEMMA AccountStepsLeaveLeads ==
  ASSUME NEW t \in Threads, AccountStep(t), DOMAIN thread = Threads
  PROVE  /\ DOMAIN thread' = Threads
         /\ \A s \in Threads : thread[s].op \in LeadOps \/ thread'[s].op \in LeadOps =>
                                 thread'[s] = thread[s]
<1>1. ASSUME NEW r, Goto(t, r), r.op \notin LeadOps, thread[t].op \notin LeadOps
      PROVE  /\ DOMAIN thread' = Threads
             /\ \A s \in Threads : thread[s].op \in LeadOps \/ thread'[s].op \in LeadOps =>
                                     thread'[s] = thread[s]
  BY <1>1 DEF Goto
<1>2. Idle.op \notin LeadOps
  BY DEF Idle, LeadOps
<1>3. ASSUME NEW by \in Users, NEW u \in Users, CreateUser(t, by, u) PROVE
        Goto(t, [op |-> "welcome", user |-> u]) /\ thread[t] = Idle
  BY <1>3 DEF CreateUser, Starts
<1>4. CASE \E by \in Users, u \in Users : CreateUser(t, by, u)
  BY <1>4, <1>3, <1>2, <1>1 DEF LeadOps
<1>5. CASE \E by \in Users, u \in Users, data \in Patches : ReadUser(t, by, u, data)
  <2>1. PICK u \in Users, data \in Patches :
          /\ Goto(t, [op |-> "edit", user |-> u, data |-> data,
                      loaded |-> [role |-> users[u].role, active |-> users[u].active]])
          /\ thread[t] = Idle
    BY <1>5 DEF ReadUser, Starts
  <2> QED
    BY <2>1, <1>1, <1>2 DEF LeadOps
<1>6. CASE \E sent \in BOOLEAN : Welcome(t, sent)
  BY <1>6, <1>1, <1>2 DEF Welcome, LeadOps
<1>7. CASE \E sent \in BOOLEAN : SendLink(t, sent)
  BY <1>7, <1>1, <1>2 DEF SendLink, LeadOps
<1>8. CASE CommitEdit(t)
  <2>1. PICK a : Goto(t, IF a = None THEN Idle
                         ELSE [op |-> "log", action |-> a, user |-> thread[t].user])
    BY <1>8 DEF CommitEdit
  <2> QED
    BY <2>1, <1>8, <1>1, <1>2 DEF CommitEdit, LeadOps
<1>9. CASE WriteLog(t)
  BY <1>9, <1>1, <1>2 DEF WriteLog, LeadOps
<1>10. CASE \E u \in Users : ReadReset(t, u)
  <2>1. PICK u \in Users : Goto(t, [op |-> "reset", user |-> u, expires |-> now + ResetMinutes])
                           /\ thread[t] = Idle
    BY <1>10 DEF ReadReset, Starts
  <2> QED
    BY <2>1, <1>1, <1>2 DEF LeadOps
<1>11. CASE \E u \in Users : ReadConfirm(t, u)
  <2>1. PICK u \in Users : Goto(t, [op |-> "confirm", user |-> u, link |-> users[u].reset])
                           /\ thread[t] = Idle
    BY <1>11 DEF ReadConfirm, Starts
  <2> QED
    BY <2>1, <1>1, <1>2 DEF LeadOps
<1>12. CASE \E k \in Links : CommitReset(t, k)
  <2>1. PICK k \in Links : Goto(t, [op |-> "link", user |-> thread[t].user, link |-> k])
                           /\ thread[t].op = "reset"
    BY <1>12 DEF CommitReset
  <2> QED
    BY <2>1, <1>1 DEF LeadOps
<1>13. CASE CommitConfirm(t)
  BY <1>13, <1>1, <1>2 DEF CommitConfirm, LeadOps
<1>14. CASE LoseAccountRequest(t)
  BY <1>14, <1>1, <1>2 DEF LoseAccountRequest, LeadOps
<1> QED
  BY <1>4, <1>5, <1>6, <1>7, <1>8, <1>9, <1>10, <1>11, <1>12, <1>13, <1>14
  DEF AccountStep, UserRequest

-----------------------------------------------------------------------------
(* AssigneesAreTold                                                        *)

\* The rows and requests AssigneesAreTold speaks of exist.
LeadsInv ==
  /\ DOMAIN thread = Threads
  /\ DOMAIN leads \subseteq LeadIds
  /\ DOMAIN told = LeadIds /\ DOMAIN silent = LeadIds
  /\ \A l \in DOMAIN leads : "assignee" \in DOMAIN leads[l]
  /\ \A t \in Threads : thread[t].op \in {"assign", "tell"} => thread[t].lead \in DOMAIN leads

ToldInv == LeadsInv /\ AssigneesAreTold

\* A step that leaves leads, their mails and the requests on them alone.
LEMMA ToldUntouched ==
  ASSUME ToldInv, leads' = leads, told' = told, silent' = silent, DOMAIN thread' = Threads,
         \A s \in Threads : thread[s].op \in {"assign", "tell"}
                              \/ thread'[s].op \in {"assign", "tell"} =>
                                thread'[s] = thread[s]
  PROVE  ToldInv'
<1>1. LeadsInv'
  BY DEF ToldInv, LeadsInv
<1>2. AssigneesAreTold'
  BY DEF ToldInv, LeadsInv, AssigneesAreTold
<1> QED
  BY <1>1, <1>2 DEF ToldInv

LEMMA ToldInit == Init => ToldInv
BY DEF Init, AccountsInit, ToldInv, LeadsInv, AssigneesAreTold, Idle

LEMMA ToldStep == ToldInv /\ [Next]_vars => ToldInv'
<1> SUFFICES ASSUME ToldInv, [Next]_vars PROVE ToldInv'
  OBVIOUS
<1> USE DEF ToldInv, LeadsInv
<1>1. ASSUME NEW t \in Threads, NEW email \in Emails, ReadLeads(t, email)
      PROVE  ToldInv'
  <2>1. /\ leads' = leads /\ told' = told /\ silent' = silent
        /\ thread[t].op = "idle"
        /\ thread' = [thread EXCEPT ![t] = [op |-> "submit", email |-> email, at |-> now]]
    BY <1>1 DEF ReadLeads, Starts, Goto, leadRows, Idle
  <2> QED
    BY <2>1, ToldUntouched
<1>2. ASSUME NEW t \in Threads, NEW l \in LeadIds, CommitLead(t, l)
      PROVE  ToldInv'
  <2>1. /\ thread[t].op = "submit" /\ l \notin DOMAIN leads
        /\ leads' = Put(leads, l, [email |-> thread[t].email, at |-> thread[t].at,
                                   assignee |-> None])
        /\ thread' = [thread EXCEPT ![t] = Idle]
        /\ told' = told /\ silent' = silent
    BY <1>2 DEF CommitLead, Goto, leadNotes
  <2>2. /\ DOMAIN leads' = DOMAIN leads \union {l}
        /\ leads'[l].assignee = None /\ "assignee" \in DOMAIN leads'[l]
        /\ \A x \in DOMAIN leads : leads'[x] = leads[x]
    BY <2>1 DEF Put
  <2>3. LeadsInv'
    BY <2>1, <2>2 DEF Idle
  <2>4. AssigneesAreTold'
    BY <2>1, <2>2 DEF AssigneesAreTold, Idle
  <2> QED
    BY <2>3, <2>4
<1>3. ASSUME NEW t \in Threads, NEW by \in Users, NEW l \in LeadIds,
             NEW u \in Users \union {None}, ReadLead(t, by, l, u)
      PROVE  ToldInv'
  <2>1. /\ leads' = leads /\ told' = told /\ silent' = silent
        /\ thread[t].op = "idle" /\ l \in DOMAIN leads
        /\ thread' = [thread EXCEPT ![t] = [op |-> "assign", lead |-> l,
                        loaded |-> leads[l].assignee, to |-> u, by |-> by]]
    BY <1>3 DEF ReadLead, Starts, Goto, leadVars, leadRows, leadNotes, Idle
  <2>2. LeadsInv'
    BY <2>1
  <2>3. AssigneesAreTold'
    BY <2>1 DEF AssigneesAreTold
  <2> QED
    BY <2>2, <2>3
<1>4. ASSUME NEW t \in Threads, CommitAssign(t)
      PROVE  ToldInv'
  <2> DEFINE r == thread[t]
  <2>1. /\ r.op = "assign" /\ r.lead \in DOMAIN leads
        /\ thread' = [thread EXCEPT ![t] =
                        IF MustNotify(r) THEN [op |-> "tell", lead |-> r.lead] ELSE Idle]
        /\ r.to # r.loaded => /\ leads' = [leads EXCEPT ![r.lead].assignee = r.to]
                              /\ told' = [told EXCEPT ![r.lead] = {}]
                              /\ silent' = [silent EXCEPT ![r.lead] = {r.to} \intersect {r.by}]
        /\ r.to = r.loaded => leads' = leads /\ told' = told /\ silent' = silent
    BY <1>4 DEF CommitAssign, Goto
  <2>2. LeadsInv'
    BY <2>1 DEF Idle
  <2>3. \A s \in Threads : thread[s].op = "tell" => thread'[s] = thread[s]
    BY <2>1
  <2>4. ASSUME NEW l \in DOMAIN leads', l # r.lead \/ r.to = r.loaded
        PROVE  \/ leads'[l].assignee \in {None} \union told'[l] \union silent'[l]
               \/ \E s \in Threads : thread'[s].op = "tell" /\ thread'[s].lead = l
    <3>1. leads'[l] = leads[l] /\ told'[l] = told[l] /\ silent'[l] = silent[l] /\ l \in DOMAIN leads
      BY <2>1, <2>4
    <3> QED
      BY <3>1, <2>3 DEF AssigneesAreTold
  <2>5. CASE r.to # r.loaded
    <3>1. leads'[r.lead].assignee = r.to /\ silent'[r.lead] = {r.to} \intersect {r.by}
      BY <2>1, <2>5
    <3>2. MustNotify(r) => thread'[t].op = "tell" /\ thread'[t].lead = r.lead
      BY <2>1
    <3>3. ~MustNotify(r) => r.to = None \/ r.to = r.by
      BY <2>5 DEF MustNotify
    <3> QED
      BY <2>2, <2>4, <3>1, <3>2, <3>3 DEF AssigneesAreTold
  <2> QED
    BY <2>2, <2>4, <2>5 DEF AssigneesAreTold
<1>5. ASSUME NEW t \in Threads, thread[t].op = "tell", leads' = leads,
             thread' = [thread EXCEPT ![t] = Idle],
             NEW l, l = thread[t].lead,
             \/ /\ told' = [told EXCEPT ![l] = @ \union {leads[l].assignee}]
                /\ silent' = silent
             \/ /\ silent' = [silent EXCEPT ![l] = @ \union {leads[l].assignee}]
                /\ told' = told
      PROVE  ToldInv'
  <2>1. LeadsInv'
    BY <1>5 DEF Idle
  <2>2. ASSUME NEW x \in DOMAIN leads'
        PROVE  \/ leads'[x].assignee \in {None} \union told'[x] \union silent'[x]
               \/ \E s \in Threads : thread'[s].op = "tell" /\ thread'[s].lead = x
    <3>1. CASE x = l
      BY <3>1, <1>5
    <3>2. CASE x # l
      <4>1. told'[x] = told[x] /\ silent'[x] = silent[x]
        BY <3>2, <1>5
      <4>2. \A s \in Threads : thread[s].op = "tell" /\ thread[s].lead = x =>
                                 thread'[s] = thread[s]
        BY <3>2, <1>5
      <4> QED
        BY <4>1, <4>2, <1>5 DEF AssigneesAreTold
    <3> QED
      BY <3>1, <3>2
  <2> QED
    BY <2>1, <2>2 DEF AssigneesAreTold
<1>6. ASSUME NEW t \in Threads, NEW sent \in BOOLEAN, Tell(t, sent)
      PROVE  ToldInv'
  <2>1. /\ thread[t].op = "tell" /\ leads' = leads
        /\ thread' = [thread EXCEPT ![t] = Idle]
        /\ sent => /\ told' = [told EXCEPT ![thread[t].lead] = @ \union {leads[thread[t].lead].assignee}]
                   /\ silent' = silent
        /\ ~sent => /\ silent' = [silent EXCEPT ![thread[t].lead] =
                                    @ \union {leads[thread[t].lead].assignee}]
                    /\ told' = told
    BY <1>6 DEF Tell, Goto, leadRows
  <2> QED
    BY <2>1, <1>5
<1>7. ASSUME NEW t \in Threads, LoseLeadRequest(t)
      PROVE  ToldInv'
  <2>1. /\ thread[t].op \in LeadOps /\ leads' = leads /\ told' = told
        /\ thread' = [thread EXCEPT ![t] = Idle]
        /\ thread[t].op = "tell" =>
             silent' = [silent EXCEPT ![thread[t].lead] = @ \union {leads[thread[t].lead].assignee}]
        /\ thread[t].op # "tell" => silent' = silent
    BY <1>7 DEF LoseLeadRequest, Goto, leadRows, LeadOps
  <2>2. CASE thread[t].op = "tell"
    BY <2>1, <2>2, <1>5
  <2>3. CASE thread[t].op # "tell"
    <3>1. LeadsInv'
      BY <2>1, <2>3 DEF Idle
    <3>2. \A s \in Threads : thread[s].op = "tell" => thread'[s] = thread[s]
      BY <2>1, <2>3
    <3>3. AssigneesAreTold'
      BY <2>1, <2>3, <3>2 DEF AssigneesAreTold
    <3> QED
      BY <3>1, <3>3
  <2> QED
    BY <2>2, <2>3
<1>8. CASE \E t \in Threads : LeadStep(t)
  BY <1>8, <1>1, <1>2, <1>3, <1>4, <1>6, <1>7 DEF LeadStep
<1>9. CASE \E u \in Users, enabled \in BOOLEAN : SetPreference(u, enabled)
  <2>1. leads' = leads /\ told' = told /\ silent' = silent /\ thread' = thread
    BY <1>9 DEF SetPreference, leadNotes
  <2> QED
    BY <2>1, ToldUntouched
<1>10. CASE Tick /\ UNCHANGED leadVars
  <2>1. leads' = leads /\ told' = told /\ silent' = silent /\ thread' = thread
    BY <1>10 DEF Tick, leadVars, leadRows, leadNotes
  <2> QED
    BY <2>1, ToldUntouched
<1>11. ASSUME NEW t \in Threads, AccountStep(t), UNCHANGED leadVars
       PROVE  ToldInv'
  <2>1. leads' = leads /\ told' = told /\ silent' = silent
    BY <1>11 DEF leadVars, leadRows, leadNotes
  <2>2. /\ DOMAIN thread' = Threads
        /\ \A s \in Threads : thread[s].op \in LeadOps \/ thread'[s].op \in LeadOps =>
                                thread'[s] = thread[s]
    BY <1>11, AccountStepsLeaveLeads
  <2> QED
    BY <2>1, <2>2, ToldUntouched DEF LeadOps
<1>12. CASE UNCHANGED vars
  <2>1. leads' = leads /\ told' = told /\ silent' = silent /\ thread' = thread
    BY <1>12 DEF vars, leadVars, leadRows, leadNotes
  <2> QED
    BY <2>1, ToldUntouched
<1> QED
  BY <1>8, <1>9, <1>10, <1>11, <1>12 DEF Next

\* Whoever a lead is assigned to is told, with the stated exceptions, for any
\* number of overlapping requests (leads/service.py update_lead).
THEOREM AssigneesGetTheirMail == Spec => []AssigneesAreTold
<1>1. ToldInv => AssigneesAreTold
  BY DEF ToldInv
<1> QED
  BY <1>1, ToldInit, ToldStep, PTL DEF Spec

-----------------------------------------------------------------------------
(* RepeatedLeadsAreRefused                                                 *)

LEMMA AccountStepsTakeNoTime == ASSUME NEW t, AccountStep(t) PROVE now' = now
BY DEF AccountStep, UserRequest, CreateUser, ReadUser, Welcome, SendLink, CommitEdit, WriteLog,
       ReadReset, ReadConfirm, CommitReset, CommitConfirm, LoseAccountRequest

\* Times are numbers, and the request that submits a lead has its address and
\* the time it looked.
TimesInv ==
  /\ DOMAIN thread = Threads
  /\ now \in Int
  /\ \A l \in DOMAIN leads : leads[l].at \in Int
  /\ \A t \in Threads : thread[t].op = "submit" => thread[t].at \in Int

\* Unless two requests with one address overlapped, the one in flight found
\* the leads of its address too old to refuse it.
SubmitsInv ==
  /\ \A s, t \in Threads :
       s # t /\ thread[s].op = "submit" /\ thread[t].op = "submit"
         /\ thread[s].email = thread[t].email => thread[t].email \in repeated
  /\ \A t \in Threads : thread[t].op = "submit" =>
       \/ thread[t].email \in repeated
       \/ \A l \in DOMAIN leads :
            leads[l].email = thread[t].email => thread[t].at > leads[l].at + DedupWindow

RepeatedInv == TimesInv /\ SubmitsInv /\ RepeatedLeadsAreRefused

LEMMA RepeatedUntouched ==
  ASSUME RepeatedInv, leads' = leads, repeated' = repeated, now' \in Int, DOMAIN thread' = Threads,
         \A s \in Threads : thread[s].op = "submit" \/ thread'[s].op = "submit" =>
                               thread'[s] = thread[s] \/ thread'[s].op # "submit"
  PROVE  RepeatedInv'
<1>1. TimesInv'
  BY DEF RepeatedInv, TimesInv
<1>2. SubmitsInv'
  BY DEF RepeatedInv, TimesInv, SubmitsInv
<1>3. RepeatedLeadsAreRefused'
  BY DEF RepeatedInv, RepeatedLeadsAreRefused
<1> QED
  BY <1>1, <1>2, <1>3 DEF RepeatedInv

LEMMA RepeatedInit == Init => RepeatedInv
BY DEF Init, AccountsInit, RepeatedInv, TimesInv, SubmitsInv, RepeatedLeadsAreRefused, Idle

LEMMA ReadLeadsKeeps ==
  ASSUME RepeatedInv, NEW t \in Threads, NEW email \in Emails, ReadLeads(t, email)
  PROVE  RepeatedInv'
<1>1. /\ leads' = leads /\ now' = now /\ Recent(email) = {} /\ thread[t].op = "idle"
      /\ thread' = [thread EXCEPT ![t] = [op |-> "submit", email |-> email, at |-> now]]
      /\ repeated' = repeated \union (IF Submitting(email) = {} THEN {} ELSE {email})
  BY DEF ReadLeads, Starts, Goto, leadRows, Idle
<1>2. /\ DOMAIN thread = Threads /\ now \in Int /\ DedupWindow \in Int
      /\ \A l \in DOMAIN leads : leads[l].at \in Int
  BY LeadConstants DEF RepeatedInv, TimesInv
<1>3. /\ thread'[t].op = "submit" /\ thread'[t].email = email /\ thread'[t].at = now
      /\ \A s \in Threads \ {t} : thread'[s] = thread[s]
      /\ DOMAIN thread' = Threads
  BY <1>1, <1>2
<1>4. TimesInv'
  BY <1>1, <1>2, <1>3 DEF RepeatedInv, TimesInv
<1>5. \A l \in DOMAIN leads : leads[l].email = email => now > leads[l].at + DedupWindow
  <2>1. ASSUME NEW l \in DOMAIN leads, leads[l].email = email
        PROVE  ~(leads[l].at >= now - DedupWindow)
    BY <1>1, <2>1 DEF Recent
  <2> QED
    BY <2>1, <1>2
<1>6. \A s \in Threads \ {t} : thread[s].op = "submit" /\ thread[s].email = email =>
                              email \in repeated'
  BY <1>1 DEF Submitting
<1>7. SubmitsInv'
  BY <1>1, <1>3, <1>5, <1>6 DEF RepeatedInv, SubmitsInv
<1>8. RepeatedLeadsAreRefused'
  BY <1>1 DEF RepeatedInv, RepeatedLeadsAreRefused
<1> QED
  BY <1>4, <1>7, <1>8 DEF RepeatedInv

LEMMA CommitLeadKeeps ==
  ASSUME RepeatedInv, NEW t \in Threads, NEW l \in LeadIds, CommitLead(t, l)
  PROVE  RepeatedInv'
<1>1. /\ thread[t].op = "submit" /\ l \notin DOMAIN leads
      /\ leads' = Put(leads, l, [email |-> thread[t].email, at |-> thread[t].at,
                                 assignee |-> None])
      /\ thread' = [thread EXCEPT ![t] = Idle] /\ now' = now /\ repeated' = repeated
  BY DEF CommitLead, Goto, leadNotes
<1>2. /\ DOMAIN leads' = DOMAIN leads \union {l} /\ \A x \in DOMAIN leads : leads'[x] = leads[x]
      /\ leads'[l].email = thread[t].email /\ leads'[l].at = thread[t].at
  BY <1>1 DEF Put
<1>3. /\ DOMAIN thread = Threads /\ now \in Int /\ DedupWindow \in Int
      /\ thread[t].at \in Int
  BY <1>1, LeadConstants DEF RepeatedInv, TimesInv
<1>4. /\ DOMAIN thread' = Threads /\ thread'[t].op # "submit"
      /\ \A s \in Threads \ {t} : thread'[s] = thread[s]
  BY <1>1, <1>3 DEF Idle
<1>5. TimesInv'
  BY <1>1, <1>2, <1>3, <1>4 DEF RepeatedInv, TimesInv
<1>6. SubmitsInv'
  BY <1>1, <1>2, <1>4 DEF RepeatedInv, SubmitsInv
<1>7. RepeatedLeadsAreRefused'
  BY <1>1, <1>2 DEF RepeatedInv, SubmitsInv, RepeatedLeadsAreRefused
<1> QED
  BY <1>5, <1>6, <1>7 DEF RepeatedInv

LEMMA CommitAssignKeeps ==
  ASSUME RepeatedInv, LeadsInv, NEW t \in Threads, CommitAssign(t)
  PROVE  RepeatedInv'
<1> DEFINE r == thread[t]
<1>1. /\ r.op = "assign" /\ now' = now /\ repeated' = repeated
      /\ thread' = [thread EXCEPT ![t] =
                      IF MustNotify(r) THEN [op |-> "tell", lead |-> r.lead] ELSE Idle]
      /\ r.to # r.loaded => leads' = [leads EXCEPT ![r.lead].assignee = r.to]
      /\ r.to = r.loaded => leads' = leads
  BY DEF CommitAssign, Goto
<1>2. /\ DOMAIN thread' = Threads /\ thread'[t].op # "submit"
      /\ \A s \in Threads \ {t} : thread'[s] = thread[s]
  BY <1>1 DEF RepeatedInv, TimesInv, Idle
<1>3. /\ DOMAIN leads' = DOMAIN leads
      /\ \A l \in DOMAIN leads : leads'[l].at = leads[l].at /\ leads'[l].email = leads[l].email
  <2>1. CASE r.to = r.loaded
    BY <1>1, <2>1
  <2>2. CASE r.to # r.loaded
    <3>1. PICK row : row = [leads[r.lead] EXCEPT !.assignee = r.to]
                     /\ leads' = [leads EXCEPT ![r.lead] = row]
      BY <1>1, <2>2
    <3>2. row.at = leads[r.lead].at /\ row.email = leads[r.lead].email
      BY <1>1, <3>1 DEF LeadsInv
    <3> QED
      BY <3>1, <3>2
  <2> QED
    BY <2>1, <2>2
<1>4. TimesInv'
  BY <1>1, <1>2, <1>3 DEF RepeatedInv, TimesInv
<1>5. SubmitsInv'
  BY <1>1, <1>2, <1>3 DEF RepeatedInv, SubmitsInv
<1>6. RepeatedLeadsAreRefused'
  BY <1>1, <1>3 DEF RepeatedInv, RepeatedLeadsAreRefused
<1> QED
  BY <1>4, <1>5, <1>6 DEF RepeatedInv

LEMMA RepeatedStep == RepeatedInv /\ LeadsInv /\ [Next]_vars => RepeatedInv'
<1> SUFFICES ASSUME RepeatedInv, LeadsInv, [Next]_vars PROVE RepeatedInv'
  OBVIOUS
<1>1. DOMAIN thread = Threads /\ now \in Int
  BY DEF RepeatedInv, TimesInv
<1>2. ASSUME NEW t \in Threads, NEW by \in Users, NEW l \in LeadIds,
             NEW u \in Users \union {None}, ReadLead(t, by, l, u)
      PROVE  RepeatedInv'
  <2>1. /\ leads' = leads /\ repeated' = repeated /\ now' = now
        /\ thread' = [thread EXCEPT ![t] = [op |-> "assign", lead |-> l,
                        loaded |-> leads[l].assignee, to |-> u, by |-> by]]
    BY <1>2 DEF ReadLead, Goto, leadVars, leadRows, leadNotes
  <2> QED
    BY <1>1, <2>1, RepeatedUntouched
<1>3. ASSUME NEW t \in Threads, (\E sent \in BOOLEAN : Tell(t, sent)) \/ LoseLeadRequest(t)
      PROVE  RepeatedInv'
  <2>1. leads' = leads /\ repeated' = repeated /\ now' = now /\ thread' = [thread EXCEPT ![t] = Idle]
    BY <1>3 DEF Tell, LoseLeadRequest, Goto, leadRows
  <2> QED
    BY <1>1, <2>1, RepeatedUntouched DEF Idle
<1>4. CASE \E t \in Threads : LeadStep(t)
  BY <1>2, <1>3, <1>4, ReadLeadsKeeps, CommitLeadKeeps, CommitAssignKeeps DEF LeadStep
<1>5. CASE \E u \in Users, enabled \in BOOLEAN : SetPreference(u, enabled)
  <2>1. leads' = leads /\ repeated' = repeated /\ now' = now /\ thread' = thread
    BY <1>5 DEF SetPreference, leadNotes
  <2> QED
    BY <1>1, <2>1, RepeatedUntouched
<1>6. CASE Tick /\ UNCHANGED leadVars
  <2>1. leads' = leads /\ repeated' = repeated /\ now' = now + 1 /\ thread' = thread
    BY <1>6 DEF Tick, leadVars, leadRows, leadNotes
  <2>2. now' \in Int
    BY <1>1, <2>1
  <2> QED
    BY <1>1, <2>1, <2>2, RepeatedUntouched
<1>7. ASSUME NEW t \in Threads, AccountStep(t), UNCHANGED leadVars
      PROVE  RepeatedInv'
  <2>1. leads' = leads /\ repeated' = repeated /\ now' = now
    BY <1>7, AccountStepsTakeNoTime DEF leadVars, leadRows, leadNotes
  <2>2. /\ DOMAIN thread' = Threads
        /\ \A s \in Threads : thread[s].op \in LeadOps \/ thread'[s].op \in LeadOps =>
                                thread'[s] = thread[s]
    BY <1>1, <1>7, AccountStepsLeaveLeads
  <2> QED
    BY <1>1, <2>1, <2>2, RepeatedUntouched DEF LeadOps
<1>8. CASE UNCHANGED vars
  <2>1. leads' = leads /\ repeated' = repeated /\ now' = now /\ thread' = thread
    BY <1>8 DEF vars, leadVars, leadRows, leadNotes
  <2> QED
    BY <1>1, <2>1, RepeatedUntouched
<1> QED
  BY <1>4, <1>5, <1>6, <1>7, <1>8 DEF Next

\* Two leads with one address lie further apart than the window, for any
\* window and any number of requests, unless the requests overlapped
\* (leads/service.py create_lead).
THEOREM RepeatedLeadsStayOut == Spec => []RepeatedLeadsAreRefused
<1>1. RepeatedInv => RepeatedLeadsAreRefused
  BY DEF RepeatedInv
<1>2. ToldInv => LeadsInv
  BY DEF ToldInv
<1> QED
  BY <1>1, <1>2, ToldInit, ToldStep, RepeatedInit, RepeatedStep, PTL DEF Spec

-----------------------------------------------------------------------------
(* LinksLastUntilUsed                                                      *)

LinkOps == {"reset", "link", "confirm"}

\* A step of a lead's request is no step of a reset.
LEMMA LeadStepsLeaveLinks ==
  ASSUME NEW t \in Threads, LeadStep(t), DOMAIN thread = Threads
  PROVE  /\ DOMAIN thread' = Threads
         /\ \A s \in Threads : thread[s].op \in LinkOps \/ thread'[s].op \in LinkOps =>
                                 thread'[s] = thread[s]
         /\ users' = users /\ mailbox' = mailbox /\ spent' = spent /\ marks' = marks
<1>1. users' = users /\ mailbox' = mailbox /\ spent' = spent /\ marks' = marks
  BY DEF LeadStep, ReadLeads, CommitLead, ReadLead, CommitAssign, Tell, LoseLeadRequest,
         accountRows, accountNotes
<1>2. ASSUME NEW r, Goto(t, r), r.op \notin LinkOps, thread[t].op \notin LinkOps
      PROVE  /\ DOMAIN thread' = Threads
             /\ \A s \in Threads : thread[s].op \in LinkOps \/ thread'[s].op \in LinkOps =>
                                     thread'[s] = thread[s]
  BY <1>2 DEF Goto
<1>3. Idle.op \notin LinkOps
  BY DEF Idle, LinkOps
<1>4. CASE \E email \in Emails : ReadLeads(t, email)
  <2>1. PICK email \in Emails : Goto(t, [op |-> "submit", email |-> email, at |-> now])
                                /\ thread[t] = Idle
    BY <1>4 DEF ReadLeads, Starts
  <2> QED
    BY <2>1, <1>1, <1>2, <1>3 DEF LinkOps
<1>5. CASE \E l \in LeadIds : CommitLead(t, l)
  BY <1>5, <1>1, <1>2, <1>3 DEF CommitLead, LinkOps
<1>6. CASE \E by \in Users, l \in LeadIds, u \in Users \union {None} : ReadLead(t, by, l, u)
  <2>1. PICK by \in Users, l \in LeadIds, u \in Users \union {None} :
          /\ Goto(t, [op |-> "assign", lead |-> l, loaded |-> leads[l].assignee,
                      to |-> u, by |-> by])
          /\ thread[t] = Idle
    BY <1>6 DEF ReadLead, Starts
  <2> QED
    BY <2>1, <1>1, <1>2, <1>3 DEF LinkOps
<1>7. CASE CommitAssign(t)
  <2>1. /\ \/ Goto(t, [op |-> "tell", lead |-> thread[t].lead])
           \/ Goto(t, Idle)
        /\ thread[t].op = "assign"
    BY <1>7 DEF CommitAssign
  <2> QED
    BY <2>1, <1>1, <1>2, <1>3 DEF LinkOps
<1>8. CASE \E sent \in BOOLEAN : Tell(t, sent)
  BY <1>8, <1>1, <1>2, <1>3 DEF Tell, LinkOps
<1>9. CASE LoseLeadRequest(t)
  BY <1>9, <1>1, <1>2, <1>3 DEF LoseLeadRequest, LinkOps
<1> QED
  BY <1>4, <1>5, <1>6, <1>7, <1>8, <1>9 DEF LeadStep

\* Resets belong to users that exist, and a link is not "no link".
ResetsInv ==
  /\ DOMAIN thread = Threads /\ DOMAIN mailbox = Users /\ DOMAIN users \subseteq Users
  /\ \A u \in DOMAIN users : "reset" \in DOMAIN users[u]
  /\ \A u \in Users \ DOMAIN users : mailbox[u] = None
  /\ \A t \in Threads : thread[t].op \in LinkOps => thread[t].user \in DOMAIN users
  /\ \A t \in Threads : thread[t].op \in {"link", "confirm"} => thread[t].link # None
  /\ None \notin spent

\* A link is one user's: no two rows store it, and a confirmation in flight
\* spends no other user's.
HoldersInv ==
  /\ \A u, v \in DOMAIN users :
       users[u].reset = users[v].reset /\ users[u].reset # None => u = v
  /\ \A t \in Threads, v \in DOMAIN users :
       thread[t].op = "confirm" /\ users[v].reset = thread[t].link => v = thread[t].user

\* A used link is not stored, and only a race leaves a confirmation of it, or
\* two of the same link, in flight.
UsesInv ==
  /\ \A u \in DOMAIN users : users[u].reset \notin spent
  /\ \A s, t \in Threads :
       /\ thread[s].op = "confirm" /\ thread[t].op = "confirm"
       /\ thread[s].link = thread[t].link
       => s = t \/ <<thread[t].link, "raced">> \in marks
  /\ \A t \in Threads : thread[t].op = "confirm" /\ thread[t].link \in spent =>
       <<thread[t].link, "raced">> \in marks

\* What a confirmation is about to clear is its own link or a crossed one; a
\* link on its way to the mail is stored, used or crossed.
TurnsInv ==
  \A t \in Threads :
    /\ thread[t].op = "confirm" =>
         \/ users[thread[t].user].reset \in {thread[t].link, None}
         \/ <<users[thread[t].user].reset, "crossed">> \in marks
    /\ thread[t].op = "link" =>
         \/ users[thread[t].user].reset = thread[t].link
         \/ thread[t].link \in spent
         \/ <<thread[t].link, "crossed">> \in marks

\* LinksLastUntilUsed, said of each link and each user.
LastsInv ==
  /\ \A k \in Links : <<k, "twice">> \in marks => <<k, "raced">> \in marks
  /\ \A u \in DOMAIN users : mailbox[u] \notin spent /\ mailbox[u] # None =>
       \/ users[u].reset = mailbox[u]
       \/ \E t \in Threads : thread[t].op = "link" /\ thread[t].user = u
       \/ <<mailbox[u], "crossed">> \in marks

LinksInv == ResetsInv /\ HoldersInv /\ UsesInv /\ TurnsInv /\ LastsInv

\* A step that leaves the links, their mails and the requests on them alone.
LEMMA LinksUntouched ==
  ASSUME LinksInv, DOMAIN users' = DOMAIN users,
         \A u \in DOMAIN users :
           "reset" \in DOMAIN users'[u] /\ users'[u].reset = users[u].reset,
         mailbox' = mailbox, spent' = spent, DOMAIN thread' = Threads,
         marks \subseteq marks', \A k : <<k, "twice">> \in marks' => <<k, "twice">> \in marks,
         \A s \in Threads : thread[s].op \in LinkOps \/ thread'[s].op \in LinkOps =>
                               thread'[s] = thread[s]
  PROVE  LinksInv'
<1>1. ResetsInv'
  BY DEF LinksInv, ResetsInv, LinkOps
<1>2. HoldersInv'
  BY DEF LinksInv, HoldersInv, LinkOps
<1>3. UsesInv'
  BY DEF LinksInv, UsesInv, LinkOps
<1>4. TurnsInv'
  BY DEF LinksInv, ResetsInv, TurnsInv, LinkOps
<1>5. LastsInv'
  BY DEF LinksInv, LastsInv, LinkOps
<1> QED
  BY <1>1, <1>2, <1>3, <1>4, <1>5 DEF LinksInv

LEMMA LinksInit == Init => LinksInv
<1> SUFFICES ASSUME Init PROVE LinksInv
  OBVIOUS
<1>1. ResetsInv /\ HoldersInv /\ UsesInv /\ TurnsInv
  BY AccountConstants
  DEF Init, AccountsInit, ResetsInv, HoldersInv, UsesInv, TurnsInv, Idle, LinkOps
<1>2. LastsInv
  BY AccountConstants DEF Init, AccountsInit, LastsInv
<1> QED
  BY <1>1, <1>2 DEF LinksInv

LEMMA CreateUserKeepsLinks ==
  ASSUME LinksInv, NEW t \in Threads, NEW by \in Users, NEW u \in Users, CreateUser(t, by, u)
  PROVE  LinksInv'
<1> DEFINE row == [role |-> "USER", active |-> TRUE, reset |-> None, expires |-> 0]
<1>1. /\ u \notin DOMAIN users /\ thread[t].op = "idle"
      /\ users' = [y \in DOMAIN users \union {u} |-> IF y = u THEN row ELSE users[y]]
      /\ thread' = [thread EXCEPT ![t] = [op |-> "welcome", user |-> u]]
      /\ mailbox' = mailbox /\ spent' = spent /\ marks' = marks
  BY DEF CreateUser, Put, Goto, Starts, Idle, accountNotes
<1>2. /\ DOMAIN users' = DOMAIN users \union {u} /\ users'[u].reset = None
      /\ "reset" \in DOMAIN users'[u]
      /\ \A v \in DOMAIN users : users'[v] = users[v] /\ v # u
  BY <1>1
<1>3. /\ DOMAIN thread' = Threads
      /\ \A s \in Threads : thread[s].op \in LinkOps \/ thread'[s].op \in LinkOps =>
                               s # t /\ thread'[s] = thread[s]
  BY <1>1 DEF LinksInv, ResetsInv, LinkOps
<1>4. ResetsInv'
  BY <1>1, <1>2, <1>3 DEF LinksInv, ResetsInv, LinkOps
<1>5. HoldersInv'
  BY <1>1, <1>2, <1>3 DEF LinksInv, ResetsInv, HoldersInv, LinkOps
<1>6. UsesInv'
  BY <1>1, <1>2, <1>3 DEF LinksInv, ResetsInv, UsesInv, LinkOps
<1>7. TurnsInv'
  BY <1>1, <1>2, <1>3 DEF LinksInv, ResetsInv, TurnsInv, LinkOps
<1>8. LastsInv'
  BY <1>1, <1>2, <1>3 DEF LinksInv, LastsInv, ResetsInv, LinkOps
<1> QED
  BY <1>4, <1>5, <1>6, <1>7, <1>8 DEF LinksInv

\* A request on a user's link begins; a confirmation finds the link that is
\* stored, and marks it when another one is past the lookup.
LEMMA BegunLinkKeeps ==
  ASSUME LinksInv, NEW t \in Threads, NEW u \in DOMAIN users, thread[t].op = "idle",
         DOMAIN thread' = Threads, \A s \in Threads \ {t} : thread'[s] = thread[s],
         thread'[t].op \in {"reset", "confirm"}, thread'[t].user = u,
         thread'[t].op = "confirm" =>
           /\ thread'[t].link = users[u].reset /\ users[u].reset # None
           /\ \A s \in Threads :
                thread[s].op = "confirm" /\ thread[s].link = users[u].reset =>
                  <<users[u].reset, "raced">> \in marks',
         users' = users, mailbox' = mailbox, spent' = spent, marks \subseteq marks',
         \A k : <<k, "twice">> \in marks' => <<k, "twice">> \in marks
  PROVE  LinksInv'
<1>1. ResetsInv'
  BY DEF LinksInv, ResetsInv, LinkOps
<1>2. HoldersInv'
  <2>1. ASSUME NEW v \in DOMAIN users, thread'[t].op = "confirm",
               users[v].reset = thread'[t].link
        PROVE  v = u
    BY <2>1 DEF LinksInv, HoldersInv
  <2>2. ASSUME NEW s \in Threads, NEW v \in DOMAIN users, thread'[s].op = "confirm",
               users[v].reset = thread'[s].link
        PROVE  v = thread'[s].user
    <3>1. CASE s = t
      BY <3>1, <2>1, <2>2
    <3>2. CASE s # t
      <4>1. thread'[s] = thread[s]
        BY <3>2
      <4> QED
        BY <4>1, <2>2 DEF LinksInv, HoldersInv
    <3> QED
      BY <3>1, <3>2
  <2> QED
    BY <2>2 DEF LinksInv, HoldersInv
<1>3. UsesInv'
  BY DEF LinksInv, UsesInv
<1>4. TurnsInv'
  BY DEF LinksInv, TurnsInv
<1>5. LastsInv'
  <2>1. \A s \in Threads : thread[s].op = "link" => thread'[s] = thread[s]
    OBVIOUS
  <2> QED
    BY <2>1 DEF LinksInv, LastsInv
<1> QED
  BY <1>1, <1>2, <1>3, <1>4, <1>5 DEF LinksInv

LEMMA CommitResetKeepsLinks ==
  ASSUME LinksInv, NEW t \in Threads, NEW k \in Links, CommitReset(t, k)
  PROVE  LinksInv'
<1> DEFINE u == thread[t].user
           others == Resetting(u) \ {t}
           now_crossed == Carried(others) \union IF Carried(others) = {} THEN {} ELSE {k}
<1>1. /\ thread[t].op = "reset" /\ k \in FreshLinks
      /\ thread' = [thread EXCEPT ![t] = [op |-> "link", user |-> u, link |-> k]]
      /\ users' = [users EXCEPT ![u].reset = k, ![u].expires = thread[t].expires]
      /\ mailbox' = mailbox /\ spent' = spent
      /\ marks' = marks \union (now_crossed \X {"crossed"})
  BY DEF CommitReset, Goto, Mark
<1>2. /\ k # None /\ k \notin spent /\ \A v \in DOMAIN users : users[v].reset # k
      /\ \A s \in Threads : thread[s].op \in {"link", "confirm"} => thread[s].link # k
  BY <1>1, AccountConstants DEF FreshLinks, Carried
<1>3. u \in DOMAIN users /\ "reset" \in DOMAIN users[u]
  BY <1>1 DEF LinksInv, ResetsInv, LinkOps
<1>4. /\ DOMAIN users' = DOMAIN users /\ users'[u].reset = k /\ "reset" \in DOMAIN users'[u]
      /\ \A v \in DOMAIN users \ {u} : users'[v] = users[v]
  BY <1>1, <1>3
<1>5. /\ DOMAIN thread' = Threads /\ thread'[t].op = "link"
      /\ thread'[t].user = u /\ thread'[t].link = k
      /\ \A s \in Threads \ {t} : thread'[s] = thread[s]
  BY <1>1 DEF LinksInv, ResetsInv
<1>6. /\ marks \subseteq marks'
      /\ \A x, why : <<x, why>> \in marks' => <<x, why>> \in marks \/ why = "crossed"
  BY <1>1
<1>7. ASSUME NEW s \in Threads \ {t}, thread[s].op \in {"link", "confirm"}, thread[s].user = u
      PROVE  <<k, "crossed">> \in marks' /\ <<thread[s].link, "crossed">> \in marks'
  <2>1. thread[s].link \in Carried(others)
    BY <1>7 DEF Carried, Resetting
  <2>2. {k, thread[s].link} \subseteq now_crossed
    BY <2>1
  <2> QED
    BY <1>1, <2>2
<1> HIDE DEF u, others, now_crossed
<1>8. ResetsInv'
  BY <1>1, <1>2, <1>3, <1>4, <1>5 DEF LinksInv, ResetsInv, LinkOps
<1>9. HoldersInv'
  BY <1>2, <1>4, <1>5 DEF LinksInv, HoldersInv
<1>10. UsesInv'
  BY <1>1, <1>2, <1>4, <1>5, <1>6 DEF LinksInv, UsesInv
<1>11. TurnsInv'
  <2>1. ASSUME NEW s \in Threads, s # t, thread'[s].op \in {"link", "confirm"}
        PROVE  /\ thread'[s] = thread[s] /\ thread[s].user \in DOMAIN users
               /\ thread[s].user = u =>
                    <<k, "crossed">> \in marks' /\ <<thread[s].link, "crossed">> \in marks'
    BY <2>1, <1>5, <1>7 DEF LinksInv, ResetsInv, LinkOps
  <2>2. ASSUME NEW s \in Threads, s # t, thread'[s].op = "confirm"
        PROVE  \/ users'[thread'[s].user].reset \in {thread'[s].link, None}
               \/ <<users'[thread'[s].user].reset, "crossed">> \in marks'
    BY <2>1, <2>2, <1>4, <1>6 DEF LinksInv, TurnsInv
  <2>3. ASSUME NEW s \in Threads, s # t, thread'[s].op = "link"
        PROVE  \/ users'[thread'[s].user].reset = thread'[s].link
               \/ thread'[s].link \in spent'
               \/ <<thread'[s].link, "crossed">> \in marks'
    <3>1. \/ users[thread[s].user].reset = thread[s].link
          \/ thread[s].link \in spent
          \/ <<thread[s].link, "crossed">> \in marks
      BY <2>1, <2>3 DEF LinksInv, TurnsInv
    <3>2. CASE thread[s].user = u
      BY <3>2, <2>1, <2>3
    <3>3. CASE thread[s].user # u
      <4>1. thread'[s] = thread[s] /\ users'[thread[s].user] = users[thread[s].user]
        BY <3>3, <2>1, <2>3, <1>4
      <4>2. spent' = spent /\ marks \subseteq marks'
        BY <1>1, <1>6
      <4> QED
        BY <4>1, <4>2, <3>1
    <3> QED
      BY <3>2, <3>3
  <2>4. ASSUME NEW s \in Threads
        PROVE  /\ thread'[s].op = "confirm" =>
                    \/ users'[thread'[s].user].reset \in {thread'[s].link, None}
                    \/ <<users'[thread'[s].user].reset, "crossed">> \in marks'
               /\ thread'[s].op = "link" =>
                    \/ users'[thread'[s].user].reset = thread'[s].link
                    \/ thread'[s].link \in spent'
                    \/ <<thread'[s].link, "crossed">> \in marks'
    <3>1. CASE s = t
      BY <3>1, <1>4, <1>5
    <3>2. CASE s # t
      BY <3>2, <2>2, <2>3
    <3> QED
      BY <3>1, <3>2
  <2> QED
    BY <2>4, Zenon DEF TurnsInv
<1>12. LastsInv'
  <2>1. ASSUME NEW v \in DOMAIN users \ {u}, mailbox[v] \notin spent, mailbox[v] # None
        PROVE  \/ users'[v].reset = mailbox[v]
               \/ \E s \in Threads : thread'[s].op = "link" /\ thread'[s].user = v
               \/ <<mailbox[v], "crossed">> \in marks'
    BY <2>1, <1>1, <1>4, <1>5, <1>6 DEF LinksInv, LastsInv
  <2>2. \A h \in Links : <<h, "twice">> \in marks' => <<h, "raced">> \in marks'
    BY <1>6 DEF LinksInv, LastsInv
  <2> QED
    BY <2>1, <2>2, <1>1, <1>4, <1>5 DEF LastsInv
<1> QED
  BY <1>8, <1>9, <1>10, <1>11, <1>12 DEF LinksInv

LEMMA SendLinkKeepsLinks ==
  ASSUME LinksInv, NEW t \in Threads, NEW sent \in BOOLEAN, SendLink(t, sent)
  PROVE  LinksInv'
<1> DEFINE u == thread[t].user
           k == thread[t].link
<1>1. /\ thread[t].op = "link" /\ users' = users /\ spent' = spent
      /\ thread' = [thread EXCEPT ![t] = Idle]
      /\ sent => mailbox' = [mailbox EXCEPT ![u] = k] /\ marks' = marks \union ({} \X {"crossed"})
      /\ ~sent => mailbox' = mailbox /\ marks' = marks \union (({mailbox[u]} \ {None}) \X {"crossed"})
  BY DEF SendLink, Goto, Mark, accountRows
<1>2. /\ DOMAIN thread' = Threads /\ thread'[t].op = "idle"
      /\ \A s \in Threads \ {t} : thread'[s] = thread[s]
  BY <1>1 DEF LinksInv, ResetsInv, Idle
<1>3. /\ u \in DOMAIN users /\ u \in Users /\ DOMAIN mailbox = Users
      /\ users[u].reset = k \/ k \in spent \/ <<k, "crossed">> \in marks
  BY <1>1 DEF LinksInv, ResetsInv, TurnsInv, LinkOps
<1>4. /\ DOMAIN mailbox' = Users /\ marks \subseteq marks'
      /\ \A x, why : <<x, why>> \in marks' => <<x, why>> \in marks \/ why = "crossed"
      /\ \A v \in Users \ {u} : mailbox'[v] = mailbox[v]
      /\ \/ mailbox'[u] = k
         \/ mailbox'[u] = None
         \/ <<mailbox'[u], "crossed">> \in marks'
  <2>1. CASE sent
    BY <2>1, <1>1, <1>3
  <2>2. CASE ~sent
    BY <2>2, <1>1, <1>3
  <2> QED
    BY <2>1, <2>2
<1> HIDE DEF u, k
<1>5. ResetsInv'
  BY <1>1, <1>2, <1>3, <1>4 DEF LinksInv, ResetsInv, LinkOps
<1>6. HoldersInv'
  BY <1>1, <1>2 DEF LinksInv, HoldersInv
<1>7. UsesInv' /\ TurnsInv'
  BY <1>1, <1>2, <1>4 DEF LinksInv, UsesInv, TurnsInv
<1>8. LastsInv'
  <2>1. ASSUME NEW v \in DOMAIN users \ {u}, mailbox'[v] \notin spent, mailbox'[v] # None
        PROVE  \/ users[v].reset = mailbox'[v]
               \/ \E s \in Threads : thread'[s].op = "link" /\ thread'[s].user = v
               \/ <<mailbox'[v], "crossed">> \in marks'
    <3>1. mailbox'[v] = mailbox[v]
      BY <1>4 DEF LinksInv, ResetsInv
    <3> QED
      BY <3>1, <2>1, <1>2, <1>4 DEF LinksInv, LastsInv, u
  <2>2. mailbox'[u] \notin spent /\ mailbox'[u] # None =>
          users[u].reset = mailbox'[u] \/ <<mailbox'[u], "crossed">> \in marks'
    BY <1>3, <1>4
  <2>3. \A h \in Links : <<h, "twice">> \in marks' => <<h, "raced">> \in marks'
    BY <1>4 DEF LinksInv, LastsInv
  <2> QED
    BY <2>1, <2>2, <2>3, <1>1 DEF LastsInv
<1> QED
  BY <1>5, <1>6, <1>7, <1>8 DEF LinksInv

LEMMA CommitConfirmKeepsLinks ==
  ASSUME LinksInv, NEW t \in Threads, CommitConfirm(t)
  PROVE  LinksInv'
<1> DEFINE u == thread[t].user
           k == thread[t].link
<1>1. /\ thread[t].op = "confirm" /\ thread' = [thread EXCEPT ![t] = Idle]
      /\ users' = [users EXCEPT ![u].reset = None, ![u].expires = 0]
      /\ spent' = spent \union {k} /\ mailbox' = mailbox
      /\ marks' = marks \union (({k} \intersect spent) \X {"twice"})
  BY DEF CommitConfirm, Goto, Mark
<1>2. /\ DOMAIN thread' = Threads /\ thread'[t].op = "idle"
      /\ \A s \in Threads \ {t} : thread'[s] = thread[s]
  BY <1>1 DEF LinksInv, ResetsInv, Idle
<1>3. /\ u \in DOMAIN users /\ "reset" \in DOMAIN users[u] /\ k # None
      /\ users[u].reset \in {k, None} \/ <<users[u].reset, "crossed">> \in marks
      /\ \A v \in DOMAIN users \ {u} : users[v].reset # k
      /\ k \in spent => <<k, "raced">> \in marks
  BY <1>1 DEF LinksInv, ResetsInv, HoldersInv, UsesInv, TurnsInv, LinkOps
<1>4. /\ marks \subseteq marks'
      /\ \A x, why : <<x, why>> \in marks' =>
           <<x, why>> \in marks \/ (x = k /\ k \in spent /\ why = "twice")
  BY <1>1
<1>5. /\ DOMAIN users' = DOMAIN users /\ users'[u].reset = None /\ "reset" \in DOMAIN users'[u]
      /\ \A v \in DOMAIN users \ {u} : users'[v] = users[v]
  BY <1>1, <1>3
<1> HIDE DEF u, k
<1>6. ResetsInv'
  BY <1>1, <1>2, <1>3, <1>5 DEF LinksInv, ResetsInv, LinkOps
<1>7. HoldersInv'
  <2>1. \A s \in Threads : thread[s].op = "confirm" => thread[s].link # None
    BY DEF LinksInv, ResetsInv
  <2> QED
    BY <2>1, <1>2, <1>5 DEF LinksInv, HoldersInv
<1>8. UsesInv'
  <2>1. \A v \in DOMAIN users : users'[v].reset \notin spent'
    BY <1>1, <1>3, <1>5 DEF LinksInv, ResetsInv, UsesInv
  <2>2. ASSUME NEW s \in Threads, thread'[s].op = "confirm", thread'[s].link \in spent'
        PROVE  <<thread'[s].link, "raced">> \in marks'
    <3>1. s # t /\ thread'[s] = thread[s]
      BY <2>2, <1>2
    <3>2. CASE thread[s].link = k
      BY <3>1, <3>2, <2>2, <1>1, <1>4 DEF LinksInv, UsesInv, k
    <3>3. CASE thread[s].link # k
      BY <3>1, <3>3, <2>2, <1>1, <1>4 DEF LinksInv, UsesInv
    <3> QED
      BY <3>2, <3>3
  <2> QED
    BY <2>1, <2>2, <1>2, <1>4, <1>5 DEF LinksInv, UsesInv
<1>9. TurnsInv'
  <2>1. ASSUME NEW s \in Threads, thread'[s].op \in {"link", "confirm"}
        PROVE  /\ s # t /\ thread'[s] = thread[s] /\ thread[s].user \in DOMAIN users
               /\ thread[s].link # None
    BY <2>1, <1>2 DEF LinksInv, ResetsInv, LinkOps
  <2>2. ASSUME NEW s \in Threads, thread'[s].op = "confirm"
        PROVE  \/ users'[thread'[s].user].reset \in {thread'[s].link, None}
               \/ <<users'[thread'[s].user].reset, "crossed">> \in marks'
    BY <2>1, <2>2, <1>4, <1>5 DEF LinksInv, TurnsInv
  <2>3. ASSUME NEW s \in Threads, thread'[s].op = "link"
        PROVE  \/ users'[thread'[s].user].reset = thread'[s].link
               \/ thread'[s].link \in spent'
               \/ <<thread'[s].link, "crossed">> \in marks'
    <3>1. \/ users[thread[s].user].reset = thread[s].link
          \/ thread[s].link \in spent
          \/ <<thread[s].link, "crossed">> \in marks
      BY <2>1, <2>3 DEF LinksInv, TurnsInv
    <3> QED
      BY <3>1, <2>1, <2>3, <1>1, <1>3, <1>4, <1>5
  <2> QED
    BY <2>2, <2>3, Zenon DEF TurnsInv
<1>10. LastsInv'
  <2>1. ASSUME NEW v \in DOMAIN users \ {u}, mailbox[v] \notin spent', mailbox[v] # None
        PROVE  \/ users'[v].reset = mailbox[v]
               \/ \E s \in Threads : thread'[s].op = "link" /\ thread'[s].user = v
               \/ <<mailbox[v], "crossed">> \in marks'
    BY <2>1, <1>1, <1>2, <1>4, <1>5 DEF LinksInv, LastsInv
  <2>2. ASSUME mailbox[u] \notin spent', mailbox[u] # None
        PROVE  \/ \E s \in Threads : thread'[s].op = "link" /\ thread'[s].user = u
               \/ <<mailbox[u], "crossed">> \in marks'
    BY <2>2, <1>1, <1>2, <1>3, <1>4 DEF LinksInv, LastsInv
  <2>3. \A h \in Links : <<h, "twice">> \in marks' => <<h, "raced">> \in marks'
    BY <1>3, <1>4 DEF LinksInv, LastsInv
  <2> QED
    BY <2>1, <2>2, <2>3, <1>1, <1>5 DEF LastsInv
<1> QED
  BY <1>6, <1>7, <1>8, <1>9, <1>10 DEF LinksInv

LEMMA LoseAccountRequestKeepsLinks ==
  ASSUME LinksInv, NEW t \in Threads, LoseAccountRequest(t)
  PROVE  LinksInv'
<1> DEFINE u == thread[t].user
<1>1. /\ thread' = [thread EXCEPT ![t] = Idle] /\ thread[t].op # "idle"
      /\ users' = users /\ mailbox' = mailbox /\ spent' = spent
      /\ marks \subseteq marks'
      /\ \A k : <<k, "twice">> \in marks' => <<k, "twice">> \in marks
      /\ thread[t].op = "link" /\ mailbox[u] # None => <<mailbox[u], "crossed">> \in marks'
  BY DEF LoseAccountRequest, Goto, accountRows
<1>2. /\ DOMAIN thread' = Threads /\ thread'[t].op = "idle"
      /\ \A s \in Threads \ {t} : thread'[s] = thread[s]
  BY <1>1 DEF LinksInv, ResetsInv, Idle
<1> HIDE DEF u
<1>3. ResetsInv'
  BY <1>1, <1>2 DEF LinksInv, ResetsInv, LinkOps
<1>4. HoldersInv'
  BY <1>1, <1>2 DEF LinksInv, HoldersInv
<1>5. UsesInv' /\ TurnsInv'
  BY <1>1, <1>2 DEF LinksInv, UsesInv, TurnsInv
<1>6. LastsInv'
  BY <1>1, <1>2 DEF LinksInv, LastsInv, u
<1> QED
  BY <1>3, <1>4, <1>5, <1>6 DEF LinksInv

LEMMA CommitEditKeepsLinks ==
  ASSUME LinksInv, NEW t \in Threads, CommitEdit(t)
  PROVE  LinksInv'
<1> DEFINE u == thread[t].user
<1>1. /\ thread[t].op = "edit" /\ mailbox' = mailbox /\ spent' = spent /\ marks' = marks
      /\ users' = [users EXCEPT ![u] = Written(users[u], thread[t].loaded, thread[t].data)]
  BY DEF CommitEdit
<1>2. PICK role, active :
        Written(users[u], thread[t].loaded, thread[t].data) =
          [users[u] EXCEPT !.role = role, !.active = active]
  BY Zenon DEF Written
<1>3. PICK row : row = [users[u] EXCEPT !.role = role, !.active = active]
                 /\ users' = [users EXCEPT ![u] = row]
  BY <1>1, <1>2
<1>4. DOMAIN row = DOMAIN users[u] /\ ("reset" \in DOMAIN users[u] => row.reset = users[u].reset)
  BY <1>3
<1>5. /\ DOMAIN users' = DOMAIN users
      /\ \A v \in DOMAIN users :
           "reset" \in DOMAIN users'[v] /\ users'[v].reset = users[v].reset
  BY <1>3, <1>4 DEF LinksInv, ResetsInv
<1>6. PICK a : thread' = [thread EXCEPT ![t] =
        IF a = None THEN Idle ELSE [op |-> "log", action |-> a, user |-> u]]
  BY DEF CommitEdit, Goto
<1>7. /\ DOMAIN thread' = Threads
      /\ \A s \in Threads : thread[s].op \in LinkOps \/ thread'[s].op \in LinkOps =>
                               thread'[s] = thread[s]
  BY <1>1, <1>6 DEF LinksInv, ResetsInv, LinkOps, Idle
<1> QED
  BY <1>1, <1>5, <1>7, LinksUntouched

LEMMA LinksStep == LinksInv /\ [Next]_vars => LinksInv'
<1> SUFFICES ASSUME LinksInv, [Next]_vars PROVE LinksInv'
  OBVIOUS
<1>1. DOMAIN thread = Threads /\ \A u \in DOMAIN users : "reset" \in DOMAIN users[u]
  BY DEF LinksInv, ResetsInv
<1>2. ASSUME NEW t \in Threads, NEW by \in Users, NEW u \in Users, NEW data \in Patches,
             ReadUser(t, by, u, data)
      PROVE  LinksInv'
  <2>1. /\ thread[t].op = "idle"
        /\ thread' = [thread EXCEPT ![t] = [op |-> "edit", user |-> u, data |-> data,
                        loaded |-> [role |-> users[u].role, active |-> users[u].active]]]
        /\ users' = users /\ mailbox' = mailbox /\ spent' = spent /\ marks' = marks
    BY <1>2 DEF ReadUser, Starts, Goto, Idle, accountRows, accountNotes
  <2>2. /\ DOMAIN thread' = Threads
        /\ \A s \in Threads : thread[s].op \in LinkOps \/ thread'[s].op \in LinkOps =>
                                thread'[s] = thread[s]
    BY <2>1, <1>1 DEF LinkOps
  <2> QED
    BY <2>1, <2>2, <1>1, LinksUntouched
<1>3. ASSUME NEW t \in Threads, NEW sent \in BOOLEAN, Welcome(t, sent)
      PROVE  LinksInv'
  <2>1. /\ thread[t].op = "welcome" /\ marks \subseteq marks'
        /\ \A k : <<k, "twice">> \in marks' => <<k, "twice">> \in marks
        /\ \/ thread' = [thread EXCEPT ![t] = Idle]
           \/ thread' = [thread EXCEPT ![t] =
                          [op |-> "log", action |-> "USER_CREATED", user |-> thread[t].user]]
        /\ users' = users /\ mailbox' = mailbox /\ spent' = spent
    BY <1>3 DEF Welcome, Goto, Mark, accountRows
  <2>2. /\ DOMAIN thread' = Threads
        /\ \A s \in Threads : thread[s].op \in LinkOps \/ thread'[s].op \in LinkOps =>
                                thread'[s] = thread[s]
    BY <2>1, <1>1 DEF LinkOps, Idle
  <2> QED
    BY <2>1, <2>2, <1>1, LinksUntouched
<1>4. ASSUME NEW t \in Threads, WriteLog(t)
      PROVE  LinksInv'
  <2>1. /\ thread[t].op = "log" /\ thread' = [thread EXCEPT ![t] = Idle]
        /\ users' = users /\ mailbox' = mailbox /\ spent' = spent /\ marks' = marks
    BY <1>4 DEF WriteLog, Goto, accountNotes
  <2>2. /\ DOMAIN thread' = Threads
        /\ \A s \in Threads : thread[s].op \in LinkOps \/ thread'[s].op \in LinkOps =>
                                thread'[s] = thread[s]
    BY <2>1, <1>1 DEF LinkOps, Idle
  <2> QED
    BY <2>1, <2>2, <1>1, LinksUntouched
<1>5. ASSUME NEW t \in Threads, NEW u \in Users, ReadReset(t, u)
      PROVE  LinksInv'
  <2>1. thread' = [thread EXCEPT ![t] = [op |-> "reset", user |-> u, expires |-> now + ResetMinutes]]
    BY <1>5 DEF ReadReset, Goto
  <2>2. /\ thread[t].op = "idle" /\ u \in DOMAIN users
        /\ users' = users /\ mailbox' = mailbox /\ spent' = spent
        /\ marks' = marks
    BY <1>5 DEF ReadReset, Starts, Idle, accountRows, accountNotes
  <2>3. /\ DOMAIN thread' = Threads /\ \A s \in Threads \ {t} : thread'[s] = thread[s]
        /\ thread'[t].op \in {"reset", "confirm"} /\ thread'[t].user = u
        /\ thread'[t].op # "confirm"
    BY <2>1, <1>1
  <2> QED
    BY <2>2, <2>3, BegunLinkKeeps
<1>6. ASSUME NEW t \in Threads, NEW u \in Users, ReadConfirm(t, u)
      PROVE  LinksInv'
  <2>1. thread' = [thread EXCEPT ![t] = [op |-> "confirm", user |-> u, link |-> users[u].reset]]
    BY <1>6 DEF ReadConfirm, Goto
  <2>2. /\ thread[t].op = "idle" /\ u \in DOMAIN users /\ users[u].reset # None
        /\ users' = users /\ mailbox' = mailbox /\ spent' = spent
        /\ marks' = marks \union (({users[u].reset} \intersect Carried(Confirming)) \X {"raced"})
    BY <1>6 DEF ReadConfirm, Starts, Idle, Mark, accountRows
  <2>3. /\ DOMAIN thread' = Threads /\ \A s \in Threads \ {t} : thread'[s] = thread[s]
        /\ thread'[t].op = "confirm" /\ thread'[t].user = u
        /\ thread'[t].link = users[u].reset
    BY <2>1, <2>2, <1>1
  <2>4. /\ marks \subseteq marks'
        /\ \A k : <<k, "twice">> \in marks' => <<k, "twice">> \in marks
    BY <2>2
  <2>5. ASSUME NEW s \in Threads, thread[s].op = "confirm", thread[s].link = users[u].reset
        PROVE  <<users[u].reset, "raced">> \in marks'
    <3>1. users[u].reset \in Carried(Confirming)
      BY <2>5 DEF Carried, Confirming
    <3> QED
      BY <2>2, <3>1
  <2> QED
    BY <2>2, <2>3, <2>4, <2>5, BegunLinkKeeps
<1>7. CASE \E t \in Threads : AccountStep(t)
  BY <1>7, <1>2, <1>3, <1>4, <1>5, <1>6, CreateUserKeepsLinks, CommitResetKeepsLinks,
     SendLinkKeepsLinks, CommitConfirmKeepsLinks, LoseAccountRequestKeepsLinks,
     CommitEditKeepsLinks
  DEF AccountStep, UserRequest
<1>8. CASE \E t \in Threads : LeadStep(t)
  BY <1>8, <1>1, LeadStepsLeaveLinks, LinksUntouched
<1>9. CASE \/ \E u \in Users, enabled \in BOOLEAN : SetPreference(u, enabled)
           \/ Tick
           \/ UNCHANGED vars
  <2>1. users' = users /\ mailbox' = mailbox /\ spent' = spent /\ marks' = marks
        /\ thread' = thread
    BY <1>9 DEF SetPreference, Tick, vars, accountRows, accountNotes
  <2> QED
    BY <2>1, <1>1, LinksUntouched
<1> QED
  BY <1>7, <1>8, <1>9 DEF Next

\* For any number of users, links and overlapping requests, a reset link
\* changes a password a second time only when its confirmations raced, and the
\* last one mailed works until it is used, with the stated exceptions
\* (auth/service.py request_reset, confirm_reset).
THEOREM ResetLinksLast == Spec => []LinksLastUntilUsed
<1>1. LinksInv => LinksLastUntilUsed
  BY DEF LinksInv, LastsInv, LinksLastUntilUsed, Resetting, Excused
<1> QED
  BY <1>1, LinksInit, LinksStep, PTL DEF Spec

-----------------------------------------------------------------------------
(* What rows, requests and counts are                                      *)

\* A step of a request that users and leads with these ids allow.
RequestShape(r, us, ls) ==
  /\ r.op \in {"idle", "welcome", "edit", "log"} \union LinkOps \union LeadOps
  /\ r.op \in {"welcome", "edit", "log"} \union LinkOps => r.user \in us
  /\ r.op = "edit" =>
       r.loaded.role \in Roles /\ r.loaded.active \in BOOLEAN /\ r.data \in Patches
  /\ r.op = "log" => r.action \in Actions
  /\ r.op = "reset" => r.expires \in 0 .. MaxNow + ResetMinutes
  /\ r.op \in {"link", "confirm"} => r.link \in Links
  /\ r.op = "submit" => r.email \in Emails /\ r.at \in 0 .. MaxNow
  /\ r.op \in {"assign", "tell"} => r.lead \in ls
  /\ r.op = "assign" => r.to \in us \union {None}

ShapesInv ==
  /\ DOMAIN thread = Threads
  /\ \A t \in Threads : RequestShape(thread[t], DOMAIN users, DOMAIN leads)

AccountRowsInv ==
  /\ DOMAIN users \subseteq Users /\ \A u \in DOMAIN users : users[u] \in UserRow
  /\ now \in 0 .. MaxNow
  /\ mailbox \in [Users -> Links \union {None}] /\ spent \subseteq Links
  /\ marks \subseteq Marks

LeadRowsInv ==
  /\ DOMAIN leads \subseteq LeadIds /\ \A l \in DOMAIN leads : leads[l] \in LeadRow
  /\ optOut \subseteq DOMAIN users /\ DOMAIN users \subseteq Users
  /\ told \in [LeadIds -> SUBSET Users]
  /\ silent \in [LeadIds -> SUBSET (Users \union {None})]
  /\ repeated \subseteq Emails

\* What a request may still count is covered by its own start: it writes one
\* audit row at the end, and deactivates at most one user before.
BusyIn(th) == {t \in Threads : th[t].op # "idle"}

Busy == BusyIn(thread)

Editing == {t \in Threads : thread[t].op = "edit"}

CountsInv ==
  /\ requests \in 0 .. MaxRequests /\ IsFiniteSet(Busy)
  /\ audit \in [Actions \X Users -> Nat]
  /\ falls \in [Users -> Nat]
  /\ \A x \in Actions \X Users : audit[x] + Cardinality(Busy) <= requests
  /\ \A u \in Users : falls[u] + Cardinality(Editing) <= requests

\* Requests about to write an audit row, and those about to mail a password.
LoggingIn(th, a, u) == {t \in Threads : th[t].op = "log" /\ th[t].action = a /\ th[t].user = u}

Logging(a, u) == LoggingIn(thread, a, u)

WelcomingIn(th, u) == {t \in Threads : th[t].op = "welcome" /\ th[t].user = u}

Welcoming(u) == WelcomingIn(thread, u)

Deactivated(u) ==
  falls[u] <= audit[<<"USER_DEACTIVATED", u>>] + Cardinality(Logging("USER_DEACTIVATED", u))

Created(u) ==
  audit[<<"USER_CREATED", u>>] + Cardinality(Logging("USER_CREATED", u))
    + Cardinality(Welcoming(u)) = IF u \in DOMAIN users THEN 1 ELSE 0

\* The creation of a user is told once: by the request that still mails the
\* password, by the one that still writes the row, or by the row.
AuditInv ==
  /\ Founders \subseteq DOMAIN users
  /\ \A u \in Users : Excused(u, "unaudited") \/ Deactivated(u)
  /\ \A u \in Users \ Founders : Excused(u, "unaudited") \/ Created(u)

OfficeInv == ShapesInv /\ AccountRowsInv /\ LeadRowsInv /\ CountsInv /\ AuditInv

\* One request turns to something else: what it leaves and what it joins.
LEMMA OneMoved ==
  ASSUME NEW A, NEW B, NEW t, IsFiniteSet(A), A \ {t} = B \ {t}
  PROVE  /\ IsFiniteSet(B) /\ Cardinality(A) \in Nat /\ Cardinality(B) \in Nat
         /\ (t \in A <=> t \in B) => Cardinality(B) = Cardinality(A)
         /\ t \notin A => Cardinality(B) <= Cardinality(A) + 1
         /\ t \notin A /\ t \in B => Cardinality(B) = Cardinality(A) + 1
         /\ t \in A /\ t \notin B => Cardinality(B) + 1 = Cardinality(A)
         /\ t \notin B => Cardinality(B) <= Cardinality(A)
<1> DEFINE C == A \ {t}
<1>1. IsFiniteSet(C) /\ Cardinality(C) \in Nat /\ Cardinality(A) \in Nat
  BY FS_Subset, FS_CardinalityType
<1>2. IsFiniteSet(C \union {t}) /\ Cardinality(C \union {t}) = Cardinality(C) + 1
  BY <1>1, FS_AddElement
<1>3. \/ t \in A /\ A = C \union {t}
      \/ t \notin A /\ A = C
  OBVIOUS
<1>4. \/ t \in B /\ B = C \union {t}
      \/ t \notin B /\ B = C
  OBVIOUS
<1>5. IsFiniteSet(B)
  BY <1>1, <1>2, <1>4
<1> HIDE DEF C
<1>6. /\ Cardinality(A) = IF t \in A THEN Cardinality(C) + 1 ELSE Cardinality(C)
      /\ Cardinality(B) = IF t \in B THEN Cardinality(C) + 1 ELSE Cardinality(C)
  BY <1>2, <1>3, <1>4
<1> QED
  BY <1>1, <1>5, <1>6

LEMMA ShapeGrows ==
  ASSUME NEW r, NEW us, NEW ls, NEW us2, NEW ls2, RequestShape(r, us, ls),
         us \subseteq us2, ls \subseteq ls2
  PROVE  RequestShape(r, us2, ls2)
BY DEF RequestShape

LEMMA IdleShape == Idle.op = "idle" /\ \A us, ls : RequestShape(Idle, us, ls)
BY DEF Idle, RequestShape, LinkOps, LeadOps

LEMMA ShapesMoved ==
  ASSUME ShapesInv, NEW t \in Threads, NEW r, thread' = [thread EXCEPT ![t] = r],
         DOMAIN users \subseteq DOMAIN users', DOMAIN leads \subseteq DOMAIN leads',
         RequestShape(r, DOMAIN users', DOMAIN leads')
  PROVE  ShapesInv'
<1>1. DOMAIN thread' = Threads /\ \A s \in Threads : thread'[s] = IF s = t THEN r ELSE thread[s]
  BY DEF ShapesInv
<1>2. ASSUME NEW s \in Threads PROVE RequestShape(thread'[s], DOMAIN users', DOMAIN leads')
  <2>1. RequestShape(thread[s], DOMAIN users', DOMAIN leads')
    BY ShapeGrows DEF ShapesInv
  <2> QED
    BY <1>1, <2>1
<1> QED
  BY <1>1, <1>2 DEF ShapesInv

\* A request that starts is one more, and one that goes on is not.
Proceeds(t, r) ==
  \/ thread[t].op = "idle" /\ requests < MaxRequests /\ requests' = requests + 1
  \/ thread[t].op # "idle" /\ r.op # "edit" /\ requests' = requests

LEMMA SetsMoved ==
  ASSUME ShapesInv, CountsInv, NEW t \in Threads, NEW r, thread' = [thread EXCEPT ![t] = r]
  PROVE  /\ IsFiniteSet(Busy) /\ IsFiniteSet(Editing)
         /\ Busy \ {t} = Busy' \ {t} /\ Editing \ {t} = Editing' \ {t}
         /\ t \in Busy <=> thread[t].op # "idle"
         /\ t \in Editing <=> thread[t].op = "edit"
         /\ t \in Busy' <=> r.op # "idle"
         /\ t \in Editing' <=> r.op = "edit"
<1>1. \A s \in Threads : thread'[s] = IF s = t THEN r ELSE thread[s]
  BY DEF ShapesInv
<1>2. IsFiniteSet(Busy) /\ Editing \subseteq Busy
  BY DEF CountsInv, Busy, BusyIn, Editing
<1>3. IsFiniteSet(Editing)
  BY <1>2, FS_Subset
<1> QED
  BY <1>1, <1>2, <1>3 DEF Busy, BusyIn, Editing

LEMMA CountsMoved ==
  ASSUME ShapesInv, CountsInv, NEW t \in Threads, NEW r, thread' = [thread EXCEPT ![t] = r],
         Proceeds(t, r), UNCHANGED <<audit, falls>>
  PROVE  CountsInv'
<1>1. /\ IsFiniteSet(Busy) /\ IsFiniteSet(Editing)
      /\ Busy \ {t} = Busy' \ {t} /\ Editing \ {t} = Editing' \ {t}
      /\ t \in Busy <=> thread[t].op # "idle"
      /\ t \in Editing <=> thread[t].op = "edit"
      /\ t \in Busy' <=> r.op # "idle"
      /\ t \in Editing' <=> r.op = "edit"
  BY SetsMoved
<1>2. /\ IsFiniteSet(Busy') /\ Cardinality(Busy) \in Nat /\ Cardinality(Busy') \in Nat
      /\ Cardinality(Editing) \in Nat /\ Cardinality(Editing') \in Nat
  BY <1>1, OneMoved
<1>3. requests \in Nat /\ requests <= MaxRequests /\ MaxRequests \in Nat
  BY AccountConstants DEF CountsInv
<1>4. requests' \in 0 .. MaxRequests
  BY <1>3 DEF Proceeds
<1>5. /\ Cardinality(Busy') + requests <= Cardinality(Busy) + requests'
      /\ Cardinality(Editing') + requests <= Cardinality(Editing) + requests'
  <2>1. CASE thread[t].op = "idle" /\ requests' = requests + 1
    <3>1. t \notin Busy /\ t \notin Editing
      BY <1>1, <2>1
    <3>2. Cardinality(Busy') <= Cardinality(Busy) + 1
      BY <1>1, <3>1, OneMoved
    <3>3. Cardinality(Editing') <= Cardinality(Editing) + 1
      BY <1>1, <3>1, OneMoved
    <3> QED
      BY <1>2, <1>3, <2>1, <3>2, <3>3
  <2>2. CASE thread[t].op # "idle" /\ r.op # "edit" /\ requests' = requests
    <3>1. t \in Busy /\ t \notin Editing'
      BY <1>1, <2>2
    <3>2. Cardinality(Busy') <= Cardinality(Busy)
      BY <1>1, <1>2, <3>1, OneMoved
    <3>3. Cardinality(Editing') <= Cardinality(Editing)
      BY <1>1, <3>1, OneMoved
    <3> QED
      BY <1>2, <1>3, <2>2, <3>2, <3>3
  <2> QED
    BY <2>1, <2>2 DEF Proceeds
<1>6. ASSUME NEW x \in Actions \X Users PROVE audit'[x] + Cardinality(Busy') <= requests'
  <2>1. audit'[x] = audit[x] /\ audit[x] \in Nat /\ audit[x] + Cardinality(Busy) <= requests
    BY DEF CountsInv
  <2> QED
    BY <1>2, <1>3, <1>4, <1>5, <2>1
<1>7. ASSUME NEW u \in Users PROVE falls'[u] + Cardinality(Editing') <= requests'
  <2>1. falls'[u] = falls[u] /\ falls[u] \in Nat /\ falls[u] + Cardinality(Editing) <= requests
    BY DEF CountsInv
  <2> QED
    BY <1>2, <1>3, <1>4, <1>5, <2>1
<1> QED
  BY <1>2, <1>4, <1>6, <1>7 DEF CountsInv

\* A step that neither mails a password nor writes an audit row, and takes no
\* request away from doing so.
LEMMA AuditMoved ==
  ASSUME ShapesInv, CountsInv, AuditInv, NEW t \in Threads, NEW r,
         thread' = [thread EXCEPT ![t] = r],
         thread[t].op \notin {"welcome", "log"}, r.op \notin {"welcome", "log"},
         UNCHANGED <<audit, falls>>, marks \subseteq marks', DOMAIN users' = DOMAIN users
  PROVE  AuditInv'
<1>1. ASSUME NEW a, NEW u PROVE Logging(a, u)' = Logging(a, u) /\ Welcoming(u)' = Welcoming(u)
  <2>1. LoggingIn(thread', a, u) = LoggingIn(thread, a, u)
    BY DEF LoggingIn, ShapesInv
  <2>2. WelcomingIn(thread', u) = WelcomingIn(thread, u)
    BY DEF WelcomingIn, ShapesInv
  <2> QED
    BY <2>1, <2>2 DEF Logging, Welcoming
<1>2. ASSUME NEW u PROVE Excused(u, "unaudited") => Excused(u, "unaudited")'
  BY DEF Excused
<1>3. ASSUME NEW u PROVE Deactivated(u)' <=> Deactivated(u)
  BY <1>1 DEF Deactivated
<1>4. ASSUME NEW u PROVE Created(u)' <=> Created(u)
  BY <1>1 DEF Created
<1> QED
  BY <1>2, <1>3, <1>4 DEF AuditInv

LEMMA PlainMove ==
  ASSUME OfficeInv, NEW t \in Threads, NEW r, thread' = [thread EXCEPT ![t] = r],
         thread[t].op \notin {"welcome", "log"}, r.op \notin {"welcome", "log"},
         RequestShape(r, DOMAIN users, DOMAIN leads'), DOMAIN leads \subseteq DOMAIN leads',
         DOMAIN users' = DOMAIN users, UNCHANGED <<audit, falls>>, marks \subseteq marks',
         Proceeds(t, r)
  PROVE  ShapesInv' /\ CountsInv' /\ AuditInv'
BY ShapesMoved, CountsMoved, AuditMoved DEF OfficeInv

\* A step that moves no request.
LEMMA NoMove ==
  ASSUME OfficeInv, UNCHANGED <<thread, users, leads, audit, falls, marks>>,
         requests' = requests \/ (requests < MaxRequests /\ requests' = requests + 1)
  PROVE  ShapesInv' /\ CountsInv' /\ AuditInv'
<1>1. ShapesInv'
  BY DEF OfficeInv, ShapesInv
<1>2. Busy' = Busy /\ Editing' = Editing
  BY DEF Busy, BusyIn, Editing
<1>3. IsFiniteSet(Busy) /\ IsFiniteSet(Editing)
  <2>1. IsFiniteSet(Busy) /\ Editing \subseteq Busy
    BY DEF OfficeInv, CountsInv, Busy, BusyIn, Editing
  <2> QED
    BY <2>1, FS_Subset
<1>4. Cardinality(Busy) \in Nat /\ Cardinality(Editing) \in Nat
  BY <1>3, FS_CardinalityType
<1>5. CountsInv'
  <2>1. requests' \in 0 .. MaxRequests /\ requests' >= requests /\ requests \in Nat
    BY AccountConstants DEF OfficeInv, CountsInv
  <2>2. \A x \in Actions \X Users : audit'[x] + Cardinality(Busy') <= requests'
    BY <1>2, <1>4, <2>1 DEF OfficeInv, CountsInv
  <2>3. \A u \in Users : falls'[u] + Cardinality(Editing') <= requests'
    BY <1>2, <1>4, <2>1 DEF OfficeInv, CountsInv
  <2> QED
    BY <1>2, <2>1, <2>2, <2>3 DEF OfficeInv, CountsInv
<1>6. \A a, u : Logging(a, u)' = Logging(a, u) /\ Welcoming(u)' = Welcoming(u)
  BY DEF Logging, LoggingIn, Welcoming, WelcomingIn
<1>7. AuditInv'
  BY <1>6 DEF OfficeInv, AuditInv, Deactivated, Created, Excused
<1> QED
  BY <1>1, <1>5, <1>7

-----------------------------------------------------------------------------
(* Requests on leads *)

LEMMA LeadStepsKeepOffice ==
  ASSUME OfficeInv, NEW t \in Threads, LeadStep(t) PROVE OfficeInv'
<1>1. /\ UNCHANGED <<users, audit, now, mailbox, spent, falls, marks>>
  BY DEF LeadStep, ReadLeads, CommitLead, ReadLead, CommitAssign, Tell, LoseLeadRequest,
         accountRows, accountNotes
<1>2. AccountRowsInv'
  BY <1>1 DEF OfficeInv, AccountRowsInv
<1>3. ASSUME NEW r, thread' = [thread EXCEPT ![t] = r],
             thread[t].op \in LeadOps \union {"idle"}, r.op \in LeadOps \union {"idle"},
             RequestShape(r, DOMAIN users, DOMAIN leads'), DOMAIN leads \subseteq DOMAIN leads',
             Proceeds(t, r), LeadRowsInv'
      PROVE  OfficeInv'
  <2>1. thread[t].op \notin {"welcome", "log"} /\ r.op \notin {"welcome", "log"}
    BY <1>3 DEF LeadOps
  <2>2. ShapesInv' /\ CountsInv' /\ AuditInv'
    BY <1>1, <1>3, <2>1, PlainMove
  <2> QED
    BY <1>2, <1>3, <2>2 DEF OfficeInv
<1>4. RequestShape(thread[t], DOMAIN users, DOMAIN leads) /\ now \in 0 .. MaxNow
  BY DEF OfficeInv, ShapesInv, AccountRowsInv
<1>5. ASSUME NEW email \in Emails, ReadLeads(t, email) PROVE OfficeInv'
  <2> DEFINE r == [op |-> "submit", email |-> email, at |-> now]
  <2>1. /\ thread' = [thread EXCEPT ![t] = r] /\ thread[t].op = "idle"
        /\ requests < MaxRequests /\ requests' = requests + 1
        /\ UNCHANGED <<leads, optOut, told, silent>>
        /\ repeated' \subseteq repeated \union {email}
    BY <1>5, IdleShape DEF ReadLeads, Starts, Counts, Goto, leadRows
  <2>2. RequestShape(r, DOMAIN users, DOMAIN leads') /\ r.op = "submit"
    BY <1>4 DEF RequestShape, LinkOps, LeadOps
  <2>3. LeadRowsInv'
    BY <1>1, <2>1 DEF OfficeInv, LeadRowsInv
  <2> QED
    BY <1>3, <2>1, <2>2, <2>3 DEF Proceeds, LeadOps
<1>6. ASSUME NEW l \in LeadIds, CommitLead(t, l) PROVE OfficeInv'
  <2> DEFINE row == [email |-> thread[t].email, at |-> thread[t].at, assignee |-> None]
  <2>1. /\ thread' = [thread EXCEPT ![t] = Idle] /\ thread[t].op = "submit"
        /\ requests' = requests /\ UNCHANGED <<optOut, told, silent, repeated>>
        /\ leads' = Put(leads, l, row)
    BY <1>6 DEF CommitLead, Goto, leadNotes
  <2>2. row \in LeadRow
    BY <1>4, <2>1 DEF RequestShape, LeadRow
  <2>3. /\ DOMAIN leads' = DOMAIN leads \union {l}
        /\ \A m \in DOMAIN leads' : leads'[m] \in LeadRow
    BY <2>1, <2>2 DEF Put, OfficeInv, LeadRowsInv
  <2>4. LeadRowsInv'
    BY <1>1, <2>1, <2>3 DEF OfficeInv, LeadRowsInv
  <2> QED
    BY <1>3, <2>1, <2>3, <2>4, IdleShape DEF Proceeds, LeadOps
<1>7. ASSUME NEW by \in Users, NEW l \in LeadIds, NEW u \in Users \union {None}, ReadLead(t, by, l, u)
      PROVE  OfficeInv'
  <2> DEFINE r == [op |-> "assign", lead |-> l, loaded |-> leads[l].assignee, to |-> u, by |-> by]
  <2>1. /\ thread' = [thread EXCEPT ![t] = r] /\ thread[t].op = "idle"
        /\ requests < MaxRequests /\ requests' = requests + 1
        /\ UNCHANGED <<leads, optOut, told, silent, repeated>>
        /\ l \in DOMAIN leads /\ u \in DOMAIN users \union {None}
    BY <1>7, IdleShape DEF ReadLead, Starts, Counts, Goto, leadVars, leadRows, leadNotes
  <2>2. RequestShape(r, DOMAIN users, DOMAIN leads') /\ r.op = "assign"
    BY <2>1 DEF RequestShape, LinkOps, LeadOps
  <2>3. LeadRowsInv'
    BY <1>1, <2>1 DEF OfficeInv, LeadRowsInv
  <2> QED
    BY <1>3, <2>1, <2>2, <2>3 DEF Proceeds, LeadOps
<1>8. CASE CommitAssign(t)
  <2> DEFINE r == thread[t]
             next == IF MustNotify(r) THEN [op |-> "tell", lead |-> r.lead] ELSE Idle
  <2>1. /\ thread' = [thread EXCEPT ![t] = next] /\ r.op = "assign"
        /\ requests' = requests /\ UNCHANGED <<optOut, repeated>>
        /\ \/ UNCHANGED <<leads, told, silent>>
           \/ /\ leads' = [leads EXCEPT ![r.lead].assignee = r.to]
              /\ told' = [told EXCEPT ![r.lead] = {}]
              /\ silent' = [silent EXCEPT ![r.lead] = {r.to} \intersect {r.by}]
    BY <1>8 DEF CommitAssign, Goto
  <2>2. r.lead \in DOMAIN leads /\ r.to \in Users \union {None}
    BY <1>4, <2>1 DEF RequestShape, OfficeInv, LeadRowsInv
  <2>3. next.op \in {"tell", "idle"} /\ RequestShape(next, DOMAIN users, DOMAIN leads)
    BY <2>2, IdleShape DEF RequestShape, LinkOps, LeadOps
  <2>4. DOMAIN leads' = DOMAIN leads /\ \A m \in DOMAIN leads' : leads'[m] \in LeadRow
    BY <2>1, <2>2 DEF OfficeInv, LeadRowsInv, LeadRow
  <2>5. told' \in [LeadIds -> SUBSET Users] /\ silent' \in [LeadIds -> SUBSET (Users \union {None})]
    BY <2>1, <2>2 DEF OfficeInv, LeadRowsInv
  <2>6. LeadRowsInv'
    BY <1>1, <2>1, <2>4, <2>5 DEF OfficeInv, LeadRowsInv
  <2> HIDE DEF next
  <2> QED
    BY <1>3, <2>1, <2>3, <2>4, <2>6 DEF Proceeds, LeadOps
<1>9. ASSUME thread' = [thread EXCEPT ![t] = Idle], thread[t].op \in LeadOps,
             requests' = requests, UNCHANGED <<leads, optOut, repeated>>,
             told' \in [LeadIds -> SUBSET Users],
             silent' \in [LeadIds -> SUBSET (Users \union {None})]
      PROVE  OfficeInv'
  <2>1. LeadRowsInv'
    BY <1>1, <1>9 DEF OfficeInv, LeadRowsInv
  <2> QED
    BY <1>3, <1>4, <1>9, <2>1, IdleShape DEF Proceeds, LeadOps
<1>10. ASSUME NEW sent \in BOOLEAN, Tell(t, sent) PROVE OfficeInv'
  <2> DEFINE l == thread[t].lead
             u == leads[l].assignee
  <2>1. /\ thread' = [thread EXCEPT ![t] = Idle] /\ thread[t].op = "tell"
        /\ requests' = requests /\ UNCHANGED <<leads, optOut, repeated>>
        /\ sent => u # None
        /\ told' = IF sent THEN [told EXCEPT ![l] = @ \union {u}] ELSE told
        /\ silent' = IF sent THEN silent ELSE [silent EXCEPT ![l] = @ \union {u}]
    BY <1>10 DEF Tell, Goto, leadRows
  <2>2. u \in Users \union {None}
    BY <1>4, <2>1 DEF RequestShape, OfficeInv, LeadRowsInv, LeadRow
  <2> HIDE DEF l, u
  <2>3. told' \in [LeadIds -> SUBSET Users] /\ silent' \in [LeadIds -> SUBSET (Users \union {None})]
    BY <2>1, <2>2 DEF OfficeInv, LeadRowsInv
  <2> QED
    BY <1>9, <2>1, <2>3 DEF LeadOps
<1>11. CASE LoseLeadRequest(t)
  <2>1. /\ thread' = [thread EXCEPT ![t] = Idle] /\ thread[t].op \in LeadOps
        /\ requests' = requests /\ UNCHANGED <<leads, optOut, repeated, told>>
        /\ \/ silent' = silent
           \/ /\ thread[t].op = "tell"
              /\ silent' = [silent EXCEPT ![thread[t].lead] =
                              @ \union {leads[thread[t].lead].assignee}]
    BY <1>11 DEF LoseLeadRequest, Goto, leadRows, LeadOps
  <2>2. thread[t].op = "tell" => leads[thread[t].lead].assignee \in Users \union {None}
    BY <1>4, <2>1 DEF RequestShape, OfficeInv, LeadRowsInv, LeadRow
  <2>3. told' \in [LeadIds -> SUBSET Users] /\ silent' \in [LeadIds -> SUBSET (Users \union {None})]
    BY <2>1, <2>2 DEF OfficeInv, LeadRowsInv
  <2> QED
    BY <1>9, <2>1, <2>3
<1> QED
  BY <1>5, <1>6, <1>7, <1>8, <1>10, <1>11 DEF LeadStep

-----------------------------------------------------------------------------
(* Requests on users and resets *)

LEMMA LeadRowsStay ==
  ASSUME OfficeInv, UNCHANGED leadVars, DOMAIN users \subseteq DOMAIN users', DOMAIN users' \subseteq Users
  PROVE  LeadRowsInv' /\ leads' = leads
<1>1. UNCHANGED <<leads, optOut, told, silent, repeated>>
  BY DEF leadVars, leadRows, leadNotes
<1> QED
  BY <1>1 DEF OfficeInv, LeadRowsInv

\* A step on a user's row that concerns neither its role nor the audit log.
LEMMA PlainAccountMove ==
  ASSUME OfficeInv, NEW t \in Threads, NEW r, thread' = [thread EXCEPT ![t] = r],
         thread[t].op \notin {"welcome", "log"}, r.op \notin {"welcome", "log"},
         RequestShape(r, DOMAIN users, DOMAIN leads), DOMAIN users' = DOMAIN users,
         \A u \in DOMAIN users : users'[u] \in UserRow,
         UNCHANGED <<audit, falls, leadVars, now>>,
         mailbox' \in [Users -> Links \union {None}], spent' \subseteq Links,
         marks \subseteq marks', marks' \subseteq Marks,
         Proceeds(t, r)
  PROVE  OfficeInv'
<1>1. DOMAIN users \subseteq Users
  BY DEF OfficeInv, AccountRowsInv
<1>2. LeadRowsInv' /\ leads' = leads
  BY <1>1, LeadRowsStay
<1>3. ShapesInv' /\ CountsInv' /\ AuditInv'
  BY <1>2, PlainMove
<1>4. AccountRowsInv'
  BY <1>1 DEF OfficeInv, AccountRowsInv
<1> QED
  BY <1>2, <1>3, <1>4 DEF OfficeInv

LEMMA ReadsKeepOffice ==
  ASSUME OfficeInv, UNCHANGED leadVars, NEW t \in Threads,
         \/ \E by \in Users, u \in Users, data \in Patches : ReadUser(t, by, u, data)
         \/ \E u \in Users : ReadReset(t, u) \/ ReadConfirm(t, u)
  PROVE  OfficeInv'
<1>1. /\ DOMAIN users \subseteq Users /\ \A u \in DOMAIN users : users[u] \in UserRow
      /\ mailbox \in [Users -> Links \union {None}] /\ spent \subseteq Links
      /\ marks \subseteq Marks
      /\ now \in Nat /\ now <= MaxNow /\ ResetMinutes \in Nat /\ MaxNow \in Nat
  BY AccountConstants DEF OfficeInv, AccountRowsInv
<1>2. ASSUME NEW by \in Users, NEW u \in Users, NEW data \in Patches, ReadUser(t, by, u, data)
      PROVE  OfficeInv'
  <2> DEFINE r == [op |-> "edit", user |-> u, data |-> data,
                   loaded |-> [role |-> users[u].role, active |-> users[u].active]]
  <2>1. /\ thread' = [thread EXCEPT ![t] = r] /\ thread[t].op = "idle" /\ u \in DOMAIN users
        /\ requests < MaxRequests /\ requests' = requests + 1
        /\ UNCHANGED <<users, audit, now, mailbox, spent, falls, marks>>
    BY <1>2, IdleShape DEF ReadUser, Starts, Counts, Goto, accountRows, accountNotes
  <2>2. users[u].role \in Roles /\ users[u].active \in BOOLEAN
    BY <1>1, <2>1 DEF UserRow
  <2>3. RequestShape(r, DOMAIN users, DOMAIN leads) /\ r.op = "edit"
    BY <2>1, <2>2 DEF RequestShape, LinkOps, LeadOps
  <2> HIDE DEF r
  <2> QED
    BY <1>1, <2>1, <2>3, PlainAccountMove DEF Proceeds
<1>3. ASSUME NEW u \in Users, ReadReset(t, u) PROVE OfficeInv'
  <2> DEFINE r == [op |-> "reset", user |-> u, expires |-> now + ResetMinutes]
  <2>1. /\ thread' = [thread EXCEPT ![t] = r] /\ thread[t].op = "idle" /\ u \in DOMAIN users
        /\ requests < MaxRequests /\ requests' = requests + 1
        /\ UNCHANGED <<users, audit, now, mailbox, spent, falls, marks>>
    BY <1>3, IdleShape DEF ReadReset, Starts, Counts, Goto, accountRows, accountNotes
  <2>2. now + ResetMinutes \in 0 .. MaxNow + ResetMinutes
    BY <1>1
  <2>3. RequestShape(r, DOMAIN users, DOMAIN leads) /\ r.op = "reset"
    BY <2>1, <2>2 DEF RequestShape, LinkOps, LeadOps
  <2> HIDE DEF r
  <2> QED
    BY <1>1, <2>1, <2>3, PlainAccountMove DEF Proceeds
<1>4. ASSUME NEW u \in Users, ReadConfirm(t, u) PROVE OfficeInv'
  <2> DEFINE r == [op |-> "confirm", user |-> u, link |-> users[u].reset]
  <2>1. /\ thread' = [thread EXCEPT ![t] = r] /\ thread[t].op = "idle" /\ u \in DOMAIN users
        /\ users[u].reset # None
        /\ requests < MaxRequests /\ requests' = requests + 1
        /\ UNCHANGED <<users, audit, now, mailbox, spent, falls>>
        /\ marks' = marks \union (({users[u].reset} \intersect Carried(Confirming)) \X {"raced"})
    BY <1>4, IdleShape DEF ReadConfirm, Starts, Counts, Goto, Mark, accountRows
  <2>2. users[u].reset \in Links
    BY <1>1, <2>1 DEF UserRow
  <2>3. RequestShape(r, DOMAIN users, DOMAIN leads) /\ r.op = "confirm"
    BY <2>1, <2>2 DEF RequestShape, LinkOps, LeadOps
  <2>4. marks \subseteq marks' /\ marks' \subseteq Marks
    BY <1>1, <2>1, <2>2 DEF Marks
  <2> HIDE DEF r
  <2> QED
    BY <1>1, <2>1, <2>3, <2>4, PlainAccountMove DEF Proceeds
<1> QED
  BY <1>2, <1>3, <1>4

LEMMA LinkStepsKeepOffice ==
  ASSUME OfficeInv, UNCHANGED leadVars, NEW t \in Threads,
         \/ \E k \in Links : CommitReset(t, k)
         \/ \E sent \in BOOLEAN : SendLink(t, sent)
         \/ CommitConfirm(t)
         \/ LoseAccountRequest(t) /\ thread[t].op \notin {"welcome", "log"}
  PROVE  OfficeInv'
<1> DEFINE u == thread[t].user
<1>1. /\ DOMAIN users \subseteq Users /\ \A v \in DOMAIN users : users[v] \in UserRow
      /\ mailbox \in [Users -> Links \union {None}] /\ spent \subseteq Links
      /\ marks \subseteq Marks
      /\ ResetMinutes \in Nat /\ MaxNow \in Nat
      /\ RequestShape(thread[t], DOMAIN users, DOMAIN leads)
  BY AccountConstants DEF OfficeInv, AccountRowsInv, ShapesInv
<1>2. ASSUME NEW k \in Links, CommitReset(t, k) PROVE OfficeInv'
  <2> DEFINE r == [op |-> "link", user |-> u, link |-> k]
  <2>1. /\ thread' = [thread EXCEPT ![t] = r] /\ thread[t].op = "reset"
        /\ requests' = requests
        /\ UNCHANGED <<audit, now, mailbox, spent, falls>>
        /\ users' = [users EXCEPT ![u].reset = k, ![u].expires = thread[t].expires]
    BY <1>2 DEF CommitReset, Goto
  <2>2. u \in DOMAIN users /\ thread[t].expires \in 0 .. MaxNow + ResetMinutes
    BY <1>1, <2>1 DEF RequestShape, LinkOps
  <2>3. RequestShape(r, DOMAIN users, DOMAIN leads) /\ r.op = "link"
    BY <2>2 DEF RequestShape, LinkOps, LeadOps
  <2>4. DOMAIN users' = DOMAIN users /\ \A v \in DOMAIN users : users'[v] \in UserRow
    BY <1>1, <2>1, <2>2 DEF UserRow
  <2>5. Carried(Resetting(u) \ {t}) \subseteq Links
    BY DEF Carried, Resetting, OfficeInv, ShapesInv, RequestShape
  <2>6. marks \subseteq marks' /\ marks' \subseteq Marks
    <3>1. PICK S : S \subseteq Links /\ marks' = marks \union (S \X {"crossed"})
      BY <1>2, <2>5 DEF CommitReset, Mark
    <3> QED
      BY <1>1, <3>1 DEF Marks
  <2> HIDE DEF r, u
  <2> QED
    BY <1>1, <2>1, <2>3, <2>4, <2>6, PlainAccountMove DEF Proceeds
<1>3. ASSUME NEW sent \in BOOLEAN, SendLink(t, sent) PROVE OfficeInv'
  <2>1. /\ thread' = [thread EXCEPT ![t] = Idle] /\ thread[t].op = "link"
        /\ requests' = requests
        /\ UNCHANGED <<users, audit, now, spent, falls>>
        /\ mailbox' = IF sent THEN [mailbox EXCEPT ![u] = thread[t].link] ELSE mailbox
        /\ \/ marks' = marks \union ({} \X {"crossed"})
           \/ marks' = marks \union (({mailbox[u]} \ {None}) \X {"crossed"})
    BY <1>3 DEF SendLink, Goto, Mark, accountRows
  <2>2. u \in DOMAIN users /\ thread[t].link \in Links
    BY <1>1, <2>1 DEF RequestShape, LinkOps
  <2>3. mailbox' \in [Users -> Links \union {None}]
    BY <1>1, <2>1, <2>2
  <2>4. marks \subseteq marks' /\ marks' \subseteq Marks
    BY <1>1, <2>1, <2>2 DEF Marks
  <2> HIDE DEF u
  <2> QED
    BY <1>1, <2>1, <2>3, <2>4, IdleShape, PlainAccountMove DEF Proceeds
<1>4. CASE CommitConfirm(t)
  <2>1. /\ thread' = [thread EXCEPT ![t] = Idle] /\ thread[t].op = "confirm"
        /\ requests' = requests
        /\ UNCHANGED <<audit, now, mailbox, falls>>
        /\ users' = [users EXCEPT ![u].reset = None, ![u].expires = 0]
        /\ spent' = spent \union {thread[t].link}
        /\ marks' = marks \union (({thread[t].link} \intersect spent) \X {"twice"})
    BY <1>4 DEF CommitConfirm, Goto, Mark
  <2>2. u \in DOMAIN users /\ thread[t].link \in Links
    BY <1>1, <2>1 DEF RequestShape, LinkOps
  <2>3. DOMAIN users' = DOMAIN users /\ \A v \in DOMAIN users : users'[v] \in UserRow
    BY <1>1, <2>1, <2>2 DEF UserRow
  <2>4. spent' \subseteq Links
    BY <1>1, <2>1, <2>2
  <2>5. marks \subseteq marks' /\ marks' \subseteq Marks
    BY <1>1, <2>1 DEF Marks
  <2> HIDE DEF u
  <2> QED
    BY <1>1, <2>1, <2>3, <2>4, <2>5, IdleShape, PlainAccountMove DEF Proceeds
<1>5. CASE LoseAccountRequest(t) /\ thread[t].op \notin {"welcome", "log"}
  <2>1. /\ thread' = [thread EXCEPT ![t] = Idle] /\ thread[t].op \in {"edit"} \union LinkOps
        /\ requests' = requests
        /\ UNCHANGED <<users, audit, now, mailbox, spent, falls>>
        /\ marks' = marks \union
             (IF thread[t].op = "link" THEN ({mailbox[u]} \ {None}) \X {"crossed"} ELSE {})
    BY <1>5 DEF LoseAccountRequest, Goto, accountRows, LinkOps
  <2>2. u \in DOMAIN users
    BY <1>1, <2>1 DEF RequestShape
  <2>3. marks \subseteq marks' /\ marks' \subseteq Marks
    <3>1. u \in Users
      BY <1>1, <2>2
    <3> QED
      BY <1>1, <2>1, <3>1 DEF Marks
  <2>4. thread[t].op # "idle"
    BY <2>1 DEF LinkOps
  <2> HIDE DEF u
  <2> QED
    BY <1>1, <1>5, <2>1, <2>3, <2>4, IdleShape, PlainAccountMove DEF Proceeds
<1> QED
  BY <1>2, <1>3, <1>4, <1>5

-----------------------------------------------------------------------------
(* Requests on the audit log *)

Logs(r, a, u) == IF r.op = "log" /\ r.action = a /\ r.user = u THEN 1 ELSE 0

Mails(r, u) == IF r.op = "welcome" /\ r.user = u THEN 1 ELSE 0

Exists(u, us) == IF u \in us THEN 1 ELSE 0

\* How a count of requests changes when one of them turns to something else.
LEMMA LoggingMoved ==
  ASSUME NEW th, NEW th2, IsFiniteSet(BusyIn(th)), NEW t \in Threads,
         \A s \in Threads \ {t} : th2[s] = th[s], NEW a, NEW u
  PROVE  /\ Cardinality(LoggingIn(th, a, u)) \in Nat /\ Cardinality(LoggingIn(th2, a, u)) \in Nat
         /\ Cardinality(LoggingIn(th2, a, u)) + Logs(th[t], a, u) =
              Cardinality(LoggingIn(th, a, u)) + Logs(th2[t], a, u)
<1> DEFINE A == LoggingIn(th, a, u)
           B == LoggingIn(th2, a, u)
           before == Logs(th[t], a, u)
           after == Logs(th2[t], a, u)
<1>1. A \ {t} = B \ {t} /\ before = Exists(t, A) /\ after = Exists(t, B)
  BY DEF LoggingIn, Logs, Exists
<1>2. A \subseteq BusyIn(th)
  BY DEF LoggingIn, BusyIn
<1>3. IsFiniteSet(A)
  BY <1>2, FS_Subset
<1> HIDE DEF A, B, before, after
<1>4. Cardinality(A) \in Nat /\ Cardinality(B) \in Nat
  BY <1>1, <1>3, OneMoved
<1>5. /\ (t \in A <=> t \in B) => Cardinality(B) = Cardinality(A)
      /\ t \notin A /\ t \in B => Cardinality(B) = Cardinality(A) + 1
      /\ t \in A /\ t \notin B => Cardinality(B) + 1 = Cardinality(A)
  BY <1>1, <1>3, OneMoved
<1>6. Cardinality(B) + before = Cardinality(A) + after
  BY <1>1, <1>4, <1>5 DEF Exists
<1> QED
  BY <1>4, <1>6 DEF A, B, before, after

LEMMA WelcomingMoved ==
  ASSUME NEW th, NEW th2, IsFiniteSet(BusyIn(th)), NEW t \in Threads,
         \A s \in Threads \ {t} : th2[s] = th[s], NEW u
  PROVE  /\ Cardinality(WelcomingIn(th, u)) \in Nat /\ Cardinality(WelcomingIn(th2, u)) \in Nat
         /\ Cardinality(WelcomingIn(th2, u)) + Mails(th[t], u) =
              Cardinality(WelcomingIn(th, u)) + Mails(th2[t], u)
<1> DEFINE A == WelcomingIn(th, u)
           B == WelcomingIn(th2, u)
           before == Mails(th[t], u)
           after == Mails(th2[t], u)
<1>1. A \ {t} = B \ {t} /\ before = Exists(t, A) /\ after = Exists(t, B)
  BY DEF WelcomingIn, Mails, Exists
<1>2. A \subseteq BusyIn(th)
  BY DEF WelcomingIn, BusyIn
<1>3. IsFiniteSet(A)
  BY <1>2, FS_Subset
<1> HIDE DEF A, B, before, after
<1>4. Cardinality(A) \in Nat /\ Cardinality(B) \in Nat
  BY <1>1, <1>3, OneMoved
<1>5. /\ (t \in A <=> t \in B) => Cardinality(B) = Cardinality(A)
      /\ t \notin A /\ t \in B => Cardinality(B) = Cardinality(A) + 1
      /\ t \in A /\ t \notin B => Cardinality(B) + 1 = Cardinality(A)
  BY <1>1, <1>3, OneMoved
<1>6. Cardinality(B) + before = Cardinality(A) + after
  BY <1>1, <1>4, <1>5 DEF Exists
<1> QED
  BY <1>4, <1>6 DEF A, B, before, after

LEMMA LoggersCount ==
  ASSUME CountsInv, NEW t \in Threads,
         \A s \in Threads \ {t} : thread'[s] = thread[s], NEW a, NEW u
  PROVE  /\ Cardinality(LoggingIn(thread, a, u)) \in Nat
         /\ Cardinality(LoggingIn(thread', a, u)) \in Nat
         /\ Cardinality(LoggingIn(thread', a, u)) + Logs(thread[t], a, u) =
              Cardinality(LoggingIn(thread, a, u)) + Logs(thread'[t], a, u)
         /\ Cardinality(WelcomingIn(thread, u)) \in Nat
         /\ Cardinality(WelcomingIn(thread', u)) \in Nat
         /\ Cardinality(WelcomingIn(thread', u)) + Mails(thread[t], u) =
              Cardinality(WelcomingIn(thread, u)) + Mails(thread'[t], u)
<1>1. IsFiniteSet(BusyIn(thread))
  BY DEF CountsInv, Busy
<1> QED
  BY <1>1, LoggingMoved, WelcomingMoved

\* The counts of every user, whatever a step does to them: what a user gains
\* in falls or in rows, requests gain or give up.
LEMMA AuditKept ==
  ASSUME OfficeInv, NEW t \in Threads, NEW r, thread'[t] = r,
         \A s \in Threads \ {t} : thread'[s] = thread[s],
         DOMAIN users \subseteq DOMAIN users', marks \subseteq marks',
         audit' \in [Actions \X Users -> Nat], falls' \in [Users -> Nat],
         \A u \in Users : \/ Excused(u, "unaudited")'
              \/ /\ falls'[u] + audit[<<"USER_DEACTIVATED", u>>]
                      + Logs(thread[t], "USER_DEACTIVATED", u) <=
                    falls[u] + audit'[<<"USER_DEACTIVATED", u>>] + Logs(r, "USER_DEACTIVATED", u)
                 /\ audit'[<<"USER_CREATED", u>>] + Logs(r, "USER_CREATED", u) + Mails(r, u)
                      + Exists(u, DOMAIN users) =
                    audit[<<"USER_CREATED", u>>] + Logs(thread[t], "USER_CREATED", u)
                      + Mails(thread[t], u) + Exists(u, DOMAIN users')
  PROVE  AuditInv'
<1>1. ASSUME NEW u \in Users, ~ Excused(u, "unaudited")', Deactivated(u) PROVE Deactivated(u)'
  <2> DEFINE a == "USER_DEACTIVATED"
             A == Cardinality(LoggingIn(thread, a, u))
             B == Cardinality(LoggingIn(thread', a, u))
             before == Logs(thread[t], a, u)
             after == Logs(r, a, u)
  <2>1. A \in Nat /\ B \in Nat /\ B + before = A + after
    BY LoggersCount DEF OfficeInv
  <2>2. before \in {0, 1} /\ after \in {0, 1}
    BY DEF Logs, Mails, Exists
  <2>3. <<a, u>> \in Actions \X Users
    BY DEF Actions
  <2>4. /\ audit[<<a, u>>] \in Nat /\ audit'[<<a, u>>] \in Nat
        /\ falls[u] \in Nat /\ falls'[u] \in Nat
    BY <2>3 DEF OfficeInv, CountsInv
  <2>5. falls[u] <= audit[<<a, u>>] + A
    BY <1>1 DEF Deactivated, Logging
  <2>6. falls'[u] + audit[<<a, u>>] + before <= falls[u] + audit'[<<a, u>>] + after
    BY <1>1
  <2> HIDE DEF A, B, before, after
  <2>7. falls'[u] <= audit'[<<a, u>>] + B
    BY <2>1, <2>2, <2>4, <2>5, <2>6
  <2> QED
    BY <2>7 DEF Deactivated, Logging, B
<1>2. ASSUME NEW u \in Users, ~ Excused(u, "unaudited")', Created(u) PROVE Created(u)'
  <2> DEFINE a == "USER_CREATED"
             A == Cardinality(LoggingIn(thread, a, u))
             B == Cardinality(LoggingIn(thread', a, u))
             C == Cardinality(WelcomingIn(thread, u))
             D == Cardinality(WelcomingIn(thread', u))
             before == Logs(thread[t], a, u)
             after == Logs(r, a, u)
             wbefore == Mails(thread[t], u)
             wafter == Mails(r, u)
             x == audit[<<a, u>>]
             y == audit'[<<a, u>>]
             is == Exists(u, DOMAIN users)
             will == Exists(u, DOMAIN users')
  <2>1. A \in Nat /\ B \in Nat /\ B + before = A + after
    BY LoggersCount DEF OfficeInv
  <2>2. C \in Nat /\ D \in Nat /\ D + wbefore = C + wafter
    BY LoggersCount DEF OfficeInv
  <2>3. /\ before \in {0, 1} /\ after \in {0, 1} /\ wbefore \in {0, 1} /\ wafter \in {0, 1}
        /\ is \in {0, 1} /\ will \in {0, 1}
    BY DEF Logs, Mails, Exists
  <2>4. <<a, u>> \in Actions \X Users
    BY DEF Actions
  <2>5. x \in Nat /\ y \in Nat
    BY <2>4 DEF OfficeInv, CountsInv
  <2>6. x + A + C = is
    BY <1>2 DEF Created, Logging, Welcoming, Exists
  <2>7. y + after + wafter + is = x + before + wbefore + will
    BY <1>2
  <2> HIDE DEF A, B, C, D, before, after, wbefore, wafter, x, y, is, will
  <2>8. y + B + D = will
    BY <2>1, <2>2, <2>3, <2>5, <2>6, <2>7
  <2> QED
    BY <2>8 DEF Created, Logging, Welcoming, Exists, B, D, y, will
<1>3. \A u \in Users : Excused(u, "unaudited") => Excused(u, "unaudited")'
  BY DEF Excused
<1>4. Founders \subseteq DOMAIN users'
  BY DEF OfficeInv, AuditInv
<1> QED
  BY <1>1, <1>2, <1>3, <1>4, AccountConstants DEF OfficeInv, AuditInv

LEMMA CreateUserKeepsOffice ==
  ASSUME OfficeInv, UNCHANGED leadVars, NEW t \in Threads, NEW by \in Users, NEW u \in Users,
         CreateUser(t, by, u)
  PROVE  OfficeInv'
<1> DEFINE r == [op |-> "welcome", user |-> u]
           row == [role |-> "USER", active |-> TRUE, reset |-> None, expires |-> 0]
<1>1. /\ thread' = [thread EXCEPT ![t] = r] /\ thread[t].op = "idle" /\ u \notin DOMAIN users
      /\ requests < MaxRequests /\ requests' = requests + 1
      /\ UNCHANGED <<audit, now, mailbox, spent, falls, marks>>
      /\ users' = Put(users, u, row)
  BY IdleShape DEF CreateUser, Starts, Counts, Goto, accountNotes
<1>2. row \in UserRow
  BY AccountConstants DEF UserRow, Roles
<1>3. /\ DOMAIN users' = DOMAIN users \union {u} /\ DOMAIN users' \subseteq Users
      /\ \A v \in DOMAIN users' : users'[v] \in UserRow
  BY <1>1, <1>2 DEF Put, OfficeInv, AccountRowsInv
<1>4. LeadRowsInv' /\ leads' = leads
  BY <1>3, LeadRowsStay
<1>5. RequestShape(r, DOMAIN users', DOMAIN leads') /\ r.op = "welcome" /\ r.user = u
  BY <1>3 DEF RequestShape, LinkOps, LeadOps
<1> HIDE DEF r, row
<1>6. ShapesInv' /\ CountsInv'
  BY <1>1, <1>3, <1>4, <1>5, ShapesMoved, CountsMoved DEF OfficeInv, Proceeds
<1>7. AccountRowsInv'
  BY <1>1, <1>3 DEF OfficeInv, AccountRowsInv
<1>8. /\ thread'[t] = r /\ \A s \in Threads \ {t} : thread'[s] = thread[s]
  BY <1>1 DEF OfficeInv, ShapesInv
<1>9. /\ audit' \in [Actions \X Users -> Nat] /\ falls' \in [Users -> Nat]
      /\ audit' = audit /\ falls' = falls
  BY <1>1 DEF OfficeInv, CountsInv
<1>10. ASSUME NEW v \in Users, ~ Excused(v, "unaudited")'
       PROVE  /\ falls'[v] + audit[<<"USER_DEACTIVATED", v>>]
                    + Logs(thread[t], "USER_DEACTIVATED", v) <=
                  falls[v] + audit'[<<"USER_DEACTIVATED", v>>] + Logs(r, "USER_DEACTIVATED", v)
              /\ audit'[<<"USER_CREATED", v>>] + Logs(r, "USER_CREATED", v) + Mails(r, v)
                    + Exists(v, DOMAIN users) =
                  audit[<<"USER_CREATED", v>>] + Logs(thread[t], "USER_CREATED", v)
                    + Mails(thread[t], v) + Exists(v, DOMAIN users')
  <2>1. /\ Logs(thread[t], "USER_DEACTIVATED", v) = 0 /\ Logs(r, "USER_DEACTIVATED", v) = 0
        /\ Logs(thread[t], "USER_CREATED", v) = 0 /\ Logs(r, "USER_CREATED", v) = 0
        /\ Mails(thread[t], v) = 0 /\ Mails(r, v) \in Nat /\ Exists(v, DOMAIN users) \in Nat
    BY <1>1, <1>5 DEF Logs, Mails, Exists
  <2>2. Mails(r, v) + Exists(v, DOMAIN users) = Exists(v, DOMAIN users')
    BY <1>1, <1>3, <1>5 DEF Mails, Exists
  <2>3. /\ falls[v] \in Nat /\ audit[<<"USER_DEACTIVATED", v>>] \in Nat
        /\ audit[<<"USER_CREATED", v>>] \in Nat
    BY DEF OfficeInv, CountsInv, Actions
  <2> QED
    BY <1>9, <2>1, <2>2, <2>3
<1>11. DOMAIN users \subseteq DOMAIN users' /\ marks \subseteq marks'
  BY <1>1, <1>3
<1>12. AuditInv'
  BY <1>8, <1>9, <1>10, <1>11, AuditKept
<1> QED
  BY <1>4, <1>6, <1>7, <1>12 DEF OfficeInv

\* The request mails the password and goes on to its audit row, or ends.
LEMMA WelcomeKeepsOffice ==
  ASSUME OfficeInv, UNCHANGED leadVars, NEW t \in Threads, NEW sent \in BOOLEAN, Welcome(t, sent)
  PROVE  OfficeInv'
<1> DEFINE u == thread[t].user
           r == IF sent THEN [op |-> "log", action |-> "USER_CREATED", user |-> u] ELSE Idle
<1>1. /\ thread' = [thread EXCEPT ![t] = r] /\ thread[t].op = "welcome"
      /\ requests' = requests
      /\ UNCHANGED <<users, audit, now, mailbox, spent, falls>>
      /\ sent => marks' = marks \union ({} \X {"unaudited"})
      /\ ~sent => marks' = marks \union ({u} \X {"unaudited"})
  BY DEF Welcome, Goto, Mark, accountRows
<1>2. u \in DOMAIN users /\ DOMAIN users \subseteq Users
  BY <1>1 DEF OfficeInv, ShapesInv, RequestShape, AccountRowsInv
<1>3. LeadRowsInv' /\ leads' = leads
  BY <1>1, <1>2, LeadRowsStay
<1>4. /\ RequestShape(r, DOMAIN users, DOMAIN leads) /\ r.op \in {"log", "idle"}
      /\ sent => r.op = "log" /\ r.action = "USER_CREATED" /\ r.user = u
  BY <1>2, IdleShape DEF RequestShape, LinkOps, LeadOps, Actions
<1>5. marks \subseteq marks' /\ marks' \subseteq Marks
      /\ (~sent => <<u, "unaudited">> \in marks')
  BY <1>1, <1>2 DEF OfficeInv, AccountRowsInv, Marks
<1> HIDE DEF r, u
<1>6. ShapesInv' /\ CountsInv'
  BY <1>1, <1>3, <1>4, ShapesMoved, CountsMoved DEF OfficeInv, Proceeds
<1>7. AccountRowsInv'
  BY <1>1, <1>5 DEF OfficeInv, AccountRowsInv
<1>8. /\ thread'[t] = r /\ \A s \in Threads \ {t} : thread'[s] = thread[s]
  BY <1>1 DEF OfficeInv, ShapesInv
<1>9. /\ audit' \in [Actions \X Users -> Nat] /\ falls' \in [Users -> Nat]
      /\ audit' = audit /\ falls' = falls /\ users' = users
  BY <1>1 DEF OfficeInv, CountsInv
<1>10. ASSUME NEW v \in Users, ~ Excused(v, "unaudited")'
       PROVE  /\ falls'[v] + audit[<<"USER_DEACTIVATED", v>>]
                    + Logs(thread[t], "USER_DEACTIVATED", v) <=
                  falls[v] + audit'[<<"USER_DEACTIVATED", v>>] + Logs(r, "USER_DEACTIVATED", v)
              /\ audit'[<<"USER_CREATED", v>>] + Logs(r, "USER_CREATED", v) + Mails(r, v)
                    + Exists(v, DOMAIN users) =
                  audit[<<"USER_CREATED", v>>] + Logs(thread[t], "USER_CREATED", v)
                    + Mails(thread[t], v) + Exists(v, DOMAIN users')
  <2>1. /\ Logs(thread[t], "USER_DEACTIVATED", v) = 0 /\ Logs(r, "USER_DEACTIVATED", v) \in Nat
        /\ Logs(thread[t], "USER_CREATED", v) = 0 /\ Mails(r, v) = 0
        /\ Exists(v, DOMAIN users) \in Nat
    BY <1>1, <1>4 DEF Logs, Mails, Exists
  <2>2. v = u => sent
    BY <1>5, <1>10 DEF Excused
  <2>3. Logs(r, "USER_CREATED", v) = Mails(thread[t], v) /\ Mails(thread[t], v) \in Nat
    <3>1. CASE v = u
      BY <1>1, <1>4, <2>2, <3>1 DEF Logs, Mails, u
    <3>2. CASE v # u
      BY <1>1, <1>4, <3>2, IdleShape DEF Logs, Mails, u, r
    <3> QED
      BY <3>1, <3>2
  <2>4. /\ falls[v] \in Nat /\ audit[<<"USER_DEACTIVATED", v>>] \in Nat
        /\ audit[<<"USER_CREATED", v>>] \in Nat
    BY DEF OfficeInv, CountsInv, Actions
  <2> QED
    BY <1>9, <2>1, <2>3, <2>4
<1>11. AuditInv'
  BY <1>1, <1>5, <1>8, <1>9, <1>10, AuditKept
<1> QED
  BY <1>3, <1>6, <1>7, <1>11 DEF OfficeInv

\* What an edit writes has the columns of a row, and whoever it deactivates is
\* one the loaded row showed active, so that the audit log is to say so.
LEMMA WrittenRow ==
  ASSUME NEW row \in UserRow, NEW loaded, loaded.role \in Roles, loaded.active \in BOOLEAN,
         NEW data \in Patches
  PROVE  /\ Written(row, loaded, data) \in UserRow
         /\ row.active /\ ~Written(row, loaded, data).active =>
              Logged(loaded, data) = "USER_DEACTIVATED"
<1> DEFINE role == CHOOSE x \in Roles :
                     IF data.role \subseteq {loaded.role} THEN x = row.role ELSE x \in data.role
           active == CHOOSE x \in BOOLEAN :
                     IF data.active \subseteq {loaded.active} THEN x = row.active ELSE x \in data.active
<1>1. /\ data.role \in AtMostOne(Roles) /\ data.active \in AtMostOne(BOOLEAN)
      /\ row.role \in Roles /\ row.active \in BOOLEAN
  BY DEF Patches, UserRow
<1>2. role \in Roles
  <2>1. \E x \in Roles :
          IF data.role \subseteq {loaded.role} THEN x = row.role ELSE x \in data.role
    BY <1>1 DEF AtMostOne
  <2> QED
    BY <2>1
<1>3. /\ active \in BOOLEAN
      /\ IF data.active \subseteq {loaded.active} THEN active = row.active ELSE active \in data.active
  <2>1. \E x \in BOOLEAN :
          IF data.active \subseteq {loaded.active} THEN x = row.active ELSE x \in data.active
    BY <1>1 DEF AtMostOne
  <2> QED
    BY <2>1
<1>4. Written(row, loaded, data) = [row EXCEPT !.role = role, !.active = active]
  BY DEF Written
<1> HIDE DEF role, active
<1>5. Written(row, loaded, data) \in UserRow /\ Written(row, loaded, data).active = active
  BY <1>2, <1>3, <1>4 DEF UserRow
<1>6. ASSUME row.active, ~active PROVE Logged(loaded, data) = "USER_DEACTIVATED"
  <2>1. active \in data.active /\ ~(data.active \subseteq {loaded.active})
    BY <1>1, <1>3, <1>6
  <2>2. active = FALSE
    BY <1>3, <1>6
  <2>3. data.active = {FALSE}
    BY <1>1, <2>1, <2>2 DEF AtMostOne
  <2>4. loaded.active
    BY <2>1, <2>3
  <2> QED
    BY <2>3, <2>4 DEF Logged
<1> QED
  BY <1>5, <1>6

\* An edit that deactivates goes on to its audit row.
LEMMA CommitEditKeepsOffice ==
  ASSUME OfficeInv, UNCHANGED leadVars, NEW t \in Threads, CommitEdit(t) PROVE OfficeInv'
<1> DEFINE u == thread[t].user
           row == Written(users[u], thread[t].loaded, thread[t].data)
           action == Logged(thread[t].loaded, thread[t].data)
           r == IF action = None THEN Idle ELSE [op |-> "log", action |-> action, user |-> u]
           fall == IF users[u].active /\ ~row.active THEN 1 ELSE 0
<1>1. /\ thread' = [thread EXCEPT ![t] = r] /\ thread[t].op = "edit"
      /\ requests' = requests
      /\ UNCHANGED <<audit, now, mailbox, spent, marks>>
      /\ users' = [users EXCEPT ![u] = row]
      /\ falls' = [falls EXCEPT ![u] = @ + fall]
  BY DEF CommitEdit, Goto
<1>2. /\ u \in DOMAIN users /\ DOMAIN users \subseteq Users /\ users[u] \in UserRow
      /\ thread[t].loaded.role \in Roles /\ thread[t].loaded.active \in BOOLEAN
      /\ thread[t].data \in Patches
  BY <1>1 DEF OfficeInv, ShapesInv, RequestShape, AccountRowsInv
<1>3. row \in UserRow /\ (fall = 1 => action = "USER_DEACTIVATED") /\ fall \in {0, 1}
  BY <1>2, WrittenRow
<1>4. action \in {"USER_DEACTIVATED", "USER_UPDATED", None}
  BY DEF Logged
<1>5. /\ RequestShape(r, DOMAIN users, DOMAIN leads) /\ r.op \in {"log", "idle"}
      /\ r.op = "log" => r.action = action /\ r.user = u /\ action # "USER_CREATED"
      /\ action = "USER_DEACTIVATED" => r.op = "log"
  BY <1>2, <1>4, IdleShape, AccountConstants DEF RequestShape, LinkOps, LeadOps, Actions
<1> HIDE DEF r, u, row, action, fall
<1>6. DOMAIN users' = DOMAIN users /\ \A v \in DOMAIN users : users'[v] \in UserRow
  BY <1>1, <1>2, <1>3 DEF OfficeInv, AccountRowsInv
<1>7. LeadRowsInv' /\ leads' = leads
  BY <1>2, <1>6, LeadRowsStay
<1>8. ShapesInv'
  BY <1>1, <1>5, <1>6, <1>7, ShapesMoved DEF OfficeInv
<1>9. AccountRowsInv'
  BY <1>1, <1>2, <1>6 DEF OfficeInv, AccountRowsInv
<1>10. /\ falls \in [Users -> Nat] /\ falls' \in [Users -> Nat]
       /\ \A v \in Users : falls'[v] = falls[v] + (IF v = u THEN fall ELSE 0)
       /\ audit \in [Actions \X Users -> Nat] /\ audit' = audit
  BY <1>1, <1>2, <1>3 DEF OfficeInv, CountsInv
<1>11. CountsInv'
  <2>1. /\ IsFiniteSet(Busy) /\ IsFiniteSet(Editing)
        /\ Busy \ {t} = Busy' \ {t} /\ Editing \ {t} = Editing' \ {t}
        /\ t \in Busy /\ t \in Editing /\ t \notin Editing'
    BY <1>1, <1>5, SetsMoved DEF OfficeInv
  <2>2. /\ IsFiniteSet(Busy') /\ Cardinality(Busy) \in Nat /\ Cardinality(Busy') \in Nat
        /\ Cardinality(Editing) \in Nat /\ Cardinality(Editing') \in Nat
    BY <2>1, OneMoved
  <2>3. Cardinality(Busy') <= Cardinality(Busy)
    <3>1. CASE t \in Busy'
      BY <2>1, <2>2, <3>1, OneMoved
    <3>2. CASE t \notin Busy'
      BY <2>1, <2>2, <3>2, OneMoved
    <3> QED
      BY <3>1, <3>2
  <2>4. Cardinality(Editing') + 1 = Cardinality(Editing)
    BY <2>1, OneMoved
  <2>5. requests \in 0 .. MaxRequests /\ requests' = requests /\ MaxRequests \in Nat
    BY <1>1, AccountConstants DEF OfficeInv, CountsInv
  <2>6. ASSUME NEW x \in Actions \X Users PROVE audit'[x] + Cardinality(Busy') <= requests'
    <3>1. audit'[x] = audit[x] /\ audit[x] \in Nat /\ audit[x] + Cardinality(Busy) <= requests
      BY <1>10 DEF OfficeInv, CountsInv
    <3> QED
      BY <2>2, <2>3, <2>5, <3>1
  <2>7. ASSUME NEW v \in Users PROVE falls'[v] + Cardinality(Editing') <= requests'
    <3>1. falls'[v] <= falls[v] + 1 /\ falls[v] \in Nat /\ falls'[v] \in Nat
      BY <1>3, <1>10
    <3>2. falls[v] + Cardinality(Editing) <= requests
      BY DEF OfficeInv, CountsInv
    <3> QED
      BY <2>2, <2>4, <2>5, <3>1, <3>2
  <2> QED
    BY <1>10, <2>2, <2>5, <2>6, <2>7 DEF CountsInv
<1>12. /\ thread'[t] = r /\ \A s \in Threads \ {t} : thread'[s] = thread[s]
       /\ marks \subseteq marks' /\ DOMAIN users \subseteq DOMAIN users'
  BY <1>1, <1>6 DEF OfficeInv, ShapesInv
<1>13. ASSUME NEW v \in Users, ~ Excused(v, "unaudited")'
       PROVE  /\ falls'[v] + audit[<<"USER_DEACTIVATED", v>>]
                    + Logs(thread[t], "USER_DEACTIVATED", v) <=
                  falls[v] + audit'[<<"USER_DEACTIVATED", v>>] + Logs(r, "USER_DEACTIVATED", v)
              /\ audit'[<<"USER_CREATED", v>>] + Logs(r, "USER_CREATED", v) + Mails(r, v)
                    + Exists(v, DOMAIN users) =
                  audit[<<"USER_CREATED", v>>] + Logs(thread[t], "USER_CREATED", v)
                    + Mails(thread[t], v) + Exists(v, DOMAIN users')
  <2>1. /\ Logs(thread[t], "USER_DEACTIVATED", v) = 0
        /\ Logs(thread[t], "USER_CREATED", v) = 0 /\ Logs(r, "USER_CREATED", v) = 0
        /\ Mails(thread[t], v) = 0 /\ Mails(r, v) = 0
        /\ Exists(v, DOMAIN users) \in Nat /\ Exists(v, DOMAIN users') = Exists(v, DOMAIN users)
    BY <1>1, <1>5, <1>6 DEF Logs, Mails, Exists
  <2>2. Logs(r, "USER_DEACTIVATED", v) \in Nat
    BY DEF Logs
  <2>3. falls'[v] <= falls[v] + Logs(r, "USER_DEACTIVATED", v) /\ falls'[v] \in Nat /\ falls[v] \in Nat
    <3>1. CASE v = u /\ fall = 1
      <4>1. Logs(r, "USER_DEACTIVATED", v) = 1
        BY <1>3, <1>5, <3>1 DEF Logs
      <4> QED
        BY <1>10, <3>1, <4>1
    <3>2. CASE ~(v = u /\ fall = 1)
      <4>1. falls'[v] = falls[v] /\ falls[v] \in Nat
        BY <1>3, <1>10, <3>2
      <4> QED
        BY <2>2, <4>1
    <3> QED
      BY <3>1, <3>2
  <2>4. /\ audit[<<"USER_DEACTIVATED", v>>] \in Nat /\ audit[<<"USER_CREATED", v>>] \in Nat
    BY DEF OfficeInv, CountsInv, Actions
  <2> QED
    BY <1>10, <2>1, <2>2, <2>3, <2>4
<1>14. audit' \in [Actions \X Users -> Nat]
  BY <1>10
<1>15. AuditInv'
  BY <1>10, <1>12, <1>13, <1>14, AuditKept
<1> QED
  BY <1>7, <1>8, <1>9, <1>11, <1>15 DEF OfficeInv

LEMMA WriteLogKeepsOffice ==
  ASSUME OfficeInv, UNCHANGED leadVars, NEW t \in Threads, WriteLog(t) PROVE OfficeInv'
<1> DEFINE r == Idle
           u == thread[t].user
           a == thread[t].action
<1>1. /\ thread' = [thread EXCEPT ![t] = Idle] /\ thread[t].op = "log"
      /\ requests' = requests
      /\ UNCHANGED <<users, now, mailbox, spent, falls, marks>>
      /\ audit' = [audit EXCEPT ![<<a, u>>] = @ + 1]
  BY DEF WriteLog, Goto, accountNotes
<1>2. u \in DOMAIN users /\ a \in Actions /\ DOMAIN users \subseteq Users
  BY <1>1 DEF OfficeInv, ShapesInv, RequestShape, AccountRowsInv
<1>3. <<a, u>> \in Actions \X Users
  BY <1>2
<1>4. LeadRowsInv' /\ leads' = leads
  BY <1>1, <1>2, LeadRowsStay
<1>5. ShapesInv'
  BY <1>1, <1>4, IdleShape, ShapesMoved DEF OfficeInv
<1>6. AccountRowsInv'
  BY <1>1 DEF OfficeInv, AccountRowsInv
<1>7. /\ audit \in [Actions \X Users -> Nat] /\ audit' \in [Actions \X Users -> Nat]
      /\ \A x \in Actions \X Users : audit'[x] = audit[x] + (IF x = <<a, u>> THEN 1 ELSE 0)
      /\ falls \in [Users -> Nat] /\ falls' = falls
  BY <1>1, <1>3 DEF OfficeInv, CountsInv
<1> HIDE DEF u, a
<1>8. CountsInv'
  <2>1. /\ IsFiniteSet(Busy) /\ IsFiniteSet(Editing)
        /\ Busy \ {t} = Busy' \ {t} /\ Editing \ {t} = Editing' \ {t}
        /\ t \in Busy /\ t \notin Busy' /\ t \notin Editing /\ t \notin Editing'
    BY <1>1, IdleShape, SetsMoved DEF OfficeInv
  <2>2. IsFiniteSet(Busy') /\ Cardinality(Busy) \in Nat /\ Cardinality(Busy') \in Nat
    BY <2>1, OneMoved
  <2>3. Cardinality(Busy') + 1 = Cardinality(Busy)
    BY <2>1, OneMoved
  <2>4. requests \in 0 .. MaxRequests /\ requests' = requests /\ MaxRequests \in Nat
    BY <1>1, AccountConstants DEF OfficeInv, CountsInv
  <2>5. ASSUME NEW x \in Actions \X Users PROVE audit'[x] + Cardinality(Busy') <= requests'
    <3>1. audit'[x] <= audit[x] + 1 /\ audit[x] \in Nat /\ audit'[x] \in Nat
      BY <1>7
    <3>2. audit[x] + Cardinality(Busy) <= requests
      BY DEF OfficeInv, CountsInv
    <3> QED
      BY <2>2, <2>3, <2>4, <3>1, <3>2
  <2>6. Editing' = Editing
    BY <2>1
  <2>7. \A v \in Users : falls'[v] + Cardinality(Editing') <= requests'
    BY <1>7, <2>4, <2>6 DEF OfficeInv, CountsInv
  <2> QED
    BY <1>7, <2>2, <2>4, <2>5, <2>7 DEF CountsInv
<1>9. /\ thread'[t] = r /\ \A s \in Threads \ {t} : thread'[s] = thread[s]
      /\ marks \subseteq marks' /\ users' = users
  BY <1>1 DEF OfficeInv, ShapesInv
<1>10. ASSUME NEW v \in Users, ~ Excused(v, "unaudited")'
       PROVE  /\ falls'[v] + audit[<<"USER_DEACTIVATED", v>>]
                    + Logs(thread[t], "USER_DEACTIVATED", v) <=
                  falls[v] + audit'[<<"USER_DEACTIVATED", v>>] + Logs(r, "USER_DEACTIVATED", v)
              /\ audit'[<<"USER_CREATED", v>>] + Logs(r, "USER_CREATED", v) + Mails(r, v)
                    + Exists(v, DOMAIN users) =
                  audit[<<"USER_CREATED", v>>] + Logs(thread[t], "USER_CREATED", v)
                    + Mails(thread[t], v) + Exists(v, DOMAIN users')
  <2>1. /\ Logs(r, "USER_DEACTIVATED", v) = 0 /\ Logs(r, "USER_CREATED", v) = 0
        /\ Mails(r, v) = 0 /\ Mails(thread[t], v) = 0
        /\ Exists(v, DOMAIN users) \in Nat /\ Exists(v, DOMAIN users') = Exists(v, DOMAIN users)
    BY <1>1, <1>9, IdleShape DEF r, Logs, Mails, Exists
  <2>2. ASSUME NEW b \in Actions
        PROVE  /\ audit'[<<b, v>>] = audit[<<b, v>>] + Logs(thread[t], b, v)
               /\ audit[<<b, v>>] \in Nat /\ Logs(thread[t], b, v) \in Nat
    <3>1. <<b, v>> \in Actions \X Users /\ (<<b, v>> = <<a, u>> <=> b = a /\ v = u)
      OBVIOUS
    <3>2. audit'[<<b, v>>] = audit[<<b, v>>] + (IF b = a /\ v = u THEN 1 ELSE 0)
      BY <1>7, <3>1
    <3>3. Logs(thread[t], b, v) = IF b = a /\ v = u THEN 1 ELSE 0
      BY <1>1 DEF Logs, a, u
    <3> QED
      BY <1>7, <3>1, <3>2, <3>3
  <2>3. "USER_DEACTIVATED" \in Actions /\ "USER_CREATED" \in Actions
    BY DEF Actions
  <2>4. /\ audit'[<<"USER_DEACTIVATED", v>>] =
             audit[<<"USER_DEACTIVATED", v>>] + Logs(thread[t], "USER_DEACTIVATED", v)
        /\ audit[<<"USER_DEACTIVATED", v>>] \in Nat
        /\ Logs(thread[t], "USER_DEACTIVATED", v) \in Nat
    BY <2>2, <2>3
  <2>5. /\ audit'[<<"USER_CREATED", v>>] =
             audit[<<"USER_CREATED", v>>] + Logs(thread[t], "USER_CREATED", v)
        /\ audit[<<"USER_CREATED", v>>] \in Nat /\ Logs(thread[t], "USER_CREATED", v) \in Nat
    BY <2>2, <2>3
  <2>6. falls'[v] = falls[v] /\ falls[v] \in Nat
    BY <1>7
  <2> QED
    BY <2>1, <2>4, <2>5, <2>6
<1>11. /\ audit' \in [Actions \X Users -> Nat] /\ falls' \in [Users -> Nat]
       /\ DOMAIN users \subseteq DOMAIN users'
  BY <1>7, <1>9
<1> HIDE DEF r
<1>12. AuditInv'
  BY <1>9, <1>10, <1>11, AuditKept
<1> QED
  BY <1>4, <1>5, <1>6, <1>8, <1>12 DEF OfficeInv

\* A request that dies before its audit row leaves a mark on its user.
LEMMA LoseUnauditedKeepsOffice ==
  ASSUME OfficeInv, UNCHANGED leadVars, NEW t \in Threads, LoseAccountRequest(t),
         thread[t].op \in {"welcome", "log"}
  PROVE  OfficeInv'
<1> DEFINE r == Idle
           u == thread[t].user
<1>1. /\ thread' = [thread EXCEPT ![t] = Idle]
      /\ requests' = requests
      /\ UNCHANGED <<users, audit, now, mailbox, spent, falls>>
      /\ marks' = marks \union {<<u, "unaudited">>}
  BY DEF LoseAccountRequest, Goto, accountRows
<1>2. u \in DOMAIN users /\ DOMAIN users \subseteq Users
  BY DEF OfficeInv, ShapesInv, RequestShape, AccountRowsInv
<1>3. LeadRowsInv' /\ leads' = leads
  BY <1>1, <1>2, LeadRowsStay
<1>4. marks \subseteq marks' /\ marks' \subseteq Marks
      /\ <<u, "unaudited">> \in marks'
  BY <1>1, <1>2 DEF OfficeInv, AccountRowsInv, Marks
<1>5. \A v : ~ Excused(v, "unaudited")' => v # u
  BY <1>4 DEF Excused
<1>6. ShapesInv' /\ CountsInv'
  BY <1>1, <1>3, IdleShape, ShapesMoved, CountsMoved DEF OfficeInv, Proceeds
<1>7. AccountRowsInv'
  BY <1>1, <1>4 DEF OfficeInv, AccountRowsInv
<1>8. /\ thread'[t] = r /\ \A s \in Threads \ {t} : thread'[s] = thread[s]
  BY <1>1 DEF OfficeInv, ShapesInv
<1>9. /\ audit' \in [Actions \X Users -> Nat] /\ falls' \in [Users -> Nat]
      /\ audit' = audit /\ falls' = falls /\ users' = users
  BY <1>1 DEF OfficeInv, CountsInv
<1>10. ASSUME NEW v \in Users, ~ Excused(v, "unaudited")'
       PROVE  /\ falls'[v] + audit[<<"USER_DEACTIVATED", v>>]
                    + Logs(thread[t], "USER_DEACTIVATED", v) <=
                  falls[v] + audit'[<<"USER_DEACTIVATED", v>>] + Logs(r, "USER_DEACTIVATED", v)
              /\ audit'[<<"USER_CREATED", v>>] + Logs(r, "USER_CREATED", v) + Mails(r, v)
                    + Exists(v, DOMAIN users) =
                  audit[<<"USER_CREATED", v>>] + Logs(thread[t], "USER_CREATED", v)
                    + Mails(thread[t], v) + Exists(v, DOMAIN users')
  <2>1. v # u
    BY <1>4, <1>10 DEF Excused
  <2>2. \A a : Logs(thread[t], a, v) = 0 /\ Logs(r, a, v) = 0
    BY <2>1, IdleShape DEF r, Logs
  <2>3. Mails(thread[t], v) = 0 /\ Mails(r, v) = 0 /\ Exists(v, DOMAIN users) \in Nat
    BY <2>1, IdleShape DEF r, Mails, Exists
  <2>4. /\ falls[v] \in Nat /\ audit[<<"USER_DEACTIVATED", v>>] \in Nat
        /\ audit[<<"USER_CREATED", v>>] \in Nat
    BY DEF OfficeInv, CountsInv, Actions
  <2> QED
    BY <1>9, <2>2, <2>3, <2>4
<1>11. DOMAIN users \subseteq DOMAIN users'
  BY <1>9
<1> HIDE DEF r, u
<1>12. AuditInv'
  BY <1>1, <1>4, <1>8, <1>9, <1>10, <1>11, AuditKept
<1> QED
  BY <1>3, <1>6, <1>7, <1>12 DEF OfficeInv

-----------------------------------------------------------------------------
(* The office *)

LEMMA OfficeInit == Init => OfficeInv
<1> SUFFICES ASSUME Init PROVE OfficeInv
  OBVIOUS
<1>1. /\ users = [u \in Founders |->
                   [role |-> "ADMIN", active |-> TRUE, reset |-> None, expires |-> 0]]
      /\ audit = [a \in Actions \X Users |-> 0] /\ thread = [t \in Threads |-> Idle]
      /\ now = 0 /\ requests = 0 /\ mailbox = [u \in Users |-> None] /\ spent = {}
      /\ falls = [u \in Users |-> 0] /\ marks = {}
      /\ leads = <<>> /\ optOut = {} /\ told = [l \in LeadIds |-> {}]
      /\ silent = [l \in LeadIds |-> {}] /\ repeated = {}
  BY DEF Init, AccountsInit
<1>2. \A t \in Threads : thread[t] = Idle /\ thread[t].op = "idle"
  BY <1>1, IdleShape
<1>3. ShapesInv
  BY <1>1, <1>2, IdleShape DEF ShapesInv
<1>4. AccountRowsInv
  BY <1>1, AccountConstants DEF AccountRowsInv, UserRow, Roles
<1>5. LeadRowsInv
  BY <1>1, AccountConstants DEF LeadRowsInv
<1>6. Busy = {} /\ Editing = {} /\ \A a, u : LoggingIn(thread, a, u) = {} /\ WelcomingIn(thread, u) = {}
  BY <1>2 DEF Busy, BusyIn, Editing, LoggingIn, WelcomingIn
<1>7. IsFiniteSet({}) /\ Cardinality({}) = 0
  BY FS_EmptySet
<1>8. CountsInv
  BY <1>1, <1>6, <1>7, AccountConstants DEF CountsInv
<1>9. ASSUME NEW u \in Users PROVE Deactivated(u) /\ (u \notin Founders => Created(u))
  <2>1. <<"USER_DEACTIVATED", u>> \in Actions \X Users /\ <<"USER_CREATED", u>> \in Actions \X Users
    BY DEF Actions
  <2>2. /\ falls[u] = 0 /\ audit[<<"USER_DEACTIVATED", u>>] = 0
        /\ audit[<<"USER_CREATED", u>>] = 0 /\ DOMAIN users = Founders
    BY <1>1, <2>1
  <2>3. /\ Cardinality(Logging("USER_DEACTIVATED", u)) = 0
        /\ Cardinality(Logging("USER_CREATED", u)) = 0 /\ Cardinality(Welcoming(u)) = 0
    BY <1>6, <1>7 DEF Logging, Welcoming
  <2>4. Deactivated(u)
    BY <2>2, <2>3 DEF Deactivated
  <2>5. u \notin Founders => Created(u)
    BY <2>2, <2>3 DEF Created
  <2> QED
    BY <2>4, <2>5
<1>10. AuditInv
  BY <1>1, <1>9 DEF AuditInv
<1> QED
  BY <1>3, <1>4, <1>5, <1>8, <1>10 DEF OfficeInv

LEMMA OfficeStep == OfficeInv /\ [Next]_vars => OfficeInv'
<1> SUFFICES ASSUME OfficeInv, [Next]_vars PROVE OfficeInv'
  OBVIOUS
<1>1. ASSUME NEW t \in Threads, LeadStep(t) PROVE OfficeInv'
  BY <1>1, LeadStepsKeepOffice
<1>2. ASSUME NEW t \in Threads, AccountStep(t), UNCHANGED leadVars PROVE OfficeInv'
  BY <1>2, ReadsKeepOffice, LinkStepsKeepOffice, CreateUserKeepsOffice, WelcomeKeepsOffice,
     CommitEditKeepsOffice, WriteLogKeepsOffice, LoseUnauditedKeepsOffice
  DEF AccountStep, UserRequest
<1>3. ASSUME UNCHANGED <<thread, users, audit, mailbox, spent, falls, marks, leads, told, silent,
                         repeated>>,
             requests' = requests \/ (requests < MaxRequests /\ requests' = requests + 1),
             now' \in 0 .. MaxNow, optOut' \subseteq DOMAIN users
      PROVE  OfficeInv'
  <2>1. ShapesInv' /\ CountsInv' /\ AuditInv'
    BY <1>3, NoMove
  <2>2. AccountRowsInv' /\ LeadRowsInv'
    BY <1>3 DEF OfficeInv, AccountRowsInv, LeadRowsInv
  <2> QED
    BY <2>1, <2>2 DEF OfficeInv
<1>4. now \in 0 .. MaxNow /\ MaxNow \in Nat /\ optOut \subseteq DOMAIN users
  BY AccountConstants DEF OfficeInv, AccountRowsInv, LeadRowsInv
<1>5. ASSUME NEW u \in Users, NEW enabled \in BOOLEAN, SetPreference(u, enabled) PROVE OfficeInv'
  <2>1. /\ UNCHANGED <<thread, users, audit, mailbox, spent, falls, marks, leads, told, silent,
                       repeated>>
        /\ now' = now
        /\ requests < MaxRequests /\ requests' = requests + 1
        /\ u \in DOMAIN users
        /\ optOut' = optOut \ {u} \/ optOut' = optOut \union {u}
    BY <1>5 DEF SetPreference, Counts, accountRows, accountNotes, leadNotes
  <2>2. now' \in 0 .. MaxNow /\ optOut' \subseteq DOMAIN users
    BY <1>4, <2>1
  <2> QED
    BY <1>3, <2>1, <2>2
<1>6. CASE Tick /\ UNCHANGED leadVars
  <2>1. /\ UNCHANGED <<thread, users, audit, mailbox, spent, falls, marks, leads, told, silent,
                       repeated>>
        /\ requests' = requests /\ optOut' = optOut /\ now < MaxNow /\ now' = now + 1
    BY <1>6 DEF Tick, accountRows, accountNotes, leadVars, leadRows, leadNotes
  <2>2. now' \in 0 .. MaxNow /\ optOut' \subseteq DOMAIN users
    BY <1>4, <2>1
  <2>3. requests' = requests \/ (requests < MaxRequests /\ requests' = requests + 1)
    BY <2>1
  <2>4. UNCHANGED <<thread, users, audit, mailbox, spent, falls, marks, leads, told, silent,
                    repeated>>
    BY <2>1
  <2> QED
    BY <1>3, <2>2, <2>3, <2>4, Zenon
<1>7. CASE UNCHANGED vars
  <2>1. /\ UNCHANGED <<thread, users, audit, mailbox, spent, falls, marks, leads, told, silent,
                       repeated>>
        /\ requests' = requests /\ optOut' = optOut /\ now' = now
    BY <1>7 DEF vars, accountRows, accountNotes, leadVars, leadRows, leadNotes
  <2>2. now' \in 0 .. MaxNow /\ optOut' \subseteq DOMAIN users
    BY <1>4, <2>1
  <2>3. requests' = requests \/ (requests < MaxRequests /\ requests' = requests + 1)
    BY <2>1
  <2>4. UNCHANGED <<thread, users, audit, mailbox, spent, falls, marks, leads, told, silent,
                    repeated>>
    BY <2>1
  <2> QED
    BY <1>3, <2>2, <2>3, <2>4, Zenon
<1> QED
  BY <1>1, <1>2, <1>5, <1>6, <1>7 DEF Next

LEMMA OfficeInvariant == Spec => []OfficeInv
BY OfficeInit, OfficeStep, PTL DEF Spec

LEMMA OfficeMeansTypes == OfficeInv => TypeOK
<1> SUFFICES ASSUME OfficeInv PROVE TypeOK
  OBVIOUS
<1>1. requests \in Nat /\ requests <= MaxRequests /\ MaxRequests \in Nat
  BY AccountConstants DEF OfficeInv, CountsInv
<1>2. Cardinality(Busy) \in Nat /\ Cardinality(Editing) \in Nat
  <2>1. IsFiniteSet(Busy) /\ Editing \subseteq Busy
    BY DEF OfficeInv, CountsInv, Busy, BusyIn, Editing
  <2> QED
    BY <2>1, FS_Subset, FS_CardinalityType
<1>3. audit \in [Actions \X Users -> 0 .. MaxRequests]
  BY <1>1, <1>2 DEF OfficeInv, CountsInv
<1>4. falls \in [Users -> 0 .. MaxRequests]
  BY <1>1, <1>2 DEF OfficeInv, CountsInv
<1>5. AccountsTypeOK
  BY <1>1, <1>3, <1>4 DEF OfficeInv, CountsInv, AccountRowsInv, AccountsTypeOK
<1>6. ASSUME NEW t \in Threads
      PROVE  \/ thread[t].op = "idle"
             \/ thread[t].op \in {"welcome", "reset", "link", "confirm", "log"}
                  /\ thread[t].user \in DOMAIN users
             \/ thread[t].op = "edit" /\ thread[t].loaded.active \in BOOLEAN
                  /\ thread[t].data \in Patches
             \/ thread[t].op = "submit" /\ thread[t].email \in Emails
             \/ thread[t].op \in {"assign", "tell"} /\ thread[t].lead \in DOMAIN leads
  BY DEF OfficeInv, ShapesInv, RequestShape, LinkOps, LeadOps
<1> QED
  BY <1>5, <1>6 DEF OfficeInv, LeadRowsInv, TypeOK

\* Users, their links, their audit rows, the leads, their mails and every
\* request in flight stay of their kind, whatever overlaps; the audit log never
\* has more rows of an action on a user than requests were made
\* (users/service.py, auth/service.py, leads/service.py).
THEOREM TypeCorrect == Spec => []TypeOK
BY OfficeMeansTypes, OfficeInvariant, PTL

\* No user stops being active, and none is created, without the audit row that
\* says so or the request that is about to write it, unless that request died
\* or its mail failed (users/service.py update_user, create_user).
THEOREM ChangesAreAudited == Spec => []StatusChangesAreAudited
<1>1. OfficeInv => StatusChangesAreAudited
  <2> SUFFICES ASSUME OfficeInv, NEW u \in DOMAIN users, ~ Excused(u, "unaudited")
               PROVE  /\ falls[u] <= audit[<<"USER_DEACTIVATED", u>>] + Cardinality({t \in Threads :
                           thread[t].op = "log" /\ thread[t].action = "USER_DEACTIVATED"
                             /\ thread[t].user = u})
                      /\ u \notin Founders
                           /\ {t \in Threads : thread[t].op = "welcome" /\ thread[t].user = u} = {} =>
                         audit[<<"USER_CREATED", u>>] + Cardinality({t \in Threads :
                           thread[t].op = "log" /\ thread[t].action = "USER_CREATED"
                             /\ thread[t].user = u}) = 1
    BY DEF StatusChangesAreAudited
  <2>1. u \in Users
    BY DEF OfficeInv, AccountRowsInv
  <2>2. Deactivated(u) /\ (u \notin Founders => Created(u))
    BY <2>1 DEF OfficeInv, AuditInv
  <2>3. ASSUME u \notin Founders, Welcoming(u) = {}
        PROVE  audit[<<"USER_CREATED", u>>] + Cardinality(Logging("USER_CREATED", u)) = 1
    <3>1. Cardinality(Welcoming(u)) = 0
      BY <2>3, FS_EmptySet
    <3>2. audit[<<"USER_CREATED", u>>] \in Nat
      BY <2>1 DEF OfficeInv, CountsInv, Actions
    <3>3. IsFiniteSet(Busy) /\ Logging("USER_CREATED", u) \subseteq Busy
      BY DEF OfficeInv, CountsInv, Busy, BusyIn, Logging, LoggingIn
    <3>4. Cardinality(Logging("USER_CREATED", u)) \in Nat
      BY <3>3, FS_Subset, FS_CardinalityType
    <3> QED
      BY <2>2, <2>3, <3>1, <3>2, <3>4 DEF Created
  <2> QED
    BY <2>2, <2>3 DEF Deactivated, Logging, LoggingIn, Welcoming, WelcomingIn
<1> QED
  BY <1>1, OfficeInvariant, PTL
=============================================================================
