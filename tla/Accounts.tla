------------------------------ MODULE Accounts ------------------------------
(***************************************************************************)
(* Users, password resets and the audit log (src/app/modules/users, auth,  *)
(* audit_logs).  A request is a chain of transactions, mails and one more  *)
(* transaction for the audit row.  Names and e-mail addresses are payload: *)
(* a duplicate address ends a request with nothing changed.  Login and the *)
(* tokens it hands out change no row.                                      *)
(***************************************************************************)
EXTENDS Integers, FiniteSets

CONSTANTS
  Users, Founders,  \* ids, and the administrators the office starts with
  Links,            \* reset tokens, each drawn once
  None,
  Threads,          \* requests in flight at the same time
  ResetMinutes,     \* password_reset_expire_minutes
  MaxNow,           \* bound: ticks of the clock
  MaxRequests       \* bound: requests started

ASSUME AccountConstants ==
  /\ Founders \subseteq Users
  /\ None \notin Users \union Links
  /\ None \notin {"USER_CREATED", "USER_UPDATED", "USER_DEACTIVATED"}
  /\ ResetMinutes \in Nat /\ MaxNow \in Nat /\ MaxRequests \in Nat

VARIABLES
  users,     \* rows by id
  audit,     \* how many rows of audit_logs each action on each user has
  thread,    \* what each request still has to do
  now,
  requests,  \* bound: requests so far
  mailbox,   \* observation: the last reset link each user was sent
  spent,     \* observation: links that changed a password
  falls,     \* observation: how often each user stopped being active
  marks      \* observation: what went wrong around a user or a link

accountRows == <<users, audit>>
accountNotes == <<mailbox, spent, falls, marks>>

-----------------------------------------------------------------------------
(* Data *)

Roles == {"ADMIN", "USER"}

UserRow == [role : Roles, active : BOOLEAN, reset : Links \union {None},
            expires : 0 .. MaxNow + ResetMinutes]

Actions == {"USER_CREATED", "USER_UPDATED", "USER_DEACTIVATED"}

AtMostOne(S) == {{}} \union {{x} : x \in S}

\* UserUpdate: a field that is not sent is the empty set.  A name or an address
\* matters only when nothing else is sent.
Patches ==
  {d \in [name : AtMostOne({"new"}), role : AtMostOne(Roles), active : AtMostOne(BOOLEAN)] :
     d.name = {} \/ (d.role = {} /\ d.active = {})}

Put(f, x, v) == [y \in DOMAIN f \union {x} |-> IF y = x THEN v ELSE f[y]]

Idle == [op |-> "idle"]

Goto(t, r) == thread' = [thread EXCEPT ![t] = r]

\* Bound: one request more.
Counts ==
  /\ requests < MaxRequests
  /\ requests' = requests + 1

Starts(t) == thread[t] = Idle /\ Counts

\* require_admin
Admin(u) == u \in DOMAIN users /\ users[u].active /\ users[u].role = "ADMIN"

Marks == (Users \X {"unaudited"}) \union (Links \X {"crossed", "raced", "twice"})

Mark(S, why) == marks' = marks \union (S \X {why})

\* Requests on the reset link of a user.
Resetting(u) ==
  {t \in Threads : thread[t].op \in {"reset", "link", "confirm"} /\ thread[t].user = u}

-----------------------------------------------------------------------------
(* Users *)

AccountsInit ==
  /\ users = [u \in Founders |->
               [role |-> "ADMIN", active |-> TRUE, reset |-> None, expires |-> 0]]
  /\ audit = [a \in Actions \X Users |-> 0]
  /\ thread = [t \in Threads |-> Idle]
  /\ now = 0
  /\ requests = 0
  /\ mailbox = [u \in Users |-> None]
  /\ spent = {}
  /\ falls = [u \in Users |-> 0]
  /\ marks = {}

\* create_user up to its commit.
CreateUser(t, by, u) ==
  /\ Starts(t)
  /\ Admin(by)
  /\ u \notin DOMAIN users
  /\ users' = Put(users, u, [role |-> "USER", active |-> TRUE, reset |-> None, expires |-> 0])
  /\ Goto(t, [op |-> "welcome", user |-> u])
  /\ UNCHANGED <<audit, now, accountNotes>>

\* The mail with the temporary password; if it fails the request ends here.
Welcome(t, sent) ==
  LET r == thread[t]
  IN  /\ r.op = "welcome"
      /\ Goto(t, IF sent THEN [op |-> "log", action |-> "USER_CREATED", user |-> r.user]
                 ELSE Idle)
      /\ Mark(IF sent THEN {} ELSE {r.user}, "unaudited")
      /\ UNCHANGED <<accountRows, now, requests, mailbox, spent, falls>>

ReadUser(t, by, u, data) ==
  /\ Starts(t)
  /\ Admin(by)
  /\ u \in DOMAIN users
  /\ Goto(t, [op |-> "edit", user |-> u, data |-> data,
              loaded |-> [role |-> users[u].role, active |-> users[u].active]])
  /\ UNCHANGED <<accountRows, now, accountNotes>>

\* A column is written when it differs from the row that was loaded.
Written(row, loaded, data) ==
  [row EXCEPT !.role = CHOOSE x \in Roles :
                 IF data.role \subseteq {loaded.role} THEN x = @ ELSE x \in data.role,
              !.active = CHOOSE x \in BOOLEAN :
                 IF data.active \subseteq {loaded.active} THEN x = @ ELSE x \in data.active]

Sent(data) == data.name \union data.role # {} \/ data.active # {}

\* Mutant: the test comes after the assignment, when nobody is active any more.
LoggedAfterwards(loaded, data) == IF Sent(data) THEN "USER_UPDATED" ELSE None

\* The audit action of update_user.
Logged(loaded, data) ==
  IF data.active = {FALSE} /\ loaded.active THEN "USER_DEACTIVATED"
  ELSE IF Sent(data) THEN "USER_UPDATED"
  ELSE None

CommitEdit(t) ==
  LET r == thread[t]
      row == Written(users[r.user], r.loaded, r.data)
      action == Logged(r.loaded, r.data)
  IN  /\ r.op = "edit"
      /\ users' = [users EXCEPT ![r.user] = row]
      /\ falls' = [falls EXCEPT ![r.user] =
                     @ + (IF users[r.user].active /\ ~row.active THEN 1 ELSE 0)]
      /\ Goto(t, IF action = None THEN Idle
                 ELSE [op |-> "log", action |-> action, user |-> r.user])
      /\ UNCHANGED <<audit, now, requests, mailbox, spent, marks>>

\* The audit row has a transaction of its own.
WriteLog(t) ==
  LET r == thread[t]
  IN  /\ r.op = "log"
      /\ audit' = [audit EXCEPT ![<<r.action, r.user>>] = @ + 1]
      /\ Goto(t, Idle)
      /\ UNCHANGED <<users, now, requests, accountNotes>>

-----------------------------------------------------------------------------
(* Password resets *)

\* Mutant: the deadline is counted from itself.
ReadResetLater(t, u) ==
  /\ Starts(t)
  /\ u \in DOMAIN users
  /\ users[u].active
  /\ Goto(t, [op |-> "reset", user |-> u, expires |-> now + ResetMinutes + ResetMinutes])
  /\ UNCHANGED <<accountRows, now, accountNotes>>

\* request_reset, for an active user.
ReadReset(t, u) ==
  /\ Starts(t)
  /\ u \in DOMAIN users
  /\ users[u].active
  /\ Goto(t, [op |-> "reset", user |-> u, expires |-> now + ResetMinutes])
  /\ UNCHANGED <<accountRows, now, accountNotes>>

\* The links that requests in S have at hand.
Carried(S) == {thread[s].link : s \in {x \in S : thread[x].op \in {"link", "confirm"}}}

\* A token is random: none that was stored, mailed, used or marked comes again.
FreshLinks ==
  Links \ (spent \union {mailbox[u] : u \in Users} \union {users[u].reset : u \in DOMAIN users}
             \union Carried(Threads) \union {m[1] : m \in marks})

\* The new link replaces the one of another request on its way to the mail,
\* and a confirmation past its lookup is going to clear it.
CommitReset(t, k) ==
  LET r == thread[t]
      others == Resetting(r.user) \ {t}
  IN  /\ r.op = "reset"
      /\ k \in FreshLinks
      /\ users' = [users EXCEPT ![r.user].reset = k, ![r.user].expires = r.expires]
      /\ Goto(t, [op |-> "link", user |-> r.user, link |-> k])
      /\ Mark(Carried(others) \union IF Carried(others) = {} THEN {} ELSE {k}, "crossed")
      /\ UNCHANGED <<audit, now, requests, mailbox, spent, falls>>

\* If the mail fails, the one sent before holds a link that was replaced.
SendLink(t, sent) ==
  LET r == thread[t]
  IN  /\ r.op = "link"
      /\ mailbox' = IF sent THEN [mailbox EXCEPT ![r.user] = r.link] ELSE mailbox
      /\ Goto(t, Idle)
      /\ Mark(IF sent THEN {} ELSE {mailbox[r.user]} \ {None}, "crossed")
      /\ UNCHANGED <<accountRows, now, requests, spent, falls>>

Confirming == {t \in Threads : thread[t].op = "confirm"}

\* confirm_reset: the row that stores the link, not yet expired.
ReadConfirm(t, u) ==
  /\ Starts(t)
  /\ u \in DOMAIN users
  /\ users[u].reset # None
  /\ users[u].expires >= now
  /\ Goto(t, [op |-> "confirm", user |-> u, link |-> users[u].reset])
  /\ Mark({users[u].reset} \intersect Carried(Confirming), "raced")
  /\ UNCHANGED <<accountRows, now, mailbox, spent, falls>>

\* Mutant: the password changes and the link stays.
CommitConfirmOnly(t) ==
  LET r == thread[t]
  IN  /\ r.op = "confirm"
      /\ spent' = spent \union {r.link}
      /\ Goto(t, Idle)
      /\ Mark({r.link} \intersect spent, "twice")
      /\ UNCHANGED <<accountRows, now, requests, mailbox, falls>>

\* The password changes, whoever changed it since the lookup, and whatever link
\* is stored by now is cleared.
CommitConfirm(t) ==
  LET r == thread[t]
  IN  /\ r.op = "confirm"
      /\ users' = [users EXCEPT ![r.user].reset = None, ![r.user].expires = 0]
      /\ spent' = spent \union {r.link}
      /\ Goto(t, Idle)
      /\ Mark({r.link} \intersect spent, "twice")
      /\ UNCHANGED <<audit, now, requests, mailbox, falls>>

-----------------------------------------------------------------------------

\* The process dies, or the database refuses the next statement.
LoseAccountRequest(t) ==
  LET r == thread[t]
  IN  /\ r.op \in {"welcome", "edit", "log", "reset", "link", "confirm"}
      /\ Goto(t, Idle)
      /\ marks' = marks
           \union (IF r.op \in {"welcome", "log"} THEN {<<r.user, "unaudited">>} ELSE {})
           \union (IF r.op = "link" THEN ({mailbox[r.user]} \ {None}) \X {"crossed"} ELSE {})
      /\ UNCHANGED <<accountRows, now, requests, mailbox, spent, falls>>

Tick ==
  /\ now < MaxNow
  /\ now' = now + 1
  /\ UNCHANGED <<accountRows, thread, requests, accountNotes>>

UserRequest(t, by) ==
  \E u \in Users :
    \/ CreateUser(t, by, u)
    \/ \E data \in Patches : ReadUser(t, by, u, data)

AccountStep(t) ==
  \/ \E by \in Users : UserRequest(t, by)
  \/ \E sent \in BOOLEAN : Welcome(t, sent) \/ SendLink(t, sent)
  \/ CommitEdit(t)
  \/ WriteLog(t)
  \/ \E u \in Users : ReadReset(t, u) \/ ReadConfirm(t, u)
  \/ \E k \in Links : CommitReset(t, k)
  \/ CommitConfirm(t)
  \/ LoseAccountRequest(t)

AccountsTypeOK ==
  /\ DOMAIN users \subseteq Users /\ \A u \in DOMAIN users : users[u] \in UserRow
  /\ audit \in [Actions \X Users -> 0 .. MaxRequests]
  /\ now \in 0 .. MaxNow
  /\ requests \in 0 .. MaxRequests
  /\ mailbox \in [Users -> Links \union {None}]
  /\ spent \subseteq Links
  /\ falls \in [Users -> 0 .. MaxRequests]
  /\ marks \subseteq Marks

Excused(x, why) == <<x, why>> \in marks

\* ENDPOINTS.md:261 calls a reset link single-use.  The code does not see to it:
\* of two confirmations past the lookup (auth/service.py:93) both change the
\* password.  What it does is that this is the only way to a second use, over
\* any sequence of resets and confirmations; and that the last link a user was
\* sent is the one confirm_reset will find until it is used, unless a newer one
\* is stored and its mail is under way or failed, or it was stored beside a link
\* on its way to the mail or a confirmation past its lookup.
LinksLastUntilUsed ==
  /\ \A k \in Links : Excused(k, "twice") => Excused(k, "raced")
  /\ \A u \in DOMAIN users : mailbox[u] \notin spent \union {None} =>
       \/ users[u].reset = mailbox[u]
       \/ \E t \in Resetting(u) : thread[t].op = "link"
       \/ Excused(mailbox[u], "crossed")

\* No user stops being active, and none is created, without the audit row that
\* says so (log_user_deactivated, log_user_created), however edits overlap,
\* unless the request died or its mail failed before its second transaction.
StatusChangesAreAudited ==
  \A u \in DOMAIN users :
    LET logging(a) == Cardinality({t \in Threads :
          thread[t].op = "log" /\ thread[t].action = a /\ thread[t].user = u})
        welcomed == {t \in Threads : thread[t].op = "welcome" /\ thread[t].user = u} = {}
    IN  \/ Excused(u, "unaudited")
        \/ /\ falls[u] <= audit[<<"USER_DEACTIVATED", u>>] + logging("USER_DEACTIVATED")
           /\ u \notin Founders /\ welcomed =>
                audit[<<"USER_CREATED", u>>] + logging("USER_CREATED") = 1

=============================================================================
