----------------------------- MODULE CaseRecords -----------------------------
(***************************************************************************)
(* Clients, their notes and anonymisation (src/app/modules/clients) beside *)
(* processes, their movements and notes (src/app/modules/processes).  A    *)
(* request that reads before it writes is two steps: what it loaded and    *)
(* decided, then its transaction, which may find the rows changed.  The    *)
(* mails sent after a commit change no row and are left out.               *)
(***************************************************************************)
EXTENDS ClientRecords, Sequences, FiniteSets

CONSTANTS
  Clients, Processes, Notes,  \* ids
  Users, Admins,              \* staff, and those of role ADMIN
  Threads,                    \* requests in flight at the same time
  MaxWrites                   \* bound: transactions after the initial rows

ASSUME CaseConstants ==
  /\ None \notin Clients \union Processes
  /\ Clients \intersect Processes = {}
  /\ Admins \subseteq Users
  /\ IsFiniteSet(Threads)
  /\ MaxWrites \in Nat

VARIABLES
  clients,    \* rows by id
  processes,  \* rows by id
  movements,  \* rows of process_movements in the order of their insertion
  notes,      \* rows of client_notes and process_notes by id
  audit,      \* CLIENT_ANONYMIZED rows of audit_logs
  thread,     \* what each request loaded
  writes,     \* bound: transactions so far
  overlapped  \* observation: clients written from a row that had changed, notes
              \* and processes whose request overlapped the client's erasure

vars == <<clients, processes, movements, notes, audit, thread, writes, overlapped>>

-----------------------------------------------------------------------------
(* Rows *)

Statuses == {"ATIVO", "SUSPENSO", "ARQUIVADO", "ENCERRADO"}

Open == {"ATIVO", "SUSPENSO"}

ProcessRow == [client : Clients \union {None}, status : Statuses]

\* "stale": the status had changed since the request read it.
MovementRow ==
  [process : Processes, kind : {"created", "manual", "status"},
   from : Statuses, to : Statuses, stale : BOOLEAN]

\* "text": what somebody wrote; process_notes are never deleted.
NoteRow ==
  [owner : Clients \union Processes, author : Users,
   content : {"text", "placeholder"}, deleted : BOOLEAN]

\* "after": the movements there were then; both tables have a created_at.
AuditRow ==
  [client : Clients, name : {"named", "placeholder"}, by : Admins, after : Nat]

Idle == [op |-> "idle"]

Requests ==
  {Idle}
    \union [op : {"patch"}, id : Clients, row : ClientRow, data : UNION
              {[S -> Cpfs \union Cnpjs \union {None, "named", "given", "empty"}] :
                 S \in SUBSET {"name", "contact", "cpf", "cnpj"}}]
    \union [op : {"anonymize"}, id : Clients, row : ClientRow, by : Admins]
    \union [op : {"erase"}, id : Clients, row : ClientRow, by : Admins,
              notes : SUBSET Notes]
    \union [op : {"note"}, id : Clients, note : Notes, by : Users]
    \union [op : {"edit"}, note : Notes]
    \union [op : {"create"}, process : Processes, id : Clients \union {None}]
    \union [op : {"status"}, process : Processes, loaded : Statuses, to : Statuses]

Put(f, x, v) == [y \in DOMAIN f \union {x} |-> IF y = x THEN v ELSE f[y]]

\* get_by_id without include_deleted.
Live == {c \in DOMAIN clients : ~clients[c].deleted}

\* Mutant: suspended processes do not count.
OpenProcessesActive(c) ==
  {p \in DOMAIN processes : processes[p].client = c /\ processes[p].status = "ATIVO"}

\* count_active_or_suspended_by_client
OpenProcesses(c) ==
  {p \in DOMAIN processes : processes[p].client = c /\ processes[p].status \in Open}

NotesOf(c) == {n \in DOMAIN notes : notes[n].owner = c}

\* An anonymisation that has read the client, and one that has its notes too.
Erasing(c) == \E t \in Threads : thread[t].op = "erase" /\ thread[t].id = c

Anonymising(c) ==
  Erasing(c) \/ \E t \in Threads : thread[t].op = "anonymize" /\ thread[t].id = c

\* The notes and processes that requests in flight are about to write for c.
InFlight(c) ==
  {x \in Notes \union Processes : \E t \in Threads :
     \/ thread[t].op = "note" /\ thread[t].id = c /\ thread[t].note = x
     \/ thread[t].op = "edit" /\ notes[thread[t].note].owner = c /\ thread[t].note = x
     \/ thread[t].op = "create" /\ thread[t].id = c /\ thread[t].process = x}

\* Where the history of a process tells its statuses.
StatusMovements(p) ==
  {i \in DOMAIN movements : movements[i].process = p /\ movements[i].kind # "manual"}

-----------------------------------------------------------------------------
(* An office at work: a client with a closed process and a note            *)

InitialMovements(p) ==
  <<[process |-> p, kind |-> "created", from |-> "ATIVO", to |-> "ATIVO", stale |-> FALSE],
    [process |-> p, kind |-> "status", from |-> "ATIVO", to |-> "ARQUIVADO", stale |-> FALSE]>>

Init ==
  \E c \in Clients, p \in Processes, n \in Notes, u \in Users :
    \E person \in {r \in NewRows : r.contact = "given" /\ r.cpf # None} :
      /\ clients = [x \in {c} |-> person]
      /\ processes = [x \in {p} |-> [client |-> c, status |-> "ARQUIVADO"]]
      /\ movements = InitialMovements(p)
      /\ notes = [x \in {n} |-> [owner |-> c, author |-> u, content |-> "text", deleted |-> FALSE]]
      /\ audit = <<>>
      /\ thread = [t \in Threads |-> Idle]
      /\ writes = 0
      /\ overlapped = {}

-----------------------------------------------------------------------------
(* Requests: what they read *)

\* Bound: room for the write of every request in flight, and one more.
Room == writes + Cardinality({t \in Threads : thread[t] # Idle}) < MaxWrites

Read(t, request) ==
  /\ thread[t] = Idle
  /\ Room
  /\ thread' = [thread EXCEPT ![t] = request]
  /\ UNCHANGED <<clients, processes, movements, notes, audit, writes, overlapped>>

\* update_client: 409 when the new document, a null too, is in another live row.
ReadPatch(t, c, data) ==
  /\ c \in Live
  /\ \A f \in Changed(clients[c], data), d \in Live \ {c} : clients[d][f] # data[f]
  /\ Read(t, [op |-> "patch", id |-> c, row |-> clients[c],
              data |-> Cleared(clients[c], data)])

\* anonymize, for an administrator who confirmed.
ReadAnonymize(t, c, u) ==
  /\ u \in Admins
  /\ c \in Live
  /\ OpenProcesses(c) = {}
  /\ Read(t, [op |-> "anonymize", id |-> c, row |-> clients[c], by |-> u])

ReadClientNote(t, c, n, u) ==
  /\ c \in Live
  /\ Read(t, [op |-> "note", id |-> c, note |-> n, by |-> u])

MayEdit(u, note) == u \in Admins \/ note.author = u

\* update_note of both services.
ReadNoteEdit(t, n, u) ==
  /\ n \in DOMAIN notes
  /\ ~notes[n].deleted
  /\ notes[n].owner \in Live \union Processes
  /\ MayEdit(u, notes[n])
  /\ Read(t, [op |-> "edit", note |-> n])

\* create_process: an unknown or deleted client is refused.
ReadProcessClient(t, p, c) ==
  /\ c \in Live \union {None}
  /\ Read(t, [op |-> "create", process |-> p, id |-> c])

\* change_status: the same status is refused.
ReadStatus(t, p, s) ==
  /\ p \in DOMAIN processes
  /\ processes[p].status # s
  /\ Read(t, [op |-> "status", process |-> p, loaded |-> processes[p].status, to |-> s])

-----------------------------------------------------------------------------
(* Requests: what they write *)

\* One more transaction; the request that made it is answered.
Commit(t) ==
  /\ writes' = writes + 1
  /\ thread' = [thread EXCEPT ![t] = Idle]

CommitPatch(t) ==
  LET r == thread[t]
      row == Flushed(clients[r.id], r.row, r.data)
  IN /\ r.op = "patch"
     /\ \A d \in DOMAIN clients \ {r.id} : ~Collide(row, clients[d])
     /\ Commit(t)
     /\ clients' = [clients EXCEPT ![r.id] = row]
     /\ overlapped' = overlapped \union (IF clients[r.id] = r.row THEN {} ELSE {r.id})
     /\ UNCHANGED <<processes, movements, notes, audit>>

\* Mutant: only the notes of the administrator who anonymises are erased.
ErasedNotesOfActor(c, u) == {n \in NotesOf(c) : ~notes[n].deleted /\ notes[n].author = u}

\* list_all_notes_by_client; deleted ones are left alone.
ErasedNotes(c, u) == {n \in NotesOf(c) : ~notes[n].deleted}

\* The transaction of an anonymisation first SELECTs the notes: no lock, and
\* what other requests commit from here on is not among them.
LoadNotes(t) ==
  LET r == thread[t]
  IN /\ r.op = "anonymize"
     /\ thread' = [thread EXCEPT ![t] =
          [op |-> "erase", id |-> r.id, row |-> r.row, by |-> r.by,
           notes |-> ErasedNotes(r.id, r.by)]]
     /\ UNCHANGED <<clients, processes, movements, notes, audit, writes, overlapped>>

\* Mutant: the name written to the audit log is read after the row was cleared.
AuditedAfterErasure(r) ==
  [client |-> r.id, name |-> ErasedData.name, by |-> r.by, after |-> Len(movements)]

\* original_name was read before the transaction.
Audited(r) ==
  [client |-> r.id, name |-> r.row.name, by |-> r.by, after |-> Len(movements)]

\* The flush of the client and of the notes it loaded, and the audit row.
CommitAnonymize(t) ==
  LET r == thread[t]
  IN /\ r.op = "erase"
     /\ Commit(t)
     /\ clients' = [clients EXCEPT ![r.id] = Flushed(@, r.row, ErasedData)]
     /\ notes' = [n \in DOMAIN notes |->
                    IF n \in r.notes
                      THEN [notes[n] EXCEPT !.content = "placeholder", !.deleted = TRUE]
                      ELSE notes[n]]
     /\ audit' = Append(audit, Audited(r))
     /\ overlapped' = overlapped \union InFlight(r.id)
                         \union (IF clients[r.id] = r.row THEN {} ELSE {r.id})
     /\ UNCHANGED <<processes, movements>>

NewNote(o, u) == [owner |-> o, author |-> u, content |-> "text", deleted |-> FALSE]

CommitClientNote(t) ==
  LET r == thread[t]
  IN /\ r.op = "note"
     /\ r.note \notin DOMAIN notes
     /\ Commit(t)
     /\ notes' = Put(notes, r.note, NewNote(r.id, r.by))
     /\ overlapped' = overlapped \union (IF Erasing(r.id) THEN {r.note} ELSE {})
     /\ UNCHANGED <<clients, processes, movements, audit>>

CommitNoteEdit(t) ==
  LET r == thread[t]
  IN /\ r.op = "edit"
     /\ Commit(t)
     /\ notes' = [notes EXCEPT ![r.note].content = "text"]
     /\ UNCHANGED <<clients, processes, movements, audit, overlapped>>

Movement(p, kind, from, to, stale) ==
  [process |-> p, kind |-> kind, from |-> from, to |-> to, stale |-> stale]

\* The process and its first movement in one transaction; the number is unique.
CommitProcess(t) ==
  LET r == thread[t]
  IN /\ r.op = "create"
     /\ r.process \notin DOMAIN processes
     /\ Commit(t)
     /\ processes' = Put(processes, r.process, [client |-> r.id, status |-> "ATIVO"])
     /\ movements' = Append(movements, Movement(r.process, "created", "ATIVO", "ATIVO", FALSE))
     /\ overlapped' = overlapped \union (IF Anonymising(r.id) THEN {r.process} ELSE {})
     /\ UNCHANGED <<clients, notes, audit>>

\* Mutant: the title is built after update_status, from the refreshed row.
StatusMovementRefreshed(r) ==
  Movement(r.process, "status", r.to, r.to, processes[r.process].status # r.loaded)

\* "Status alterado: previous -> new", with the previous status as it was read.
StatusMovement(r) ==
  Movement(r.process, "status", r.loaded, r.to, processes[r.process].status # r.loaded)

\* Mutant: the status is written by a later transaction that may be lost.
NewStatusLost(r) == [processes EXCEPT ![r.process].status = @]

NewStatus(r) == [processes EXCEPT ![r.process].status = r.to]

\* The status and the movement that tells it are committed together.
CommitStatus(t) ==
  LET r == thread[t]
  IN /\ r.op = "status"
     /\ Commit(t)
     /\ processes' = NewStatus(r)
     /\ movements' = Append(movements, StatusMovement(r))
     /\ overlapped' = overlapped \union
          (IF Anonymising(processes[r.process].client) THEN {r.process} ELSE {})
     /\ UNCHANGED <<clients, notes, audit>>

\* 500 after a constraint violation, or the server dies: nothing is written.
LoseRequest(t) ==
  /\ thread[t] # Idle
  /\ thread' = [thread EXCEPT ![t] = Idle]
  /\ UNCHANGED <<clients, processes, movements, notes, audit, writes, overlapped>>

-----------------------------------------------------------------------------
(* Requests of a single statement *)

\* create_client: a document that another row has is refused (409).
CreateClient(c, row) ==
  /\ Room
  /\ c \notin DOMAIN clients
  /\ \A d \in DOMAIN clients : ~Collide(row, clients[d])
  /\ clients' = Put(clients, c, row)
  /\ writes' = writes + 1
  /\ UNCHANGED <<processes, movements, notes, audit, thread, overlapped>>

\* create_movement: no endpoint deletes the process it read.
AddMovement(p) ==
  /\ Room
  /\ p \in DOMAIN processes
  /\ movements' = Append(movements, Movement(p, "manual", "ATIVO", "ATIVO", FALSE))
  /\ writes' = writes + 1
  /\ UNCHANGED <<clients, processes, notes, audit, thread, overlapped>>

AddProcessNote(p, n, u) ==
  /\ Room
  /\ p \in DOMAIN processes
  /\ n \notin DOMAIN notes
  /\ notes' = Put(notes, n, NewNote(p, u))
  /\ writes' = writes + 1
  /\ UNCHANGED <<clients, processes, movements, audit, thread, overlapped>>

-----------------------------------------------------------------------------
ClientRequest(t) ==
  \/ \E c \in Clients, data \in Patches : ReadPatch(t, c, data)
  \/ \E c \in Clients, u \in Users :
       ReadAnonymize(t, c, u) \/ \E n \in Notes : ReadClientNote(t, c, n, u)
  \/ \E n \in Notes, u \in Users : ReadNoteEdit(t, n, u)
  \/ CommitPatch(t)
  \/ LoadNotes(t)
  \/ CommitAnonymize(t)
  \/ CommitClientNote(t)
  \/ CommitNoteEdit(t)

ProcessRequest(t) ==
  \/ \E p \in Processes, c \in Clients \union {None} : ReadProcessClient(t, p, c)
  \/ \E p \in Processes, s \in Statuses : ReadStatus(t, p, s)
  \/ CommitProcess(t)
  \/ CommitStatus(t)

Next ==
  \/ \E t \in Threads : ClientRequest(t) \/ ProcessRequest(t) \/ LoseRequest(t)
  \/ \E c \in Clients, row \in NewRows : CreateClient(c, row)
  \/ \E p \in Processes : AddMovement(p)
  \/ \E p \in Processes, n \in Notes, u \in Users : AddProcessNote(p, n, u)

Spec == Init /\ [][Next]_vars

-----------------------------------------------------------------------------
(* Properties *)

\* Every table keeps its shape: a PATCH leaves the columns it does not set
\* (exclude_unset, clients/service.py:86), so no required one becomes null.
TypeOK ==
  /\ DOMAIN clients \subseteq Clients /\ \A c \in DOMAIN clients : clients[c] \in ClientRow
  /\ DOMAIN processes \subseteq Processes
  /\ \A p \in DOMAIN processes : processes[p] \in ProcessRow
  /\ movements \in Seq(MovementRow)
  /\ DOMAIN notes \subseteq Notes /\ \A n \in DOMAIN notes : notes[n] \in NoteRow
  /\ audit \in Seq(AuditRow)
  /\ thread \in [Threads -> Requests]
  /\ writes \in 0..MaxWrites
  /\ overlapped \subseteq Clients \union Notes \union Processes

\* A document names one client, even when checks and writes of several
\* requests interleave (clients/model.py:12-15), and no client has both
\* (clients/schema.py:38-39, clients/service.py:91-100) unless a PATCH was
\* written over a row that had changed since it was read.
DocumentsAreExclusive ==
  \A c \in DOMAIN clients :
    /\ \A d \in DOMAIN clients \ {c} : ~Collide(clients[c], clients[d])
    /\ c \in overlapped \/ clients[c].cpf = None \/ clients[c].cnpj = None

\* "Sobrescreve todos os campos PII ... anonimiza tambem o conteudo de todas as
\* notas ... Acao irreversivel" (ENDPOINTS.md:1122): an erased client and its
\* notes keep nothing, and no later request brings anything back.  Two
\* exceptions the code has: the row, when a PATCH and the anonymisation wrote
\* over each other; and a note whose own request overlapped, committed after
\* the notes were loaded (repository.py:176) or edited after they were erased.
ErasureIsComplete ==
  \A c \in DOMAIN clients : clients[c].deleted =>
    /\ c \in overlapped \/ clients[c] = ErasedData
    /\ \A n \in NotesOf(c) \ overlapped :
         notes[n].deleted /\ notes[n].content = "placeholder"

\* The erasure and its audit row are one transaction (service.py:119-125), and
\* the row is the only place left that knows the name.
ErasuresAreAudited ==
  /\ \A c \in DOMAIN clients :
       clients[c].deleted <=> \E i \in DOMAIN audit : audit[i].client = c
  /\ \A i \in DOMAIN audit : audit[i].name = "named"

\* 409 while a process is ATIVO or SUSPENSO (service.py:112-114), 404 for a new
\* case of an erased client: read back from the tables, every case an erased
\* client has was closed when the audit row was written, and none came later.
\* A case created or given a status while the anonymisation was under way is
\* the exception: nothing holds the cases between the count and the commit.
ErasedCasesWereClosed ==
  \A i \in DOMAIN audit, p \in DOMAIN processes :
    processes[p].client = audit[i].client =>
      \/ p \in overlapped
      \/ \E last \in StatusMovements(p) :
           /\ last <= audit[i].after
           /\ movements[last].to \notin Open
           /\ \A k \in StatusMovements(p) : k <= last \/ audit[i].after < k

\* The history tells the present (service.py:161-172): whatever overlapped, the
\* last status movement of a process names its status, and the first one says
\* it was created.
LastMovementNamesTheStatus ==
  \A p \in DOMAIN processes :
    \E first, last \in StatusMovements(p) :
      /\ \A i \in StatusMovements(p) : first <= i /\ i <= last
      /\ movements[first].kind = "created"
      /\ movements[last].to = processes[p].status

\* "<ANTERIOR> -> <NOVO>" (ENDPOINTS.md:1870): each change starts from
\* where the one before it ended, and changes something, unless the status had
\* changed between its read and its write.
StatusChangesChain ==
  \A p \in DOMAIN processes :
    \A i, j \in StatusMovements(p) :
      i < j /\ (\A k \in StatusMovements(p) : k <= i \/ j <= k) =>
        /\ movements[j].kind = "status"
        /\ movements[j].from # movements[j].to
        /\ movements[j].stale \/ movements[j].from = movements[i].to
=============================================================================
