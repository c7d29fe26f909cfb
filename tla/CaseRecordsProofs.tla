--------------------------- MODULE CaseRecordsProofs ---------------------------
(***************************************************************************)
(* Theorems about clients, their erasure and their cases, for any number   *)
(* of clients, documents, processes, notes, users, requests in flight and  *)
(* transactions.                                                           *)
(***************************************************************************)
EXTENDS CaseRecords, SequenceTheorems, FiniteSetTheorems, TLAPS

-----------------------------------------------------------------------------
(* What a PATCH makes of a row                                             *)

Columns == {"name", "contact", "cpf", "cnpj", "deleted"}

OneDocument(row) == row.cpf = None \/ row.cnpj = None

\* The columns a PATCH may set, with values of their kind.
PatchData(data) ==
  /\ DOMAIN data \subseteq {"name", "contact", "cpf", "cnpj"}
  /\ "name" \in DOMAIN data => data["name"] = "named"
  /\ "contact" \in DOMAIN data => data["contact"] \in {"given", "empty"}
  /\ "cpf" \in DOMAIN data => data["cpf"] \in Cpfs \union {None}
  /\ "cnpj" \in DOMAIN data => data["cnpj"] \in Cnpjs \union {None}

LEMMA RowColumns == ASSUME NEW row \in ClientRow PROVE DOMAIN row = Columns
BY DEF ClientRow, Columns

\* A flush of such data leaves a row of the table, erased or not as before,
\* and a row that has a name keeps one.
LEMMA FlushedPatch ==
  ASSUME NEW current \in ClientRow, NEW loaded, NEW data, PatchData(data)
  PROVE  LET row == Flushed(current, loaded, data)
         IN  /\ row \in ClientRow
             /\ row.deleted = current.deleted
             /\ current.name = "named" => row.name = "named"
<1> DEFINE row == Flushed(current, loaded, data)
<1>1. DOMAIN row = Columns /\ \A f \in Columns :
        row[f] = IF f \in DOMAIN data /\ data[f] # loaded[f] THEN data[f] ELSE current[f]
  BY RowColumns DEF Flushed
<1>2. row = [name |-> row["name"], contact |-> row["contact"], cpf |-> row["cpf"],
             cnpj |-> row["cnpj"], deleted |-> row["deleted"]]
  BY <1>1 DEF Flushed, Columns
<1>3. /\ row["name"] = current.name \/ row["name"] = "named"
      /\ row["contact"] \in {"given", "empty"} /\ row["cpf"] \in Cpfs \union {None}
      /\ row["cnpj"] \in Cnpjs \union {None} /\ row["deleted"] = current.deleted
  BY <1>1 DEF Columns, PatchData, ClientRow
<1> HIDE DEF row
<1>4. row \in ClientRow
  BY <1>2, <1>3 DEF ClientRow
<1> QED
  BY <1>3, <1>4 DEF row

\* Every PATCH the schema accepts is such data, once the other document is
\* cleared ...
LEMMA ClearedPatch ==
  ASSUME NEW row \in ClientRow, NEW data \in Patches
  PROVE  PatchData(Cleared(row, data))
<1>1. PatchData(data)
  BY DEF Patches, PatchData
<1> QED
  BY <1>1 DEF Cleared, PatchData

\* ... and leaves at most one document.
LEMMA ClearedLeavesOne ==
  ASSUME NEW row \in ClientRow, OneDocument(row), NEW data \in Patches
  PROVE  OneDocument(Flushed(row, row, Cleared(row, data)))
<1> DEFINE patch == Cleared(row, data)
<1> DEFINE new == Flushed(row, row, patch)
<1>1. \A f \in Columns : new[f] = IF f \in DOMAIN patch THEN patch[f] ELSE row[f]
  BY RowColumns DEF Flushed
<1>2. \/ DOMAIN data \intersect {"cpf", "cnpj"} = {}
      \/ DOMAIN data = {"cpf"}
      \/ DOMAIN data = {"cnpj"}
      \/ DOMAIN data = {"cpf", "cnpj"} /\ data["cnpj"] = None
      \/ DOMAIN data = {"cpf", "cnpj"} /\ data["cpf"] = None
  BY DEF Patches
<1>3. CASE DOMAIN data \intersect {"cpf", "cnpj"} = {}
  BY <1>1, <1>3 DEF Cleared, Columns, OneDocument
<1>4. CASE DOMAIN data = {"cpf"}
  BY <1>1, <1>4 DEF Cleared, Columns, OneDocument
<1>5. CASE DOMAIN data = {"cnpj"}
  BY <1>1, <1>5 DEF Cleared, Columns, OneDocument
<1>6. CASE DOMAIN data = {"cpf", "cnpj"} /\ (data["cpf"] = None \/ data["cnpj"] = None)
  BY <1>1, <1>6 DEF Cleared, Columns, OneDocument
<1> QED
  BY <1>2, <1>3, <1>4, <1>5, <1>6

\* What the anonymisation of a row that has not changed leaves.
LEMMA FlushedErasure ==
  ASSUME NEW current \in ClientRow, NEW loaded \in ClientRow, ~loaded.deleted
  PROVE  /\ Flushed(current, loaded, ErasedData) \in ClientRow
         /\ Flushed(current, loaded, ErasedData).deleted = TRUE
         /\ current = loaded => Flushed(current, loaded, ErasedData) = ErasedData
         /\ Flushed(current, loaded, ErasedData).cpf \in {None, current.cpf}
         /\ Flushed(current, loaded, ErasedData).cnpj \in {None, current.cnpj}
<1> DEFINE row == Flushed(current, loaded, ErasedData)
<1>1. DOMAIN row = Columns /\ \A f \in Columns :
        row[f] = IF ErasedData[f] # loaded[f] THEN ErasedData[f] ELSE current[f]
  BY RowColumns DEF Flushed, ErasedData, Columns
<1>2. row = [name |-> row["name"], contact |-> row["contact"], cpf |-> row["cpf"],
             cnpj |-> row["cnpj"], deleted |-> row["deleted"]]
  BY <1>1 DEF Flushed, Columns
<1>3. /\ row["name"] \in {"placeholder", current.name}
      /\ row["contact"] \in {"empty", current.contact}
      /\ row["cpf"] \in {None, current.cpf} /\ row["cnpj"] \in {None, current.cnpj}
      /\ row["deleted"] = TRUE
  BY <1>1 DEF Columns, ErasedData, ClientRow
<1>4. current = loaded => row["name"] = "placeholder" /\ row["contact"] = "empty"
                          /\ row["cpf"] = None /\ row["cnpj"] = None
  BY <1>1 DEF Columns, ErasedData, ClientRow
<1> HIDE DEF row
<1>5. row \in ClientRow
  BY <1>2, <1>3 DEF ClientRow
<1>6. current = loaded => row = ErasedData
  BY <1>2, <1>3, <1>4 DEF ErasedData
<1> QED
  BY <1>3, <1>5, <1>6 DEF row
-----------------------------------------------------------------------------
(* The inductive invariant                                                 *)

\* What an anonymisation in flight may rely on: open cases of its client were
\* opened by requests that overlapped it.
ErasureOK(r) ==
  /\ r.id \in DOMAIN clients /\ r.row \in ClientRow /\ ~r.row.deleted
  /\ r.row.name = "named" /\ r.by \in Admins
  /\ OpenProcesses(r.id) \subseteq overlapped

\* A client that is live, or was erased while the request for x was in flight.
Known(c, x) == c \in DOMAIN clients /\ (clients[c].deleted => x \in overlapped)

\* What a request in flight may rely on when it writes.
RequestOK(r) ==
  /\ r.op = "patch" =>
       /\ r.id \in DOMAIN clients /\ r.row \in ClientRow /\ ~r.row.deleted /\ PatchData(r.data)
       /\ r.id \in overlapped \/ OneDocument(Flushed(r.row, r.row, r.data))
  /\ r.op = "anonymize" => ErasureOK(r)
  /\ r.op = "erase" =>
       /\ ErasureOK(r)
       /\ r.notes \subseteq NotesOf(r.id)
       /\ ErasedNotes(r.id, r.by) \subseteq r.notes \union overlapped
  /\ r.op = "note" => Known(r.id, r.note) /\ r.by \in Users /\ r.note \in Notes
  /\ r.op = "edit" =>
       /\ r.note \in DOMAIN notes
       /\ notes[r.note].owner \in DOMAIN clients => Known(notes[r.note].owner, r.note)
  /\ r.op = "create" =>
       /\ r.id = None \/ Known(r.id, r.process)
       /\ r.process \in Processes
  /\ r.op = "status" => r.process \in DOMAIN processes /\ r.to \in Statuses

RequestsOK == DOMAIN thread = Threads /\ \A t \in Threads : RequestOK(thread[t])

ClientsOK == DOMAIN clients \subseteq Clients /\ \A c \in DOMAIN clients : clients[c] \in ClientRow

ProcessesOK ==
  DOMAIN processes \subseteq Processes /\ \A p \in DOMAIN processes : processes[p] \in ProcessRow

NotesOK == DOMAIN notes \subseteq Notes /\ \A n \in DOMAIN notes : notes[n] \in NoteRow

\* Only the erasure of its client deletes a note, or takes a name away.
ErasedOnlyWithClient ==
  /\ \A n \in DOMAIN notes : notes[n].deleted =>
       notes[n].owner \in DOMAIN clients /\ clients[notes[n].owner].deleted
  /\ \A c \in DOMAIN clients : ~clients[c].deleted => clients[c].name = "named"

AuditOK == audit \in Seq(AuditRow) /\ \A i \in DOMAIN audit : audit[i].client \in DOMAIN clients

CaseInv ==
  /\ RequestsOK /\ ClientsOK /\ ProcessesOK /\ NotesOK /\ ErasedOnlyWithClient /\ AuditOK
  /\ ErasuresAreAudited /\ ErasureIsComplete /\ DocumentsAreExclusive

-----------------------------------------------------------------------------
(* Steps                                                                   *)

LEMMA CaseInit == Init => CaseInv
<1> SUFFICES ASSUME Init PROVE CaseInv
  OBVIOUS
<1>1. PICK c \in Clients, p \in Processes, n \in Notes, u \in Users :
        \E person \in {r \in NewRows : r.contact = "given" /\ r.cpf # None} :
          /\ clients = [x \in {c} |-> person]
          /\ processes = [x \in {p} |-> [client |-> c, status |-> "ARQUIVADO"]]
          /\ movements = InitialMovements(p)
          /\ notes = [x \in {n} |-> [owner |-> c, author |-> u, content |-> "text",
                                     deleted |-> FALSE]]
          /\ audit = <<>>
          /\ thread = [t \in Threads |-> Idle]
          /\ writes = 0
          /\ overlapped = {}
  BY DEF Init
<1>2. PICK person \in NewRows : clients = [x \in {c} |-> person]
  BY <1>1
<1>3. person \in ClientRow /\ person.name = "named" /\ ~person.deleted /\ OneDocument(person)
  BY DEF NewRows, OneDocument
<1>4. /\ processes = [x \in {p} |-> [client |-> c, status |-> "ARQUIVADO"]]
      /\ notes = [x \in {n} |-> [owner |-> c, author |-> u, content |-> "text",
                                 deleted |-> FALSE]]
      /\ audit = <<>> /\ thread = [t \in Threads |-> Idle] /\ overlapped = {}
  BY <1>1, Zenon
<1>5. RequestsOK
  BY <1>4 DEF RequestsOK, RequestOK, Idle
<1>6. ClientsOK /\ ProcessesOK /\ NotesOK
  BY <1>2, <1>3, <1>4 DEF ClientsOK, ProcessesOK, ProcessRow, Statuses, NotesOK, NoteRow
<1>7. ErasedOnlyWithClient
  BY <1>2, <1>3, <1>4 DEF ErasedOnlyWithClient
<1>8. AuditOK /\ ErasuresAreAudited
  BY <1>2, <1>3, <1>4, EmptySeq DEF AuditOK, ErasuresAreAudited
<1>9. ErasureIsComplete
  BY <1>2, <1>3 DEF ErasureIsComplete
<1>10. DocumentsAreExclusive
  BY <1>2, <1>3 DEF DocumentsAreExclusive, OneDocument
<1> QED
  BY <1>5, <1>6, <1>7, <1>8, <1>9, <1>10 DEF CaseInv

\* What the requests in flight rely on, after a step that takes no row out of
\* a table.  It erases no client but one whose requests it marks, opens no case
\* of a client that is being anonymised and writes no note of one that is being
\* erased without marking it.
RequestsStayTrue ==
  /\ DOMAIN clients \subseteq DOMAIN clients' /\ DOMAIN notes \subseteq DOMAIN notes'
  /\ DOMAIN processes \subseteq DOMAIN processes' /\ overlapped \subseteq overlapped'
  /\ \A c \in DOMAIN clients' : clients'[c].deleted =>
       \/ c \in DOMAIN clients /\ clients[c].deleted
       \/ InFlight(c) \subseteq overlapped'
  /\ \A n \in DOMAIN notes : notes'[n].owner = notes[n].owner
  /\ \A n \in DOMAIN notes' : ~notes'[n].deleted =>
       \/ n \in DOMAIN notes /\ ~notes[n].deleted
       \/ n \in overlapped'
       \/ ~Erasing(notes'[n].owner)
  /\ \A p \in DOMAIN processes' : processes'[p].status \in Open =>
       \/ /\ p \in DOMAIN processes /\ processes[p].status \in Open
          /\ processes'[p].client = processes[p].client
       \/ p \in overlapped'
       \/ ~Anonymising(processes'[p].client)

LEMMA RequestStays ==
  ASSUME RequestsStayTrue, NotesOK, NEW s \in Threads, NEW r, r = thread[s], RequestOK(r)
  PROVE  RequestOK(r)'
<1>1. ASSUME NEW c, NEW x, Known(c, x), x \in InFlight(c) PROVE Known(c, x)'
  BY <1>1 DEF RequestsStayTrue, Known
<1>2. ASSUME NEW c, Anonymising(c), OpenProcesses(c) \subseteq overlapped
      PROVE  OpenProcesses(c)' \subseteq overlapped'
  BY <1>2 DEF RequestsStayTrue, OpenProcesses
<1>3. ASSUME ErasureOK(r), Anonymising(r.id) PROVE ErasureOK(r)'
  BY <1>2, <1>3 DEF ErasureOK, RequestsStayTrue
<1>4. r.op = "patch" => (r.op = "patch" /\ RequestOK(r))'
  BY DEF RequestOK, RequestsStayTrue
<1>5. r.op = "anonymize" => ErasureOK(r)'
  BY <1>3 DEF RequestOK, Anonymising
<1>6. r.op = "erase" =>
        /\ ErasureOK(r)' /\ r.notes \subseteq NotesOf(r.id)'
        /\ ErasedNotes(r.id, r.by)' \subseteq r.notes \union overlapped'
  <2>1. ASSUME r.op = "erase" PROVE ErasureOK(r)'
    BY <1>3, <2>1 DEF RequestOK, Anonymising, Erasing
  <2>2. ASSUME r.op = "erase", NEW n \in DOMAIN notes', notes'[n].owner = r.id, ~notes'[n].deleted
        PROVE  n \in r.notes \union overlapped'
    <3>1. Erasing(r.id)
      BY <2>2 DEF Erasing
    <3>2. ErasedNotes(r.id, r.by) \subseteq r.notes \union overlapped
      BY <2>2 DEF RequestOK
    <3>3. CASE n \in DOMAIN notes /\ ~notes[n].deleted
      BY <2>2, <3>2, <3>3 DEF ErasedNotes, NotesOf, RequestsStayTrue
    <3> QED
      BY <2>2, <3>1, <3>3 DEF RequestsStayTrue
  <2>3. ASSUME r.op = "erase" PROVE r.notes \subseteq NotesOf(r.id)'
    BY <2>3 DEF RequestOK, NotesOf, RequestsStayTrue
  <2> QED
    BY <2>1, <2>2, <2>3 DEF ErasedNotes, NotesOf
<1>7. r.op = "note" => Known(r.id, r.note)' /\ r.by \in Users /\ r.note \in Notes
  <2>1. ASSUME r.op = "note" PROVE r.note \in InFlight(r.id) /\ Known(r.id, r.note)
    BY <2>1 DEF InFlight, RequestOK
  <2> QED
    BY <1>1, <2>1 DEF RequestOK
<1>8. (r.op = "edit" =>
         /\ r.note \in DOMAIN notes
         /\ notes[r.note].owner \in DOMAIN clients => Known(notes[r.note].owner, r.note))'
  <2>1. ASSUME r.op = "edit"
        PROVE  /\ r.note \in DOMAIN notes /\ r.note \in Notes
               /\ r.note \in DOMAIN notes' /\ notes'[r.note].owner = notes[r.note].owner
    BY <2>1 DEF RequestOK, NotesOK, RequestsStayTrue
  <2>2. ASSUME r.op = "edit", NEW c, c = notes[r.note].owner, c \in DOMAIN clients' PROVE Known(c, r.note)'
    <3>1. r.note \in InFlight(c)
      BY <2>1, <2>2 DEF InFlight
    <3>2. CASE c \in DOMAIN clients
      BY <1>1, <2>2, <3>1, <3>2 DEF RequestOK
    <3>3. CASE c \notin DOMAIN clients
      BY <2>2, <3>1, <3>3 DEF Known, RequestsStayTrue
    <3> QED
      BY <3>2, <3>3
  <2>3. SUFFICES ASSUME r.op = "edit", notes'[r.note].owner \in DOMAIN clients'
                 PROVE  Known(notes[r.note].owner, r.note)'
    BY <2>1
  <2>4. PICK c : c = notes[r.note].owner
    OBVIOUS
  <2>5. Known(c, r.note)' /\ c = notes'[r.note].owner
    BY <2>1, <2>2, <2>3, <2>4
  <2> QED
    BY <2>5
<1>9. r.op = "create" => (r.id = None \/ Known(r.id, r.process)') /\ r.process \in Processes
  <2>1. ASSUME r.op = "create" PROVE r.process \in InFlight(r.id)
    BY <2>1 DEF InFlight, RequestOK
  <2> QED
    BY <1>1, <2>1 DEF RequestOK
<1>10. r.op = "status" => r.process \in DOMAIN processes' /\ r.to \in Statuses
  BY DEF RequestOK, RequestsStayTrue
<1> QED
  BY <1>4, <1>5, <1>6, <1>7, <1>8, <1>9, <1>10 DEF RequestOK

LEMMA RequestsStay ==
  ASSUME RequestsOK, NotesOK, RequestsStayTrue,
         \/ thread' = thread
         \/ \E t \in Threads : thread' = [thread EXCEPT ![t] = Idle]
  PROVE  RequestsOK'
<1>1. ASSUME NEW s \in Threads, thread'[s] = thread[s] PROVE RequestOK(thread[s])'
  <2>1. PICK r : r = thread[s]
    OBVIOUS
  <2>2. RequestOK(r)'
    BY <2>1, RequestStays DEF RequestsOK
  <2> QED
    BY <1>1, <2>1, <2>2
<1>2. ASSUME NEW s \in Threads, thread'[s] = Idle PROVE RequestOK(thread[s])'
  BY <1>2 DEF RequestOK, Idle
<1>3. DOMAIN thread' = Threads /\ \A s \in Threads : thread'[s] = thread[s] \/ thread'[s] = Idle
  BY DEF RequestsOK
<1> QED
  BY <1>1, <1>2, <1>3 DEF RequestsOK

\* The parts of the invariant about a table that a step leaves alone.
LEMMA SameRows ==
  ASSUME CaseInv, RequestsOK', ProcessesOK', overlapped \subseteq overlapped',
         UNCHANGED <<clients, notes, audit>>
  PROVE  CaseInv'
BY DEF CaseInv, ClientsOK, NotesOK, ErasedOnlyWithClient, AuditOK, ErasuresAreAudited,
       ErasureIsComplete, DocumentsAreExclusive, NotesOf

\* A request that goes on to what it read relies on true tables.
LEMMA ThreadKeeps ==
  ASSUME CaseInv, NEW t \in Threads, NEW request, RequestOK(request),
         thread' = [thread EXCEPT ![t] = request],
         UNCHANGED <<clients, processes, movements, notes, audit, overlapped>>
  PROVE  CaseInv'
<1>1. ASSUME NEW r, RequestOK(r) PROVE RequestOK(r)'
  BY <1>1 DEF RequestOK, ErasureOK, Known, OpenProcesses, ErasedNotes, NotesOf
<1>2. ASSUME NEW s \in Threads PROVE RequestOK(thread[s])'
  <2>1. PICK r : r = thread'[s] /\ RequestOK(r)
    BY DEF CaseInv, RequestsOK
  <2> QED
    BY <1>1, <2>1
<1>3. RequestsOK'
  BY <1>2 DEF CaseInv, RequestsOK
<1> QED
  BY <1>3, SameRows DEF CaseInv, ProcessesOK

LEMMA ReadKeeps ==
  ASSUME CaseInv, NEW t \in Threads, NEW request, RequestOK(request), Read(t, request)
  PROVE  CaseInv'
BY ThreadKeeps DEF Read

LEMMA ReadPatchKeeps ==
  ASSUME CaseInv, NEW t \in Threads, NEW c \in Clients, NEW data \in Patches,
         ReadPatch(t, c, data)
  PROVE  CaseInv'
<1>1. /\ c \in DOMAIN clients /\ ~clients[c].deleted /\ clients[c] \in ClientRow
      /\ c \in overlapped \/ OneDocument(clients[c])
  BY DEF ReadPatch, Live, CaseInv, ClientsOK, DocumentsAreExclusive, OneDocument
<1>2. PatchData(Cleared(clients[c], data))
  BY <1>1, ClearedPatch
<1>3. c \in overlapped \/ OneDocument(Flushed(clients[c], clients[c], Cleared(clients[c], data)))
  BY <1>1, ClearedLeavesOne
<1>4. RequestOK([op |-> "patch", id |-> c, row |-> clients[c],
                 data |-> Cleared(clients[c], data)])
  BY <1>1, <1>2, <1>3 DEF RequestOK
<1> QED
  BY <1>4, ReadKeeps DEF ReadPatch

LEMMA ReadAnonymizeKeeps ==
  ASSUME CaseInv, NEW t \in Threads, NEW c \in Clients, NEW u \in Users, ReadAnonymize(t, c, u)
  PROVE  CaseInv'
<1>1. /\ c \in DOMAIN clients /\ ~clients[c].deleted /\ clients[c] \in ClientRow
      /\ clients[c].name = "named" /\ u \in Admins /\ OpenProcesses(c) = {}
  BY DEF ReadAnonymize, Live, CaseInv, ClientsOK, ErasedOnlyWithClient
<1>2. RequestOK([op |-> "anonymize", id |-> c, row |-> clients[c], by |-> u])
  BY <1>1 DEF RequestOK, ErasureOK
<1> QED
  BY <1>2, ReadKeeps DEF ReadAnonymize

LEMMA LoadNotesKeeps ==
  ASSUME CaseInv, NEW t \in Threads, LoadNotes(t) PROVE CaseInv'
<1>1. PICK r : r = thread[t] /\ r.op = "anonymize" /\ ErasureOK(r)
  BY DEF LoadNotes, CaseInv, RequestsOK, RequestOK
<1>2. PICK request :
        /\ request = [op |-> "erase", id |-> r.id, row |-> r.row, by |-> r.by,
                      notes |-> ErasedNotes(r.id, r.by)]
        /\ thread' = [thread EXCEPT ![t] = request]
  BY <1>1 DEF LoadNotes
<1>3. RequestOK(request)
  BY <1>1, <1>2 DEF RequestOK, ErasureOK, ErasedNotes
<1> QED
  BY <1>2, <1>3, ThreadKeeps DEF LoadNotes

LEMMA OtherReadsKeep ==
  ASSUME CaseInv, NEW t \in Threads,
         \/ \E c \in Clients, n \in Notes, u \in Users : ReadClientNote(t, c, n, u)
         \/ \E n \in Notes, u \in Users : ReadNoteEdit(t, n, u)
         \/ \E p \in Processes, c \in Clients \union {None} : ReadProcessClient(t, p, c)
         \/ \E p \in Processes, s \in Statuses : ReadStatus(t, p, s)
  PROVE  CaseInv'
<1>1. ASSUME NEW c \in Clients, NEW n \in Notes, NEW u \in Users, ReadClientNote(t, c, n, u)
      PROVE  CaseInv'
  <2>1. RequestOK([op |-> "note", id |-> c, note |-> n, by |-> u])
    BY <1>1 DEF RequestOK, Known, ReadClientNote, Live
  <2> QED
    BY <1>1, <2>1, ReadKeeps DEF ReadClientNote
<1>2. ASSUME NEW n \in Notes, NEW u \in Users, ReadNoteEdit(t, n, u)
      PROVE  CaseInv'
  <2>1. RequestOK([op |-> "edit", note |-> n])
    <3>1. n \in DOMAIN notes /\ (notes[n].owner \in DOMAIN clients => Known(notes[n].owner, n))
      BY <1>2, CaseConstants DEF Known, ReadNoteEdit, Live, CaseInv, ClientsOK
    <3> QED
      BY <3>1 DEF RequestOK
  <2> QED
    BY <1>2, <2>1, ReadKeeps DEF ReadNoteEdit
<1>3. ASSUME NEW p \in Processes, NEW c \in Clients \union {None}, ReadProcessClient(t, p, c)
      PROVE  CaseInv'
  <2>1. RequestOK([op |-> "create", process |-> p, id |-> c])
    BY <1>3 DEF RequestOK, Known, ReadProcessClient, Live
  <2> QED
    BY <1>3, <2>1, ReadKeeps DEF ReadProcessClient
<1>4. ASSUME NEW p \in Processes, NEW s \in Statuses, ReadStatus(t, p, s)
      PROVE  CaseInv'
  <2>1. RequestOK([op |-> "status", process |-> p, loaded |-> processes[p].status, to |-> s])
    BY <1>4 DEF RequestOK, ReadStatus
  <2> QED
    BY <1>4, <2>1, ReadKeeps DEF ReadStatus
<1> QED
  BY <1>1, <1>2, <1>3, <1>4
LEMMA CommitPatchKeeps ==
  ASSUME CaseInv, NEW t \in Threads, CommitPatch(t) PROVE CaseInv'
<1> DEFINE r == thread[t]
<1>1. PICK row : /\ row = Flushed(clients[r.id], r.row, r.data)
                 /\ clients' = [clients EXCEPT ![r.id] = row]
                 /\ \A d \in DOMAIN clients \ {r.id} : ~Collide(row, clients[d])
  BY DEF CommitPatch
<1>2. /\ UNCHANGED <<processes, notes, audit>>
      /\ overlapped' = overlapped \union (IF clients[r.id] = r.row THEN {} ELSE {r.id})
      /\ thread' = [thread EXCEPT ![t] = Idle] /\ r.op = "patch"
  BY DEF CommitPatch, Commit
<1>3. /\ r.id \in DOMAIN clients /\ r.row \in ClientRow /\ ~r.row.deleted /\ PatchData(r.data)
      /\ r.id \in overlapped \/ OneDocument(Flushed(r.row, r.row, r.data))
      /\ clients[r.id] \in ClientRow
  BY <1>2 DEF CaseInv, RequestsOK, RequestOK, ClientsOK
<1>4. /\ row \in ClientRow /\ row.deleted = clients[r.id].deleted
      /\ clients[r.id].name = "named" => row.name = "named"
  BY <1>1, <1>3, FlushedPatch
<1>5. /\ DOMAIN clients' = DOMAIN clients /\ clients'[r.id] = row
      /\ \A c \in DOMAIN clients : c # r.id => clients'[c] = clients[c]
  BY <1>1, <1>3
<1>6. r.id \notin overlapped' => clients[r.id] = r.row /\ ~row.deleted /\ OneDocument(row)
  BY <1>1, <1>2, <1>3, <1>4
<1>7. RequestsOK' /\ ClientsOK' /\ ProcessesOK' /\ NotesOK'
  <2>1. RequestsStayTrue
    BY <1>2, <1>4, <1>5 DEF RequestsStayTrue
  <2> QED
    BY <1>2, <1>4, <1>5, <2>1, RequestsStay DEF CaseInv, ClientsOK, ProcessesOK, NotesOK
<1>8. ErasedOnlyWithClient'
  BY <1>2, <1>4, <1>5 DEF CaseInv, ErasedOnlyWithClient
<1>9. AuditOK' /\ ErasuresAreAudited'
  BY <1>2, <1>3, <1>4, <1>5 DEF CaseInv, AuditOK, ErasuresAreAudited
<1>10. ErasureIsComplete'
  <2>1. \A c \in DOMAIN clients' : clients'[c].deleted = clients[c].deleted
    BY <1>4, <1>5
  <2>2. \A c \in DOMAIN clients' : clients'[c].deleted =>
           c \in overlapped' \/ clients'[c] = ErasedData
    BY <1>2, <1>5, <1>6, <2>1 DEF CaseInv, ErasureIsComplete
  <2> QED
    BY <1>2, <1>5, <2>1, <2>2 DEF CaseInv, ErasureIsComplete, NotesOf
<1>11. DocumentsAreExclusive'
  <2>1. \A d \in DOMAIN clients \ {r.id} : ~Collide(row, clients[d]) /\ ~Collide(clients[d], row)
    BY <1>1 DEF Collide
  <2> QED
    BY <1>2, <1>5, <1>6, <2>1 DEF CaseInv, DocumentsAreExclusive, OneDocument
<1> QED
  BY <1>7, <1>8, <1>9, <1>10, <1>11 DEF CaseInv

LEMMA CommitAnonymizeKeeps ==
  ASSUME CaseInv, NEW t \in Threads, CommitAnonymize(t) PROVE CaseInv'
<1> DEFINE r == thread[t]
<1>1. PICK row : /\ row = Flushed(clients[r.id], r.row, ErasedData)
                 /\ clients' = [clients EXCEPT ![r.id] = row]
  BY DEF CommitAnonymize
<1>2. /\ processes' = processes /\ audit' = Append(audit, Audited(r))
      /\ overlapped \subseteq overlapped' /\ InFlight(r.id) \subseteq overlapped'
      /\ r.id \notin overlapped' => clients[r.id] = r.row
      /\ thread' = [thread EXCEPT ![t] = Idle] /\ r.op = "erase"
      /\ notes' = [n \in DOMAIN notes |->
                     IF n \in r.notes
                       THEN [notes[n] EXCEPT !.content = "placeholder", !.deleted = TRUE]
                       ELSE notes[n]]
  BY DEF CommitAnonymize, Commit
<1>3. /\ r.id \in DOMAIN clients /\ r.id \in Clients /\ r.row \in ClientRow /\ ~r.row.deleted
      /\ r.row.name = "named" /\ r.by \in Admins /\ clients[r.id] \in ClientRow
      /\ r.notes \subseteq NotesOf(r.id)
      /\ ErasedNotes(r.id, r.by) \subseteq r.notes \union overlapped
  BY <1>2 DEF CaseInv, RequestsOK, RequestOK, ErasureOK, ClientsOK
<1>4. /\ row \in ClientRow /\ row.deleted = TRUE
      /\ clients[r.id] = r.row => row = ErasedData
      /\ row.cpf \in {None, clients[r.id].cpf} /\ row.cnpj \in {None, clients[r.id].cnpj}
  BY <1>1, <1>3, FlushedErasure
<1>5. /\ DOMAIN clients' = DOMAIN clients /\ clients'[r.id] = row
      /\ \A c \in DOMAIN clients : c # r.id => clients'[c] = clients[c]
  BY <1>1, <1>3
<1>6. /\ DOMAIN notes' = DOMAIN notes
      /\ \A n \in DOMAIN notes :
           /\ notes'[n] \in NoteRow /\ notes'[n].owner = notes[n].owner
           /\ n \in r.notes => /\ notes[n].owner = r.id
                              /\ notes'[n].deleted = TRUE /\ notes'[n].content = "placeholder"
           /\ n \notin r.notes => notes'[n] = notes[n]
  BY <1>2, <1>3 DEF CaseInv, NotesOK, NoteRow, NotesOf
<1>7. RequestsOK' /\ ClientsOK' /\ ProcessesOK' /\ NotesOK'
  <2>1. RequestsStayTrue
    BY <1>2, <1>5, <1>6 DEF RequestsStayTrue
  <2> QED
    BY <1>2, <1>4, <1>5, <1>6, <2>1, RequestsStay DEF CaseInv, ClientsOK, ProcessesOK, NotesOK
<1>8. ErasedOnlyWithClient'
  <2>1. \A c \in DOMAIN clients : clients[c].deleted => clients'[c].deleted
    BY <1>4, <1>5
  <2>2. ASSUME NEW n \in DOMAIN notes', notes'[n].deleted
        PROVE  notes'[n].owner \in DOMAIN clients' /\ clients'[notes'[n].owner].deleted
    <3>1. CASE notes[n].owner = r.id
      BY <1>3, <1>4, <1>5, <1>6, <2>2, <3>1
    <3>2. CASE notes[n].owner # r.id
      BY <1>5, <1>6, <2>1, <2>2, <3>2 DEF CaseInv, ErasedOnlyWithClient
    <3> QED
      BY <3>1, <3>2
  <2>3. ASSUME NEW c \in DOMAIN clients', ~clients'[c].deleted
        PROVE  clients'[c].name = "named"
    <3>1. c # r.id
      BY <1>4, <1>5, <2>3
    <3> QED
      BY <1>5, <2>3, <3>1 DEF CaseInv, ErasedOnlyWithClient
  <2> QED
    BY <2>2, <2>3 DEF ErasedOnlyWithClient
<1>9. AuditOK' /\ ErasuresAreAudited'
  <2>1. Audited(r) \in AuditRow /\ Audited(r).client = r.id /\ Audited(r).name = "named"
    BY <1>3 DEF Audited, AuditRow
  <2>2. /\ audit' \in Seq(AuditRow) /\ Len(audit') = Len(audit) + 1
        /\ \A i \in 1..Len(audit) : audit'[i] = audit[i]
        /\ audit'[Len(audit) + 1] = Audited(r)
    <3>1. audit \in Seq(AuditRow)
      BY DEF CaseInv, AuditOK
    <3>2. PICK a \in AuditRow : a = Audited(r) /\ audit' = Append(audit, a)
      BY <1>2, <2>1
    <3>3. /\ Append(audit, a) \in Seq(AuditRow) /\ Len(Append(audit, a)) = Len(audit) + 1
          /\ \A i \in 1..Len(audit) : Append(audit, a)[i] = audit[i]
          /\ Append(audit, a)[Len(audit) + 1] = a
      BY <3>1, AppendProperties
    <3> QED
      BY <3>2, <3>3
  <2>3. /\ DOMAIN audit = 1..Len(audit) /\ DOMAIN audit' = 1..Len(audit') /\ Len(audit) \in Nat
    BY <2>2, LenProperties DEF CaseInv, AuditOK
  <2>4. PICK n : /\ DOMAIN audit' = DOMAIN audit \union {n} /\ n \notin DOMAIN audit
                 /\ audit'[n] = Audited(r) /\ \A i \in DOMAIN audit : audit'[i] = audit[i]
    BY <2>2, <2>3
  <2>5. AuditOK'
    BY <1>3, <1>5, <2>1, <2>2, <2>4 DEF CaseInv, AuditOK
  <2>6. ASSUME NEW c \in DOMAIN clients'
        PROVE  clients'[c].deleted <=> \E i \in DOMAIN audit' : audit'[i].client = c
    <3>1. CASE c = r.id
      BY <1>4, <1>5, <2>1, <2>4, <3>1
    <3>2. CASE c # r.id
      BY <1>5, <2>1, <2>4, <3>2 DEF CaseInv, ErasuresAreAudited
    <3> QED
      BY <3>1, <3>2
  <2>7. \A i \in DOMAIN audit' : audit'[i].name = "named"
    BY <2>1, <2>4 DEF CaseInv, ErasuresAreAudited
  <2> QED
    BY <2>5, <2>6, <2>7 DEF ErasuresAreAudited
<1>10. ErasureIsComplete'
  <2>1. ASSUME NEW c \in DOMAIN clients', clients'[c].deleted, c \notin overlapped'
        PROVE  clients'[c] = ErasedData
    <3>1. CASE c = r.id
      BY <1>2, <1>4, <1>5, <2>1, <3>1
    <3>2. CASE c # r.id
      BY <1>2, <1>5, <2>1, <3>2 DEF CaseInv, ErasureIsComplete
    <3> QED
      BY <3>1, <3>2
  <2>2. ASSUME NEW c \in DOMAIN clients', clients'[c].deleted,
               NEW n \in DOMAIN notes', notes'[n].owner = c, n \notin overlapped'
        PROVE  notes'[n].deleted /\ notes'[n].content = "placeholder"
    <3>1. CASE n \in r.notes
      BY <1>6, <2>2, <3>1
    <3>2. ASSUME n \notin r.notes PROVE clients[c].deleted
      <4>1. SUFFICES ASSUME ~clients[c].deleted PROVE FALSE
        OBVIOUS
      <4>2. c = r.id
        BY <1>5, <2>2, <4>1
      <4>3. ~notes[n].deleted /\ notes[n].owner = r.id
        BY <1>6, <2>2, <4>1, <4>2 DEF CaseInv, ErasedOnlyWithClient
      <4>4. n \in ErasedNotes(r.id, r.by)
        BY <1>6, <2>2, <4>3 DEF ErasedNotes, NotesOf
      <4> QED
        BY <1>2, <1>3, <2>2, <3>2, <4>4
    <3>3. CASE n \notin r.notes
      <4>1. c \in DOMAIN clients /\ clients[c].deleted /\ notes'[n] = notes[n]
        BY <1>5, <1>6, <2>2, <3>2, <3>3
      <4>2. n \in NotesOf(c) \ overlapped
        BY <1>2, <1>6, <2>2, <4>1 DEF NotesOf
      <4> QED
        BY <4>1, <4>2 DEF CaseInv, ErasureIsComplete
    <3> QED
      BY <3>1, <3>3
  <2> QED
    BY <2>1, <2>2 DEF ErasureIsComplete, NotesOf
<1>11. DocumentsAreExclusive'
  <2>1. \A d \in DOMAIN clients \ {r.id} : ~Collide(row, clients[d]) /\ ~Collide(clients[d], row)
    <3>1. ASSUME NEW d \in DOMAIN clients \ {r.id}
          PROVE  ~Collide(clients[r.id], clients[d])
      BY <1>3 DEF CaseInv, DocumentsAreExclusive
    <3> QED
      BY <1>4, <3>1 DEF Collide, ClientRow
  <2>2. r.id \in overlapped' \/ OneDocument(row)
    <3>1. OneDocument(ErasedData)
      BY DEF ErasedData, OneDocument
    <3> QED
      BY <1>2, <1>4, <3>1
  <2> QED
    BY <1>2, <1>5, <2>1, <2>2 DEF CaseInv, DocumentsAreExclusive, OneDocument
<1> QED
  BY <1>7, <1>8, <1>9, <1>10, <1>11 DEF CaseInv
\* A request that wrote one note.  It marks it when the client has been erased.
LEMMA OneNoteWritten ==
  ASSUME CaseInv, RequestsOK', UNCHANGED <<clients, processes, audit>>,
         NEW n \in Notes, NEW note \in NoteRow, notes' = Put(notes, n, note),
         n \in DOMAIN notes => note.owner = notes[n].owner /\ note.deleted = notes[n].deleted,
         n \notin DOMAIN notes => ~note.deleted,
         overlapped \subseteq overlapped',
         note.owner \in DOMAIN clients /\ clients[note.owner].deleted => n \in overlapped'
  PROVE  CaseInv'
<1>1. /\ DOMAIN notes' = DOMAIN notes \union {n} /\ notes'[n] = note
      /\ \A m \in DOMAIN notes : m # n => notes'[m] = notes[m]
  BY DEF Put
<1>2. ClientsOK' /\ ProcessesOK' /\ NotesOK' /\ AuditOK' /\ ErasuresAreAudited'
  BY <1>1 DEF CaseInv, ClientsOK, ProcessesOK, NotesOK, AuditOK, ErasuresAreAudited
<1>3. ErasedOnlyWithClient'
  BY <1>1 DEF CaseInv, ErasedOnlyWithClient
<1>4. ErasureIsComplete'
  <2>1. ASSUME NEW c \in DOMAIN clients, clients[c].deleted
        PROVE  /\ c \in overlapped \/ clients[c] = ErasedData
               /\ \A m \in DOMAIN notes : notes[m].owner = c /\ m \notin overlapped =>
                    notes[m].deleted /\ notes[m].content = "placeholder"
    BY <2>1 DEF CaseInv, ErasureIsComplete, NotesOf
  <2> QED
    BY <1>1, <2>1 DEF ErasureIsComplete, NotesOf
<1>5. DocumentsAreExclusive'
  BY DEF CaseInv, DocumentsAreExclusive
<1> QED
  BY <1>2, <1>3, <1>4, <1>5 DEF CaseInv

LEMMA CommitClientNoteKeeps ==
  ASSUME CaseInv, NEW t \in Threads, CommitClientNote(t) PROVE CaseInv'
<1> DEFINE r == thread[t]
<1>1. /\ UNCHANGED <<clients, processes, movements, audit>>
      /\ r.op = "note" /\ r.note \notin DOMAIN notes
      /\ notes' = Put(notes, r.note, NewNote(r.id, r.by))
      /\ overlapped \subseteq overlapped' /\ (Erasing(r.id) => r.note \in overlapped')
      /\ thread' = [thread EXCEPT ![t] = Idle]
  BY DEF CommitClientNote, Commit
<1>2. Known(r.id, r.note) /\ r.id \in Clients /\ r.by \in Users /\ r.note \in Notes
  BY <1>1 DEF CaseInv, RequestsOK, RequestOK, Known, ClientsOK
<1>3. /\ NewNote(r.id, r.by) \in NoteRow /\ ~NewNote(r.id, r.by).deleted
      /\ NewNote(r.id, r.by).owner = r.id
  BY <1>2 DEF NewNote, NoteRow
<1>4. RequestsOK'
  <2>1. RequestsStayTrue
    BY <1>1, <1>3 DEF RequestsStayTrue, Put
  <2> QED
    BY <1>1, <2>1, RequestsStay DEF CaseInv
<1> QED
  BY <1>1, <1>2, <1>3, <1>4, OneNoteWritten DEF Known

LEMMA CommitNoteEditKeeps ==
  ASSUME CaseInv, NEW t \in Threads, CommitNoteEdit(t) PROVE CaseInv'
<1> DEFINE r == thread[t]
<1>1. /\ UNCHANGED <<clients, processes, movements, audit, overlapped>> /\ r.op = "edit"
      /\ notes' = [notes EXCEPT ![r.note].content = "text"]
      /\ thread' = [thread EXCEPT ![t] = Idle]
  BY DEF CommitNoteEdit, Commit
<1>2. /\ r.note \in DOMAIN notes /\ r.note \in Notes /\ notes[r.note] \in NoteRow
      /\ notes[r.note].owner \in DOMAIN clients => Known(notes[r.note].owner, r.note)
  BY <1>1 DEF CaseInv, RequestsOK, RequestOK, NotesOK
<1>3. PICK note : note = [notes[r.note] EXCEPT !.content = "text"] /\ notes' = [notes EXCEPT ![r.note] = note]
  BY <1>1, <1>2
<1>4. note \in NoteRow /\ note.owner = notes[r.note].owner /\ note.deleted = notes[r.note].deleted
  BY <1>2, <1>3 DEF NoteRow
<1>5. notes' = Put(notes, r.note, note)
  BY <1>2, <1>3 DEF Put
<1>6. RequestsOK'
  <2>1. /\ DOMAIN notes' = DOMAIN notes
        /\ \A n \in DOMAIN notes :
             notes'[n].owner = notes[n].owner /\ notes'[n].deleted = notes[n].deleted
    BY <1>2, <1>3, <1>4
  <2>2. RequestsStayTrue
    BY <1>1, <2>1 DEF RequestsStayTrue
  <2> QED
    BY <1>1, <2>2, RequestsStay DEF CaseInv
<1> QED
  BY <1>1, <1>2, <1>4, <1>5, <1>6, OneNoteWritten DEF Known

LEMMA CommitProcessKeeps ==
  ASSUME CaseInv, NEW t \in Threads, CommitProcess(t) PROVE CaseInv'
<1> DEFINE r == thread[t]
<1>1. /\ UNCHANGED <<clients, notes, audit>>
      /\ r.op = "create" /\ overlapped \subseteq overlapped'
      /\ Anonymising(r.id) => r.process \in overlapped'
      /\ processes' = Put(processes, r.process, [client |-> r.id, status |-> "ATIVO"])
      /\ thread' = [thread EXCEPT ![t] = Idle]
      /\ r.process \notin DOMAIN processes
  BY DEF CommitProcess, Commit
<1>2. /\ DOMAIN processes' = DOMAIN processes \union {r.process}
      /\ processes'[r.process] = [client |-> r.id, status |-> "ATIVO"]
      /\ \A p \in DOMAIN processes : p # r.process => processes'[p] = processes[p]
  BY <1>1 DEF Put
<1>3. r.id \in Clients \union {None} /\ r.process \in Processes
  BY <1>1 DEF CaseInv, RequestsOK, RequestOK, Known, ClientsOK
<1>4. RequestsOK'
  <2>1. RequestsStayTrue
    BY <1>1, <1>2 DEF RequestsStayTrue
  <2> QED
    BY <1>1, <2>1, RequestsStay DEF CaseInv
<1>5. [client |-> r.id, status |-> "ATIVO"] \in ProcessRow
  BY <1>3 DEF ProcessRow, Statuses
<1>6. ProcessesOK'
  BY <1>2, <1>3, <1>5 DEF CaseInv, ProcessesOK
<1> QED
  BY <1>1, <1>4, <1>6, SameRows

LEMMA CommitStatusKeeps ==
  ASSUME CaseInv, NEW t \in Threads, CommitStatus(t) PROVE CaseInv'
<1> DEFINE r == thread[t]
<1>1. /\ UNCHANGED <<clients, notes, audit>>
      /\ overlapped \subseteq overlapped'
      /\ Anonymising(processes[r.process].client) => r.process \in overlapped'
      /\ r.op = "status" /\ processes' = [processes EXCEPT ![r.process].status = r.to]
      /\ thread' = [thread EXCEPT ![t] = Idle]
  BY DEF CommitStatus, Commit, NewStatus
<1>2. r.process \in DOMAIN processes /\ r.to \in Statuses /\ processes[r.process] \in ProcessRow
  BY <1>1 DEF CaseInv, RequestsOK, RequestOK, ProcessesOK
<1>3. PICK row : row = [processes[r.process] EXCEPT !.status = r.to]
                 /\ processes' = [processes EXCEPT ![r.process] = row]
  BY <1>1, <1>2
<1>4. row \in ProcessRow /\ row.client = processes[r.process].client
  BY <1>2, <1>3 DEF ProcessRow
<1>5. ProcessesOK'
  BY <1>2, <1>3, <1>4 DEF CaseInv, ProcessesOK
<1>6. RequestsOK'
  <2>1. /\ DOMAIN processes' = DOMAIN processes
        /\ processes'[r.process].client = processes[r.process].client
        /\ \A p \in DOMAIN processes : p # r.process => processes'[p] = processes[p]
    BY <1>2, <1>3, <1>4
  <2>2. RequestsStayTrue
    BY <1>1, <2>1 DEF RequestsStayTrue
  <2> QED
    BY <1>1, <2>2, RequestsStay DEF CaseInv
<1> QED
  BY <1>1, <1>5, <1>6, SameRows

\* A new client has a document of its own and no audit row.
LEMMA CreateClientKeeps ==
  ASSUME CaseInv, NEW c \in Clients, NEW row \in NewRows, CreateClient(c, row)
  PROVE  CaseInv'
<1>1. /\ UNCHANGED <<processes, notes, audit, thread, overlapped>>
      /\ c \notin DOMAIN clients
      /\ \A d \in DOMAIN clients : ~Collide(row, clients[d])
      /\ clients' = Put(clients, c, row)
  BY DEF CreateClient
<1>2. /\ DOMAIN clients' = DOMAIN clients \union {c} /\ clients'[c] = row
      /\ \A d \in DOMAIN clients : clients'[d] = clients[d]
  BY <1>1 DEF Put
<1>3. row \in ClientRow /\ row.name = "named" /\ ~row.deleted /\ OneDocument(row)
  BY DEF NewRows, OneDocument
<1>4. RequestsOK'
  <2>1. RequestsStayTrue
    BY <1>1, <1>2, <1>3 DEF RequestsStayTrue
  <2> QED
    BY <1>1, <2>1, RequestsStay DEF CaseInv
<1>5. ClientsOK' /\ ProcessesOK' /\ NotesOK'
  BY <1>1, <1>2, <1>3 DEF CaseInv, ClientsOK, ProcessesOK, NotesOK
<1>6. ErasedOnlyWithClient'
  BY <1>1, <1>2, <1>3 DEF CaseInv, ErasedOnlyWithClient
<1>7. AuditOK' /\ ErasuresAreAudited'
  BY <1>1, <1>2, <1>3 DEF CaseInv, AuditOK, ErasuresAreAudited
<1>8. ErasureIsComplete'
  BY <1>1, <1>2, <1>3 DEF CaseInv, ErasureIsComplete, NotesOf
<1>9. DocumentsAreExclusive'
  <2>1. \A d \in DOMAIN clients : ~Collide(row, clients[d]) /\ ~Collide(clients[d], row)
    BY <1>1 DEF Collide
  <2> QED
    BY <1>1, <1>2, <1>3, <2>1 DEF CaseInv, DocumentsAreExclusive, OneDocument
<1> QED
  BY <1>4, <1>5, <1>6, <1>7, <1>8, <1>9 DEF CaseInv

LEMMA AddProcessNoteKeeps ==
  ASSUME CaseInv, NEW p \in Processes, NEW n \in Notes, NEW u \in Users, AddProcessNote(p, n, u)
  PROVE  CaseInv'
<1>1. /\ UNCHANGED <<clients, processes, audit, thread, overlapped>>
      /\ n \notin DOMAIN notes /\ notes' = Put(notes, n, NewNote(p, u))
  BY DEF AddProcessNote
<1>2. /\ NewNote(p, u) \in NoteRow /\ ~NewNote(p, u).deleted /\ NewNote(p, u).owner = p
  BY DEF NewNote, NoteRow
<1>3. p \notin DOMAIN clients
  BY CaseConstants DEF CaseInv, ClientsOK
<1>4. ~Erasing(p)
  BY <1>3 DEF Erasing, CaseInv, RequestsOK, RequestOK, ErasureOK
<1>5. RequestsOK'
  <2>1. RequestsStayTrue
    BY <1>1, <1>2, <1>4 DEF RequestsStayTrue, Put
  <2> QED
    BY <1>1, <2>1, RequestsStay DEF CaseInv
<1> QED
  BY <1>1, <1>2, <1>3, <1>5, OneNoteWritten

LEMMA CaseStep == CaseInv /\ [Next]_vars => CaseInv'
<1> SUFFICES ASSUME CaseInv, [Next]_vars PROVE CaseInv'
  OBVIOUS
<1>1. ASSUME UNCHANGED <<clients, processes, notes, audit, overlapped>>,
             \/ thread' = thread
             \/ \E t \in Threads : thread' = [thread EXCEPT ![t] = Idle]
      PROVE  CaseInv'
  <2>1. RequestsStayTrue
    BY <1>1 DEF RequestsStayTrue
  <2>2. RequestsOK'
    BY <1>1, <2>1, RequestsStay DEF CaseInv
  <2> QED
    BY <1>1, <2>2, SameRows DEF CaseInv, ProcessesOK
<1>2. CASE UNCHANGED vars
  BY <1>1, <1>2 DEF vars
<1>3. ASSUME NEW t \in Threads, ClientRequest(t) PROVE CaseInv'
  BY <1>3, ReadPatchKeeps, ReadAnonymizeKeeps, OtherReadsKeep, CommitPatchKeeps,
     LoadNotesKeeps, CommitAnonymizeKeeps, CommitClientNoteKeeps, CommitNoteEditKeeps DEF ClientRequest
<1>4. ASSUME NEW t \in Threads, ProcessRequest(t) PROVE CaseInv'
  BY <1>4, OtherReadsKeep, CommitProcessKeeps, CommitStatusKeeps DEF ProcessRequest
<1>5. ASSUME NEW t \in Threads, LoseRequest(t) PROVE CaseInv'
  BY <1>1, <1>5 DEF LoseRequest
<1>6. ASSUME NEW p \in Processes, AddMovement(p) PROVE CaseInv'
  BY <1>1, <1>6 DEF AddMovement
<1> QED
  BY <1>2, <1>3, <1>4, <1>5, <1>6, CreateClientKeeps, AddProcessNoteKeeps DEF Next

LEMMA CaseInvariant == Spec => []CaseInv
BY CaseInit, CaseStep, PTL DEF Spec

-----------------------------------------------------------------------------
(* Theorems                                                                *)

\* An erased client keeps nothing unless a PATCH and its anonymisation wrote
\* over each other, and no note of it keeps anything but one whose own request
\* overlapped (clients/service.py anonymize, clients/repository.py:154-183).
THEOREM ErasedClientsStayErased == Spec => []ErasureIsComplete
<1>1. CaseInv => ErasureIsComplete
  BY DEF CaseInv
<1> QED
  BY <1>1, CaseInvariant, PTL

\* Every erasure has its audit row with the name the client had, and every
\* audit row an erased client (clients/service.py:119-125).
THEOREM ErasuresHaveAuditRows == Spec => []ErasuresAreAudited
<1>1. CaseInv => ErasuresAreAudited
  BY DEF CaseInv
<1> QED
  BY <1>1, CaseInvariant, PTL

\* A document names one client however requests overlap, and a client has one
\* document unless a PATCH was written over a changed row
\* (clients/service.py:91-100, clients/model.py:12-15).
THEOREM DocumentsNameOneClient == Spec => []DocumentsAreExclusive
<1>1. CaseInv => DocumentsAreExclusive
  BY DEF CaseInv
<1> QED
  BY <1>1, CaseInvariant, PTL

-----------------------------------------------------------------------------
(* The histories of the processes                                          *)

\* Stated of any tables.  The history of a process starts with its creation,
\* which is told once, goes on with changes of status, each from where the one
\* before it ended unless it was stale, and ends with the status it has.
Told(ms, p) == {i \in DOMAIN ms : ms[i].process = p /\ ms[i].kind # "manual"}

StartsAndEnds(ms, p, status) ==
  \E first, last \in Told(ms, p) :
    /\ \A i \in Told(ms, p) : first <= i /\ i <= last /\ (i # first => ms[i].kind = "status")
    /\ ms[first].kind = "created"
    /\ ms[last].to = status

Chained(ms, p) ==
  \A i, j \in Told(ms, p) :
    i < j /\ (\A k \in Told(ms, p) : k <= i \/ j <= k) =>
      /\ ms[j].kind = "status"
      /\ ms[j].from # ms[j].to
      /\ ms[j].stale \/ ms[j].from = ms[i].to

History(ms, ps) ==
  /\ ms \in Seq(MovementRow)
  /\ \A i \in DOMAIN ms : ms[i].process \in DOMAIN ps
  /\ \A p \in DOMAIN ps : StartsAndEnds(ms, p, ps[p].status) /\ Chained(ms, p)

LEMMA HistoryMeans ==
  ASSUME History(movements, processes) PROVE LastMovementNamesTheStatus /\ StatusChangesChain
<1>1. \A p : StatusMovements(p) = Told(movements, p)
  BY DEF StatusMovements, Told
<1>2. ASSUME NEW p \in DOMAIN processes
      PROVE  \E first, last \in StatusMovements(p) :
               /\ \A i \in StatusMovements(p) : first <= i /\ i <= last
               /\ movements[first].kind = "created"
               /\ movements[last].to = processes[p].status
  BY <1>1 DEF History, StartsAndEnds
<1>3. ASSUME NEW p \in DOMAIN processes, NEW i \in StatusMovements(p),
             NEW j \in StatusMovements(p), i < j, \A k \in StatusMovements(p) : k <= i \/ j <= k
      PROVE  /\ movements[j].kind = "status" /\ movements[j].from # movements[j].to
             /\ movements[j].stale \/ movements[j].from = movements[i].to
  BY <1>1, <1>3 DEF History, Chained
<1> QED
  BY <1>2, <1>3 DEF LastMovementNamesTheStatus, StatusChangesChain

\* A row at the end of the table.
LEMMA MovementAdded ==
  ASSUME NEW ms \in Seq(MovementRow), NEW m \in MovementRow, NEW n, n = Len(ms) + 1
  PROVE  /\ Append(ms, m) \in Seq(MovementRow) /\ n \in Nat
         /\ DOMAIN Append(ms, m) = DOMAIN ms \union {n} /\ Append(ms, m)[n] = m
         /\ \A i \in DOMAIN ms : i \in Nat /\ i < n /\ Append(ms, m)[i] = ms[i]
<1> HIDE DEF MovementRow
<1> DEFINE ms2 == Append(ms, m)
<1>1. /\ ms2 \in Seq(MovementRow) /\ Len(ms2) = Len(ms) + 1
      /\ \A i \in 1..Len(ms) : ms2[i] = ms[i]
      /\ ms2[Len(ms) + 1] = m
  BY AppendProperties
<1> HIDE DEF ms2
<1>2. /\ DOMAIN ms = 1..Len(ms) /\ DOMAIN ms2 = 1..Len(ms2) /\ Len(ms) \in Nat
  BY <1>1, LenProperties
<1>3. /\ ms2 \in Seq(MovementRow) /\ n \in Nat
      /\ DOMAIN ms2 = DOMAIN ms \union {n} /\ ms2[n] = m
      /\ \A i \in DOMAIN ms : i \in Nat /\ i < n /\ ms2[i] = ms[i]
  BY <1>1, <1>2
<1> QED
  BY <1>3 DEF ms2

\* A history that a step leaves alone, ...
LEMMA HistoryStays ==
  ASSUME NEW ms, NEW ms2, NEW p, NEW status, Told(ms2, p) = Told(ms, p),
         \A i \in Told(ms, p) : ms2[i] = ms[i],
         StartsAndEnds(ms, p, status), Chained(ms, p)
  PROVE  StartsAndEnds(ms2, p, status) /\ Chained(ms2, p)
<1>1. StartsAndEnds(ms2, p, status)
  <2>1. PICK first \in Told(ms, p), last \in Told(ms, p) :
          /\ \A i \in Told(ms, p) : first <= i /\ i <= last /\ (i # first => ms[i].kind = "status")
          /\ ms[first].kind = "created" /\ ms[last].to = status
    BY DEF StartsAndEnds
  <2>2. \A i \in Told(ms2, p) : first <= i /\ i <= last /\ (i # first => ms2[i].kind = "status")
    BY <2>1
  <2>3. first \in Told(ms2, p) /\ last \in Told(ms2, p) /\ ms2[first].kind = "created"
        /\ ms2[last].to = status
    BY <2>1
  <2> QED
    BY <2>2, <2>3 DEF StartsAndEnds
<1>2. Chained(ms2, p)
  BY DEF Chained
<1> QED
  BY <1>1, <1>2

\* ... one that begins, ...
LEMMA HistoryBegins ==
  ASSUME NEW ms, NEW p, NEW n \in Nat, Told(ms, p) = {n}, ms[n].kind = "created"
  PROVE  StartsAndEnds(ms, p, ms[n].to) /\ Chained(ms, p)
<1>1. n \in Told(ms, p) /\ \A i \in Told(ms, p) : n <= i /\ i <= n /\ i = n
  OBVIOUS
<1>2. StartsAndEnds(ms, p, ms[n].to)
  BY <1>1 DEF StartsAndEnds
<1>3. \A i, j \in Told(ms, p) : ~(i < j)
  BY <1>1
<1> QED
  BY <1>2, <1>3 DEF Chained

\* ... and one that goes on: what was there last named the status that the
\* change found.
LEMMA HistoryGoesOn ==
  ASSUME NEW ms, NEW ms2, NEW p, NEW status, NEW n \in Nat,
         Told(ms2, p) = Told(ms, p) \union {n},
         \A i \in Told(ms, p) : i \in Nat /\ i < n /\ ms2[i] = ms[i],
         StartsAndEnds(ms, p, status), Chained(ms, p),
         ms2[n].kind = "status", ms2[n].from # ms2[n].to,
         ms2[n].stale \/ ms2[n].from = status
  PROVE  StartsAndEnds(ms2, p, ms2[n].to) /\ Chained(ms2, p)
<1>1. PICK first \in Told(ms, p), last \in Told(ms, p) :
        /\ \A i \in Told(ms, p) : first <= i /\ i <= last /\ (i # first => ms[i].kind = "status")
        /\ ms[first].kind = "created" /\ ms[last].to = status
  BY DEF StartsAndEnds
<1>2. first \in Told(ms2, p) /\ n \in Told(ms2, p) /\ ms2[first].kind = "created"
  BY <1>1
<1>3. \A i \in Told(ms2, p) : first <= i /\ i <= n /\ (i # first => ms2[i].kind = "status")
  BY <1>1
<1>4. StartsAndEnds(ms2, p, ms2[n].to)
  BY <1>2, <1>3 DEF StartsAndEnds
<1>5. ASSUME NEW i \in Told(ms2, p), NEW j \in Told(ms2, p), i < j,
             \A k \in Told(ms2, p) : k <= i \/ j <= k
      PROVE  /\ ms2[j].kind = "status" /\ ms2[j].from # ms2[j].to
             /\ ms2[j].stale \/ ms2[j].from = ms2[i].to
  <2>1. i \in Told(ms, p) /\ i \in Nat /\ i <= last /\ last \in Nat /\ last < n
    <3>1. i # n
      BY <1>5
    <3> QED
      BY <1>1, <3>1
  <2>2. CASE j = n
    <3>1. last <= i \/ n <= last
      BY <1>5, <2>2
    <3>2. i = last
      BY <2>1, <3>1
    <3> QED
      BY <1>1, <2>1, <2>2, <3>2
  <2>3. CASE j # n
    <3>1. j \in Told(ms, p) /\ \A k \in Told(ms, p) : k <= i \/ j <= k
      BY <1>5, <2>3
    <3>2. /\ ms[j].kind = "status" /\ ms[j].from # ms[j].to
          /\ ms[j].stale \/ ms[j].from = ms[i].to
      BY <1>5, <2>1, <3>1 DEF Chained
    <3> QED
      BY <2>1, <3>1, <3>2
  <2> QED
    BY <2>2, <2>3
<1> QED
  BY <1>4, <1>5 DEF Chained

\* What a new movement does to the histories.
LEMMA ToldAdded ==
  ASSUME NEW ms \in Seq(MovementRow), NEW m \in MovementRow, NEW p
  PROVE  /\ p # m.process \/ m.kind = "manual" => Told(Append(ms, m), p) = Told(ms, p)
         /\ p = m.process /\ m.kind # "manual" =>
              Told(Append(ms, m), p) = Told(ms, p) \union {Len(ms) + 1}
         /\ \A i \in Told(ms, p) : i \in Nat /\ i < Len(ms) + 1 /\ Append(ms, m)[i] = ms[i]
<1> DEFINE ms2 == Append(ms, m)
           n == Len(ms) + 1
<1>1. /\ DOMAIN ms2 = DOMAIN ms \union {n} /\ ms2[n] = m
      /\ \A i \in DOMAIN ms : i \in Nat /\ i < n /\ ms2[i] = ms[i]
  BY MovementAdded
<1> HIDE DEF ms2, n
<1>2. ASSUME p # m.process \/ m.kind = "manual" PROVE Told(ms2, p) = Told(ms, p)
  BY <1>1, <1>2 DEF Told
<1>3. ASSUME p = m.process, m.kind # "manual" PROVE Told(ms2, p) = Told(ms, p) \union {n}
  BY <1>1, <1>3 DEF Told
<1>4. \A i \in Told(ms, p) : i \in Nat /\ i < n /\ ms2[i] = ms[i]
  BY <1>1 DEF Told
<1> QED
  BY <1>2, <1>3, <1>4 DEF ms2, n

\* A movement that somebody wrote, ...
LEMMA ManualKeepsHistory ==
  ASSUME NEW ms, NEW ps, History(ms, ps), NEW m \in MovementRow,
         m.kind = "manual", m.process \in DOMAIN ps
  PROVE  History(Append(ms, m), ps)
<1> DEFINE ms2 == Append(ms, m)
           n == Len(ms) + 1
<1>2. ms \in Seq(MovementRow)
  BY DEF History
<1>3. ms2 \in Seq(MovementRow) /\ \A i \in DOMAIN ms2 : ms2[i].process \in DOMAIN ps
  BY <1>2, MovementAdded DEF History
<1>4. ASSUME NEW p \in DOMAIN ps PROVE StartsAndEnds(ms2, p, ps[p].status) /\ Chained(ms2, p)
  <2>1. Told(ms2, p) = Told(ms, p) /\ \A i \in Told(ms, p) : ms2[i] = ms[i]
    BY <1>2, ToldAdded
  <2>2. StartsAndEnds(ms, p, ps[p].status) /\ Chained(ms, p)
    BY DEF History
  <2> HIDE DEF ms2
  <2> QED
    BY <2>1, <2>2, HistoryStays
<1> HIDE DEF ms2, n
<1>5. History(ms2, ps)
  BY <1>3, <1>4 DEF History
<1> QED
  BY <1>5 DEF ms2

\* ... the first one of a new process, ...
LEMMA CreatedKeepsHistory ==
  ASSUME NEW ms, NEW ps, History(ms, ps), NEW m \in MovementRow,
         m.kind = "created", m.process \notin DOMAIN ps,
         NEW ps2, DOMAIN ps2 = DOMAIN ps \union {m.process}, ps2[m.process].status = m.to,
         \A p \in DOMAIN ps : ps2[p] = ps[p]
  PROVE  History(Append(ms, m), ps2)
<1> DEFINE ms2 == Append(ms, m)
           n == Len(ms) + 1
<1>2. ms \in Seq(MovementRow)
  BY DEF History
<1>3. /\ ms2 \in Seq(MovementRow) /\ n \in Nat /\ ms2[n] = m
      /\ \A i \in DOMAIN ms2 : ms2[i].process \in DOMAIN ps2
  BY <1>2, MovementAdded DEF History
<1>4. ASSUME NEW p \in DOMAIN ps PROVE StartsAndEnds(ms2, p, ps2[p].status) /\ Chained(ms2, p)
  <2>1. Told(ms2, p) = Told(ms, p) /\ \A i \in Told(ms, p) : ms2[i] = ms[i]
    <3>1. p # m.process
      OBVIOUS
    <3>2. Told(ms2, p) = Told(ms, p)
      BY <1>2, <3>1, ToldAdded
    <3>3. \A i \in Told(ms, p) : ms2[i] = ms[i]
      BY <1>2, ToldAdded
    <3> QED
      BY <3>2, <3>3
  <2>2. StartsAndEnds(ms, p, ps2[p].status) /\ Chained(ms, p)
    BY DEF History
  <2> HIDE DEF ms2
  <2> QED
    BY <2>1, <2>2, HistoryStays
<1>5. Told(ms2, m.process) = {n}
  <2>1. Told(ms, m.process) = {}
    BY DEF History, Told
  <2>2. Told(ms2, m.process) = Told(ms, m.process) \union {n}
    BY <1>2, ToldAdded
  <2> QED
    BY <2>1, <2>2
<1> HIDE DEF ms2, n
<1>6. StartsAndEnds(ms2, m.process, ps2[m.process].status) /\ Chained(ms2, m.process)
  <2>1. ms2[n].kind = "created" /\ ms2[n].to = ps2[m.process].status
    BY <1>3
  <2>2. StartsAndEnds(ms2, m.process, ms2[n].to) /\ Chained(ms2, m.process)
    BY <1>3, <1>5, <2>1, HistoryBegins
  <2> QED
    BY <2>1, <2>2
<1>7. History(ms2, ps2)
  BY <1>3, <1>4, <1>6 DEF History
<1> QED
  BY <1>7 DEF ms2

\* ... and one that tells of a change of status.
LEMMA StatusKeepsHistory ==
  ASSUME NEW ms, NEW ps, History(ms, ps), NEW m \in MovementRow,
         m.kind = "status", m.process \in DOMAIN ps, m.from # m.to,
         m.stale \/ m.from = ps[m.process].status,
         NEW ps2, DOMAIN ps2 = DOMAIN ps, ps2[m.process].status = m.to,
         \A p \in DOMAIN ps : p # m.process => ps2[p] = ps[p]
  PROVE  History(Append(ms, m), ps2)
<1> DEFINE ms2 == Append(ms, m)
           n == Len(ms) + 1
<1>2. ms \in Seq(MovementRow)
  BY DEF History
<1>3. /\ ms2 \in Seq(MovementRow) /\ n \in Nat /\ ms2[n] = m
      /\ \A i \in DOMAIN ms2 : ms2[i].process \in DOMAIN ps2
  BY <1>2, MovementAdded DEF History
<1>4. ASSUME NEW p \in DOMAIN ps, p # m.process
      PROVE  StartsAndEnds(ms2, p, ps2[p].status) /\ Chained(ms2, p)
  <2>1. Told(ms2, p) = Told(ms, p) /\ \A i \in Told(ms, p) : ms2[i] = ms[i]
    BY <1>2, <1>4, ToldAdded
  <2>2. StartsAndEnds(ms, p, ps2[p].status) /\ Chained(ms, p)
    BY <1>4 DEF History
  <2> HIDE DEF ms2
  <2> QED
    BY <2>1, <2>2, HistoryStays
<1>5. /\ Told(ms2, m.process) = Told(ms, m.process) \union {n}
      /\ \A i \in Told(ms, m.process) : i \in Nat /\ i < n /\ ms2[i] = ms[i]
  <2>1. m.kind # "manual"
    OBVIOUS
  <2>2. Told(ms2, m.process) = Told(ms, m.process) \union {n}
    BY <1>2, <2>1, ToldAdded
  <2>3. \A i \in Told(ms, m.process) : i \in Nat /\ i < n /\ ms2[i] = ms[i]
    BY <1>2, ToldAdded
  <2> QED
    BY <2>2, <2>3
<1> HIDE DEF ms2, n
<1>6. StartsAndEnds(ms2, m.process, ps2[m.process].status) /\ Chained(ms2, m.process)
  <2>1. StartsAndEnds(ms, m.process, ps[m.process].status) /\ Chained(ms, m.process)
    BY DEF History
  <2>2. /\ ms2[n].kind = "status" /\ ms2[n].from # ms2[n].to
        /\ ms2[n].stale \/ ms2[n].from = ps[m.process].status
        /\ ms2[n].to = ps2[m.process].status
    BY <1>3
  <2>3. StartsAndEnds(ms2, m.process, ms2[n].to) /\ Chained(ms2, m.process)
    BY <1>3, <1>5, <2>1, <2>2, HistoryGoesOn
  <2> QED
    BY <2>2, <2>3
<1>7. History(ms2, ps2)
  BY <1>3, <1>4, <1>6 DEF History
<1> QED
  BY <1>7 DEF ms2

-----------------------------------------------------------------------------
(* TypeOK                                                                  *)

\* The rest of the shapes: requests, the history, and the bound, for which
\* every request in flight has room left for its write.
Busy == {t \in Threads : thread[t] # Idle}

Ids == Clients \union Notes \union Processes

ShapesOK ==
  /\ thread \in [Threads -> Requests]
  /\ \A t \in Threads : thread[t].op = "status" =>
       thread[t].loaded \in Statuses /\ thread[t].loaded # thread[t].to
  /\ overlapped \subseteq Ids
  /\ writes \in Nat /\ writes + Cardinality(Busy) <= MaxWrites
  /\ History(movements, processes)

LEMMA BusyCounts == Cardinality(Busy) \in Nat /\ IsFiniteSet(Busy)
BY CaseConstants, FS_Subset, FS_CardinalityType DEF Busy

LEMMA BusyStep ==
  ASSUME thread \in [Threads -> Requests], NEW t \in Threads, NEW request,
         thread' = [thread EXCEPT ![t] = request]
  PROVE  /\ Cardinality(Busy) \in Nat /\ Cardinality(Busy') \in Nat
         /\ Cardinality(Busy') <= Cardinality(Busy) + 1
         /\ request = Idle => Cardinality(Busy') <= Cardinality(Busy)
         /\ request = Idle /\ thread[t] # Idle => Cardinality(Busy') + 1 <= Cardinality(Busy)
<1>1. /\ IsFiniteSet(Busy) /\ Cardinality(Busy) \in Nat
      /\ IsFiniteSet(Busy') /\ Cardinality(Busy') \in Nat
  <2>1. Busy \subseteq Threads /\ Busy' \subseteq Threads
    BY DEF Busy
  <2> QED
    BY <2>1, CaseConstants, FS_Subset, FS_CardinalityType
<1>2. \A s \in Threads : thread'[s] = IF s = t THEN request ELSE thread[s]
  OBVIOUS
<1>3. Cardinality(Busy') <= Cardinality(Busy) + 1
  <2>1. Busy' \subseteq Busy \union {t}
    BY <1>2 DEF Busy
  <2>2. /\ IsFiniteSet(Busy \union {t})
        /\ Cardinality(Busy \union {t}) = IF t \in Busy THEN Cardinality(Busy)
                                                        ELSE Cardinality(Busy) + 1
    BY <1>1, FS_AddElement
  <2>3. Cardinality(Busy') <= Cardinality(Busy \union {t})
    BY <2>1, <2>2, FS_Subset
  <2> QED
    BY <1>1, <2>2, <2>3
<1>4. ASSUME request = Idle PROVE Cardinality(Busy') <= Cardinality(Busy)
  <2>1. Busy' \subseteq Busy
    BY <1>2, <1>4 DEF Busy
  <2> QED
    BY <1>1, <2>1, FS_Subset
<1>5. ASSUME request = Idle, thread[t] # Idle PROVE Cardinality(Busy') + 1 <= Cardinality(Busy)
  <2>1. t \in Busy /\ Busy' \subseteq Busy \ {t}
    BY <1>2, <1>5 DEF Busy
  <2>2. IsFiniteSet(Busy \ {t}) /\ Cardinality(Busy \ {t}) = Cardinality(Busy) - 1
    BY <1>1, <2>1, FS_RemoveElement
  <2>3. Cardinality(Busy') <= Cardinality(Busy \ {t})
    BY <2>1, <2>2, FS_Subset
  <2> QED
    BY <1>1, <2>2, <2>3
<1> QED
  BY <1>1, <1>3, <1>4, <1>5

LEMMA IdleShape == Idle \in Requests /\ Idle.op = "idle"
BY DEF Idle, Requests

\* Reading: a request of its kind, and room for its write.
LEMMA ReadShapes ==
  ASSUME ShapesOK, NEW t \in Threads, NEW request \in Requests,
         request.op = "status" => request.loaded \in Statuses /\ request.loaded # request.to,
         Read(t, request)
  PROVE  ShapesOK'
<1>1. /\ thread' = [thread EXCEPT ![t] = request]
      /\ UNCHANGED <<processes, movements, notes, writes, overlapped>>
      /\ thread \in [Threads -> Requests]
  BY DEF Read, ShapesOK
<1>2. writes + Cardinality(Busy) < MaxWrites
  BY DEF Read, Room, Busy
<1>3. /\ Cardinality(Busy) \in Nat /\ Cardinality(Busy') \in Nat
      /\ Cardinality(Busy') <= Cardinality(Busy) + 1
  BY <1>1, BusyStep
<1>4. writes' \in Nat /\ writes' + Cardinality(Busy') <= MaxWrites
  BY <1>1, <1>2, <1>3, CaseConstants DEF ShapesOK
<1>5. thread' \in [Threads -> Requests] /\ \A s \in Threads : thread'[s] = IF s = t THEN request ELSE thread[s]
  BY <1>1
<1>6. \A s \in Threads : thread'[s].op = "status" =>
        thread'[s].loaded \in Statuses /\ thread'[s].loaded # thread'[s].to
  BY <1>5 DEF ShapesOK
<1> QED
  BY <1>1, <1>4, <1>5, <1>6 DEF ShapesOK

\* Writing: the request makes use of that room, or is lost.
LEMMA CommitShapes ==
  ASSUME ShapesOK, NEW t \in Threads, thread[t] # Idle,
         thread' = [thread EXCEPT ![t] = Idle], writes' \in {writes, writes + 1},
         overlapped' \subseteq Ids,
         History(movements', processes')
  PROVE  ShapesOK'
<1>1. thread \in [Threads -> Requests] /\ writes \in Nat /\ writes + Cardinality(Busy) <= MaxWrites
  BY DEF ShapesOK
<1>2. /\ Cardinality(Busy) \in Nat /\ Cardinality(Busy') \in Nat
      /\ Cardinality(Busy') + 1 <= Cardinality(Busy)
  BY <1>1, BusyStep
<1>3. writes' \in Nat /\ writes' + Cardinality(Busy') <= MaxWrites
  BY <1>1, <1>2, CaseConstants
<1>4. thread' \in [Threads -> Requests] /\ \A s \in Threads : thread'[s] = IF s = t THEN Idle ELSE thread[s]
  BY <1>1, IdleShape
<1>5. \A s \in Threads : thread'[s].op = "status" =>
        thread'[s].loaded \in Statuses /\ thread'[s].loaded # thread'[s].to
  BY <1>4, IdleShape DEF ShapesOK
<1> QED
  BY <1>3, <1>4, <1>5 DEF ShapesOK

\* A transaction of its own, when there is room for one more.
LEMMA WriteShapes ==
  ASSUME ShapesOK, Room, writes' = writes + 1, UNCHANGED <<thread, overlapped>>,
         History(movements', processes')
  PROVE  ShapesOK'
<1>1. Busy' = Busy
  BY DEF Busy
<1>2. writes + Cardinality(Busy) < MaxWrites
  BY DEF Room, Busy
<1>3. writes' \in Nat /\ writes' + Cardinality(Busy') <= MaxWrites
  BY <1>1, <1>2, BusyCounts, CaseConstants DEF ShapesOK
<1> QED
  BY <1>3 DEF ShapesOK

\* The data of a PATCH, with the other document cleared or not.
PatchShapes ==
  UNION {[S -> Cpfs \union Cnpjs \union {None, "named", "given", "empty"}] :
           S \in SUBSET {"name", "contact", "cpf", "cnpj"}}

LEMMA ClearedShape ==
  ASSUME NEW row \in ClientRow, NEW data \in Patches PROVE Cleared(row, data) \in PatchShapes
<1> DEFINE V == Cpfs \union Cnpjs \union {None, "named", "given", "empty"}
           F == {"name", "contact", "cpf", "cnpj"}
<1>1. data \in [DOMAIN data -> V] /\ DOMAIN data \in SUBSET F
  <2>1. CASE data \in [name : {"named"}] \/ data \in [contact : {"given", "empty"}]
    BY <2>1
  <2>2. CASE data \in [cpf : Cpfs \union {None}] \/ data \in [cnpj : Cnpjs \union {None}]
    BY <2>2
  <2>3. CASE data \in [cpf : Cpfs, cnpj : {None}] \/ data \in [cpf : {None}, cnpj : Cnpjs]
    BY <2>3
  <2> QED
    BY <2>1, <2>2, <2>3 DEF Patches
<1>2. \E S \in SUBSET F : Cleared(row, data) \in [S -> V]
  <2>1. \/ Cleared(row, data) = data
        \/ \E c \in {"cpf", "cnpj"}, k \in {"cpf", "cnpj"} :
             Cleared(row, data) = [f \in DOMAIN data \union {c} |-> IF f = k THEN None ELSE data[f]]
             /\ (k = c \/ c \in DOMAIN data)
    BY DEF Cleared
  <2>2. CASE Cleared(row, data) = data
    BY <1>1, <2>2
  <2>3. ASSUME NEW c \in {"cpf", "cnpj"}, NEW k \in {"cpf", "cnpj"}, k = c \/ c \in DOMAIN data,
               Cleared(row, data) = [f \in DOMAIN data \union {c} |-> IF f = k THEN None ELSE data[f]]
        PROVE  \E S \in SUBSET F : Cleared(row, data) \in [S -> V]
    <3>1. DOMAIN data \union {c} \in SUBSET F
      BY <1>1
    <3>2. \A f \in DOMAIN data \union {c} : (IF f = k THEN None ELSE data[f]) \in V
      BY <1>1, <2>3
    <3>3. Cleared(row, data) \in [DOMAIN data \union {c} -> V]
      BY <2>3, <3>2
    <3> QED
      BY <3>1, <3>3
  <2> QED
    BY <2>1, <2>2, <2>3
<1> QED
  BY <1>2 DEF PatchShapes

LEMMA ReadsKeepShapes ==
  ASSUME CaseInv, ShapesOK, NEW t \in Threads,
         \/ \E c \in Clients, data \in Patches : ReadPatch(t, c, data)
         \/ \E c \in Clients, u \in Users : ReadAnonymize(t, c, u)
         \/ \E c \in Clients, n \in Notes, u \in Users : ReadClientNote(t, c, n, u)
         \/ \E n \in Notes, u \in Users : ReadNoteEdit(t, n, u)
         \/ \E p \in Processes, c \in Clients \union {None} : ReadProcessClient(t, p, c)
         \/ \E p \in Processes, s \in Statuses : ReadStatus(t, p, s)
  PROVE  ShapesOK'
<1>1. \A c \in DOMAIN clients : clients[c] \in ClientRow
  BY DEF CaseInv, ClientsOK
<1>2. ASSUME NEW c \in Clients, NEW data \in Patches, ReadPatch(t, c, data) PROVE ShapesOK'
  <2> DEFINE request == [op |-> "patch", id |-> c, row |-> clients[c],
                         data |-> Cleared(clients[c], data)]
  <2>1. clients[c] \in ClientRow
    BY <1>1, <1>2 DEF ReadPatch, Live
  <2>2. Cleared(clients[c], data) \in PatchShapes
    BY <2>1, ClearedShape
  <2>3. request \in [op : {"patch"}, id : Clients, row : ClientRow, data : PatchShapes]
    BY <2>1, <2>2
  <2>4. request \in Requests
    BY <2>3 DEF Requests, PatchShapes
  <2> QED
    BY <1>2, <2>4, ReadShapes DEF ReadPatch
<1>3. ASSUME NEW c \in Clients, NEW u \in Users, ReadAnonymize(t, c, u) PROVE ShapesOK'
  <2> DEFINE request == [op |-> "anonymize", id |-> c, row |-> clients[c], by |-> u]
  <2>1. clients[c] \in ClientRow /\ u \in Admins
    BY <1>1, <1>3 DEF ReadAnonymize, Live
  <2>2. request \in [op : {"anonymize"}, id : Clients, row : ClientRow, by : Admins]
    BY <2>1
  <2>3. request \in Requests
    BY <2>2 DEF Requests
  <2> QED
    BY <1>3, <2>3, ReadShapes DEF ReadAnonymize
<1>4. ASSUME NEW c \in Clients, NEW n \in Notes, NEW u \in Users, ReadClientNote(t, c, n, u)
      PROVE  ShapesOK'
  <2>1. [op |-> "note", id |-> c, note |-> n, by |-> u] \in Requests
    BY DEF Requests
  <2> QED
    BY <1>4, <2>1, ReadShapes DEF ReadClientNote
<1>5. ASSUME NEW n \in Notes, NEW u \in Users, ReadNoteEdit(t, n, u) PROVE ShapesOK'
  <2>1. [op |-> "edit", note |-> n] \in Requests
    BY DEF Requests
  <2> QED
    BY <1>5, <2>1, ReadShapes DEF ReadNoteEdit
<1>6. ASSUME NEW p \in Processes, NEW c \in Clients \union {None}, ReadProcessClient(t, p, c)
      PROVE  ShapesOK'
  <2>1. [op |-> "create", process |-> p, id |-> c] \in Requests
    BY DEF Requests
  <2> QED
    BY <1>6, <2>1, ReadShapes DEF ReadProcessClient
<1>7. ASSUME NEW p \in Processes, NEW s \in Statuses, ReadStatus(t, p, s) PROVE ShapesOK'
  <2>1. processes[p].status \in Statuses /\ processes[p].status # s
    BY <1>7 DEF ReadStatus, CaseInv, ProcessesOK, ProcessRow
  <2>2. [op |-> "status", process |-> p, loaded |-> processes[p].status, to |-> s] \in Requests
    BY <2>1 DEF Requests
  <2> QED
    BY <1>7, <2>1, <2>2, ReadShapes DEF ReadStatus
<1> QED
  BY <1>2, <1>3, <1>4, <1>5, <1>6, <1>7

LEMMA LoadNotesKeepsShapes ==
  ASSUME CaseInv, ShapesOK, NEW t \in Threads, LoadNotes(t) PROVE ShapesOK'
<1>1. PICK r : r = thread[t] /\ r.op = "anonymize" /\ ErasureOK(r)
  BY DEF LoadNotes, CaseInv, RequestsOK, RequestOK
<1>2. PICK request :
        /\ request = [op |-> "erase", id |-> r.id, row |-> r.row, by |-> r.by,
                      notes |-> ErasedNotes(r.id, r.by)]
        /\ thread' = [thread EXCEPT ![t] = request]
  BY <1>1 DEF LoadNotes
<1>3. ErasedNotes(r.id, r.by) \in SUBSET Notes
  BY DEF ErasedNotes, NotesOf, CaseInv, NotesOK
<1>4. r.id \in Clients /\ r.row \in ClientRow /\ r.by \in Admins
  BY <1>1 DEF ErasureOK, CaseInv, ClientsOK
<1>5. request \in [op : {"erase"}, id : Clients, row : ClientRow, by : Admins, notes : SUBSET Notes]
  BY <1>2, <1>3, <1>4
<1>6. request \in Requests /\ request.op = "erase" /\ request # Idle
  BY <1>2, <1>5, IdleShape DEF Requests
<1>7. thread' \in [Threads -> Requests] /\ \A s \in Threads : thread'[s] = IF s = t THEN request ELSE thread[s]
  BY <1>2, <1>6 DEF ShapesOK
<1>8. Busy' = Busy
  BY <1>1, <1>6, <1>7, IdleShape DEF Busy
<1>9. \A s \in Threads : thread'[s].op = "status" =>
        thread'[s].loaded \in Statuses /\ thread'[s].loaded # thread'[s].to
  BY <1>6, <1>7 DEF ShapesOK
<1> QED
  BY <1>7, <1>8, <1>9 DEF LoadNotes, ShapesOK

LEMMA CommitsKeepShapes ==
  ASSUME CaseInv, ShapesOK, NEW t \in Threads,
         \/ CommitPatch(t) \/ CommitAnonymize(t) \/ CommitClientNote(t) \/ CommitNoteEdit(t)
         \/ CommitProcess(t) \/ CommitStatus(t) \/ LoseRequest(t)
  PROVE  ShapesOK'
<1> DEFINE r == thread[t]
<1>1. /\ thread[t].op # "idle" => thread[t] # Idle
      /\ overlapped \subseteq Ids
      /\ DOMAIN clients \subseteq Clients /\ History(movements, processes)
  BY IdleShape DEF ShapesOK, CaseInv, ClientsOK
<1>2. ASSUME r.op # "idle" \/ r # Idle, thread' = [thread EXCEPT ![t] = Idle],
             writes' \in {writes, writes + 1}, UNCHANGED <<processes, movements>>,
             overlapped' \subseteq Ids
      PROVE  ShapesOK'
  BY <1>1, <1>2, CommitShapes
<1>3. CASE CommitPatch(t)
  <2>1. r.id \in Clients
    BY <1>1, <1>3 DEF CommitPatch, CaseInv, RequestsOK, RequestOK
  <2>2. overlapped' \subseteq Ids
    BY <1>1, <1>3, <2>1 DEF CommitPatch, Ids
  <2> QED
    BY <1>2, <1>3, <2>2 DEF CommitPatch, Commit
<1>4. CASE CommitAnonymize(t)
  <2>1. r.id \in Clients
    BY <1>1, <1>4 DEF CommitAnonymize, CaseInv, RequestsOK, RequestOK, ErasureOK
  <2>2. InFlight(r.id) \subseteq Notes \union Processes
    BY DEF InFlight
  <2>3. overlapped' \subseteq Ids
    BY <1>1, <1>4, <2>1, <2>2 DEF CommitAnonymize, Ids
  <2> QED
    BY <1>2, <1>4, <2>3 DEF CommitAnonymize, Commit
<1>5. CASE CommitClientNote(t)
  <2>1. r.note \in Notes
    BY <1>5 DEF CommitClientNote, CaseInv, RequestsOK, RequestOK
  <2>2. overlapped' \subseteq Ids
    BY <1>1, <1>5, <2>1 DEF CommitClientNote, Ids
  <2> QED
    BY <1>2, <1>5, <2>2 DEF CommitClientNote, Commit
<1>6. CASE CommitNoteEdit(t)
  BY <1>1, <1>2, <1>6 DEF CommitNoteEdit, Commit
<1>7. CASE CommitProcess(t)
  <2> DEFINE m == Movement(r.process, "created", "ATIVO", "ATIVO", FALSE)
             row == [client |-> r.id, status |-> "ATIVO"]
  <2>1. /\ r.process \in Processes /\ r.process \notin DOMAIN processes
        /\ processes' = Put(processes, r.process, row)
        /\ movements' = Append(movements, m)
    BY <1>7 DEF CommitProcess, CaseInv, RequestsOK, RequestOK
  <2>2. /\ m \in MovementRow /\ m.kind = "created" /\ m.process = r.process
        /\ m.to = "ATIVO" /\ row.status = "ATIVO"
    BY <2>1 DEF Movement, MovementRow, Statuses
  <2> HIDE DEF m, row
  <2>3. /\ DOMAIN processes' = DOMAIN processes \union {m.process}
        /\ processes'[m.process].status = m.to
        /\ \A p \in DOMAIN processes : processes'[p] = processes[p]
    BY <2>1, <2>2 DEF Put
  <2>4. History(Append(movements, m), processes')
    BY <1>1, <2>1, <2>2, <2>3, CreatedKeepsHistory
  <2>5. History(movements', processes')
    BY <2>1, <2>4
  <2>6. overlapped' \subseteq Ids
    BY <1>1, <1>7, <2>1 DEF CommitProcess, Ids
  <2> QED
    BY <1>1, <1>7, <2>5, <2>6, CommitShapes DEF CommitProcess, Commit
<1>8. CASE CommitStatus(t)
  <2> DEFINE m == Movement(r.process, "status", r.loaded, r.to,
                           processes[r.process].status # r.loaded)
  <2>1. /\ r.process \in DOMAIN processes /\ r.process \in Processes
        /\ r.loaded \in Statuses /\ r.loaded # r.to /\ r.to \in Statuses
        /\ processes[r.process] \in ProcessRow
        /\ processes' = [processes EXCEPT ![r.process].status = r.to]
        /\ movements' = Append(movements, m)
    BY <1>8 DEF CommitStatus, CaseInv, RequestsOK, RequestOK, ProcessesOK, ShapesOK,
                NewStatus, StatusMovement
  <2>2. /\ m \in MovementRow /\ m.kind = "status" /\ m.process = r.process
        /\ m.from # m.to /\ m.to = r.to
        /\ m.stale \/ m.from = processes[m.process].status
    BY <2>1 DEF Movement, MovementRow
  <2> HIDE DEF m
  <2>3. /\ DOMAIN processes' = DOMAIN processes /\ processes'[m.process].status = m.to
        /\ \A p \in DOMAIN processes : p # m.process => processes'[p] = processes[p]
    BY <2>1, <2>2 DEF ProcessRow
  <2>4. History(Append(movements, m), processes')
    BY <1>1, <2>1, <2>2, <2>3, StatusKeepsHistory
  <2>5. History(movements', processes')
    BY <2>1, <2>4
  <2>6. overlapped' \subseteq Ids
    BY <1>1, <1>8, <2>1 DEF CommitStatus, Ids
  <2> QED
    BY <1>1, <1>8, <2>5, <2>6, CommitShapes DEF CommitStatus, Commit
<1>9. CASE LoseRequest(t)
  BY <1>1, <1>2, <1>9 DEF LoseRequest
<1> QED
  BY <1>3, <1>4, <1>5, <1>6, <1>7, <1>8, <1>9

LEMMA WritesKeepShapes ==
  ASSUME CaseInv, ShapesOK,
         \/ \E c \in Clients, row \in NewRows : CreateClient(c, row)
         \/ \E p \in Processes : AddMovement(p)
         \/ \E p \in Processes, n \in Notes, u \in Users : AddProcessNote(p, n, u)
  PROVE  ShapesOK'
<1>1. History(movements, processes)
  BY DEF ShapesOK
<1>2. ASSUME NEW c \in Clients, NEW row \in NewRows, CreateClient(c, row) PROVE ShapesOK'
  BY <1>1, <1>2, WriteShapes DEF CreateClient
<1>3. ASSUME NEW p \in Processes, AddMovement(p) PROVE ShapesOK'
  <2> DEFINE m == Movement(p, "manual", "ATIVO", "ATIVO", FALSE)
  <2>1. m \in MovementRow /\ m.kind = "manual" /\ m.process = p
    BY DEF Movement, MovementRow, Statuses
  <2>2. movements' = Append(movements, m) /\ p \in DOMAIN processes
    BY <1>3 DEF AddMovement
  <2> HIDE DEF m
  <2>3. History(Append(movements, m), processes)
    BY <1>1, <2>1, <2>2, ManualKeepsHistory
  <2>4. UNCHANGED <<notes, processes, thread, overlapped>> /\ Room /\ writes' = writes + 1
    BY <1>3 DEF AddMovement
  <2>5. History(movements', processes')
    BY <2>2, <2>3, <2>4
  <2> QED
    BY <1>1, <2>4, <2>5, WriteShapes
<1>4. ASSUME NEW p \in Processes, NEW n \in Notes, NEW u \in Users, AddProcessNote(p, n, u)
      PROVE  ShapesOK'
  BY <1>1, <1>4, WriteShapes DEF AddProcessNote
<1> QED
  BY <1>2, <1>3, <1>4

LEMMA ShapesStep == CaseInv /\ ShapesOK /\ [Next]_vars => ShapesOK'
<1> SUFFICES ASSUME CaseInv, ShapesOK, [Next]_vars PROVE ShapesOK'
  OBVIOUS
<1>1. CASE UNCHANGED vars
  BY <1>1 DEF vars, ShapesOK, Busy
<1>2. ASSUME NEW t \in Threads, ClientRequest(t) PROVE ShapesOK'
  BY <1>2, ReadsKeepShapes, LoadNotesKeepsShapes, CommitsKeepShapes DEF ClientRequest
<1>3. ASSUME NEW t \in Threads, ProcessRequest(t) PROVE ShapesOK'
  BY <1>3, ReadsKeepShapes, CommitsKeepShapes DEF ProcessRequest
<1>4. ASSUME NEW t \in Threads, LoseRequest(t) PROVE ShapesOK'
  BY <1>4, CommitsKeepShapes
<1> QED
  BY <1>1, <1>2, <1>3, <1>4, WritesKeepShapes DEF Next

\* The process the office starts with was closed by its second movement.
LEMMA InitialHistory ==
  ASSUME NEW p \in Processes, NEW c
  PROVE  History(InitialMovements(p), [x \in {p} |-> [client |-> c, status |-> "ARQUIVADO"]])
<1> DEFINE ms == InitialMovements(p)
           ps == [x \in {p} |-> [client |-> c, status |-> "ARQUIVADO"]]
<1>1. /\ ms \in Seq(MovementRow) /\ DOMAIN ms = {1, 2}
      /\ ms[1].process = p /\ ms[1].kind = "created" /\ ms[1].to = "ATIVO"
      /\ ms[2].process = p /\ ms[2].kind = "status" /\ ms[2].from = "ATIVO"
      /\ ms[2].to = "ARQUIVADO"
  BY DEF InitialMovements, MovementRow, Statuses
<1>2. DOMAIN ps = {p} /\ ps[p].status = "ARQUIVADO"
  OBVIOUS
<1> HIDE DEF ms, ps
<1>3. Told(ms, p) = {1, 2}
  BY <1>1 DEF Told
<1>4. StartsAndEnds(ms, p, "ARQUIVADO")
  BY <1>1, <1>3 DEF StartsAndEnds
<1>5. Chained(ms, p)
  BY <1>1, <1>3 DEF Chained
<1>6. History(ms, ps)
  BY <1>1, <1>2, <1>4, <1>5 DEF History
<1> QED
  BY <1>6 DEF ms, ps

LEMMA ShapesInit == Init => ShapesOK
<1> SUFFICES ASSUME Init PROVE ShapesOK
  OBVIOUS
<1>1. PICK c \in Clients, p \in Processes, n \in Notes, u \in Users :
        \E person \in {r \in NewRows : r.contact = "given" /\ r.cpf # None} :
          /\ clients = [x \in {c} |-> person]
          /\ processes = [x \in {p} |-> [client |-> c, status |-> "ARQUIVADO"]]
          /\ movements = InitialMovements(p)
          /\ notes = [x \in {n} |-> [owner |-> c, author |-> u, content |-> "text",
                                     deleted |-> FALSE]]
          /\ audit = <<>>
          /\ thread = [t \in Threads |-> Idle]
          /\ writes = 0
          /\ overlapped = {}
  BY DEF Init
<1>2. /\ processes = [x \in {p} |-> [client |-> c, status |-> "ARQUIVADO"]]
      /\ movements = InitialMovements(p)
      /\ notes = [x \in {n} |-> [owner |-> c, author |-> u, content |-> "text",
                                 deleted |-> FALSE]]
      /\ thread = [t \in Threads |-> Idle] /\ writes = 0 /\ overlapped = {}
  BY <1>1, Zenon
<1>3. Busy = {}
  BY <1>2 DEF Busy
<1>4. Cardinality(Busy) = 0
  BY <1>3, FS_EmptySet
<1>5. writes \in Nat /\ writes + Cardinality(Busy) <= MaxWrites
  BY <1>2, <1>4, CaseConstants
<1>6. thread \in [Threads -> Requests] /\ \A t \in Threads : thread[t].op = "idle"
  BY <1>2, IdleShape
<1>7. overlapped \subseteq Ids
  BY <1>2
<1>8. History(movements, processes)
  BY <1>2, InitialHistory
<1> QED
  BY <1>5, <1>6, <1>7, <1>8 DEF ShapesOK

LEMMA ShapesInvariant == Spec => [](CaseInv /\ ShapesOK)
BY CaseInit, CaseStep, ShapesInit, ShapesStep, PTL DEF Spec

LEMMA ShapesMeanTypes == CaseInv /\ ShapesOK => TypeOK
<1> SUFFICES ASSUME CaseInv, ShapesOK PROVE TypeOK
  OBVIOUS
<1>1. writes \in 0..MaxWrites
  BY BusyCounts, CaseConstants DEF ShapesOK
<1>2. movements \in Seq(MovementRow) /\ audit \in Seq(AuditRow)
  BY DEF ShapesOK, History, CaseInv, AuditOK
<1> QED
  BY <1>1, <1>2 DEF ShapesOK, Ids, CaseInv, ClientsOK, ProcessesOK, NotesOK, TypeOK

\* Every table keeps its shape: whatever a PATCH sets, clears or leaves, a row
\* of clients has all its columns with values of their kinds, and a request in
\* flight always has room left for its write (clients/service.py:86).
THEOREM TypeCorrect == Spec => []TypeOK
BY ShapesMeanTypes, ShapesInvariant, PTL

\* However requests overlap, the last status movement of a process names the
\* status it has, and the first one its creation (processes/service.py:161-172).
THEOREM HistoryTellsTheStatus == Spec => []LastMovementNamesTheStatus
<1>1. ShapesOK => LastMovementNamesTheStatus
  BY HistoryMeans DEF ShapesOK
<1> QED
  BY <1>1, ShapesInvariant, PTL

\* Each change of status starts from where the one before it ended and changes
\* something, unless the request had read a status that another one changed
\* before it wrote (processes/service.py:161-172).
THEOREM HistoryChains == Spec => []StatusChangesChain
<1>1. ShapesOK => StatusChangesChain
  BY HistoryMeans DEF ShapesOK
<1> QED
  BY <1>1, ShapesInvariant, PTL

-----------------------------------------------------------------------------
(* The cases of erased clients                                             *)

\* What the history told of a process when it was n movements long.
ClosedBy(ms, p, n) ==
  \E last \in Told(ms, p) :
    /\ last <= n
    /\ ms[last].to \notin Open
    /\ \A k \in Told(ms, p) : k <= last \/ n < k

ErasedCases ==
  \A i \in DOMAIN audit :
    /\ audit[i].after \in Nat /\ audit[i].after <= Len(movements)
    /\ \A p \in DOMAIN processes : processes[p].client = audit[i].client =>
         p \in overlapped \/ ClosedBy(movements, p, audit[i].after)

\* A movement that is added later does not change what it told.
LEMMA ClosedByStays ==
  ASSUME NEW ms \in Seq(MovementRow), NEW m \in MovementRow, NEW p, NEW n \in Nat,
         n <= Len(ms), ClosedBy(ms, p, n)
  PROVE  ClosedBy(Append(ms, m), p, n)
<1> DEFINE ms2 == Append(ms, m)
<1>1. PICK last \in Told(ms, p) : /\ last <= n /\ ms[last].to \notin Open
                                  /\ \A k \in Told(ms, p) : k <= last \/ n < k
  BY DEF ClosedBy
<1>2. /\ Told(ms2, p) = Told(ms, p) \/ Told(ms2, p) = Told(ms, p) \union {Len(ms) + 1}
      /\ \A i \in Told(ms, p) : ms2[i] = ms[i]
  BY ToldAdded
<1>3. Len(ms) \in Nat
  BY LenProperties
<1> HIDE DEF ms2
<1>4. last \in Told(ms2, p) /\ ms2[last].to \notin Open
  BY <1>1, <1>2
<1>5. n < Len(ms) + 1
  BY <1>3
<1>6. \A k \in Told(ms2, p) : k <= last \/ n < k
  BY <1>1, <1>2, <1>5
<1>7. ClosedBy(ms2, p, n)
  BY <1>1, <1>4, <1>6 DEF ClosedBy
<1> QED
  BY <1>7 DEF ms2

\* A step that erases nobody, and opens no case for an erased client but one
\* that it marks.
LEMMA ErasedCasesStay ==
  ASSUME ErasedCases, movements \in Seq(MovementRow), audit' = audit,
         overlapped \subseteq overlapped',
         movements' = movements \/ \E m \in MovementRow : movements' = Append(movements, m),
         \A p \in DOMAIN processes' :
           \/ p \in DOMAIN processes /\ processes'[p].client = processes[p].client
           \/ p \in overlapped'
           \/ \A i \in DOMAIN audit : processes'[p].client # audit[i].client
  PROVE  ErasedCases'
<1>1. Len(movements) \in Nat /\ Len(movements') \in Nat /\ Len(movements) <= Len(movements')
  <2>1. CASE movements' = movements
    BY <2>1, LenProperties
  <2>2. ASSUME NEW m \in MovementRow, movements' = Append(movements, m)
        PROVE  Len(movements) \in Nat /\ Len(movements') = Len(movements) + 1
    BY <2>2, LenProperties, AppendProperties
  <2> QED
    BY <2>1, <2>2
<1>2. ASSUME NEW p, NEW n \in Nat, n <= Len(movements), ClosedBy(movements, p, n)
      PROVE  ClosedBy(movements', p, n)
  BY <1>2, ClosedByStays
<1>3. ASSUME NEW i \in DOMAIN audit'
      PROVE  /\ audit'[i].after \in Nat /\ audit'[i].after <= Len(movements')
             /\ \A p \in DOMAIN processes' : processes'[p].client = audit'[i].client =>
                  p \in overlapped' \/ ClosedBy(movements', p, audit'[i].after)
  <2>1. audit'[i].after \in Nat /\ audit'[i].after <= Len(movements)
    BY DEF ErasedCases
  <2>2. ASSUME NEW p \in DOMAIN processes', processes'[p].client = audit'[i].client,
               p \notin overlapped'
        PROVE  ClosedBy(movements', p, audit'[i].after)
    <3>1. ClosedBy(movements, p, audit'[i].after)
      BY <2>2 DEF ErasedCases
    <3> QED
      BY <1>2, <2>1, <3>1
  <2>3. audit'[i].after <= Len(movements')
    BY <1>1, <2>1
  <2> QED
    BY <2>1, <2>2, <2>3
<1> QED
  BY <1>3 DEF ErasedCases

\* The anonymisation finds every case closed that no request in flight opened,
\* and the history says so.
LEMMA ErasureFindsCasesClosed ==
  ASSUME CaseInv, ShapesOK, ErasedCases, NEW t \in Threads, CommitAnonymize(t)
  PROVE  ErasedCases'
<1> DEFINE n == Len(movements)
<1>1. PICK r : r = thread[t] /\ r.op = "erase" /\ ErasureOK(r)
  BY DEF CommitAnonymize, CaseInv, RequestsOK, RequestOK
<1>2. /\ UNCHANGED <<processes, movements>> /\ overlapped \subseteq overlapped'
      /\ audit' = Append(audit, Audited(r))
  BY <1>1 DEF CommitAnonymize
<1>3. History(movements, processes) /\ movements \in Seq(MovementRow) /\ n \in Nat
      /\ DOMAIN movements = 1..n
  BY LenProperties DEF ShapesOK, History
<1>4. ASSUME NEW p \in DOMAIN processes, processes[p].client = r.id, p \notin overlapped
      PROVE  ClosedBy(movements, p, n)
  <2>1. processes[p].status \notin Open
    BY <1>1, <1>4 DEF ErasureOK, OpenProcesses
  <2>2. PICK last \in Told(movements, p) :
          /\ \A i \in Told(movements, p) : i <= last
          /\ movements[last].to = processes[p].status
    BY <1>3 DEF History, StartsAndEnds
  <2>3. last <= n
    BY <1>3 DEF Told
  <2> QED
    BY <2>1, <2>2, <2>3 DEF ClosedBy
<1>5. PICK a \in AuditRow : a.client = r.id /\ a.after = n /\ audit' = Append(audit, a)
  <2>1. Audited(r) \in AuditRow /\ Audited(r).client = r.id /\ Audited(r).after = n
    BY <1>1, <1>3 DEF Audited, AuditRow, ErasureOK, CaseInv, ClientsOK
  <2> QED
    BY <1>2, <2>1
<1>6. audit \in Seq(AuditRow)
  BY DEF CaseInv, AuditOK
<1>7. \A i \in DOMAIN audit' :
        \/ audit'[i] = a
        \/ i \in DOMAIN audit /\ audit'[i] = audit[i]
  <2> HIDE DEF AuditRow
  <2>1. /\ Append(audit, a) \in Seq(AuditRow) /\ Len(Append(audit, a)) = Len(audit) + 1
        /\ \A i \in 1..Len(audit) : Append(audit, a)[i] = audit[i]
        /\ Append(audit, a)[Len(audit) + 1] = a
    BY <1>6, AppendProperties
  <2>2. /\ DOMAIN audit = 1..Len(audit) /\ Len(audit) \in Nat
        /\ DOMAIN Append(audit, a) = 1..(Len(audit) + 1)
    BY <1>6, <2>1, LenProperties
  <2> QED
    BY <1>5, <2>1, <2>2
<1> HIDE DEF n
<1>8. ASSUME NEW i \in DOMAIN audit'
      PROVE  /\ audit'[i].after \in Nat /\ audit'[i].after <= n
             /\ \A p \in DOMAIN processes : processes[p].client = audit'[i].client =>
                  p \in overlapped' \/ ClosedBy(movements, p, audit'[i].after)
  <2>1. CASE audit'[i] = a
    BY <1>2, <1>3, <1>4, <1>5, <2>1
  <2>2. CASE i \in DOMAIN audit /\ audit'[i] = audit[i]
    BY <1>2, <2>2 DEF ErasedCases, n
  <2> QED
    BY <1>7, <2>1, <2>2
<1> QED
  BY <1>2, <1>8 DEF ErasedCases, n

LEMMA ErasedCasesStep ==
  CaseInv /\ ShapesOK /\ ErasedCases /\ [Next]_vars => ErasedCases'
<1> SUFFICES ASSUME CaseInv, ShapesOK, ErasedCases, [Next]_vars PROVE ErasedCases'
  OBVIOUS
<1>1. movements \in Seq(MovementRow)
  BY DEF ShapesOK, History
<1>2. ASSUME UNCHANGED <<processes, movements, audit>>, overlapped \subseteq overlapped'
      PROVE  ErasedCases'
  BY <1>1, <1>2, ErasedCasesStay
<1>3. CASE UNCHANGED vars
  BY <1>2, <1>3 DEF vars
<1>4. ASSUME NEW t \in Threads, ClientRequest(t) PROVE ErasedCases'
  <2>1. CASE CommitAnonymize(t)
    BY <2>1, ErasureFindsCasesClosed
  <2>2. CASE \/ \E c \in Clients, data \in Patches : ReadPatch(t, c, data)
             \/ \E c \in Clients, u \in Users : ReadAnonymize(t, c, u)
             \/ \E c \in Clients, n \in Notes, u \in Users : ReadClientNote(t, c, n, u)
             \/ \E n \in Notes, u \in Users : ReadNoteEdit(t, n, u)
    BY <1>2, <2>2 DEF ReadPatch, ReadAnonymize, ReadClientNote, ReadNoteEdit, Read
  <2>3. CASE LoadNotes(t) \/ CommitPatch(t) \/ CommitClientNote(t) \/ CommitNoteEdit(t)
    BY <1>2, <2>3 DEF LoadNotes, CommitPatch, CommitClientNote, CommitNoteEdit
  <2> QED
    BY <1>4, <2>1, <2>2, <2>3 DEF ClientRequest
<1>5. ASSUME NEW t \in Threads, CommitProcess(t) PROVE ErasedCases'
  <2>1. PICK r : r = thread[t] /\ RequestOK(r)
    BY DEF CaseInv, RequestsOK
  <2>2. /\ r.op = "create" /\ audit' = audit /\ overlapped \subseteq overlapped'
        /\ processes' = Put(processes, r.process, [client |-> r.id, status |-> "ATIVO"])
        /\ movements' = Append(movements, Movement(r.process, "created", "ATIVO", "ATIVO", FALSE))
        /\ r.process \in Processes
    BY <1>5, <2>1 DEF CommitProcess, RequestOK
  <2>3. Movement(r.process, "created", "ATIVO", "ATIVO", FALSE) \in MovementRow
    BY <2>2 DEF Movement, MovementRow, Statuses
  <2>4. /\ DOMAIN processes' = DOMAIN processes \union {r.process}
        /\ processes'[r.process].client = r.id
        /\ \A p \in DOMAIN processes : p # r.process => processes'[p] = processes[p]
    BY <2>2 DEF Put
  <2>5. r.process \in overlapped' \/ \A i \in DOMAIN audit : r.id # audit[i].client
    <3>1. ASSUME NEW i \in DOMAIN audit, r.id = audit[i].client PROVE r.process \in overlapped
      <4>1. r.id \in DOMAIN clients /\ clients[r.id].deleted
        BY <3>1 DEF CaseInv, AuditOK, ErasuresAreAudited
      <4>2. r.id # None
        BY <4>1, CaseConstants DEF CaseInv, ClientsOK
      <4> QED
        BY <2>1, <2>2, <4>1, <4>2 DEF RequestOK, Known
    <3> QED
      BY <2>2, <3>1
  <2>6. \A p \in DOMAIN processes' :
          \/ p \in DOMAIN processes /\ processes'[p].client = processes[p].client
          \/ p \in overlapped'
          \/ \A i \in DOMAIN audit : processes'[p].client # audit[i].client
    BY <2>4, <2>5
  <2> QED
    BY <1>1, <2>2, <2>3, <2>6, ErasedCasesStay
<1>6. ASSUME NEW t \in Threads, CommitStatus(t) PROVE ErasedCases'
  <2>1. PICK r : r = thread[t] /\ RequestOK(r) /\ r.op = "status"
                 /\ r.loaded \in Statuses
    BY <1>6 DEF CaseInv, RequestsOK, CommitStatus, ShapesOK
  <2>2. /\ audit' = audit /\ overlapped \subseteq overlapped'
        /\ processes' = [processes EXCEPT ![r.process].status = r.to]
        /\ movements' = Append(movements, StatusMovement(r))
        /\ r.process \in DOMAIN processes /\ r.to \in Statuses
    BY <1>6, <2>1 DEF CommitStatus, NewStatus, RequestOK
  <2>3. StatusMovement(r) \in MovementRow
    BY <2>1, <2>2 DEF StatusMovement, Movement, MovementRow, CaseInv, ProcessesOK
  <2>4. PICK row : row = [processes[r.process] EXCEPT !.status = r.to]
                   /\ processes' = [processes EXCEPT ![r.process] = row]
    BY <2>2
  <2>5. row.client = processes[r.process].client
    BY <2>2, <2>4 DEF CaseInv, ProcessesOK, ProcessRow
  <2>6. \A p \in DOMAIN processes' :
          p \in DOMAIN processes /\ processes'[p].client = processes[p].client
    BY <2>4, <2>5
  <2> QED
    BY <1>1, <2>2, <2>3, <2>6, ErasedCasesStay
<1>7. ASSUME NEW t \in Threads,
             \/ \E p \in Processes, c \in Clients \union {None} : ReadProcessClient(t, p, c)
             \/ \E p \in Processes, s \in Statuses : ReadStatus(t, p, s)
      PROVE  ErasedCases'
  BY <1>2, <1>7 DEF ReadProcessClient, ReadStatus, Read
<1>8. ASSUME NEW t \in Threads, LoseRequest(t) PROVE ErasedCases'
  BY <1>2, <1>8 DEF LoseRequest
<1>9. ASSUME NEW p \in Processes, AddMovement(p) PROVE ErasedCases'
  <2>1. Movement(p, "manual", "ATIVO", "ATIVO", FALSE) \in MovementRow
    BY DEF Movement, MovementRow, Statuses
  <2> QED
    BY <1>1, <1>9, <2>1, ErasedCasesStay DEF AddMovement
<1>10. ASSUME NEW c \in Clients, NEW row \in NewRows, CreateClient(c, row) PROVE ErasedCases'
  BY <1>2, <1>10 DEF CreateClient
<1>11. ASSUME NEW p \in Processes, NEW n \in Notes, NEW u \in Users, AddProcessNote(p, n, u)
       PROVE  ErasedCases'
  BY <1>2, <1>11 DEF AddProcessNote
<1> QED
  BY <1>3, <1>4, <1>5, <1>6, <1>7, <1>8, <1>9, <1>10, <1>11 DEF Next, ProcessRequest

\* Read back from the tables, every case of an erased client was closed when
\* the audit row of its erasure was written, but for a case that was created or
\* given a status while the anonymisation was under way
\* (clients/service.py:112-114, processes/service.py create_process).
THEOREM ErasureFollowsTheCases == Spec => []ErasedCasesWereClosed
<1>1. ShapesOK /\ ErasedCases => ErasedCasesWereClosed
  <2> SUFFICES ASSUME ErasedCases PROVE ErasedCasesWereClosed
    OBVIOUS
  <2>1. \A p : StatusMovements(p) = Told(movements, p)
    BY DEF StatusMovements, Told
  <2> QED
    BY <2>1 DEF ErasedCases, ErasedCasesWereClosed, ClosedBy
<1>2. Init => ErasedCases
  <2>1. Init => audit = <<>>
    BY DEF Init
  <2> QED
    BY <2>1 DEF ErasedCases
<1> QED
  BY <1>1, <1>2, ErasedCasesStep, ShapesInvariant, PTL DEF Spec
=============================================================================
