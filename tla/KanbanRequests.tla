---------------------------- MODULE KanbanRequests -----------------------------
(***************************************************************************)
(* The tasks module as its HTTP handlers run it: a request first reads the *)
(* row (get_task), or the end of TODO (_next_order), and later renumbers   *)
(* the columns from what it read, in a transaction that locks nothing it   *)
(* has read.  Handlers run in the threads of several gunicorn workers, so  *)
(* other requests may commit in between.                                   *)
(*                                                                         *)
(* Each transaction's UPDATEs are one step: the interleavings modelled are *)
(* those across the read, which are fewer than READ COMMITTED allows.      *)
(***************************************************************************)
EXTENDS KanbanBoard

CONSTANTS
    Handlers,       \* threads that can be inside a request at the same time
    NoRequest

VARIABLE
    pending         \* per handler, the request it has read the row for

requestVars == <<board, used, pending>>

Payloads ==
    [op : {"update"}, status : Statuses]
        \cup [op : {"move"}, status : Statuses, order : 0..MaxOrder]
        \cup [op : {"delete"}]

RequestsTypeOK ==
    /\ TypeOK
    /\ \A h \in Handlers :
          \/ pending[h] = NoRequest
          \/ pending[h] \in [next : Nat]
          \/ pending[h] \in [task : Tasks, loaded : Rows, payload : Payloads]

RequestsInit ==
    /\ Init
    /\ pending = [h \in Handlers |-> NoRequest]

IsInsert(request) == "next" \in DOMAIN request

\* get_task of PATCH /tasks/{id}, PATCH /tasks/{id}/move and DELETE /tasks/{id}
ReadTask(h, t, payload) ==
    /\ pending[h] = NoRequest
    /\ t \in Live(board)
    /\ pending' = [pending EXCEPT ![h] =
                      [task |-> t, loaded |-> board[t], payload |-> payload]]
    /\ UNCHANGED <<board, used>>

\* The board after the transaction of a request.  If the row has been deleted,
\* the UPDATE of the loaded instance matches nothing and StaleDataError rolls
\* the transaction back; a DELETE that matches nothing is only a warning.
Served(b, request) ==
    LET t == request.task
        loaded == request.loaded
        payload == request.payload
    IN  CASE payload.op = "delete" -> Deleted(b, t, loaded)
          [] payload.op # "delete" /\ t \notin Live(b) -> b
          [] payload.op = "update" /\ t \in Live(b) ->
                Updated(b, t, loaded, payload.status)
          [] payload.op = "move" /\ t \in Live(b) ->
                Moved(b, t, loaded, payload.status, payload.order)

CommitTask(h) ==
    /\ pending[h] # NoRequest
    /\ ~IsInsert(pending[h])
    /\ board' = Served(board, pending[h])
    /\ pending' = [pending EXCEPT ![h] = NoRequest]
    /\ UNCHANGED used

\* POST /tasks: _next_order, then the INSERT.
ReadNextOrder(h) ==
    /\ pending[h] = NoRequest
    /\ pending' = [pending EXCEPT ![h] = [next |-> NextOrder(board, "TODO")]]
    /\ UNCHANGED <<board, used>>

InsertTask(h, t) ==
    /\ pending[h] # NoRequest
    /\ IsInsert(pending[h])
    /\ t \notin used
    /\ used' = used \cup {t}
    /\ board' = [board EXCEPT ![t] =
                    [status |-> "TODO", order |-> pending[h].next,
                     completed |-> FALSE]]
    /\ pending' = [pending EXCEPT ![h] = NoRequest]

RequestsNext ==
    \E h \in Handlers :
        \/ \E t \in Tasks, payload \in Payloads : ReadTask(h, t, payload)
        \/ CommitTask(h)
        \/ ReadNextOrder(h)
        \/ \E t \in Tasks : InsertTask(h, t)

RequestsSpec == RequestsInit /\ [][RequestsNext]_requestVars

\* What the request of a handler read is still so: the end of TODO, or its task.
Fresh(h) ==
    IF IsInsert(pending[h])
    THEN pending[h].next = NextOrder(board, "TODO")
    ELSE pending[h].loaded = board[pending[h].task]

ReadsHold == \A h \in Handlers : pending[h] # NoRequest => Fresh(h)

\* Behaviours in which requests overlap as they like, but none commits a change
\* of what another one in flight has read.
FreshSpec == RequestsInit /\ [][RequestsNext /\ ReadsHold']_requestVars

-------------------------------------------------------------------------------
(* Properties.  Those of KanbanBoard hold under FreshSpec.                 *)

\* docs/ENDPOINTS.md:2138: moving a task renumbers the affected tasks in one
\* transaction, so that no column gets gaps or duplicates.
MovesKeepColumnsGapless ==
    [][\A h \in Handlers :
          CommitTask(h) /\ pending[h].payload.op = "move" /\ ColumnsAreGapless
            => ColumnsAreGapless']_requestVars

===============================================================================
