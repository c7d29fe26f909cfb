----------------------------- MODULE KanbanBoard ------------------------------
(***************************************************************************)
(* The Kanban board of the tasks module: every task has a column (status)  *)
(* and a position in it (order); creating, updating, moving and deleting a *)
(* task renumbers the columns it leaves and enters.                        *)
(*                                                                         *)
(* The operators take `loaded`, the row the request read before its        *)
(* transaction: the repository computes from it, never from the row as it  *)
(* is when the UPDATEs run.  In this module each request is one step, so   *)
(* `loaded` is the current row; KanbanRequests lets requests overlap.      *)
(***************************************************************************)
EXTENDS Integers, FiniteSetsExt

CONSTANTS
    Tasks,          \* primary keys of the tasks table
    NoTask,         \* no row
    MaxOrder        \* bound on the order of a move's payload

ASSUME TasksAssumption == IsFiniteSet(Tasks)
ASSUME MaxOrderAssumption == MaxOrder \in Nat

Statuses == {"TODO", "IN_PROGRESS", "BLOCKED", "DONE"}

\* completed stands for completed_at IS NOT NULL.
Rows == [status : Statuses, order : Int, completed : BOOLEAN]

ASSUME NoTaskAssumption == NoTask \notin Rows

VARIABLES
    board,          \* the tasks table
    used            \* ids already handed out (a deleted id is not reused)

vars == <<board, used>>

TypeOK ==
    /\ board \in [Tasks -> Rows \cup {NoTask}]
    /\ used \subseteq Tasks

Init ==
    /\ board = [t \in Tasks |-> NoTask]
    /\ used = {}

-------------------------------------------------------------------------------
(* TaskRepository.                                                         *)

Live(b) == {t \in Tasks : b[t] # NoTask}

Column(b, status) == {t \in Live(b) : b[t].status = status}

\* count_in_status
Size(b, status) == Cardinality(Column(b, status))

\* Mutant: off by one.
LastOrder(b, status) == Size(b, status) - 1

\* _next_order
NextOrder(b, status) ==
    IF Column(b, status) = {}
    THEN 0
    ELSE Max({b[t].order : t \in Column(b, status)}) + 1

\* UPDATE tasks SET order = order + delta WHERE id IN ids
Shift(b, ids, delta) ==
    [t \in Tasks |->
        IF t \in ids THEN [b[t] EXCEPT !.order = @ + delta] ELSE b[t]]

\* Mutants: >= for >, and a WHERE clause without the column.
AfterInclusive(b, status, order) ==
    {t \in Column(b, status) : b[t].order >= order}
BetweenAnyColumn(b, status, first, last) ==
    {t \in Live(b) : first <= b[t].order /\ b[t].order <= last}

\* The WHERE clauses: the tasks of a column after, from or between positions.
After(b, status, order) == {t \in Column(b, status) : b[t].order > order}
From(b, status, order) == {t \in Column(b, status) : b[t].order >= order}
Between(b, status, first, last) ==
    {t \in Column(b, status) : first <= b[t].order /\ b[t].order <= last}

\* Mutant: leaving DONE does not clear completed_at.
CompletedForGood(loaded, status) ==
    IF status = "DONE" /\ loaded.status # "DONE" THEN TRUE ELSE loaded.completed

\* _apply_completed_at
Completed(loaded, status) ==
    IF status = "DONE" /\ loaded.status # "DONE" THEN TRUE
    ELSE IF loaded.status = "DONE" /\ status # "DONE" THEN FALSE
    ELSE loaded.completed

\* The flush of the loaded instance: only attributes whose value differs from
\* the one loaded are written.
Flush(b, t, loaded, new) ==
    LET written(old, value, now) == IF value # old THEN value ELSE now
    IN  [b EXCEPT ![t] =
            [status |-> written(loaded.status, new.status, @.status),
             order |-> written(loaded.order, new.order, @.order),
             completed |->
                written(loaded.completed, new.completed, @.completed)]]

\* A new task goes to the end of TODO.
Created(b, t) ==
    [b EXCEPT ![t] = [status |-> "TODO", order |-> NextOrder(b, "TODO"),
                      completed |-> FALSE]]

\* update with "status" in the payload (other fields do not touch the board).
Updated(b, t, loaded, status) ==
    LET closed == Shift(b, After(b, loaded.status, loaded.order), -1)
    IN  IF status = loaded.status
        THEN b
        ELSE Flush(closed, t, loaded,
                   [status |-> status, order |-> NextOrder(closed, status),
                    completed |-> Completed(loaded, status)])

MovedWithin(b, t, loaded, order) ==
    LET status == loaded.status
        last == Size(b, status) - 1
        new == IF order < last THEN order ELSE last
        others ==
            IF new > loaded.order
            THEN Shift(b, Between(b, status, loaded.order + 1, new) \ {t}, -1)
            ELSE Shift(b, Between(b, status, new, loaded.order - 1) \ {t}, 1)
    IN  IF new = loaded.order
        THEN b
        ELSE Flush(others, t, loaded, [loaded EXCEPT !.order = new])

\* Mutant: the position is capped as within one column.
MovedAcrossShort(b, t, loaded, status, order) ==
    LET last == Size(b, status) - 1
        new == IF order < last THEN order ELSE last
        closed == Shift(b, After(b, loaded.status, loaded.order), -1)
        opened == Shift(closed, From(closed, status, new) \ {t}, 1)
    IN  Flush(opened, t, loaded,
              [status |-> status, order |-> new,
               completed |-> Completed(loaded, status)])

MovedAcross(b, t, loaded, status, order) ==
    LET size == Size(b, status)
        new == IF order < size THEN order ELSE size
        closed == Shift(b, After(b, loaded.status, loaded.order), -1)
        opened == Shift(closed, From(closed, status, new) \ {t}, 1)
    IN  Flush(opened, t, loaded,
              [status |-> status, order |-> new,
               completed |-> Completed(loaded, status)])

Moved(b, t, loaded, status, order) ==
    IF status = loaded.status
    THEN MovedWithin(b, t, loaded, order)
    ELSE MovedAcross(b, t, loaded, status, order)

Deleted(b, t, loaded) ==
    [Shift(b, After(b, loaded.status, loaded.order), -1) EXCEPT ![t] = NoTask]

-------------------------------------------------------------------------------
(* Requests, one at a time.                                                *)

CreateTask(t) ==
    /\ t \notin used
    /\ used' = used \cup {t}
    /\ board' = Created(board, t)

UpdateTask(t, status) ==
    /\ t \in Live(board)
    /\ board' = Updated(board, t, board[t], status)
    /\ UNCHANGED used

MoveTask(t, status, order) ==
    /\ t \in Live(board)
    /\ board' = Moved(board, t, board[t], status, order)
    /\ UNCHANGED used

DeleteTask(t) ==
    /\ t \in Live(board)
    /\ board' = Deleted(board, t, board[t])
    /\ UNCHANGED used

Next ==
    \E t \in Tasks :
        \/ CreateTask(t)
        \/ \E status \in Statuses : UpdateTask(t, status)
        \/ \E status \in Statuses, order \in 0..MaxOrder :
              MoveTask(t, status, order)
        \/ DeleteTask(t)

Spec == Init /\ [][Next]_vars

-------------------------------------------------------------------------------
(* Properties.                                                             *)

\* The positions of every column are 0..n-1, without gaps or repetitions
\* (docs/ENDPOINTS.md:2138, "para manter a sequencia sem buracos"), after any
\* sequence of requests.
ColumnsAreGapless ==
    \A status \in Statuses :
        {board[t].order : t \in Column(board, status)}
            = 0..(Size(board, status) - 1)

\* completed_at is set exactly for the tasks in DONE (docs/ENDPOINTS.md:2142),
\* though no single request looks at more than the old and the new status.
CompletedIffDone ==
    \A t \in Live(board) : board[t].completed <=> board[t].status = "DONE"

\* A request disturbs one task only: all others stay in their column and keep
\* their order relative to each other, however many rows were renumbered.
OthersKeepTheirPlace ==
    [][\E t \in Tasks : \A x, y \in Live(board) \ {t} :
          /\ x \in Live(board')
          /\ board'[x].status = board[x].status
          /\ board[x].status = board[y].status =>
                (board[x].order < board[y].order
                    <=> board'[x].order < board'[y].order)]_vars

\* A move puts the task at the position asked for, or at the end of the target
\* column when that is further than the column reaches (docs/ENDPOINTS.md:2433).
MovesLandWhereAsked ==
    [][\A t \in Tasks, status \in Statuses, order \in 0..MaxOrder :
          MoveTask(t, status, order) =>
            /\ board'[t].status = status
            /\ LET last == Size(board', status) - 1
               IN  board'[t].order = IF order < last THEN order ELSE last]_vars

===============================================================================
