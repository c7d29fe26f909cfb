--------------------------- MODULE KanbanBoardProofs ---------------------------
(***************************************************************************)
(* The Kanban columns stay gapless under any sequence of requests, for     *)
(* every set of tasks and every position a move may ask for; and requests  *)
(* that read first and renumber later do the same unless they overlap.     *)
(*                                                                         *)
(* ColumnsAreGapless compares a set of orders with a cardinality, which a  *)
(* step cannot be reasoned about directly.  Dense(b, st, n) says the same  *)
(* without cardinalities: the orders of the column are a bijection onto    *)
(* 0..n-1.  It is inductive together with the type of the board.           *)
(***************************************************************************)
EXTENDS KanbanRequests, FiniteSetTheorems, WellFoundedInduction, TLAPS

Boards == [Tasks -> Rows \cup {NoTask}]

Dense(b, st, n) ==
    /\ n \in Nat
    /\ \A x \in Column(b, st) : b[x].order \in 0..(n - 1)
    /\ \A x, y \in Column(b, st) : b[x].order = b[y].order => x = y
    /\ \A i \in 0..(n - 1) : \E x \in Column(b, st) : b[x].order = i

AllDense(b) == \A st \in Statuses : \E n \in Nat : Dense(b, st, n)

-------------------------------------------------------------------------------
(* What a dense column is.                                                 *)

LEMMA RowsOfColumn ==
    ASSUME NEW b \in Boards, NEW st, NEW x \in Column(b, st)
    PROVE  /\ x \in Tasks /\ b[x] \in Rows /\ b[x].order \in Int
           /\ b[x].status = st
  BY DEF Boards, Column, Live, Rows

\* count_in_status of a dense column.
LEMMA DenseSize ==
    ASSUME NEW b \in Boards, NEW st, NEW n, Dense(b, st, n)
    PROVE  Size(b, st) = n
<1> DEFINE S == Column(b, st)
           f == [x \in S |-> b[x].order]
<1>1. n \in Nat /\ IsFiniteSet(0..(n - 1)) /\ Cardinality(0..(n - 1)) = n
  BY FS_Interval DEF Dense
<1>2. IsFiniteSet(S)
  BY TasksAssumption, FS_Subset DEF Column, Live
<1>3. f \in Surjection(S, 0..(n - 1))
  BY DEF Dense, Surjection
<1>4. f \in Injection(S, 0..(n - 1))
  <2>1. f \in [S -> 0..(n - 1)]
    BY DEF Dense
  <2>2. \A x, y \in S : f[x] = f[y] => x = y
    BY DEF Dense
  <2> QED
    BY <2>1, <2>2, Zenon DEF Injection, IsInjective
<1>5. Cardinality(0..(n - 1)) = Cardinality(S)
  BY <1>2, <1>3, <1>4, FS_Surjection
<1> QED
  BY <1>1, <1>5 DEF Size

\* _next_order of a dense column.
LEMMA DenseNext ==
    ASSUME NEW b \in Boards, NEW st, NEW n, Dense(b, st, n)
    PROVE  NextOrder(b, st) = n
<1> DEFINE orders == {b[t].order : t \in Column(b, st)}
<1>1. orders = 0..(n - 1) /\ n \in Nat
  BY DEF Dense
<1>2. CASE Column(b, st) = {}
  <2>1. n = 0
    BY <1>1, <1>2 DEF Dense
  <2> QED
    BY <1>2, <2>1 DEF NextOrder
<1>3. CASE Column(b, st) # {}
  <2>1. n - 1 \in orders /\ \A i \in orders : n - 1 >= i
    BY <1>1, <1>3 DEF Dense
  <2>2. ASSUME NEW m \in orders, \A i \in orders : m >= i
        PROVE  m = n - 1
    <3>1. m >= n - 1 /\ n - 1 >= m /\ m \in Int /\ n - 1 \in Int
      BY <1>1, <2>1, <2>2
    <3> QED
      BY <3>1
  <2>3. Max(orders) = n - 1
    BY <2>1, <2>2 DEF Max
  <2> QED
    BY <1>1, <1>3, <2>3 DEF NextOrder
<1> QED
  BY <1>2, <1>3

LEMMA DenseIsGapless ==
    ASSUME board \in Boards, AllDense(board)
    PROVE  ColumnsAreGapless
<1> SUFFICES ASSUME NEW st \in Statuses
             PROVE  {board[t].order : t \in Column(board, st)}
                       = 0..(Size(board, st) - 1)
  BY DEF ColumnsAreGapless
<1>1. PICK n \in Nat : Dense(board, st, n)
  BY DEF AllDense
<1>2. Size(board, st) = n
  BY <1>1, DenseSize
<1> QED
  BY <1>1, <1>2 DEF Dense

-------------------------------------------------------------------------------
(* Renumbering.                                                            *)

\* A column no row of which changes, enters or leaves stays dense.
LEMMA DenseFrame ==
    ASSUME NEW b, NEW c, NEW st, NEW n, Dense(b, st, n),
           Column(c, st) = Column(b, st),
           \A x \in Column(b, st) : c[x].order = b[x].order
    PROVE  Dense(c, st, n)
  BY DEF Dense

\* Closing the gap a task leaves.
LEMMA DenseClose ==
    ASSUME NEW b \in Boards, NEW c \in Boards, NEW st, NEW n, Dense(b, st, n),
           NEW t \in Column(b, st),
           Column(c, st) = Column(b, st) \ {t},
           \A x \in Column(c, st) :
              c[x].order = IF b[x].order > b[t].order THEN b[x].order - 1
                                                      ELSE b[x].order
    PROVE  Dense(c, st, n - 1)
<1> DEFINE o == b[t].order
<1>1. /\ n \in Nat /\ o \in 0..(n - 1) /\ n - 1 \in Nat
      /\ \A x \in Column(b, st) : b[x].order \in 0..(n - 1)
      /\ \A x \in Column(c, st) : b[x].order # o
  BY DEF Dense
<1>2. \A x \in Column(c, st) : c[x].order \in 0..(n - 2)
  BY <1>1
<1>3. \A x, y \in Column(c, st) : c[x].order = c[y].order => x = y
  <2> SUFFICES ASSUME NEW x \in Column(c, st), NEW y \in Column(c, st),
                      c[x].order = c[y].order
               PROVE  b[x].order = b[y].order
    BY DEF Dense
  <2> QED
    BY <1>1
<1>4. ASSUME NEW i \in 0..(n - 2)
      PROVE  \E x \in Column(c, st) : c[x].order = i
  <2>1. CASE i < o
    <3>1. PICK x \in Column(b, st) : b[x].order = i
      BY <1>1 DEF Dense
    <3> QED
      BY <1>1, <2>1, <3>1
  <2>2. CASE i >= o
    <3>1. PICK x \in Column(b, st) : b[x].order = i + 1
      BY <1>1 DEF Dense
    <3> QED
      BY <1>1, <2>2, <3>1
  <2> QED
    BY <1>1, <2>1, <2>2
<1> QED
  BY <1>1, <1>2, <1>3, <1>4 DEF Dense

\* Making room for a task at position p.
LEMMA DenseOpen ==
    ASSUME NEW b \in Boards, NEW c \in Boards, NEW st, NEW n, Dense(b, st, n),
           NEW t, t \notin Column(b, st), NEW p \in 0..n,
           Column(c, st) = Column(b, st) \cup {t}, c[t].order = p,
           \A x \in Column(b, st) :
              c[x].order = IF b[x].order >= p THEN b[x].order + 1
                                              ELSE b[x].order
    PROVE  Dense(c, st, n + 1)
<1>1. /\ n \in Nat /\ n + 1 \in Nat /\ p \in Int
      /\ \A x \in Column(b, st) : b[x].order \in 0..(n - 1)
  BY DEF Dense
<1>2. \A x \in Column(c, st) : c[x].order \in 0..n
  BY <1>1
<1>3. \A x, y \in Column(c, st) : c[x].order = c[y].order => x = y
  <2>1. \A x, y \in Column(b, st) : c[x].order = c[y].order => x = y
    <3> SUFFICES ASSUME NEW x \in Column(b, st), NEW y \in Column(b, st),
                        c[x].order = c[y].order
                 PROVE  b[x].order = b[y].order
      BY DEF Dense
    <3> QED
      BY <1>1
  <2>2. \A x \in Column(b, st) : c[x].order # p
    BY <1>1
  <2> QED
    BY <2>1, <2>2
<1>4. ASSUME NEW i \in 0..n
      PROVE  \E x \in Column(c, st) : c[x].order = i
  <2>1. CASE i < p
    <3>1. PICK x \in Column(b, st) : b[x].order = i
      BY <1>1, <2>1 DEF Dense
    <3> QED
      BY <1>1, <2>1, <3>1
  <2>2. CASE i = p
    BY <2>2
  <2>3. CASE i > p
    <3>1. PICK x \in Column(b, st) : b[x].order = i - 1
      BY <1>1, <2>3 DEF Dense
    <3> QED
      BY <1>1, <2>3, <3>1
  <2> QED
    BY <1>1, <2>1, <2>2, <2>3
<1> QED
  BY <1>1, <1>2, <1>3, <1>4 DEF Dense

\* Moving a task inside its column.
LEMMA DenseWithin ==
    ASSUME NEW b \in Boards, NEW c \in Boards, NEW st, NEW n, Dense(b, st, n),
           NEW t \in Column(b, st), NEW p \in 0..(n - 1),
           Column(c, st) = Column(b, st), c[t].order = p,
           \A x \in Column(b, st) \ {t} :
              c[x].order =
                 IF b[t].order < b[x].order /\ b[x].order <= p
                 THEN b[x].order - 1
                 ELSE IF p <= b[x].order /\ b[x].order < b[t].order
                      THEN b[x].order + 1
                      ELSE b[x].order
    PROVE  Dense(c, st, n)
<1> DEFINE o == b[t].order
           others == Column(b, st) \ {t}
<1>1. /\ n \in Nat /\ o \in 0..(n - 1)
      /\ \A x \in others : b[x].order \in 0..(n - 1) /\ b[x].order # o
  BY DEF Dense
<1>2. \A x \in Column(c, st) : c[x].order \in 0..(n - 1)
  BY <1>1
<1>3. \A x, y \in Column(c, st) : c[x].order = c[y].order => x = y
  <2>1. \A x \in others : c[x].order # p
    BY <1>1
  <2>2. ASSUME NEW x \in others, NEW y \in others, c[x].order = c[y].order
        PROVE  x = y
    <3>1. b[x].order = b[y].order
      BY <1>1, <2>2
    <3> QED
      BY <3>1 DEF Dense
  <2> QED
    BY <2>1, <2>2
<1>4. ASSUME NEW i \in 0..(n - 1)
      PROVE  \E x \in Column(c, st) : c[x].order = i
  <2>1. CASE i = p
    BY <2>1
  <2>2. CASE o <= i /\ i < p
    <3>1. PICK x \in Column(b, st) : b[x].order = i + 1
      BY <1>1, <2>2 DEF Dense
    <3> QED
      BY <1>1, <2>2, <3>1
  <2>3. CASE p < i /\ i <= o
    <3>1. PICK x \in Column(b, st) : b[x].order = i - 1
      BY <1>1, <2>3 DEF Dense
    <3> QED
      BY <1>1, <2>3, <3>1
  <2>4. CASE (i < o /\ i < p) \/ (i > o /\ i > p)
    <3>1. PICK x \in Column(b, st) : b[x].order = i
      BY <1>1 DEF Dense
    <3> QED
      BY <1>1, <2>4, <3>1
  <2> QED
    BY <1>1, <2>1, <2>2, <2>3, <2>4
<1> QED
  BY <1>1, <1>2, <1>3, <1>4 DEF Dense

-------------------------------------------------------------------------------
(* The SQL statements.                                                     *)

LEMMA ShiftBoard ==
    ASSUME NEW b \in Boards, NEW ids \in SUBSET Live(b), NEW delta \in Int
    PROVE  /\ Shift(b, ids, delta) \in Boards
           /\ Live(Shift(b, ids, delta)) = Live(b)
           /\ \A x \in Tasks \ ids : Shift(b, ids, delta)[x] = b[x]
           /\ \A x \in ids :
                 /\ Shift(b, ids, delta)[x].status = b[x].status
                 /\ Shift(b, ids, delta)[x].completed = b[x].completed
                 /\ Shift(b, ids, delta)[x].order = b[x].order + delta
<1> DEFINE c == Shift(b, ids, delta)
<1>1. ASSUME NEW x \in ids
      PROVE  /\ c[x] \in Rows /\ c[x].status = b[x].status
             /\ c[x].completed = b[x].completed /\ c[x].order = b[x].order + delta
  <2>1. b[x] \in Rows /\ x \in Tasks
    BY DEF Boards, Live
  <2> QED
    BY <2>1 DEF Shift, Rows
<1>2. \A x \in Tasks \ ids : c[x] = b[x]
  BY DEF Shift
<1>3. c \in Boards
  <2>1. c = [x \in Tasks |-> c[x]]
    BY DEF Shift
  <2>2. \A x \in Tasks : c[x] \in Rows \cup {NoTask}
    BY <1>1, <1>2 DEF Boards
  <2> HIDE DEF c
  <2> QED
    BY <2>1, <2>2 DEF Boards
<1>4. Live(c) = Live(b)
  BY <1>1, <1>2, NoTaskAssumption DEF Live
<1> QED
  BY <1>1, <1>2, <1>3, <1>4

LEMMA ShiftDown ==
    ASSUME NEW b \in Boards, NEW ids \in SUBSET Live(b)
    PROVE  /\ Shift(b, ids, -1) \in Boards
           /\ Live(Shift(b, ids, -1)) = Live(b)
           /\ \A x \in Tasks \ ids : Shift(b, ids, -1)[x] = b[x]
           /\ \A x \in ids :
                 /\ Shift(b, ids, -1)[x].status = b[x].status
                 /\ Shift(b, ids, -1)[x].completed = b[x].completed
                 /\ Shift(b, ids, -1)[x].order = b[x].order - 1
<1>1. \A x \in ids : b[x].order \in Int
  BY DEF Boards, Live, Rows
<1>2. \A x \in ids : b[x].order + (-1) = b[x].order - 1
  BY <1>1
<1>3. -1 \in Int
  OBVIOUS
<1> QED
  BY <1>2, <1>3, ShiftBoard

\* The flush of an instance that is not stale writes exactly the new row.
LEMMA FreshFlush ==
    ASSUME NEW b \in Boards, NEW t \in Live(b), NEW new \in Rows
    PROVE  Flush(b, t, b[t], new) = [b EXCEPT ![t] = new]
<1>1. b[t] \in Rows /\ t \in Tasks
  BY DEF Boards, Live
<1>2. new = [status |-> new.status, order |-> new.order,
             completed |-> new.completed]
  BY DEF Rows
<1> QED
  BY <1>1, <1>2 DEF Flush, Boards

\* completed_at of the written row.
LEMMA CompletedValue ==
    ASSUME NEW row \in Rows, row.completed <=> row.status = "DONE",
           NEW st \in Statuses
    PROVE  Completed(row, st) \in BOOLEAN /\ (Completed(row, st) <=> st = "DONE")
  BY DEF Completed, Rows

-------------------------------------------------------------------------------
(* The operations, on a board that is not stale.                           *)

GoodBoard(b) ==
    /\ b \in Boards
    /\ AllDense(b)
    /\ \A x \in Live(b) : b[x].completed <=> b[x].status = "DONE"

\* What the operations do to column and mark of the tasks: only t is concerned.
SameColumns(b, c, t) ==
    \A x \in Tasks \ {t} :
        /\ x \in Live(c) <=> x \in Live(b)
        /\ x \in Live(b) => /\ c[x].status = b[x].status
                            /\ c[x].completed = b[x].completed

\* The other tasks stay in their column and keep their order in it.
OthersKept(b, c, t) ==
    \A x, y \in Live(b) \ {t} :
        /\ x \in Live(c)
        /\ c[x].status = b[x].status
        /\ b[x].status = b[y].status =>
              (b[x].order < b[y].order <=> c[x].order < c[y].order)

\* The task went where it was told to, or to the end of that column.
LandsAt(c, t, status, order) ==
    /\ c[t].status = status
    /\ LET last == Size(c, status) - 1
       IN  c[t].order = IF order < last THEN order ELSE last

LEMMA SameColumnsOf ==
    ASSUME NEW b, NEW c, NEW t \in Tasks, SameColumns(b, c, t), NEW st
    PROVE  /\ t \in Column(c, st) => Column(c, st) = Column(b, st) \cup {t}
           /\ t \notin Column(c, st) => Column(c, st) = Column(b, st) \ {t}
  BY DEF SameColumns, Column, Live

\* The board after t has gone to position p of another column.
LEMMA Transfer ==
    ASSUME NEW b \in Boards, AllDense(b), NEW c \in Boards, NEW t \in Live(b),
           NEW target \in Statuses, target # b[t].status,
           NEW p \in 0..Size(b, target),
           SameColumns(b, c, t), t \in Column(c, target), c[t].order = p,
           \A x \in Column(b, b[t].status) \ {t} :
              c[x].order = IF b[x].order > b[t].order THEN b[x].order - 1
                                                      ELSE b[x].order,
           \A x \in Column(b, target) :
              c[x].order = IF b[x].order >= p THEN b[x].order + 1
                                              ELSE b[x].order,
           \A x \in Live(b) : b[x].status \notin {b[t].status, target} =>
              c[x].order = b[x].order
    PROVE  AllDense(c)
<1> DEFINE source == b[t].status
<1> SUFFICES ASSUME NEW st \in Statuses
             PROVE  \E n \in Nat : Dense(c, st, n)
  BY DEF AllDense
<1>1. PICK n \in Nat : Dense(b, st, n)
  BY DEF AllDense
<1>2. t \in Column(b, source) /\ t \in Tasks /\ c[t].status = target
  BY DEF Column, Live
<1>3. CASE st = source
  <2>1. Column(c, st) = Column(b, st) \ {t}
    <3>1. t \notin Column(c, st)
      BY <1>2, <1>3 DEF Column
    <3> QED
      BY <1>2, <3>1, SameColumnsOf
  <2>2. Dense(c, st, n - 1)
    BY <1>1, <1>2, <1>3, <2>1, DenseClose
  <2> QED
    BY <2>2 DEF Dense
<1>4. CASE st = target
  <2>1. Column(c, st) = Column(b, st) \cup {t} /\ t \notin Column(b, st)
    BY <1>2, <1>4, SameColumnsOf DEF Column
  <2>2. Size(b, st) = n
    BY <1>1, DenseSize
  <2>3. Dense(c, st, n + 1)
    BY <1>1, <1>4, <2>1, <2>2, DenseOpen
  <2> QED
    BY <2>3 DEF Dense
<1>5. CASE st # source /\ st # target
  <2>1. Column(c, st) = Column(b, st)
    <3>1. t \notin Column(c, st) /\ t \notin Column(b, st)
      BY <1>2, <1>5 DEF Column
    <3>2. Column(c, st) = Column(b, st) \ {t}
      BY <1>2, <3>1, SameColumnsOf
    <3> QED
      BY <3>1, <3>2
  <2>2. \A x \in Column(b, st) : c[x].order = b[x].order
    BY <1>5 DEF Column
  <2> QED
    BY <1>1, <2>1, <2>2, DenseFrame
<1> QED
  BY <1>3, <1>4, <1>5

\* Closing one column and opening another changes no order among the others.
LEMMA TransferKeepsOthers ==
    ASSUME NEW b \in Boards, AllDense(b), NEW c \in Boards, NEW t \in Live(b),
           NEW target \in Statuses, target # b[t].status,
           NEW p \in 0..Size(b, target),
           SameColumns(b, c, t), t \in Column(c, target), c[t].order = p,
           \A x \in Column(b, b[t].status) \ {t} :
              c[x].order = IF b[x].order > b[t].order THEN b[x].order - 1
                                                      ELSE b[x].order,
           \A x \in Column(b, target) :
              c[x].order = IF b[x].order >= p THEN b[x].order + 1
                                              ELSE b[x].order,
           \A x \in Live(b) : b[x].status \notin {b[t].status, target} =>
              c[x].order = b[x].order
    PROVE  OthersKept(b, c, t)
<1> DEFINE source == b[t].status
<1> SUFFICES ASSUME NEW x \in Live(b) \ {t}, NEW y \in Live(b) \ {t},
                    b[x].status = b[y].status
             PROVE  b[x].order < b[y].order <=> c[x].order < c[y].order
  BY DEF OthersKept, SameColumns, Live
<1>1. /\ x \in Column(b, b[x].status) \ {t} /\ y \in Column(b, b[x].status) \ {t}
      /\ t \in Column(b, source)
      /\ b[x].order \in Int /\ b[y].order \in Int /\ b[t].order \in Int /\ p \in Int
  BY DEF Column, Live, Boards, Rows
<1>2. CASE b[x].status = source
  <2>1. b[x].order # b[t].order /\ b[y].order # b[t].order
    <3>1. source \in Statuses
      BY DEF Live, Boards, Rows
    <3>2. PICK n \in Nat : Dense(b, source, n)
      BY <3>1 DEF AllDense
    <3> QED
      BY <1>1, <1>2, <3>2 DEF Dense
  <2>2. /\ c[x].order = IF b[x].order > b[t].order THEN b[x].order - 1 ELSE b[x].order
        /\ c[y].order = IF b[y].order > b[t].order THEN b[y].order - 1 ELSE b[y].order
    BY <1>1, <1>2
  <2> QED
    BY <1>1, <2>1, <2>2
<1>3. CASE b[x].status = target
  <2>1. /\ c[x].order = IF b[x].order >= p THEN b[x].order + 1 ELSE b[x].order
        /\ c[y].order = IF b[y].order >= p THEN b[y].order + 1 ELSE b[y].order
    BY <1>1, <1>3
  <2> QED
    BY <1>1, <2>1
<1>4. CASE b[x].status \notin {source, target}
  BY <1>4
<1> QED
  BY <1>2, <1>3, <1>4

LEMMA CreatedGood ==
    ASSUME NEW b, GoodBoard(b), NEW t \in Tasks, t \notin Live(b)
    PROVE  GoodBoard(Created(b, t)) /\ OthersKept(b, Created(b, t), t)
<1> DEFINE c == Created(b, t)
<1>1. PICK m \in Nat : Dense(b, "TODO", m)
  BY DEF GoodBoard, AllDense, Statuses
<1>2. NextOrder(b, "TODO") = m
  BY <1>1, DenseNext DEF GoodBoard
<1>3. c = [b EXCEPT ![t] =
              [status |-> "TODO", order |-> m, completed |-> FALSE]]
  BY <1>2 DEF Created
<1>4. c[t] = [status |-> "TODO", order |-> m, completed |-> FALSE] /\ c[t] \in Rows
  BY <1>3 DEF GoodBoard, Boards, Rows, Statuses
<1>5. c \in Boards /\ \A x \in Tasks \ {t} : c[x] = b[x]
  BY <1>3, <1>4 DEF GoodBoard, Boards
<1> HIDE DEF c
<1>6. t \in Column(c, "TODO") /\ t \in Live(c)
  BY <1>4, NoTaskAssumption DEF Column, Live
<1>7. SameColumns(b, c, t)
  BY <1>5 DEF SameColumns, Live
<1>8. AllDense(c)
  <2> SUFFICES ASSUME NEW st \in Statuses
               PROVE  \E n \in Nat : Dense(c, st, n)
    BY DEF AllDense
  <2>1. t \notin Column(b, st)
    BY DEF Column
  <2>2. CASE st = "TODO"
    <3>1. Column(c, st) = Column(b, st) \cup {t}
      BY <1>6, <1>7, <2>2, SameColumnsOf
    <3>2. \A x \in Column(b, st) :
             c[x].order = IF b[x].order >= m THEN b[x].order + 1 ELSE b[x].order
      BY <1>1, <1>5, <2>1, <2>2 DEF Dense, Column, Live
    <3>3. Dense(c, st, m + 1)
      BY <1>1, <1>4, <1>5, <2>1, <2>2, <3>1, <3>2, DenseOpen DEF GoodBoard
    <3> QED
      BY <3>3 DEF Dense
  <2>3. CASE st # "TODO"
    <3>1. Column(c, st) = Column(b, st)
      <4>1. t \notin Column(c, st)
        BY <1>4, <2>3 DEF Column
      <4> QED
        BY <1>7, <2>1, <4>1, SameColumnsOf
    <3>2. \A x \in Column(b, st) : c[x].order = b[x].order
      BY <1>5, <2>1 DEF Column, Live
    <3> QED
      BY <3>1, <3>2, DenseFrame DEF GoodBoard, AllDense
  <2> QED
    BY <2>2, <2>3
<1>9. \A x \in Live(c) : c[x].completed <=> c[x].status = "DONE"
  BY <1>4, <1>5 DEF GoodBoard, Live
<1>10. OthersKept(b, c, t)
  BY <1>5 DEF OthersKept, Live
<1> QED
  BY <1>5, <1>8, <1>9, <1>10 DEF GoodBoard, c

LEMMA DeletedGood ==
    ASSUME NEW b, GoodBoard(b), NEW t \in Live(b)
    PROVE  /\ GoodBoard(Deleted(b, t, b[t]))
           /\ Live(Deleted(b, t, b[t])) \subseteq Live(b)
           /\ OthersKept(b, Deleted(b, t, b[t]), t)
<1> DEFINE source == b[t].status
           ids == After(b, source, b[t].order)
           d == Shift(b, ids, -1)
           c == Deleted(b, t, b[t])
<1>1. /\ b \in Boards /\ t \in Tasks /\ b[t] \in Rows
      /\ t \notin ids /\ ids \in SUBSET Live(b)
  BY DEF GoodBoard, Boards, Live, After, Column, Rows
<1>2. /\ d \in Boards /\ Live(d) = Live(b)
      /\ \A x \in Tasks \ ids : d[x] = b[x]
      /\ \A x \in ids : /\ d[x].status = b[x].status
                        /\ d[x].completed = b[x].completed
                        /\ d[x].order = b[x].order - 1
  BY <1>1, ShiftDown
<1>3. c = [d EXCEPT ![t] = NoTask]
  BY DEF Deleted
<1> HIDE DEF c, d
<1>4. c \in Boards /\ t \notin Live(c) /\ \A x \in Tasks \ {t} : c[x] = d[x]
  BY <1>1, <1>2, <1>3 DEF Boards, Live
<1>5. SameColumns(b, c, t)
  BY <1>2, <1>4 DEF SameColumns, Live
<1>6. AllDense(c)
  <2> SUFFICES ASSUME NEW st \in Statuses
               PROVE  \E n \in Nat : Dense(c, st, n)
    BY DEF AllDense
  <2>1. PICK n \in Nat : Dense(b, st, n)
    BY DEF GoodBoard, AllDense
  <2>2. Column(c, st) = Column(b, st) \ {t}
    BY <1>1, <1>4, <1>5, SameColumnsOf DEF Column
  <2>3. CASE st = source
    <3>1. \A x \in Column(c, st) :
             c[x].order = IF b[x].order > b[t].order THEN b[x].order - 1
                                                     ELSE b[x].order
      BY <1>2, <1>4, <2>2, <2>3 DEF After, Column, Live
    <3>2. t \in Column(b, st)
      BY <2>3 DEF Column
    <3>3. Dense(c, st, n - 1)
      BY <1>1, <1>4, <2>1, <2>2, <3>1, <3>2, DenseClose
    <3> QED
      BY <3>3 DEF Dense
  <2>4. CASE st # source
    <3>1. \A x \in Column(b, st) : x # t /\ c[x].order = b[x].order
      BY <1>2, <1>4, <2>4 DEF After, Column, Live
    <3> QED
      BY <2>1, <2>2, <3>1, DenseFrame
  <2> QED
    BY <2>3, <2>4
<1>7. \A x \in Live(c) : c[x].completed <=> c[x].status = "DONE"
  BY <1>4, <1>5 DEF SameColumns, GoodBoard, Live
<1>8. Live(c) \subseteq Live(b)
  BY <1>4, <1>5 DEF SameColumns, Live
<1>9. OthersKept(b, c, t)
  <2> SUFFICES ASSUME NEW x \in Live(b) \ {t}, NEW y \in Live(b) \ {t},
                      b[x].status = b[y].status
               PROVE  b[x].order < b[y].order <=> c[x].order < c[y].order
    BY <1>5 DEF OthersKept, SameColumns, Live
  <2>1. /\ b[x].order \in Int /\ b[y].order \in Int /\ b[t].order \in Int
        /\ x \in Tasks \ {t} /\ y \in Tasks \ {t}
    BY <1>1 DEF Boards, Live, Rows
  <2>2. /\ x \in ids <=> b[x].status = source /\ b[x].order > b[t].order
        /\ y \in ids <=> b[y].status = source /\ b[y].order > b[t].order
    BY DEF After, Column
  <2>3. b[x].status = source =>
          b[x].order # b[t].order /\ b[y].order # b[t].order
    <3>1. PICK n \in Nat : Dense(b, source, n)
      BY <1>1 DEF GoodBoard, AllDense, Rows
    <3> QED
      BY <3>1 DEF Dense, Column
  <2>4. /\ c[x].order = IF x \in ids THEN b[x].order - 1 ELSE b[x].order
        /\ c[y].order = IF y \in ids THEN b[y].order - 1 ELSE b[y].order
    <3> HIDE DEF ids
    <3> QED
      BY <1>2, <1>4, <2>1
  <2> HIDE DEF ids
  <2> QED
    BY <2>1, <2>2, <2>3, <2>4
<1> QED
  BY <1>4, <1>6, <1>7, <1>8, <1>9 DEF GoodBoard, c

LEMMA UpdatedGood ==
    ASSUME NEW b, GoodBoard(b), NEW t \in Live(b), NEW target \in Statuses
    PROVE  /\ GoodBoard(Updated(b, t, b[t], target))
           /\ Live(Updated(b, t, b[t], target)) = Live(b)
           /\ OthersKept(b, Updated(b, t, b[t], target), t)
<1> DEFINE source == b[t].status
           ids == After(b, source, b[t].order)
           d == Shift(b, ids, -1)
           done == Completed(b[t], target)
           c == Updated(b, t, b[t], target)
<1>1. /\ b \in Boards /\ t \in Tasks /\ b[t] \in Rows
      /\ b[t].completed <=> b[t].status = "DONE"
      /\ t \notin ids /\ ids \in SUBSET Live(b)
  BY DEF GoodBoard, Boards, Live, After, Column, Rows
<1>2. CASE target = source
  BY <1>2 DEF Updated, OthersKept
<1>3. CASE target # source
  <2>1. /\ d \in Boards /\ Live(d) = Live(b)
        /\ \A x \in Tasks \ ids : d[x] = b[x]
        /\ \A x \in ids : /\ d[x].status = b[x].status
                          /\ d[x].completed = b[x].completed
                          /\ d[x].order = b[x].order - 1
    BY <1>1, ShiftDown
  <2>2. PICK m \in Nat : Dense(b, target, m)
    BY DEF GoodBoard, AllDense
  <2>3. NextOrder(d, target) = m
    <3>1. /\ Column(d, target) = Column(b, target)
          /\ \A x \in Column(b, target) : d[x].order = b[x].order
      BY <1>3, <2>1 DEF Column, After, Live
    <3>2. Dense(d, target, m)
      BY <2>2, <3>1, DenseFrame
    <3> QED
      BY <2>1, <3>2, DenseNext
  <2> DEFINE row == [status |-> target, order |-> m, completed |-> done]
  <2>4. done \in BOOLEAN /\ (done <=> target = "DONE")
    BY <1>1, CompletedValue
  <2> HIDE DEF done
  <2>5. row \in Rows
    BY <2>4 DEF Rows
  <2>6. c = [d EXCEPT ![t] = row]
    <3>1. d[t] = b[t] /\ t \in Live(d)
      BY <1>1, <2>1
    <3>2. c = Flush(d, t, d[t], row)
      BY <1>3, <2>3, <3>1 DEF Updated, done
    <3> QED
      BY <2>1, <2>5, <3>1, <3>2, FreshFlush
  <2> HIDE DEF c, d
  <2>7. /\ c \in Boards /\ c[t] = row /\ t \in Live(c)
        /\ \A x \in Tasks \ {t} : c[x] = d[x]
    BY <1>1, <2>1, <2>5, <2>6, NoTaskAssumption DEF Boards, Live
  <2>8. SameColumns(b, c, t)
    BY <2>1, <2>7 DEF SameColumns, Live
  <2>9. AllDense(c) /\ OthersKept(b, c, t)
    <3>1. Size(b, target) = m
      BY <1>1, <2>2, DenseSize
    <3>2. \A x \in Column(b, source) \ {t} :
             c[x].order = IF b[x].order > b[t].order THEN b[x].order - 1
                                                     ELSE b[x].order
      BY <2>1, <2>7 DEF After, Column, Live
    <3>3. \A x \in Column(b, target) :
             c[x].order = IF b[x].order >= m THEN b[x].order + 1 ELSE b[x].order
      BY <1>3, <2>1, <2>2, <2>7 DEF Dense, After, Column, Live
    <3>4. \A x \in Live(b) : b[x].status \notin {source, target} =>
             c[x].order = b[x].order
      BY <2>1, <2>7 DEF After, Column, Live
    <3>5. t \in Column(c, target) /\ c[t].order = m
      BY <2>7 DEF Column
    <3> QED
      BY <1>1, <1>3, <2>7, <2>8, <3>1, <3>2, <3>3, <3>4, <3>5, Transfer,
         TransferKeepsOthers
         DEF GoodBoard
  <2>10. \A x \in Live(c) : c[x].completed <=> c[x].status = "DONE"
    BY <2>4, <2>7, <2>8 DEF SameColumns, GoodBoard, Live
  <2>11. Live(c) = Live(b)
    BY <2>7, <2>8 DEF SameColumns, Live
  <2> QED
    BY <2>7, <2>9, <2>10, <2>11 DEF GoodBoard, c
<1> QED
  BY <1>2, <1>3

LEMMA MovedAcrossGood ==
    ASSUME NEW b, GoodBoard(b), NEW t \in Live(b), NEW target \in Statuses,
           target # b[t].status, NEW order \in Nat
    PROVE  /\ GoodBoard(MovedAcross(b, t, b[t], target, order))
           /\ Live(MovedAcross(b, t, b[t], target, order)) = Live(b)
           /\ OthersKept(b, MovedAcross(b, t, b[t], target, order), t)
           /\ LandsAt(MovedAcross(b, t, b[t], target, order), t, target, order)
<1> DEFINE source == b[t].status
           ids == After(b, source, b[t].order)
           d == Shift(b, ids, -1)
           size == Size(b, target)
           p == IF order < size THEN order ELSE size
           up == From(d, target, p) \ {t}
           e == Shift(d, up, 1)
           done == Completed(b[t], target)
           row == [status |-> target, order |-> p, completed |-> done]
           c == MovedAcross(b, t, b[t], target, order)
<1>1. /\ b \in Boards /\ t \in Tasks /\ b[t] \in Rows
      /\ b[t].completed <=> b[t].status = "DONE"
      /\ t \notin ids /\ ids \in SUBSET Live(b)
  BY DEF GoodBoard, Boards, Live, After, Column, Rows
<1>2. /\ d \in Boards /\ Live(d) = Live(b)
      /\ \A x \in Tasks \ ids : d[x] = b[x]
      /\ \A x \in ids : /\ d[x].status = b[x].status
                        /\ d[x].completed = b[x].completed
                        /\ d[x].order = b[x].order - 1
  BY <1>1, ShiftDown
<1>3. size \in Nat /\ p \in 0..size
  <2>1. PICK m \in Nat : Dense(b, target, m)
    BY DEF GoodBoard, AllDense
  <2>2. size = m
    BY <1>1, <2>1, DenseSize
  <2> QED
    BY <2>2
<1>4. done \in BOOLEAN /\ (done <=> target = "DONE")
  BY <1>1, CompletedValue
<1> HIDE DEF done, p, d
<1>5. /\ e \in Boards /\ Live(e) = Live(b)
      /\ \A x \in Tasks \ up : e[x] = d[x]
      /\ \A x \in up : /\ e[x].status = d[x].status
                       /\ e[x].completed = d[x].completed
                       /\ e[x].order = d[x].order + 1
  <2>1. up \in SUBSET Live(d) /\ 1 \in Int
    BY DEF From, Column
  <2> QED
    BY <1>2, <2>1, ShiftBoard
<1>6. row \in Rows
  BY <1>3, <1>4 DEF Rows
<1>7. c = [e EXCEPT ![t] = row]
  <2>1. e[t] = b[t] /\ t \in Live(e)
    BY <1>1, <1>2, <1>5
  <2>2. c = Flush(e, t, e[t], row)
    BY <2>1 DEF MovedAcross, done, p, d
  <2> HIDE DEF e, row
  <2> QED
    BY <1>5, <1>6, <2>1, <2>2, FreshFlush
<1> HIDE DEF c, e
<1>8. /\ c \in Boards /\ c[t] = row /\ t \in Live(c)
      /\ \A x \in Tasks \ {t} : c[x] = e[x]
  BY <1>1, <1>5, <1>6, <1>7, NoTaskAssumption DEF Boards, Live
<1>9. SameColumns(b, c, t)
  <2>1. ASSUME NEW x \in Tasks \ {t}
        PROVE  /\ x \in Live(c) <=> x \in Live(b)
               /\ x \in Live(b) => /\ c[x].status = b[x].status
                                   /\ c[x].completed = b[x].completed
    BY <1>2, <1>5, <1>8 DEF Live
  <2> QED
    BY <2>1 DEF SameColumns
<1>10. AllDense(c) /\ OthersKept(b, c, t)
  <2>1. \A x \in Column(b, source) \ {t} :
           c[x].order = IF b[x].order > b[t].order THEN b[x].order - 1
                                                   ELSE b[x].order
    <3> SUFFICES ASSUME NEW x \in Column(b, source) \ {t}
                 PROVE  c[x].order = IF b[x].order > b[t].order
                                     THEN b[x].order - 1 ELSE b[x].order
      OBVIOUS
    <3>1. x \in Tasks /\ d[x].status = source
      BY <1>2 DEF Column, Live
    <3>2. x \notin up
      BY <3>1 DEF From, Column
    <3> QED
      BY <1>2, <1>5, <1>8, <3>1, <3>2 DEF After
  <2>2. \A x \in Column(b, target) :
           c[x].order = IF b[x].order >= p THEN b[x].order + 1 ELSE b[x].order
    <3> SUFFICES ASSUME NEW x \in Column(b, target)
                 PROVE  c[x].order = IF b[x].order >= p
                                     THEN b[x].order + 1 ELSE b[x].order
      OBVIOUS
    <3>1. x \in Tasks \ {t} /\ x \notin ids /\ x \in Live(b)
      BY DEF After, Column, Live
    <3>2. d[x] = b[x] /\ x \in Column(d, target)
      BY <1>2, <3>1 DEF Column
    <3>3. x \in up <=> b[x].order >= p
      BY <3>1, <3>2 DEF From
    <3> QED
      BY <1>5, <1>8, <3>1, <3>2, <3>3
  <2>3. \A x \in Live(b) : b[x].status \notin {source, target} =>
           c[x].order = b[x].order
    <3> SUFFICES ASSUME NEW x \in Live(b), b[x].status \notin {source, target}
                 PROVE  c[x].order = b[x].order
      OBVIOUS
    <3>1. x \in Tasks \ {t} /\ x \notin ids
      BY DEF After, Column, Live
    <3>2. d[x] = b[x]
      BY <1>2, <3>1
    <3>3. x \notin up
      BY <3>2 DEF From, Column
    <3> QED
      BY <1>5, <1>8, <3>1, <3>2, <3>3
  <2>4. t \in Column(c, target) /\ c[t].order = p
    BY <1>8 DEF Column
  <2> QED
    BY <1>1, <1>3, <1>8, <1>9, <2>1, <2>2, <2>3, <2>4, Transfer,
       TransferKeepsOthers DEF GoodBoard
<1>11. \A x \in Live(c) : c[x].completed <=> c[x].status = "DONE"
  BY <1>4, <1>8, <1>9 DEF SameColumns, GoodBoard, Live
<1>12. Live(c) = Live(b)
  BY <1>8, <1>9 DEF SameColumns, Live
<1>13. LandsAt(c, t, target, order)
  <2>1. Column(c, target) = Column(b, target) \cup {t} /\ t \notin Column(b, target)
    BY <1>1, <1>8, <1>9, SameColumnsOf DEF Column
  <2>2. IsFiniteSet(Column(b, target))
    BY TasksAssumption, FS_Subset DEF Column, Live
  <2>3. Size(c, target) = size + 1
    BY <2>1, <2>2, FS_AddElement DEF Size
  <2>4. c[t].order = p /\ c[t].status = target
    BY <1>8
  <2>5. p = IF order < size THEN order ELSE size
    BY DEF p
  <2> HIDE DEF size
  <2>6. Size(c, target) - 1 = size
    BY <1>3, <2>3
  <2> QED
    BY <2>4, <2>5, <2>6 DEF LandsAt
<1> QED
  BY <1>8, <1>10, <1>11, <1>12, <1>13 DEF GoodBoard, c

LEMMA MovedWithinGood ==
    ASSUME NEW b, GoodBoard(b), NEW t \in Live(b), NEW order \in Nat
    PROVE  /\ GoodBoard(MovedWithin(b, t, b[t], order))
           /\ Live(MovedWithin(b, t, b[t], order)) = Live(b)
           /\ OthersKept(b, MovedWithin(b, t, b[t], order), t)
           /\ LandsAt(MovedWithin(b, t, b[t], order), t, b[t].status, order)
<1> DEFINE st == b[t].status
           o == b[t].order
           p == IF order < Size(b, st) - 1 THEN order ELSE Size(b, st) - 1
           down == Between(b, st, o + 1, p) \ {t}
           up == Between(b, st, p, o - 1) \ {t}
           e == IF p > o THEN Shift(b, down, -1) ELSE Shift(b, up, 1)
           row == [b[t] EXCEPT !.order = p]
           c == MovedWithin(b, t, b[t], order)
<1>1. /\ b \in Boards /\ t \in Tasks /\ b[t] \in Rows
      /\ t \in Column(b, st) /\ o \in Int
  BY DEF GoodBoard, Boards, Live, Column, Rows
<1>2. PICK n \in Nat : Dense(b, st, n)
  BY <1>1 DEF GoodBoard, AllDense, Rows
<1>3. Size(b, st) = n /\ o \in 0..(n - 1) /\ p \in 0..(n - 1)
  BY <1>1, <1>2, DenseSize DEF Dense
<1> HIDE DEF p
<1>4. CASE p = o
  <2>1. c = b
    BY <1>4 DEF MovedWithin, p
  <2>2. OthersKept(b, b, t)
    BY DEF OthersKept
  <2>3. LandsAt(b, t, st, order)
    BY <1>4 DEF LandsAt, p
  <2> HIDE DEF c
  <2> QED
    BY <2>1, <2>2, <2>3 DEF c
<1>5. CASE p # o
  <2>1. /\ e \in Boards /\ Live(e) = Live(b) /\ e[t] = b[t]
        /\ \A x \in Live(b) : /\ e[x].status = b[x].status
                              /\ e[x].completed = b[x].completed
    <3>1. CASE p > o
      <4>1. down \in SUBSET Live(b) /\ t \notin down
        BY DEF Between, Column
      <4>2. e = Shift(b, down, -1)
        BY <3>1
      <4> HIDE DEF down, e
      <4>3. /\ e \in Boards /\ Live(e) = Live(b)
            /\ \A x \in Tasks \ down : e[x] = b[x]
            /\ \A x \in down : /\ e[x].status = b[x].status
                               /\ e[x].completed = b[x].completed
        BY <1>1, <4>1, <4>2, ShiftDown
      <4> QED
        BY <1>1, <4>1, <4>3 DEF Live
    <3>2. CASE ~(p > o)
      <4>1. up \in SUBSET Live(b) /\ t \notin up /\ 1 \in Int
        BY DEF Between, Column
      <4>2. e = Shift(b, up, 1)
        BY <3>2
      <4> HIDE DEF up, e
      <4>3. /\ e \in Boards /\ Live(e) = Live(b)
            /\ \A x \in Tasks \ up : e[x] = b[x]
            /\ \A x \in up : /\ e[x].status = b[x].status
                             /\ e[x].completed = b[x].completed
        BY <1>1, <4>1, <4>2, ShiftBoard
      <4> QED
        BY <1>1, <4>1, <4>3 DEF Live
    <3> QED
      BY <3>1, <3>2
  <2>2. \A x \in Column(b, st) \ {t} :
           e[x].order = IF o < b[x].order /\ b[x].order <= p
                        THEN b[x].order - 1
                        ELSE IF p <= b[x].order /\ b[x].order < o
                             THEN b[x].order + 1
                             ELSE b[x].order
    <3> SUFFICES ASSUME NEW x \in Column(b, st) \ {t}
                 PROVE  e[x].order = IF o < b[x].order /\ b[x].order <= p
                                     THEN b[x].order - 1
                                     ELSE IF p <= b[x].order /\ b[x].order < o
                                          THEN b[x].order + 1
                                          ELSE b[x].order
      OBVIOUS
    <3>1. x \in Tasks /\ b[x].order \in Int /\ p \in Int
      BY <1>1, <1>3, RowsOfColumn
    <3>2. CASE p > o
      <4>1. down \in SUBSET Live(b)
        BY DEF Between, Column
      <4>2. x \in down <=> o < b[x].order /\ b[x].order <= p
        BY <1>1, <3>1 DEF Between
      <4>3. e[x].order = IF x \in down THEN b[x].order - 1 ELSE b[x].order
        <5> HIDE DEF down
        <5> QED
          BY <1>1, <3>1, <3>2, <4>1, ShiftDown
      <4>4. ~(p <= b[x].order /\ b[x].order < o)
        BY <1>1, <3>1, <3>2
      <4> QED
        BY <4>2, <4>3, <4>4
    <3>3. CASE ~(p > o)
      <4>1. up \in SUBSET Live(b) /\ 1 \in Int
        BY DEF Between, Column
      <4>2. x \in up <=> p <= b[x].order /\ b[x].order < o
        BY <1>1, <3>1 DEF Between
      <4>3. e[x].order = IF x \in up THEN b[x].order + 1 ELSE b[x].order
        <5> HIDE DEF up
        <5> QED
          BY <1>1, <3>1, <3>3, <4>1, ShiftBoard
      <4>4. ~(o < b[x].order /\ b[x].order <= p)
        BY <1>1, <3>1, <3>3
      <4> QED
        BY <4>2, <4>3, <4>4
    <3> QED
      BY <3>2, <3>3
  <2>3. row \in Rows /\ row.order = p /\ row.status = st
           /\ row.completed = b[t].completed
    BY <1>1, <1>3 DEF Rows
  <2>4. c = [e EXCEPT ![t] = row]
    <3>1. c = Flush(e, t, b[t], row)
      BY <1>5 DEF MovedWithin, p
    <3> HIDE DEF e, row
    <3> QED
      BY <1>1, <2>1, <2>3, <3>1, FreshFlush
  <2> HIDE DEF c, e, row
  <2>5. /\ c \in Boards /\ c[t] = row /\ t \in Live(c)
        /\ \A x \in Tasks \ {t} : c[x] = e[x]
    BY <1>1, <2>1, <2>3, <2>4, NoTaskAssumption DEF Boards, Live
  <2>6. Live(c) = Live(b) /\ SameColumns(b, c, t)
    BY <1>1, <2>1, <2>5 DEF SameColumns, Live
  <2>7. AllDense(c)
    <3> SUFFICES ASSUME NEW s \in Statuses
                 PROVE  \E k \in Nat : Dense(c, s, k)
      BY DEF AllDense
    <3>1. Column(c, s) = Column(b, s)
      BY <1>1, <2>3, <2>5, <2>6 DEF SameColumns, Column, Live
    <3>2. CASE s = st
      <4>1. \A x \in Column(b, st) \ {t} : c[x].order = e[x].order
        BY <2>5 DEF Column, Live
      <4> QED
        BY <1>1, <1>2, <1>3, <2>2, <2>3, <2>5, <3>1, <3>2, <4>1, DenseWithin
    <3>3. CASE s # st
      <4>1. \A x \in Column(b, s) : c[x].order = b[x].order
        <5> SUFFICES ASSUME NEW x \in Column(b, s)
                     PROVE  c[x].order = b[x].order
          OBVIOUS
        <5>1. x \in Tasks \ {t} /\ x \notin down /\ x \notin up
          BY <3>3 DEF Between, Column, Live
        <5>2. down \in SUBSET Live(b) /\ up \in SUBSET Live(b) /\ 1 \in Int
          BY DEF Between, Column
        <5>3. e[x] = b[x]
          BY <1>1, <5>1, <5>2, ShiftDown, ShiftBoard DEF e
        <5> QED
          BY <2>5, <5>1, <5>3
      <4> QED
        BY <3>1, <4>1, DenseFrame DEF GoodBoard, AllDense
    <3> QED
      BY <3>2, <3>3
  <2>8. \A x \in Live(c) : c[x].completed <=> c[x].status = "DONE"
    BY <1>1, <2>3, <2>5, <2>6 DEF SameColumns, GoodBoard, Live
  <2>9. OthersKept(b, c, t)
    <3> SUFFICES ASSUME NEW x \in Live(b) \ {t}, NEW y \in Live(b) \ {t},
                        b[x].status = b[y].status
                 PROVE  b[x].order < b[y].order <=> c[x].order < c[y].order
      BY <2>6 DEF OthersKept, SameColumns, Live
    <3>1. /\ b[x].order \in Int /\ b[y].order \in Int
          /\ x \in Tasks \ {t} /\ y \in Tasks \ {t} /\ p \in Int
      BY <1>1, <1>3 DEF Boards, Live, Rows
    <3>2. CASE b[x].status = st
      <4>1. x \in Column(b, st) \ {t} /\ y \in Column(b, st) \ {t}
        BY <3>2 DEF Column
      <4>2. b[x].order # o /\ b[y].order # o
        BY <1>1, <1>2, <4>1 DEF Dense
      <4>3. c[x].order = e[x].order /\ c[y].order = e[y].order
        BY <2>5, <3>1
      <4> HIDE DEF st, o
      <4> QED
        BY <1>1, <2>2, <3>1, <4>1, <4>2, <4>3
    <3>3. CASE b[x].status # st
      <4>1. /\ x \notin down /\ x \notin up /\ y \notin down /\ y \notin up
            /\ down \in SUBSET Live(b) /\ up \in SUBSET Live(b) /\ 1 \in Int
        BY <3>3 DEF Between, Column
      <4>2. e[x] = b[x] /\ e[y] = b[y]
        <5> HIDE DEF down, up
        <5>1. \A z \in Tasks \ down : Shift(b, down, -1)[z] = b[z]
          BY <1>1, <4>1, ShiftDown
        <5>2. \A z \in Tasks \ up : Shift(b, up, 1)[z] = b[z]
          BY <1>1, <4>1, ShiftBoard
        <5> QED
          BY <3>1, <4>1, <5>1, <5>2 DEF e
      <4> QED
        BY <2>5, <3>1, <4>2
    <3> QED
      BY <3>2, <3>3
  <2>10. LandsAt(c, t, st, order)
    <3>1. Column(c, st) = Column(b, st)
      BY <1>1, <2>3, <2>5, <2>6 DEF SameColumns, Column, Live
    <3>2. Size(c, st) = Size(b, st)
      BY <3>1 DEF Size
    <3> QED
      BY <2>3, <2>5, <3>2 DEF LandsAt, p
  <2> QED
    BY <2>5, <2>6, <2>7, <2>8, <2>9, <2>10 DEF GoodBoard, c
<1> QED
  BY <1>4, <1>5

-------------------------------------------------------------------------------
(* The theorems.                                                           *)

\* Ids are not reused: the id of a new task is not on the board.
BoardInv == GoodBoard(board) /\ used \subseteq Tasks /\ Live(board) \subseteq used

LEMMA BoardInit == Init => BoardInv
<1> SUFFICES ASSUME Init PROVE BoardInv
  OBVIOUS
<1>1. Live(board) = {} /\ board \in Boards /\ used \subseteq Tasks
  BY DEF Init, Live, Boards
<1>2. \A st \in Statuses : Dense(board, st, 0)
  BY <1>1 DEF Dense, Column
<1> QED
  BY <1>1, <1>2 DEF BoardInv, GoodBoard, AllDense

LEMMA BoardStep == BoardInv /\ [Next]_vars => BoardInv'
<1> SUFFICES ASSUME BoardInv, [Next]_vars PROVE BoardInv'
  OBVIOUS
<1>1. ASSUME NEW t \in Tasks, CreateTask(t)
      PROVE  BoardInv'
  <2>1. GoodBoard(board')
    BY <1>1, CreatedGood DEF CreateTask, BoardInv
  <2>2. Live(board') \subseteq used'
    BY <1>1 DEF CreateTask, Created, BoardInv, GoodBoard, Boards, Live
  <2> QED
    BY <1>1, <2>1, <2>2 DEF CreateTask, BoardInv
<1>2. ASSUME NEW t \in Tasks, NEW status \in Statuses, UpdateTask(t, status)
      PROVE  BoardInv'
  <2>1. GoodBoard(board') /\ Live(board') = Live(board)
    BY <1>2, UpdatedGood DEF UpdateTask, BoardInv
  <2> QED
    BY <1>2, <2>1 DEF UpdateTask, BoardInv
<1>3. ASSUME NEW t \in Tasks, NEW status \in Statuses, NEW order \in 0..MaxOrder,
             MoveTask(t, status, order)
      PROVE  BoardInv'
  <2>1. order \in Nat
    BY MaxOrderAssumption
  <2>2. GoodBoard(board') /\ Live(board') = Live(board)
    BY <1>3, <2>1, MovedWithinGood, MovedAcrossGood DEF MoveTask, Moved, BoardInv
  <2> QED
    BY <1>3, <2>2 DEF MoveTask, BoardInv
<1>4. ASSUME NEW t \in Tasks, DeleteTask(t)
      PROVE  BoardInv'
  <2>1. GoodBoard(board') /\ Live(board') \subseteq Live(board)
    BY <1>4, DeletedGood DEF DeleteTask, BoardInv
  <2> QED
    BY <1>4, <2>1 DEF DeleteTask, BoardInv
<1>5. CASE UNCHANGED vars
  BY <1>5 DEF BoardInv, GoodBoard, Boards, AllDense, Dense, Column, Live, vars
<1> QED
  BY <1>1, <1>2, <1>3, <1>4, <1>5 DEF Next

LEMMA BoardInvariant == Spec => []BoardInv
  BY BoardInit, BoardStep, PTL DEF Spec

\* Every request leaves a well-formed table.
THEOREM BoardIsTyped == Spec => []TypeOK
<1>1. BoardInv => TypeOK
  BY DEF BoardInv, GoodBoard, Boards, TypeOK
<1> QED
  BY <1>1, BoardInvariant, PTL

\* No sequence of creations, updates, moves and deletions leaves a hole or a
\* repeated position in a column, whatever the number of tasks.
THEOREM ColumnsStayGapless == Spec => []ColumnsAreGapless
<1>1. BoardInv => ColumnsAreGapless
  BY DenseIsGapless DEF BoardInv, GoodBoard
<1> QED
  BY <1>1, BoardInvariant, PTL

\* completed_at is set for exactly the tasks in DONE, whatever the requests.
THEOREM CompletionFollowsTheColumn == Spec => []CompletedIffDone
<1>1. BoardInv => CompletedIffDone
  BY DEF BoardInv, GoodBoard, CompletedIffDone
<1> QED
  BY <1>1, BoardInvariant, PTL

\* Whatever a request renumbers, the tasks it is not about stay in their column
\* and keep their order there.
THEOREM OthersStay == Spec => OthersKeepTheirPlace
<1>1. ASSUME BoardInv, [Next]_vars
      PROVE  [\E t \in Tasks : \A x, y \in Live(board) \ {t} :
                 /\ x \in Live(board')
                 /\ board'[x].status = board[x].status
                 /\ board[x].status = board[y].status =>
                       (board[x].order < board[y].order
                           <=> board'[x].order < board'[y].order)]_vars
  <2> SUFFICES ASSUME NEW t \in Tasks,
                      \/ CreateTask(t)
                      \/ \E status \in Statuses : UpdateTask(t, status)
                      \/ \E status \in Statuses, order \in 0..MaxOrder :
                            MoveTask(t, status, order)
                      \/ DeleteTask(t)
               PROVE  OthersKept(board, board', t)
    BY <1>1 DEF Next, OthersKept
  <2>1. CASE CreateTask(t)
    BY <1>1, <2>1, CreatedGood DEF CreateTask, BoardInv
  <2>2. ASSUME NEW status \in Statuses, UpdateTask(t, status)
        PROVE  OthersKept(board, board', t)
    BY <1>1, <2>2, UpdatedGood DEF UpdateTask, BoardInv
  <2>3. ASSUME NEW status \in Statuses, NEW order \in 0..MaxOrder,
               MoveTask(t, status, order)
        PROVE  OthersKept(board, board', t)
    <3>1. order \in Nat
      BY MaxOrderAssumption
    <3> QED
      BY <1>1, <2>3, <3>1, MovedWithinGood, MovedAcrossGood DEF MoveTask, Moved, BoardInv
  <2>4. CASE DeleteTask(t)
    BY <1>1, <2>4, DeletedGood DEF DeleteTask, BoardInv
  <2> QED
    BY <2>1, <2>2, <2>3, <2>4
<1> QED
  BY <1>1, BoardInvariant, PTL DEF Spec, OthersKeepTheirPlace

\* A move puts its task at the position asked for, or at the end of the column
\* if that is nearer, whichever column it comes from.
THEOREM MovesLand == Spec => MovesLandWhereAsked
<1>1. ASSUME BoardInv, NEW t \in Tasks, NEW status \in Statuses,
             NEW order \in 0..MaxOrder, MoveTask(t, status, order)
      PROVE  LandsAt(board', t, status, order)
  <2>1. order \in Nat
    BY MaxOrderAssumption
  <2>2. /\ t \in Live(board) /\ GoodBoard(board)
        /\ board' = Moved(board, t, board[t], status, order)
    BY <1>1 DEF MoveTask, BoardInv
  <2>3. CASE status = board[t].status
    BY <2>1, <2>2, <2>3, MovedWithinGood DEF Moved
  <2>4. CASE status # board[t].status
    BY <2>1, <2>2, <2>4, MovedAcrossGood DEF Moved
  <2> QED
    BY <2>3, <2>4
<1>2. BoardInv => [\A t \in Tasks, status \in Statuses, order \in 0..MaxOrder :
          MoveTask(t, status, order) =>
            /\ board'[t].status = status
            /\ LET last == Size(board', status) - 1
               IN  board'[t].order = IF order < last THEN order ELSE last]_vars
  BY <1>1 DEF LandsAt
<1> QED
  BY <1>2, BoardInvariant, PTL DEF Spec, MovesLandWhereAsked

-------------------------------------------------------------------------------
(* Requests that overlap.                                                  *)

LEMMA MaxOfFinite ==
    ASSUME NEW S \in SUBSET Int, IsFiniteSet(S), S # {}
    PROVE  Max(S) \in S /\ \A i \in S : Max(S) >= i
<1> DEFINE HasMax(T) == \E m \in T : \A i \in T : m >= i
           Bad == {T \in FiniteSubsetsOf(S) : T # {} /\ ~HasMax(T)}
<1>1. SUFFICES ASSUME Bad # {} PROVE FALSE
  <2>1. ASSUME Bad = {} PROVE HasMax(S)
    <3>1. S \in FiniteSubsetsOf(S)
      BY DEF FiniteSubsetsOf
    <3> QED
      BY <2>1, <3>1
  <2> QED
    BY <2>1 DEF Max
<1>2. PICK T \in Bad : \A U \in Bad : <<U, T>> \notin StrictSubsetOrdering(S)
  <2>1. Bad \subseteq FiniteSubsetsOf(S)
    OBVIOUS
  <2> HIDE DEF Bad
  <2> QED
    BY <1>1, <2>1, FS_StrictSubsetOrderingWellFounded, WFMin, Zenon
<1>3. PICK x \in T : TRUE
  OBVIOUS
<1> DEFINE U == T \ {x}
<1>4. T \in SUBSET S /\ IsFiniteSet(T)
  BY DEF FiniteSubsetsOf
<1>5. U \in FiniteSubsetsOf(S) /\ <<U, T>> \in StrictSubsetOrdering(S)
  BY <1>3, <1>4, FS_Subset DEF FiniteSubsetsOf, StrictSubsetOrdering
<1>6. U \notin Bad
  BY <1>2, <1>5
<1>7. CASE U = {}
  <2>1. T = {x} /\ x \in Int
    BY <1>3, <1>4, <1>7
  <2>2. HasMax(T)
    BY <2>1
  <2> QED
    BY <2>2
<1>8. CASE HasMax(U)
  <2>1. PICK m \in U : \A i \in U : m >= i
    BY <1>8
  <2>2. /\ m \in T /\ m \in Int /\ x \in Int
        /\ \A i \in T : i \in Int /\ (i = x \/ m >= i)
    BY <1>3, <1>4, <2>1
  <2>3. HasMax(T)
    <3>1. CASE x >= m
      <4>1. \A i \in T : x >= i
        BY <2>2, <3>1
      <4> QED
        BY <1>3, <4>1
    <3>2. CASE ~(x >= m)
      <4>1. \A i \in T : m >= i
        BY <2>2, <3>2
      <4> QED
        BY <2>2, <4>1
    <3> QED
      BY <3>1, <3>2
  <2> QED
    BY <2>3
<1> QED
  BY <1>5, <1>6, <1>7, <1>8

\* A move that finds the column of the row it has read empty writes the
\* position -1, and no renumbering goes below it.
FlooredRows == {row \in Rows : row.order >= -1}

FlooredBoards == [Tasks -> FlooredRows \cup {NoTask}]

LEMMA FlooredShift ==
    ASSUME NEW b \in FlooredBoards, NEW ids \in SUBSET Live(b), NEW delta \in {-1, 1},
           \A x \in ids : b[x].order + delta >= -1
    PROVE  Shift(b, ids, delta) \in FlooredBoards /\ Live(Shift(b, ids, delta)) = Live(b)
<1> DEFINE c == Shift(b, ids, delta)
<1>1. b \in Boards /\ delta \in Int /\ (\A x \in Tasks : b[x] \in FlooredRows \cup {NoTask})
  BY DEF FlooredBoards, FlooredRows, Boards
<1>2. /\ c \in Boards /\ Live(c) = Live(b)
      /\ \A x \in Tasks \ ids : c[x] = b[x]
      /\ \A x \in ids : c[x].order = b[x].order + delta
  BY <1>1, ShiftBoard
<1> HIDE DEF c
<1>3. \A x \in Tasks : c[x] \in FlooredRows \cup {NoTask}
  BY <1>1, <1>2 DEF Boards, FlooredRows
<1> QED
  BY <1>2, <1>3 DEF c, Boards, FlooredBoards

LEMMA FlooredFlush ==
    ASSUME NEW b \in FlooredBoards, NEW t \in Live(b), NEW loaded \in FlooredRows,
           NEW new \in FlooredRows
    PROVE  Flush(b, t, loaded, new) \in FlooredBoards
<1> DEFINE st == IF new.status # loaded.status THEN new.status ELSE b[t].status
           o == IF new.order # loaded.order THEN new.order ELSE b[t].order
           done == IF new.completed # loaded.completed THEN new.completed
                                                       ELSE b[t].completed
           row == [status |-> st, order |-> o, completed |-> done]
<1>1. t \in Tasks /\ b[t] \in FlooredRows
  BY DEF Live, FlooredBoards
<1>2. st \in Statuses /\ o \in Int /\ o >= -1 /\ done \in BOOLEAN
  BY <1>1 DEF FlooredRows, Rows
<1>3. Flush(b, t, loaded, new) = [b EXCEPT ![t] = row]
  BY <1>1 DEF Flush, FlooredBoards
<1> HIDE DEF st, o, done
<1>4. row \in FlooredRows
  BY <1>2 DEF FlooredRows, Rows
<1> HIDE DEF row
<1> QED
  BY <1>3, <1>4 DEF FlooredBoards

LEMMA FlooredNumbers ==
    ASSUME NEW b \in FlooredBoards, NEW st
    PROVE  Size(b, st) \in Nat /\ NextOrder(b, st) \in Nat
<1> DEFINE C == Column(b, st)
           orders == {b[t].order : t \in C}
<1>1. IsFiniteSet(C)
  BY TasksAssumption, FS_Subset DEF Column, Live
<1>2. Size(b, st) \in Nat
  BY <1>1, FS_CardinalityType DEF Size
<1>3. orders \in SUBSET Int /\ \A i \in orders : i >= -1
  BY DEF Column, Live, FlooredBoards, FlooredRows, Rows
<1>4. IsFiniteSet(orders)
  <2> DEFINE f == [t \in C |-> b[t].order]
  <2>1. f \in Surjection(C, orders)
    BY DEF Surjection
  <2> QED
    BY <1>1, <2>1, FS_Surjection
<1>5. C # {} => Max(orders) \in Int /\ Max(orders) >= -1
  <2> SUFFICES ASSUME C # {} PROVE Max(orders) \in Int /\ Max(orders) >= -1
    OBVIOUS
  <2>1. orders # {}
    OBVIOUS
  <2> HIDE DEF orders
  <2> QED
    BY <1>3, <1>4, <2>1, MaxOfFinite
<1>6. NextOrder(b, st) \in Nat
  BY <1>5 DEF NextOrder
<1> QED
  BY <1>2, <1>6

\* Closing the column of the row read.
LEMMA FlooredClose ==
    ASSUME NEW b \in FlooredBoards, NEW loaded \in FlooredRows
    PROVE  LET closed == Shift(b, After(b, loaded.status, loaded.order), -1)
           IN  closed \in FlooredBoards /\ Live(closed) = Live(b)
<1> DEFINE ids == After(b, loaded.status, loaded.order)
<1>1. ids \in SUBSET Live(b) /\ -1 \in {-1, 1}
  BY DEF After, Column
<1>2. \A x \in ids : b[x].order + -1 >= -1
  <2> TAKE x \in ids
  <2>1. b[x].order \in Int /\ b[x].order > loaded.order
    BY DEF After, Column, Live, FlooredBoards, FlooredRows, Rows
  <2>2. loaded.order \in Int /\ loaded.order >= -1
    BY DEF FlooredRows, Rows
  <2> QED
    BY <2>1, <2>2
<1> HIDE DEF ids
<1>3. Shift(b, ids, -1) \in FlooredBoards /\ Live(Shift(b, ids, -1)) = Live(b)
  BY <1>1, <1>2, FlooredShift
<1> QED
  BY <1>3 DEF ids

LEMMA FlooredUp ==
    ASSUME NEW b \in FlooredBoards, NEW ids \in SUBSET Live(b)
    PROVE  Shift(b, ids, 1) \in FlooredBoards /\ Live(Shift(b, ids, 1)) = Live(b)
<1>1. 1 \in {-1, 1}
  OBVIOUS
<1>2. \A x \in ids : b[x].order + 1 >= -1
  <2> TAKE x \in ids
  <2>1. b[x].order \in Int /\ b[x].order >= -1
    BY DEF Live, FlooredBoards, FlooredRows, Rows
  <2> QED
    BY <2>1
<1> QED
  BY <1>1, <1>2, FlooredShift

LEMMA FlooredUpdated ==
    ASSUME NEW b \in FlooredBoards, NEW t \in Live(b), NEW loaded \in FlooredRows,
           NEW status \in Statuses
    PROVE  Updated(b, t, loaded, status) \in FlooredBoards
<1> DEFINE closed == Shift(b, After(b, loaded.status, loaded.order), -1)
           next == NextOrder(closed, status)
           done == Completed(loaded, status)
           new == [status |-> status, order |-> next, completed |-> done]
<1>1. closed \in FlooredBoards /\ t \in Live(closed)
  BY FlooredClose
<1>2. Updated(b, t, loaded, status)
        = IF status = loaded.status THEN b ELSE Flush(closed, t, loaded, new)
  BY DEF Updated
<1> HIDE DEF closed
<1>3. next \in Nat /\ done \in BOOLEAN
  BY <1>1, FlooredNumbers DEF Completed, FlooredRows, Rows
<1> HIDE DEF next, done
<1>4. new \in FlooredRows
  BY <1>3 DEF FlooredRows, Rows
<1> HIDE DEF new
<1> QED
  BY <1>1, <1>2, <1>4, FlooredFlush

LEMMA FlooredMovedWithin ==
    ASSUME NEW b \in FlooredBoards, NEW t \in Live(b), NEW loaded \in FlooredRows,
           NEW order \in Nat
    PROVE  MovedWithin(b, t, loaded, order) \in FlooredBoards
<1> DEFINE st == loaded.status
           last == Size(b, st) - 1
           new == IF order < last THEN order ELSE last
           down == Between(b, st, loaded.order + 1, new) \ {t}
           up == Between(b, st, new, loaded.order - 1) \ {t}
           others == IF new > loaded.order THEN Shift(b, down, -1) ELSE Shift(b, up, 1)
           row == [loaded EXCEPT !.order = new]
<1>1. MovedWithin(b, t, loaded, order)
        = IF new = loaded.order THEN b ELSE Flush(others, t, loaded, row)
  BY DEF MovedWithin
<1>2. new \in Int /\ new >= -1
  BY FlooredNumbers
<1> HIDE DEF new
<1>3. row \in FlooredRows
  BY <1>2 DEF FlooredRows, Rows
<1>4. down \in SUBSET Live(b) /\ up \in SUBSET Live(b)
  BY DEF Between, Column
<1>5. \A x \in down : b[x].order + -1 >= -1
  <2> TAKE x \in down
  <2>1. b[x].order \in Int /\ loaded.order + 1 <= b[x].order
    BY DEF Between, Column, Live, FlooredBoards, FlooredRows, Rows
  <2>2. loaded.order \in Int /\ loaded.order >= -1
    BY DEF FlooredRows, Rows
  <2> QED
    BY <2>1, <2>2
<1> HIDE DEF down, up
<1>6. Shift(b, down, -1) \in FlooredBoards /\ Live(Shift(b, down, -1)) = Live(b)
  <2>1. -1 \in {-1, 1}
    OBVIOUS
  <2> QED
    BY <1>4, <1>5, <2>1, FlooredShift
<1>7. Shift(b, up, 1) \in FlooredBoards /\ Live(Shift(b, up, 1)) = Live(b)
  BY <1>4, FlooredUp
<1>8. others \in FlooredBoards /\ t \in Live(others)
  BY <1>6, <1>7
<1> HIDE DEF others, row
<1> QED
  BY <1>1, <1>3, <1>8, FlooredFlush

LEMMA FlooredMovedAcross ==
    ASSUME NEW b \in FlooredBoards, NEW t \in Live(b), NEW loaded \in FlooredRows,
           NEW status \in Statuses, NEW order \in Nat
    PROVE  MovedAcross(b, t, loaded, status, order) \in FlooredBoards
<1> DEFINE size == Size(b, status)
           new == IF order < size THEN order ELSE size
           closed == Shift(b, After(b, loaded.status, loaded.order), -1)
           up == From(closed, status, new) \ {t}
           opened == Shift(closed, up, 1)
           done == Completed(loaded, status)
           row == [status |-> status, order |-> new, completed |-> done]
<1>1. MovedAcross(b, t, loaded, status, order) = Flush(opened, t, loaded, row)
  BY DEF MovedAcross
<1>2. new \in Nat /\ done \in BOOLEAN
  BY FlooredNumbers DEF Completed, FlooredRows, Rows
<1> HIDE DEF new, done
<1>3. row \in FlooredRows
  BY <1>2 DEF FlooredRows, Rows
<1>4. closed \in FlooredBoards /\ t \in Live(closed)
  BY FlooredClose
<1> HIDE DEF closed
<1>5. up \in SUBSET Live(closed)
  BY DEF From, Column
<1> HIDE DEF up
<1>6. opened \in FlooredBoards /\ t \in Live(opened)
  BY <1>4, <1>5, FlooredUp
<1> HIDE DEF opened, row
<1> QED
  BY <1>1, <1>3, <1>6, FlooredFlush

LEMMA FlooredServed ==
    ASSUME NEW b \in FlooredBoards, NEW t \in Tasks, NEW loaded \in FlooredRows,
           NEW payload \in Payloads, NEW request, request.task = t,
           request.loaded = loaded, request.payload = payload
    PROVE  Served(b, request) \in FlooredBoards
<1>1. CASE payload \in [op : {"delete"}]
  <2> DEFINE closed == Shift(b, After(b, loaded.status, loaded.order), -1)
  <2>1. payload.op = "delete"
    BY <1>1
  <2>2. Served(b, request) = [closed EXCEPT ![t] = NoTask]
    BY <2>1 DEF Served, Deleted
  <2>3. closed \in FlooredBoards
    BY FlooredClose
  <2> HIDE DEF closed
  <2> QED
    BY <2>2, <2>3 DEF FlooredBoards
<1>2. CASE t \notin Live(b) /\ payload \notin [op : {"delete"}]
  <2>1. payload.op # "delete"
    BY <1>2 DEF Payloads
  <2>2. Served(b, request) = b
    BY <1>2, <2>1 DEF Served
  <2> QED
    BY <2>2
<1>3. CASE t \in Live(b) /\ payload \in [op : {"update"}, status : Statuses]
  <2>1. payload.op = "update" /\ payload.status \in Statuses
    BY <1>3
  <2>2. Served(b, request) = Updated(b, t, loaded, payload.status)
    BY <1>3, <2>1 DEF Served
  <2> QED
    BY <1>3, <2>1, <2>2, FlooredUpdated
<1>4. CASE t \in Live(b) /\ payload \in [op : {"move"}, status : Statuses, order : 0..MaxOrder]
  <2>1. /\ payload.op = "move" /\ payload.status \in Statuses
        /\ payload.order \in Nat
    BY <1>4, MaxOrderAssumption
  <2>2. Served(b, request) = Moved(b, t, loaded, payload.status, payload.order)
    BY <1>4, <2>1 DEF Served
  <2> QED
    BY <1>4, <2>1, <2>2, FlooredMovedWithin, FlooredMovedAcross DEF Moved
<1> QED
  BY <1>1, <1>2, <1>3, <1>4 DEF Payloads

FlooredRequest(request) ==
    \/ request = NoRequest
    \/ request \in [next : Nat]
    \/ request \in [task : Tasks, loaded : FlooredRows, payload : Payloads]

FlooredInv ==
    /\ board \in FlooredBoards
    /\ used \subseteq Tasks
    /\ DOMAIN pending = Handlers
    /\ \A h \in Handlers : FlooredRequest(pending[h])

LEMMA FlooredStep == FlooredInv /\ [RequestsNext]_requestVars => FlooredInv'
<1> SUFFICES ASSUME FlooredInv, [RequestsNext]_requestVars PROVE FlooredInv'
  OBVIOUS
<1>1. ASSUME NEW h \in Handlers, NEW t \in Tasks, NEW payload \in Payloads,
             ReadTask(h, t, payload)
      PROVE  FlooredInv'
  <2> DEFINE row == board[t]
             request == [task |-> t, loaded |-> row, payload |-> payload]
  <2>1. /\ row \in FlooredRows /\ pending' = [pending EXCEPT ![h] = request]
        /\ board' = board /\ used' = used
    BY <1>1 DEF ReadTask, Live, FlooredInv, FlooredBoards
  <2> HIDE DEF row
  <2>2. request \in [task : Tasks, loaded : FlooredRows, payload : Payloads]
    BY <2>1
  <2> HIDE DEF request
  <2> QED
    BY <2>1, <2>2 DEF FlooredInv, FlooredRequest
<1>2. ASSUME NEW h \in Handlers, ReadNextOrder(h)
      PROVE  FlooredInv'
  <2>1. NextOrder(board, "TODO") \in Nat
    BY FlooredNumbers DEF FlooredInv
  <2> DEFINE request == [next |-> NextOrder(board, "TODO")]
  <2>2. /\ request \in [next : Nat]
        /\ pending' = [pending EXCEPT ![h] = request]
        /\ board' = board /\ used' = used
    BY <1>2, <2>1 DEF ReadNextOrder
  <2> HIDE DEF request
  <2> QED
    BY <2>2 DEF FlooredInv, FlooredRequest
<1>3. ASSUME NEW h \in Handlers, CommitTask(h)
      PROVE  FlooredInv'
  <2>1. /\ pending[h] # NoRequest /\ ~IsInsert(pending[h])
        /\ board' = Served(board, pending[h])
        /\ pending' = [pending EXCEPT ![h] = NoRequest]
        /\ used' = used
    BY <1>3 DEF CommitTask
  <2>2. pending[h] \in [task : Tasks, loaded : FlooredRows, payload : Payloads]
    BY <2>1 DEF FlooredInv, FlooredRequest, IsInsert
  <2>3. /\ pending[h].task \in Tasks /\ pending[h].loaded \in FlooredRows
        /\ pending[h].payload \in Payloads
    BY <2>2
  <2>4. board' \in FlooredBoards
    BY <2>1, <2>3, FlooredServed DEF FlooredInv
  <2> QED
    BY <2>1, <2>4 DEF FlooredInv, FlooredRequest
<1>4. ASSUME NEW h \in Handlers, NEW t \in Tasks, InsertTask(h, t)
      PROVE  FlooredInv'
  <2>1. /\ pending[h] # NoRequest /\ IsInsert(pending[h])
        /\ used' = used \cup {t}
        /\ board' = [board EXCEPT ![t] = [status |-> "TODO", order |-> pending[h].next,
                                          completed |-> FALSE]]
        /\ pending' = [pending EXCEPT ![h] = NoRequest]
    BY <1>4 DEF InsertTask
  <2>2. pending[h].next \in Nat
    BY <2>1 DEF FlooredInv, FlooredRequest, IsInsert
  <2> DEFINE row == [status |-> "TODO", order |-> pending[h].next, completed |-> FALSE]
  <2>3. row \in FlooredRows
    BY <2>2 DEF FlooredRows, Rows, Statuses
  <2> HIDE DEF row
  <2>4. board' \in FlooredBoards
    BY <2>1, <2>3 DEF row, FlooredInv, FlooredBoards
  <2> QED
    BY <2>1, <2>4 DEF FlooredInv, FlooredRequest
<1>5. CASE UNCHANGED requestVars
  BY <1>5 DEF requestVars, FlooredInv, FlooredRequest
<1> QED
  BY <1>1, <1>2, <1>3, <1>4, <1>5 DEF RequestsNext

\* For any number of overlapping requests the table stays well formed, and the
\* position a new task is given is never negative.
THEOREM RequestsTypeCorrect == RequestsSpec => []RequestsTypeOK
<1>1. RequestsInit => FlooredInv
  BY DEF RequestsInit, Init, FlooredInv, FlooredBoards, FlooredRequest
<1>2. FlooredInv => RequestsTypeOK
  <2> SUFFICES ASSUME FlooredInv PROVE RequestsTypeOK
    OBVIOUS
  <2>1. TypeOK
    BY DEF FlooredInv, FlooredBoards, FlooredRows, TypeOK
  <2>2. ASSUME NEW h \in Handlers
        PROVE  \/ pending[h] = NoRequest
               \/ pending[h] \in [next : Nat]
               \/ pending[h] \in [task : Tasks, loaded : Rows, payload : Payloads]
    BY DEF FlooredInv, FlooredRequest, FlooredRows
  <2> QED
    BY <2>1, <2>2 DEF RequestsTypeOK
<1> QED
  BY <1>1, <1>2, FlooredStep, PTL DEF RequestsSpec

-------------------------------------------------------------------------------
(* Requests whose reads hold.                                              *)

\* Serving a request that has read the current row is one step of the board.
LEMMA FreshServed ==
    ASSUME NEW t \in Live(board), NEW payload \in Payloads, NEW request,
           request = [task |-> t, loaded |-> board[t], payload |-> payload],
           board' = Served(board, request), UNCHANGED used
    PROVE  Next
<1>1. t \in Tasks /\ request.task = t /\ request.loaded = board[t] /\ request.payload = payload
  BY DEF Live
<1>2. CASE payload \in [op : {"delete"}]
  <2>1. payload.op = "delete"
    BY <1>2
  <2>2. Served(board, request) = Deleted(board, t, board[t])
    BY <1>1, <2>1 DEF Served
  <2>3. DeleteTask(t)
    BY <2>2 DEF DeleteTask
  <2> QED
    BY <1>1, <2>3 DEF Next
<1>3. CASE payload \in [op : {"update"}, status : Statuses]
  <2>1. payload.op = "update" /\ payload.status \in Statuses
    BY <1>3
  <2>2. Served(board, request) = Updated(board, t, board[t], payload.status)
    BY <1>1, <2>1 DEF Served
  <2>3. UpdateTask(t, payload.status)
    BY <2>2 DEF UpdateTask
  <2> QED
    BY <1>1, <2>1, <2>3 DEF Next
<1>4. CASE payload \in [op : {"move"}, status : Statuses, order : 0..MaxOrder]
  <2>1. payload.op = "move" /\ payload.status \in Statuses /\ payload.order \in 0..MaxOrder
    BY <1>4
  <2>2. Served(board, request) =
          Moved(board, t, board[t], payload.status, payload.order)
    BY <1>1, <2>1 DEF Served
  <2>3. MoveTask(t, payload.status, payload.order)
    BY <2>2 DEF MoveTask
  <2> QED
    BY <1>1, <2>1, <2>3 DEF Next
<1> QED
  BY <1>2, <1>3, <1>4 DEF Payloads

\* A commit of a request that finds what it read is one step of the board.
LEMMA FreshStep ==
    ASSUME RequestsTypeOK, ReadsHold, [RequestsNext]_requestVars
    PROVE  [Next]_vars
<1>1. ASSUME NEW h \in Handlers, NEW t \in Tasks, NEW payload \in Payloads,
             ReadTask(h, t, payload)
      PROVE  [Next]_vars
  BY <1>1 DEF ReadTask, vars
<1>2. ASSUME NEW h \in Handlers, ReadNextOrder(h)
      PROVE  [Next]_vars
  BY <1>2 DEF ReadNextOrder, vars
<1>3. ASSUME NEW h \in Handlers, CommitTask(h)
      PROVE  [Next]_vars
  <2> DEFINE request == pending[h]
  <2>1. /\ request # NoRequest /\ ~IsInsert(request)
        /\ board' = Served(board, request) /\ used' = used
    BY <1>3 DEF CommitTask
  <2>2. request.loaded = board[request.task]
    BY <2>1 DEF ReadsHold, Fresh
  <2>3. request \in [task : Tasks, loaded : Rows, payload : Payloads]
    BY <2>1 DEF RequestsTypeOK, IsInsert
  <2> HIDE DEF request
  <2> DEFINE t == request.task
             payload == request.payload
  <2>4. /\ t \in Tasks /\ board[t] \in Rows /\ payload \in Payloads
        /\ request = [task |-> t, loaded |-> board[t], payload |-> payload]
    BY <2>2, <2>3
  <2>5. t \in Live(board)
    BY <2>4, NoTaskAssumption DEF Live
  <2> HIDE DEF t, payload
  <2> QED
    BY <2>1, <2>4, <2>5, FreshServed
<1>4. ASSUME NEW h \in Handlers, NEW t \in Tasks, InsertTask(h, t)
      PROVE  [Next]_vars
  <2>1. /\ pending[h] # NoRequest /\ IsInsert(pending[h]) /\ t \notin used
        /\ used' = used \cup {t}
        /\ board' = [board EXCEPT ![t] = [status |-> "TODO", order |-> pending[h].next,
                                          completed |-> FALSE]]
    BY <1>4 DEF InsertTask
  <2>2. pending[h].next = NextOrder(board, "TODO")
    BY <2>1 DEF ReadsHold, Fresh
  <2>3. CreateTask(t)
    BY <2>1, <2>2 DEF CreateTask, Created
  <2> QED
    BY <2>3 DEF Next
<1>5. CASE UNCHANGED requestVars
  BY <1>5 DEF requestVars, vars
<1> QED
  BY <1>1, <1>2, <1>3, <1>4, <1>5 DEF RequestsNext

\* The board under such requests is a board whose requests are one step each.
LEMMA FreshBoard == FreshSpec => Spec
<1>1. RequestsInit => Init /\ ReadsHold
  BY DEF RequestsInit, ReadsHold
<1>2. ReadsHold /\ [RequestsNext /\ ReadsHold']_requestVars
        => ReadsHold' /\ [RequestsNext]_requestVars
  BY DEF requestVars, ReadsHold, Fresh
<1>3. RequestsTypeOK /\ ReadsHold /\ [RequestsNext]_requestVars => [Next]_vars
  BY FreshStep
<1>4. FreshSpec => RequestsSpec
  <2>1. [RequestsNext /\ ReadsHold']_requestVars => [RequestsNext]_requestVars
    OBVIOUS
  <2> QED
    BY <2>1, PTL DEF FreshSpec, RequestsSpec
<1> QED
  BY <1>1, <1>2, <1>3, <1>4, RequestsTypeCorrect, PTL DEF FreshSpec, Spec

\* However many requests overlap, and whatever those of other tasks do to the
\* columns in between, the columns stay dense, the marks right, the others in
\* their place and the moves on target, as long as each request still finds its
\* own task, or the end of TODO, as it read it.  The run kanban_race shows what
\* one request that does not can do.
THEOREM OverlapsOfOtherTasksAreHarmless ==
    FreshSpec => /\ []ColumnsAreGapless /\ []CompletedIffDone
                 /\ OthersKeepTheirPlace /\ MovesLandWhereAsked
BY FreshBoard, ColumnsStayGapless, CompletionFollowsTheColumn, OthersStay, MovesLand, PTL

===============================================================================
