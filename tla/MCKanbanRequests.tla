--------------------------- MODULE MCKanbanRequests ----------------------------
(* Small boards for TLC; tasks and handlers are interchangeable.            *)
EXTENDS KanbanRequests, TLC

CONSTANTS t1, t2, t3, h1, h2

ThreeTasks == {t1, t2, t3}
TwoTasks == {t1, t2}
TwoHandlers == {h1, h2}

BoardSymmetry == Permutations(ThreeTasks) \cup Permutations(TwoHandlers)

===============================================================================
