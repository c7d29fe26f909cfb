--------------------------- MODULE MCDeadlineAlerts ---------------------------
(* Small instances of DeadlineAlerts for TLC.                              *)
EXTENDS DeadlineAlerts, TLC

CONSTANTS d1, d2, author

MCDeadlines == {d1, d2}
OneDeadline == {d1}
AuthorOnly == {author}
AuthorOrNobody == {author, NoUser}

DeadlineSymmetry == Permutations({d1, d2})

===============================================================================
