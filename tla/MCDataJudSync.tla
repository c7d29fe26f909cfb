---------------------------- MODULE MCDataJudSync ----------------------------
(* Model values for DataJudSync.                                           *)
EXTENDS DataJudSync

CONSTANTS m1, m2

\* The two processes belong to different tribunals: a batch may list one or both.
MCTribunalOf == [p \in Processes |-> IF p = 3 THEN "tjsp" ELSE "trf1"]

\* DataJud publishes m1 first and m2 later; an answer may miss the news.
MCAnswers == {{m1}, {m1, m2}}
=============================================================================
