---------------------------- MODULE MCCaseRecords ----------------------------
(* Model values and the symmetry of CaseRecords.                           *)
EXTENDS CaseRecords, TLC

MCSymmetry ==
  Permutations(Clients) \union Permutations(Processes) \union Permutations(Notes)
    \union Permutations(Threads) \union Permutations(Cpfs)
=============================================================================
