------------------------------ MODULE MCLeads -------------------------------
(* The symmetry of the model values of Leads and Accounts.                 *)
EXTENDS Leads, TLC

MCSymmetry ==
  Permutations(Founders) \union Permutations(Users \ Founders) \union Permutations(Links)
    \union Permutations(LeadIds) \union Permutations(Threads)
=============================================================================
