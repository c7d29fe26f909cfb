------------------------------ MODULE MCAgenda ------------------------------
(* The symmetry of Agenda's model values.                                  *)
EXTENDS Agenda, TLC

MCSymmetry ==
  Permutations(Appointments) \union Permutations(Events) \union Permutations(Threads)
=============================================================================
