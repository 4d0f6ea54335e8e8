---------------------------- MODULE MCScheduler ----------------------------
(* Instances of Scheduler for TLC.                                          *)
EXTENDS PlanRefinement, TLC

\* Nothing tells two motors apart.
Symmetry == Permutations(Motors)
=============================================================================
