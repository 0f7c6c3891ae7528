---------------------------- MODULE MCScheduler ----------------------------
(* Model checking of Scheduler: jobs are interchangeable.                   *)
EXTENDS Scheduler, TLC

Symmetry == Permutations(Job)

=============================================================================
