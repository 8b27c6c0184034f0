---------------------------- MODULE MCScheduler ----------------------------
(* TLC instance of Scheduler.  The names are interchangeable. *)
EXTENDS Scheduler, TLC

Symmetry == Permutations(Names)
=============================================================================
