-------------------------- MODULE MCLeaderElection --------------------------
(* TLC instances of LeaderElection.  The candidates are interchangeable. *)
EXTENDS LeaderElection, TLC

Symmetry == Permutations(Nodes)
=============================================================================
