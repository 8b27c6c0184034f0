---------------------------- MODULE MCElectedWork ----------------------------
(* TLC instance of ElectedWork. *)
EXTENDS ElectedWork
=============================================================================
