---------------------------- MODULE MCReplicaSet ---------------------------
(* TLC instance of ReplicaSet. *)
EXTENDS ReplicaSet, TLC
=============================================================================
