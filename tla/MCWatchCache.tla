---------------------------- MODULE MCWatchCache ----------------------------
(* TLC instances of WatchCache.  The clients are interchangeable. *)
EXTENDS WatchCache, TLC

Symmetry == Permutations(Clients)
=============================================================================
