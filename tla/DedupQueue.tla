----------------------------- MODULE DedupQueue -----------------------------
(***************************************************************************)
(* What a work queue promises to the controllers that share it: a set of   *)
(* keys that want a reconcile, and one key at a time per worker.  A key is *)
(* never held by two workers, and it only stops being wanted by being      *)
(* handed to a worker.  A hand-out may leave the key wanted: a request     *)
(* that is still waiting for its delay is not consumed by it.              *)
(***************************************************************************)
CONSTANTS Keys, Workers, None

VARIABLES wanted, holds

Init == wanted = {} /\ holds = [w \in Workers |-> None]

Request(k) ==
    /\ wanted' = wanted \cup {k}
    /\ holds' = holds

Take(w, k) ==
    /\ holds[w] = None
    /\ k \in wanted
    /\ \A v \in Workers : holds[v] # k
    /\ holds' = [holds EXCEPT ![w] = k]
    /\ wanted' \in {wanted, wanted \ {k}}

Finish(w) ==
    /\ holds[w] # None
    /\ holds' = [holds EXCEPT ![w] = None]
    /\ wanted' = wanted

Next ==
    \/ \E k \in Keys : Request(k)
    \/ \E w \in Workers : Finish(w) \/ \E k \in Keys : Take(w, k)

Spec == Init /\ [][Next]_<<wanted, holds>>
=============================================================================
