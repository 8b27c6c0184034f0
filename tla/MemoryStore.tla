---------------------------- MODULE MemoryStore ----------------------------
(***************************************************************************)
(* The pods of MemoryStorage (storage/src/memory.rs) and one watch of them.*)
(* A write changes the data under the data lock, drops the lock and only   *)
(* then emits its event under the history lock (emit): between the two     *)
(* another writer can write and emit.  A writer is the controller, whose   *)
(* writes come one after the other, or the others (users, the kubelet), of *)
(* which one write at a time is between its two steps.                     *)
(*                                                                         *)
(* A pod is what the controllers read of it: the ReplicaSet it belongs to  *)
(* (0 for none), whether its labels match the selector, whether its phase  *)
(* is terminal, its deletionTimestamp and its resourceVersion.             *)
(***************************************************************************)
EXTENDS Integers, Sequences, FiniteSets

CONSTANTS
    MaxPods,      \* bound: pods that exist, or are remembered, at one time
    MaxInc,       \* bound: ReplicaSets that use the name, one after the other
    NoPod, NoEvent    \* "no such value"

ASSUME StoreAssumption == MaxPods \in Nat \ {0} /\ MaxInc \in Nat \ {0}

VARIABLES
    store,        \* pod -> its object, or NoPod
    unsent,       \* writer -> the event it has still to emit, or NoEvent
    stream,       \* emitted events the watch has not delivered
    watch,        \* the informer: down, list (watch open, not listed), watching
    gap           \* history: a pod's events were emitted out of order, or a
                  \* list failed after the watch was opened

storeVars == <<store, unsent, stream, gap>>

Ids == 1..MaxPods
Writers == {"controller", "others"}
Pods == [owner : 0..MaxInc, match : BOOLEAN, dead : BOOLEAN, term : BOOLEAN,
         rv : Nat]
PodEvents == [del : BOOLEAN, id : Ids, pod : Pods]

ASSUME NoValueAssumption == NoPod \notin Pods /\ NoEvent \notin PodEvents

NewPod(owner) ==
    [owner |-> owner, match |-> TRUE, dead |-> FALSE, term |-> FALSE, rv |-> 0]

\* The data half of create, update and update_raw: a new revision.
Put(writer, i, pod) ==
    LET p == [pod EXCEPT !.rv = @ + 1]
    IN  /\ unsent[writer] = NoEvent
        /\ store' = [store EXCEPT ![i] = p]
        /\ unsent' = [unsent EXCEPT ![writer] = [del |-> FALSE, id |-> i, pod |-> p]]
        /\ UNCHANGED <<stream, gap>>

\* update: refused unless the object still has the revision that was read.
Current(i, pod) == store[i] # NoPod /\ store[i].rv = pod.rv

\* The data half of delete: the event carries the delete's revision.
Erase(writer, i) ==
    /\ unsent[writer] = NoEvent
    /\ store' = [store EXCEPT ![i] = NoPod]
    /\ unsent' = [unsent EXCEPT ![writer] =
                    [del |-> TRUE, id |-> i, pod |-> [store[i] EXCEPT !.rv = @ + 1]]]
    /\ UNCHANGED <<stream, gap>>

\* mutant of Emit: an event between the watch and the list is not delivered
Emit_ListFirst(writer) ==
    LET e == unsent[writer]
    IN  /\ e # NoEvent
        /\ stream' = IF watch = "watching" THEN Append(stream, e) ELSE stream
        /\ unsent' = [unsent EXCEPT ![writer] = NoEvent]
        /\ UNCHANGED <<store, watch, gap>>

\* emit: to the watches that are open.
Emit(writer) ==
    LET e == unsent[writer]
    IN  /\ e # NoEvent
        /\ stream' = IF watch = "down" THEN stream ELSE Append(stream, e)
        /\ unsent' = [unsent EXCEPT ![writer] = NoEvent]
        /\ gap' = (gap \/ \E w \in Writers \ {writer} :
                            /\ unsent[w] # NoEvent /\ unsent[w].id = e.id
                            /\ unsent[w].pod.rv < e.pod.rv)
        /\ UNCHANGED <<store, watch>>

\* delete_gracefully is a get and, unless the pod is gone or terminating
\* already, an update_raw of the copy it read, with the deletionTimestamp.
NeedsMark(pod) == pod # NoPod /\ ~pod.term
Marked(i, pod) == [pod EXCEPT !.term = TRUE, !.rv = store[i].rv]

StoreTypeOK ==
    /\ store \in [Ids -> Pods \cup {NoPod}]
    /\ unsent \in [Writers -> PodEvents \cup {NoEvent}]
    /\ stream \in Seq(PodEvents)
    /\ watch \in {"down", "list", "watching"}
    /\ gap \in BOOLEAN
=============================================================================
