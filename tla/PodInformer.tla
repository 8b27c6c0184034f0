---------------------------- MODULE PodInformer ----------------------------
(***************************************************************************)
(* SharedPodInformer and its PodInformerCache (controller-manager/src/     *)
(* controllers/pod_informer.rs): open a watch, list, then take the watch's *)
(* events; classify each pod once against the cache (addPod, updatePod,    *)
(* deletePod) and hand the effects to the controllers one by one.  The     *)
(* effects of the Job controller and of minReadySeconds are left out.      *)
(***************************************************************************)
EXTENDS MemoryStore, SequencesExt

VARIABLES
    known,        \* PodInformerCache.known
    effects       \* the observations still to be applied

informerVars == <<watch, known, effects>>

\* The effects; an observation of a pod without controller is nothing.
Effect(kind, i, pod) == [kind |-> kind, id |-> i, owner |-> pod.owner]
Owned(kind, i, pod) == IF pod.owner = 0 THEN <<>> ELSE <<Effect(kind, i, pod)>>
Matching(i, pod) == IF pod.match THEN <<Effect("match", i, pod)>> ELSE <<>>

\* addPod: a pod first seen terminating is no creation.
AddPod(i, pod) ==
    IF pod.term THEN Owned("deleted", i, pod)
    ELSE IF pod.owner # 0 THEN Owned("created", i, pod)
    ELSE Matching(i, pod)

\* updatePod: the deletionTimestamp is the deletion; else the old and the new
\* controller are synced, or whoever may adopt the orphan.
UpdatePod(i, old, pod) ==
    IF pod.rv = old.rv THEN <<>>
    ELSE IF pod.term
    THEN Owned("deleted", i, pod)
         \o (IF pod.match # old.match THEN Owned("deleted", i, old) ELSE <<>>)
    ELSE (IF pod.owner # old.owner THEN Owned("enqueue", i, old) ELSE <<>>)
         \o (IF pod.owner # 0 THEN Owned("enqueue", i, pod)
             ELSE IF pod.match # old.match \/ pod.owner # old.owner
             THEN Matching(i, pod) ELSE <<>>)

HandlePresent(i, pod) ==
    IF known[i] = NoPod THEN AddPod(i, pod) ELSE UpdatePod(i, known[i], pod)

-----------------------------------------------------------------------------
OpenWatch ==
    /\ watch = "down" /\ effects = <<>> /\ watch' = "list"
    /\ UNCHANGED <<storeVars, known, effects>>

\* relist, replace: adds and updates for the listed pods, deletes for the
\* known pods that are gone.
RelistEffects ==
    LET listed == [i \in Ids |-> IF store[i] # NoPod THEN HandlePresent(i, store[i])
                                 ELSE <<>>]
        vanished == [i \in Ids |-> IF store[i] = NoPod /\ known[i] # NoPod
                                   THEN Owned("deleted", i, known[i]) ELSE <<>>]
    IN  FlattenSeq(listed) \o FlattenSeq(vanished)

Relist ==
    /\ watch = "list" /\ watch' = "watching"
    /\ known' = store /\ effects' = RelistEffects
    /\ UNCHANGED storeVars

\* relist whose list fails: it is logged and the watch is followed all the same.
RelistFails ==
    /\ watch = "list" /\ watch' = "watching" /\ gap' = TRUE
    /\ UNCHANGED <<store, unsent, stream, known, effects>>

\* on_event
Deliver ==
    /\ watch = "watching" /\ effects = <<>> /\ stream # <<>>
    /\ LET e == Head(stream)
       IN  /\ known' = [known EXCEPT ![e.id] = IF e.del THEN NoPod ELSE e.pod]
           /\ effects' = IF e.del THEN Owned("deleted", e.id, e.pod)
                         ELSE HandlePresent(e.id, e.pod)
    /\ stream' = Tail(stream)
    /\ UNCHANGED <<store, unsent, gap, watch>>

\* The watch broke: what it had not delivered is lost.
WatchBreaks ==
    /\ watch = "watching" /\ effects = <<>>
    /\ watch' = "down" /\ stream' = <<>>
    /\ UNCHANGED <<store, unsent, gap, known, effects>>

CacheTypeOK == known \in [Ids -> Pods \cup {NoPod}]

InformerTypeOK ==
    /\ CacheTypeOK
    /\ effects \in Seq([kind : {"created", "deleted", "enqueue", "match"},
                        id : Ids, owner : 0..MaxInc])
=============================================================================
