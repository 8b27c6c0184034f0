----------------------------- MODULE ReplicaSet ----------------------------
(***************************************************************************)
(* The ReplicaSet controller (controller-manager/src/controllers/          *)
(* replicaset.rs) for one ReplicaSet name: the pod informer lowers its     *)
(* expectations and enqueues the key, the worker that holds the key syncs. *)
(* The work queue (module WorkQueue) never gives a key to two workers and  *)
(* keeps a key added meanwhile, so it is one flag and one worker here; a   *)
(* rate-limited requeue is an add, for the worker may come to it late.     *)
(*                                                                         *)
(* A step of the worker is one access to the store or to the expectations. *)
(* Users, other controllers and the kubelet are the environment.           *)
(***************************************************************************)
EXTENDS PodInformer, Expectations

CONSTANTS
    MaxReplicas,    \* bound: spec.replicas
    Burst,          \* BURST_REPLICAS
    MaxEvents,      \* bound: changes by users, failures, broken watches
    NoRS            \* no ReplicaSet has the name

ASSUME ControllerAssumption ==
    /\ MaxReplicas \in 1..MaxPods /\ Burst \in Nat \ {0} /\ MaxEvents \in Nat

VARIABLES
    rs,             \* the ReplicaSet stored under the name, or NoRS
    incs,           \* ReplicaSets created under it so far
    queued,         \* the key waits in the work queue
    worker,         \* the worker: where it is and what its sync has read
    spent           \* how much of MaxEvents is used up

rsVars == <<rs, incs>>
vars == <<storeVars, informerVars, expectVars, rsVars, queued, worker, spent>>

Spend == /\ spent < MaxEvents
         /\ spent' = spent + 1

\* gen stands for the resourceVersion as the controller's own status writes,
\* which only it makes, leave it.
NewRS(n) ==
    [inc |-> incs + 1, replicas |-> n, term |-> FALSE, gen |-> 0,
     status |-> [n |-> 0, failed |-> FALSE]]

-----------------------------------------------------------------------------
(* The environment. *)

unowned == <<informerVars, expectVars, worker>>

\* The ReplicaSet watch's event adds the key (the worker may come to it late),
\* or is lost with a broken watch.
RSEvent == queued' \in {queued, TRUE}

CreateRS ==
    /\ rs = NoRS /\ incs < MaxInc
    /\ \E n \in 0..MaxReplicas : rs' = NewRS(n)
    /\ incs' = incs + 1 /\ RSEvent
    /\ UNCHANGED <<unowned, storeVars, spent>>

\* Scale it, or delete it in the foreground (it stays, with a deletionTimestamp).
ChangeRS ==
    /\ Spend /\ rs # NoRS
    /\ \/ \E n \in 0..MaxReplicas \ {rs.replicas} :
             rs' = [rs EXCEPT !.replicas = n, !.gen = @ + 1]
       \/ ~rs.term /\ rs' = [rs EXCEPT !.term = TRUE, !.gen = @ + 1]
    /\ RSEvent
    /\ UNCHANGED <<unowned, storeVars, incs>>

RemoveRS ==
    /\ Spend /\ rs # NoRS /\ rs' = NoRS /\ RSEvent
    /\ UNCHANGED <<unowned, storeVars, incs>>

\* A pod that exists, or that some step in progress still speaks of: generated
\* names are never used twice, so a new pod takes the least number out of use.
InUse ==
    {i \in Ids :
        \/ store[i] # NoPod \/ known[i] # NoPod \/ i \in uids
        \/ \E w \in Writers : unsent[w] # NoEvent /\ unsent[w].id = i
        \/ \E k \in 1..Len(stream) : stream[k].id = i
        \/ \E k \in 1..Len(effects) : effects[k].id = i
        \/ worker.pods[i] # NoPod \/ i \in worker.todo \cup worker.lost}
FreshId == CHOOSE i \in Ids \ InUse : \A j \in Ids \ InUse : i <= j

\* Bound: an orphan appears where the store holds fewer than MaxReplicas pods.
CreateOrphan ==
    /\ Spend /\ Cardinality({i \in Ids : store[i] # NoPod}) < MaxReplicas
    /\ InUse # Ids /\ Put("others", FreshId, NewPod(0))
    /\ UNCHANGED <<unowned, queued, rsVars>>

\* A pod is deleted gracefully, fails, or loses the labels.
ChangePod(i) ==
    /\ Spend /\ store[i] # NoPod
    /\ \/ ~store[i].term /\ Put("others", i, [store[i] EXCEPT !.term = TRUE])
       \/ ~store[i].dead /\ Put("others", i, [store[i] EXCEPT !.dead = TRUE])
       \/ store[i].match /\ Put("others", i, [store[i] EXCEPT !.match = FALSE])
    /\ UNCHANGED <<unowned, queued, rsVars>>

RemovePod(i) ==
    /\ Spend /\ store[i] # NoPod /\ ~store[i].term /\ Erase("others", i)
    /\ UNCHANGED <<unowned, queued, rsVars>>

\* The kubelet removes a pod that has terminated.
Finalize(i) ==
    /\ store[i] # NoPod /\ store[i].term /\ Erase("others", i)
    /\ UNCHANGED <<unowned, queued, rsVars, spent>>

-----------------------------------------------------------------------------
(* The informer's handlers: apply_pod_observation. *)

ResolveControllerRef(owner) == rs # NoRS /\ rs.inc = owner

ApplyEffect ==
    /\ effects # <<>> /\ effects' = Tail(effects)
    /\ LET f == Head(effects)
           resolved == ResolveControllerRef(f.owner)
       IN  /\ queued' = (queued \/ resolved \/ (f.kind = "match" /\ rs # NoRS))
           /\ IF resolved /\ f.kind = "created" THEN CreationsObserved(1)
              ELSE IF resolved /\ f.kind = "deleted" THEN DeletionsObserved({f.id})
              ELSE UNCHANGED expectVars
    /\ UNCHANGED <<storeVars, watch, known, rsVars, worker, spent>>

\* The periodic enqueue_all.  The flag is read by an idle worker only, so a
\* tick while it is busy is a tick once it is done.
EnqueueAll ==
    /\ rs # NoRS /\ ~queued /\ worker.pc = "idle" /\ queued' = TRUE
    /\ UNCHANGED <<storeVars, informerVars, expectVars, rsVars, worker, spent>>

-----------------------------------------------------------------------------
(* The worker. *)

NoPods == [i \in Ids |-> NoPod]
IdleWorker ==
    [pc |-> "idle", rs |-> NoRS, needs |-> FALSE, pods |-> NoPods, have |-> 0,
     todo |-> {}, lost |-> {}, batch |-> 0, size |-> 0, left |-> 0, missing |-> 0,
     failed |-> FALSE]

Go(pc) == worker' = [worker EXCEPT !.pc = pc]
outside == <<storeVars, informerVars, rsVars, spent>>

\* The worker takes the key and reads the ReplicaSet; if it is gone, or the
\* read fails, its expectations are dropped.  A key added between the two is
\* one more sync.
WorkerReads ==
    /\ worker.pc = "idle" /\ queued /\ queued' = FALSE
    /\ \/ /\ rs # NoRS /\ UNCHANGED <<expectVars, spent>>
          /\ worker' = [worker EXCEPT !.pc = "satisfied", !.rs = rs]
       \/ rs # NoRS /\ Spend /\ DeleteExpectations /\ UNCHANGED worker
       \/ rs = NoRS /\ DeleteExpectations /\ UNCHANGED <<worker, spent>>
    /\ UNCHANGED <<storeVars, informerVars, rsVars>>

\* reconcile_replicaset reads the expectations before it lists the pods.
WorkerChecks ==
    /\ worker.pc = "satisfied"
    /\ worker' = [worker EXCEPT !.pc = "list", !.needs = Satisfied]
    /\ UNCHANGED <<outside, expectVars, queued>>

\* mutant of ListPods: the list comes from the informer's cache
ListPods_Cached == known

ListPods == store

Running(pod) == pod # NoPod /\ ~pod.dead /\ ~pod.term
Adopts(pod, r) == Running(pod) /\ pod.match /\ pod.owner = 0
Releases(pod, r) == Running(pod) /\ ~pod.match /\ pod.owner = r.inc
WorkerLists ==
    /\ worker.pc = "list"
    /\ LET claims == {i \in Ids : \/ Adopts(ListPods[i], worker.rs)
                                  \/ Releases(ListPods[i], worker.rs)}
       IN  worker' = [worker EXCEPT !.pc = "claim", !.pods = ListPods, !.todo = claims]
    /\ UNCHANGED <<outside, expectVars, queued>>

\* The list failed: the sync is given up and the key requeued.
ListFails ==
    /\ worker.pc = "list" /\ Spend /\ worker' = IdleWorker /\ queued' = TRUE
    /\ UNCHANGED <<storeVars, informerVars, expectVars, rsVars>>

\* adopt_and_release, one pod: a conflict leaves the copy as it was listed.
WorkerClaims ==
    /\ worker.pc = "claim"
    /\ \E i \in worker.todo :
          LET p == worker.pods[i]
              claimed == [p EXCEPT !.owner = IF p.match THEN worker.rs.inc ELSE 0]
          IN  /\ \A j \in worker.todo : i <= j
              /\ IF Current(i, p)
                 THEN /\ Put("controller", i, claimed)
                      /\ worker' = [worker EXCEPT !.todo = @ \ {i}, !.pods[i] = claimed]
                 ELSE /\ worker' = [worker EXCEPT !.todo = @ \ {i}]
                      /\ UNCHANGED storeVars
    /\ UNCHANGED <<informerVars, expectVars, rsVars, queued, spent>>

\* The active pods of the sync: matches_selector of the listed copies.
Active(pods, inc) ==
    {i \in Ids : Running(pods[i]) /\ pods[i].match /\ pods[i].owner = inc}
Least(m, n) == IF m <= n THEN m ELSE n
Sent == unsent["controller"] = NoEvent

\* manage_replicas decides: nothing, creates, or deletes of some active pods
\* (which ones is a matter of ranking).
WorkerManages ==
    LET active == Active(worker.pods, worker.rs.inc)
        have == Cardinality(active)
        want == worker.rs.replicas
        may == worker.needs /\ ~worker.rs.term
        w == [worker EXCEPT !.have = have, !.pods = NoPods, !.needs = FALSE]
    IN  /\ worker.pc = "claim" /\ worker.todo = {} /\ Sent
        /\ \/ /\ ~may \/ have = want
              /\ worker' = [w EXCEPT !.pc = "status"] /\ UNCHANGED expectVars
           \/ /\ may /\ have < want
              /\ LET diff == Least(want - have, Burst)
                 IN  /\ ExpectCreations(diff)
                     /\ worker' = [w EXCEPT !.pc = "create", !.batch = 1, !.size = 1,
                                            !.left = diff - 1]
           \/ /\ may /\ have > want
              /\ \E S \in SUBSET active :
                    /\ Cardinality(S) = Least(have - want, Burst)
                    /\ ExpectDeletionsOf(S)
                    /\ worker' = [w EXCEPT !.pc = "expect", !.todo = S]
        /\ UNCHANGED <<outside, queued>>

\* One create of the batch: it succeeds, fails, or is refused because the
\* namespace is terminating, which counts as a success.
WorkerCreates ==
    /\ worker.pc = "create" /\ worker.batch > 0 /\ Sent
    /\ \/ /\ InUse # Ids /\ Put("controller", FreshId, NewPod(worker.rs.inc))
          /\ worker' = [worker EXCEPT !.batch = @ - 1] /\ UNCHANGED spent
       \/ /\ Spend /\ UNCHANGED storeVars
          /\ worker' = [worker EXCEPT !.batch = @ - 1, !.missing = @ + 1, !.failed = TRUE]
       \/ /\ Spend /\ UNCHANGED storeVars
          /\ worker' = [worker EXCEPT !.batch = @ - 1]
    /\ UNCHANGED <<informerVars, expectVars, rsVars, queued>>

\* mutant of NextBatch: the doubled batch is not cut to what remains
NextBatch_Uncapped(w) ==
    LET n == 2 * w.size
    IN  [w EXCEPT !.batch = n, !.size = n, !.left = @ - n]

\* slow_start_batches: each batch twice the one before it.
NextBatch(w) ==
    LET n == Least(2 * w.size, w.left)
    IN  [w EXCEPT !.batch = n, !.size = n, !.left = @ - n]

\* After a batch: the next one, or, at its failure or at the end, the creates
\* that never landed are observed.
WorkerEndsBatch ==
    /\ worker.pc = "create" /\ worker.batch = 0 /\ Sent
    /\ IF worker.left > 0 /\ ~worker.failed
       THEN worker' = NextBatch(worker) /\ UNCHANGED expectVars
       ELSE /\ CreationsObserved(worker.missing + worker.left)
            /\ worker' = [worker EXCEPT !.pc = "status", !.size = 0, !.left = 0,
                                        !.missing = 0]
    /\ UNCHANGED <<outside, queued>>

WorkerExpects ==
    /\ worker.pc = "expect" /\ ExpectDeletions(Cardinality(worker.todo)) /\ Go("delete")
    /\ UNCHANGED <<outside, queued>>

\* The deletes run concurrently: the copy is read, then written back with the
\* mark; one fails, or finds that the pod went in between.
WorkerFetches ==
    /\ worker.pc = "delete" /\ Sent
    /\ \E i \in worker.todo :
          \/ /\ NeedsMark(store[i]) /\ UNCHANGED spent
             /\ worker' = [worker EXCEPT !.pc = "mark", !.pods[i] = store[i], !.size = i]
          \/ /\ ~NeedsMark(store[i]) /\ UNCHANGED spent
             /\ worker' = [worker EXCEPT !.todo = @ \ {i}]
          \/ /\ Spend
             /\ worker' = [worker EXCEPT !.todo = @ \ {i}, !.lost = @ \cup {i},
                                         !.failed = TRUE]
    /\ UNCHANGED <<storeVars, informerVars, expectVars, rsVars, queued>>

WorkerMarks ==
    LET i == worker.size
        gone == store[i] = NoPod
    IN  /\ worker.pc = "mark"
        /\ IF gone THEN UNCHANGED storeVars
           ELSE Put("controller", i, Marked(i, worker.pods[i]))
        /\ worker' = [worker EXCEPT !.pc = "delete", !.todo = @ \ {i}, !.size = 0,
                                    !.pods = NoPods,
                                    !.lost = IF gone THEN @ \cup {i} ELSE @]
        /\ UNCHANGED <<informerVars, expectVars, rsVars, queued, spent>>

\* Once all are done, the deletes that failed or found no pod are observed.
WorkerDeleted ==
    /\ worker.pc = "delete" /\ worker.todo = {} /\ Sent
    /\ DeletionsObserved(worker.lost)
    /\ worker' = [worker EXCEPT !.pc = "status", !.lost = {}]
    /\ UNCHANGED <<outside, queued>>

\* update_status: of the pods as listed, written if it changed and the
\* ReplicaSet did not; a conflict or a failed create or delete is retried.
\* The write's own event adds the key, unless it is lost.
NewStatus ==
    [n |-> worker.have, failed |-> worker.failed]
WorkerWritesStatus ==
    LET same == rs # NoRS /\ rs.inc = worker.rs.inc /\ rs.gen = worker.rs.gen
        write == NewStatus # worker.rs.status
        conflict == write /\ rs # NoRS /\ ~same
    IN  /\ worker.pc = "status"
        /\ rs' = IF write /\ same THEN [rs EXCEPT !.status = NewStatus] ELSE rs
        /\ queued' \in {queued \/ conflict \/ worker.failed,
                        queued \/ conflict \/ worker.failed \/ write}
        /\ worker' = IdleWorker
        /\ UNCHANGED <<storeVars, informerVars, expectVars, incs, spent>>

-----------------------------------------------------------------------------
\* The informer has listed the pods: the ReplicaSet is new, has just been scaled
\* down by one, or is new and meets an orphan.
Starts ==
    { [have |-> 0, want |-> MaxReplicas, owner |-> 1],
      [have |-> MaxReplicas, want |-> MaxReplicas - 1, owner |-> 1],
      [have |-> 1, want |-> 1, owner |-> 0] }
Init ==
    /\ \E s \in Starts :
          /\ store = [i \in Ids |-> IF i <= s.have THEN NewPod(s.owner) ELSE NoPod]
          /\ rs = [inc |-> 1, replicas |-> s.want, term |-> FALSE, gen |-> 0,
                   status |-> [n |-> s.have * s.owner, failed |-> FALSE]]
    /\ unsent = [w \in Writers |-> NoEvent] /\ stream = <<>>
    /\ watch = "watching" /\ gap = FALSE
    /\ known = store /\ effects = <<>>
    /\ entry = NoEntry /\ uids = {}
    /\ incs = 1
    /\ queued = FALSE /\ worker = IdleWorker /\ spent = 0

others == <<expectVars, rsVars, queued, worker, spent>>

InformerStep ==
    \/ OpenWatch /\ UNCHANGED others
    \/ Relist /\ UNCHANGED others
    \/ Deliver /\ UNCHANGED others
    \/ ApplyEffect
Emits(w) == Emit(w) /\ UNCHANGED <<known, effects, others>>
\* When the timeout passes matters where a sync reads the record.
Expires ==
    /\ worker.pc = "satisfied" /\ Expire
    /\ UNCHANGED <<storeVars, informerVars, rsVars, queued, worker, spent>>
PodWatchFails ==
    /\ \/ WatchBreaks /\ Spend
       \/ RelistFails /\ UNCHANGED spent
    /\ UNCHANGED <<expectVars, rsVars, queued, worker>>
WorkerStep ==
    \/ WorkerReads \/ WorkerChecks \/ WorkerLists \/ ListFails \/ WorkerClaims
    \/ WorkerManages \/ WorkerCreates \/ WorkerEndsBatch \/ WorkerExpects
    \/ WorkerFetches \/ WorkerMarks \/ WorkerDeleted \/ WorkerWritesStatus
Environment ==
    \/ CreateRS \/ ChangeRS \/ RemoveRS \/ CreateOrphan
    \/ \E i \in Ids : ChangePod(i) \/ RemovePod(i) \/ Finalize(i)

Next ==
    \/ InformerStep \/ (\E w \in Writers : Emits(w)) \/ EnqueueAll \/ Expires
    \/ WorkerStep
    \/ PodWatchFails \/ Environment

\* The tasks run, the resync interval ticks, and a record that syncs read again
\* and again is read after its timeout at last; nothing is promised about users,
\* the kubelet and the ReplicaSet watch.
Fairness ==
    /\ WF_vars(InformerStep) /\ (\A w \in Writers : WF_vars(Emits(w)))
    /\ WF_vars(EnqueueAll) /\ SF_vars(Expires) /\ WF_vars(WorkerStep)

Spec == Init /\ [][Next]_vars /\ Fairness

-----------------------------------------------------------------------------
(* Properties. *)

RSs == [inc : 1..MaxInc, replicas : 0..MaxReplicas, term : BOOLEAN, gen : Nat,
        status : [n : 0..MaxPods, failed : BOOLEAN]]

ASSUME NoRSAssumption == NoRS \notin RSs

WorkerStates ==
    [pc : {"idle", "satisfied", "list", "claim", "create", "expect", "delete",
           "mark", "status"},
     rs : RSs \cup {NoRS}, needs : BOOLEAN,
     pods : [Ids -> Pods \cup {NoPod}], have : 0..MaxPods,
     todo : SUBSET Ids, lost : SUBSET Ids,
     batch : Nat, size : Nat, left : Nat, missing : Nat, failed : BOOLEAN]

ControllerTypeOK ==
    /\ entry \in Entries \cup {NoEntry} /\ uids \subseteq Ids
    /\ rs \in RSs \cup {NoRS} /\ incs \in 1..MaxInc
    /\ queued \in BOOLEAN /\ spent \in 0..MaxEvents
    /\ worker \in WorkerStates

\* Type invariant of the controller, the informer and the store.
TypeOK == StoreTypeOK /\ InformerTypeOK /\ ControllerTypeOK

\* A pod's deletion is counted once, whether it is observed as the mark, as the
\* removal, by a relist, or in events out of order: a record never stops
\* waiting while one of its pods is still expected.
DeletionsCountedOnce ==
    (entry # NoEntry /\ entry.deletes /\ worker.pc # "expect")
        => entry.del >= Cardinality(uids)

\* The sync never creates more pods than its ReplicaSet lacked: with the
\* creates it has still to make, the ReplicaSet's running pods stay within
\* spec.replicas as it was read.
NoOvershoot ==
    worker.pc = "create" =>
        Cardinality(Active(store, worker.rs.inc)) + worker.batch + worker.left
            <= worker.rs.replicas

\* With nothing left to deliver the informer's cache is the store, whatever
\* the watch missed, unless the store emitted a pod's events out of order or
\* the list after the watch was opened failed.
InformerTracks ==
    ( /\ watch = "watching" /\ stream = <<>>
      /\ \A w \in Writers : unsent[w] = NoEvent /\ ~gap )
        => known = store

\* The controller converges: from some time on the ReplicaSet has the pods it
\* asks for and its status says so, although creates and deletes fail, events
\* are lost and expectations are left unmet.
Settles ==
    <>[]( (rs # NoRS /\ ~rs.term)
            => /\ Cardinality(Active(store, rs.inc)) = rs.replicas
               /\ rs.status = [n |-> rs.replicas, failed |-> FALSE] )
=============================================================================
