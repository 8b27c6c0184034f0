----------------------------- MODULE Scheduler -----------------------------
(***************************************************************************)
(* The scheduler process around its queue (scheduler/src/scheduler.rs,     *)
(* cache.rs, async_preemption.rs, the storage half of data_plane.rs):      *)
(*   - the informer loop: a list, then a watch, periodic relists, and a    *)
(*     new list after the watch broke; each event becomes cache operations *)
(*     and a sequence of queue calls;                                      *)
(*   - the worker: pop, read the pod, choose a node, assume the pod, spawn *)
(*     its binding; on failure re-read the pod and hand it back;           *)
(*   - binding tasks and preemption tasks, which run beside the worker;    *)
(*   - the timers that flush the queue.                                    *)
(* The store, the users and the kubelet are the environment.               *)
(*                                                                         *)
(* A step ends where the code awaits or takes another lock: every store    *)
(* access, cache access and queue call is a step of its own.  Choosing a   *)
(* node is an open choice, there is one node, and a preemption has one     *)
(* victim.                                                                 *)
(***************************************************************************)
EXTENDS SchedulingQueue

CONSTANTS
    MaxEvents,      \* bound: changes by users, preemptions, relists beside a
                    \* watch, failures
    MaxStream,      \* bound: undelivered events when a user acts
    MaxInFlight     \* bound: recorded events before timers and nodes pause

ASSUME SchedulerAssumption ==
    MaxEvents \in Nat /\ MaxStream \in Nat /\ MaxInFlight \in Nat

VARIABLES
    store,          \* name -> the stored pod, or NoPod
    incs,           \* name -> pods created under it so far
    stream,         \* undelivered events of the pod watch
    watch,          \* the informer loop: list, listed, watching
    listing,        \* what a relist has still to handle
    seen,           \* SeenObjects.pods
    calls,          \* queue calls the current handler has still to make
    cache,          \* SchedulerCache: UID -> absent, assumed, added
    worker,         \* the scheduling loop: pc, the popped info, the read pod
    bindings,       \* binding tasks
    preemptions,    \* preemption tasks
    spent           \* how much of MaxEvents is used up

storeVars == <<store, incs, stream>>
informerVars == <<watch, listing, seen, calls>>
vars == <<queueVars, preemptVars, notified, storeVars, informerVars, cache,
          worker, bindings, preemptions, spent>>

Assigned(pod) == pod # NoPod /\ pod.bound
Pending(pod) == pod # NoPod /\ ~pod.bound /\ ~pod.fin
Here(pod) == store[pod.name] # NoPod /\ Uid(store[pod.name]) = Uid(pod)

\* bound: how much of MaxEvents an event uses up.  With MaxEvents = 6 two events
\* happen, or a preemption and one removal.
Pay(cost) == /\ spent + cost <= MaxEvents
             /\ spent' = spent + cost
Spend == Pay(3)

-----------------------------------------------------------------------------
(* The store and its users. *)

Emit(del, pod) ==
    stream' = IF watch = "watching" THEN Append(stream, [del |-> del, pod |-> pod])
              ELSE stream
\* A write bumps the resourceVersion and emits the object.
Write(pod) ==
    LET p == [pod EXCEPT !.rv = @ + 1]
    IN  /\ store' = [store EXCEPT ![p.name] = p] /\ Emit(FALSE, p)

NewPod(n, gate) ==
    [name |-> n, inc |-> incs[n] + 1, gate |-> gate, nom |-> FALSE,
     bound |-> FALSE, fin |-> FALSE, rv |-> 0]

Ready == Len(stream) < MaxStream

CreatePod(n) ==
    /\ Ready /\ Spend /\ store[n] = NoPod /\ incs[n] < MaxInc
    /\ \E gate \in BOOLEAN : Write(NewPod(n, gate))
    /\ incs' = [incs EXCEPT ![n] = @ + 1]
    /\ UNCHANGED <<queueVars, preemptVars, notified, informerVars, cache, worker,
                   bindings, preemptions>>

RemoveGates(n) ==
    /\ Ready /\ Spend /\ Pending(store[n]) /\ store[n].gate
    /\ Write([store[n] EXCEPT !.gate = FALSE])
    /\ UNCHANGED <<queueVars, preemptVars, notified, incs, informerVars, cache,
                   worker, bindings, preemptions>>

RemovePod(n) ==
    /\ Ready /\ Pay(2) /\ store[n] # NoPod
    /\ store' = [store EXCEPT ![n] = NoPod] /\ Emit(TRUE, store[n])
    /\ UNCHANGED <<queueVars, preemptVars, notified, incs, informerVars, cache,
                   worker, bindings, preemptions>>

-----------------------------------------------------------------------------
(* SchedulerCache, for one node. *)

CacheAdd(c, pod) == [c EXCEPT ![Uid(pod)] = "added"]
CacheUpdate(c, old, new) ==
    IF c[Uid(old)] # "added" \/ ~new.bound THEN c
    ELSE CacheAdd([c EXCEPT ![Uid(old)] = "absent"], new)
CacheRemove(c, pod) == [c EXCEPT ![Uid(pod)] = "absent"]
Forgettable(uid) == cache[uid] # "added"
ForgetPod(uid) ==
    cache' = IF cache[uid] = "assumed" THEN [cache EXCEPT ![uid] = "absent"]
             ELSE cache

-----------------------------------------------------------------------------
(* The event handlers.  H is what one event does: the new seen, cache and  *)
(* pending victims, and the queue calls that follow.                       *)

AddCall(pod) == [op |-> "add", pod |-> pod]
UpdateCall(old, pod) == [op |-> "update", pod |-> pod, old |-> old]
DeleteCall(pod) == [op |-> "delete", pod |-> pod]
MoveCall(kind, pod, checked) ==
    [op |-> "move", kind |-> kind, pod |-> pod, checked |-> checked, freed |-> {}]
\* history: the preemptors whose registered last victim this deletion is
Freeing(call, pod) ==
    [call EXCEPT !.freed = {u \in preempting : pendingVictim[u].name = pod.name}]
H(s, c, v, q) == [seen |-> s, cache |-> c, victims |-> v, calls |-> q]

\* observe_pod: a pending last victim of that name is gone.
Observe(pod) ==
    [u \in Uids |-> IF pendingVictim[u].name = pod.name
                    THEN [pendingVictim[u] EXCEPT !.gone = TRUE]
                    ELSE pendingVictim[u]]

\* onPodDeleted
OnPodDeleted(pod) ==
    LET n == pod.name
        gone == [seen EXCEPT ![n] = NoPod]
        nominated == IF pod.nom
                     THEN <<MoveCall("AssignedPodDelete", pod, TRUE)>> ELSE <<>>
    IN  IF seen[n] = NoPod \/ pod.bound
        THEN H(gone, CacheRemove(cache, pod), Observe(pod),
               IF seen[n] = NoPod THEN <<>>
               ELSE <<Freeing(MoveCall("AssignedPodDelete", pod, FALSE), pod)>>)
        ELSE H(gone, cache, Observe(pod), <<DeleteCall(pod)>> \o nominated)

\* updatePod, with the last copy seen as the old object
UpdatePod(old, pod) ==
    LET s == [seen EXCEPT ![pod.name] = pod]
        moved == IF old.nom # pod.nom
                 THEN <<MoveCall("AssignedPodDelete", old, TRUE)>> ELSE <<>>
    IN  IF old.bound
        THEN H(s, CacheUpdate(cache, old, pod), pendingVictim,
               <<MoveCall("AssignedPodUpdate", pod, FALSE)>>)
        ELSE IF pod.bound
        THEN H(s, CacheAdd(cache, pod), pendingVictim,
               <<MoveCall("AssignedPodAdd", pod, FALSE), DeleteCall(old)>>)
        ELSE IF cache[Uid(pod)] = "assumed" THEN H(s, cache, pendingVictim, <<>>)
        ELSE H(s, cache, pendingVictim, <<UpdateCall(old, pod)>> \o moved)

\* onPodEvent: the first sight of a name is an add; an unchanged object does
\* nothing; a terminal pod is a deleted one.
OnPodEvent(pod) ==
    LET s == [seen EXCEPT ![pod.name] = pod]
    IN  IF pod.fin THEN OnPodDeleted(pod)
        ELSE IF seen[pod.name] = NoPod
        THEN (IF pod.bound
              THEN H(s, CacheAdd(cache, pod), pendingVictim,
                     <<MoveCall("AssignedPodAdd", pod, FALSE)>>)
              ELSE H(s, cache, pendingVictim, <<AddCall(pod)>>))
        ELSE IF seen[pod.name] = pod THEN H(s, cache, pendingVictim, <<>>)
        ELSE UpdatePod(seen[pod.name], pod)

Handle(h) ==
    /\ seen' = h.seen /\ cache' = h.cache /\ pendingVictim' = h.victims
    /\ calls' = h.calls
    /\ UNCHANGED <<queueVars, preempting, notified, store, incs, watch, worker,
                   bindings, preemptions, spent>>

-----------------------------------------------------------------------------
(* The informer loop. *)

Idle == calls = <<>> /\ listing = {}

Deliver ==
    /\ watch = "watching" /\ Idle /\ stream # <<>>
    /\ LET x == Head(stream)
       IN  Handle(IF x.del THEN OnPodDeleted(x.pod) ELSE OnPodEvent(x.pod))
    /\ stream' = Tail(stream) /\ UNCHANGED listing

\* resync: the listed pods, then the pods seen before that are not listed.
Resync ==
    /\ Idle
    /\ listing' = {[del |-> FALSE, pod |-> store[n]] : n \in {m \in Names : store[m] # NoPod}}
             \cup {[del |-> TRUE, pod |-> seen[n]] :
                       n \in {m \in Names : store[m] = NoPod /\ seen[m] # NoPod}}
    /\ \/ watch = "list" /\ watch' = "listed" /\ UNCHANGED spent
       \/ watch = "watching" /\ UNCHANGED watch /\ Spend
    /\ UNCHANGED <<queueVars, preemptVars, notified, storeVars, seen, calls, cache,
                   worker, bindings, preemptions>>

HandleListed ==
    /\ calls = <<>>
    /\ \E x \in listing :
          /\ x.del => \A y \in listing : y.del
          /\ Handle(IF x.del THEN OnPodDeleted(x.pod) ELSE OnPodEvent(x.pod))
          /\ listing' = listing \ {x}
    /\ UNCHANGED stream

\* The relist failed: the watch is opened all the same.
ListFails ==
    /\ watch = "list" /\ Idle /\ Spend /\ watch' = "listed"
    /\ UNCHANGED <<queueVars, preemptVars, notified, storeVars, listing, seen, calls,
                   cache, worker, bindings, preemptions>>

\* The watch starts now: what was written since the list is not delivered.
OpenWatch ==
    /\ watch = "listed" /\ Idle /\ watch' = "watching"
    /\ UNCHANGED <<queueVars, preemptVars, notified, storeVars, listing, seen, calls,
                   cache, worker, bindings, preemptions, spent>>

WatchBreaks ==
    /\ watch = "watching" /\ Idle /\ Spend
    /\ watch' = "list" /\ stream' = <<>>
    /\ UNCHANGED <<queueVars, preemptVars, notified, store, incs, listing, seen, calls,
                   cache, worker, bindings, preemptions>>

\* history: the preemptors whose last victim the deleted pod is known to be,
\* or whose preemption had finished before.
Released(c) ==
    {u \in Uids :
        \/ /\ u \in c.freed \cap preempting
           /\ pendingVictim[u].name = c.pod.name /\ pendingVictim[u].gone
        \/ /\ u \notin preempting /\ c.kind = "AssignedPodDelete" /\ ~c.checked
           /\ Waiting(u) /\ queue[u[1]].unsched.gating = PreemptPlugin}

\* The next queue call of the handler; the hints and the priorities the
\* pre-check compares are open.
QueueCall ==
    /\ calls # <<>>
    /\ LET c == Head(calls)
       IN  \/ c.op = "add" /\ Add(c.pod)
           \/ c.op = "update" /\ Update(c.old, c.pod)
           \/ c.op = "delete" /\ Delete(c.pod)
           \/ /\ c.op = "move"
              /\ \E helps \in SUBSET Plugins,
                    skip \in SUBSET {u \in Uids : c.checked /\ u # Uid(c.pod) /\ Waiting(u)} :
                    MoveAll(Event(c.kind, helps, NoUid), skip,
                            Released(c))
    /\ calls' = Tail(calls)
    /\ UNCHANGED <<preemptVars, storeVars, watch, listing, seen, cache, worker,
                   bindings, preemptions, spent>>

outside == <<preemptVars, storeVars, informerVars, cache, worker, bindings,
             preemptions, spent>>

\* on_node_event, on_node_deleted: some plugin's hint asks for the event.
NodeEvent ==
    /\ watch = "watching" /\ Idle /\ Len(inFlightEvents) < MaxInFlight
    /\ \E helps \in SUBSET Plugins \ {{}} : MoveAll(Event("Node", helps, NoUid), {}, {})
    /\ UNCHANGED outside

FlushBackoff ==
    /\ \E S \in SUBSET Names : FlushBackoffQCompleted(S)
    /\ UNCHANGED outside

FlushLeftover ==
    /\ Len(inFlightEvents) < MaxInFlight
    /\ \E S \in SUBSET Names : FlushUnschedulablePodsLeftover(S)
    /\ UNCHANGED outside

-----------------------------------------------------------------------------
(* The worker. *)

Go(pc) == worker' = [worker EXCEPT !.pc = pc]
\* The attempt failed, rejected by these plugins.
Failed(plugins) ==
    worker' = [worker EXCEPT !.pc = "reread", !.info.plugins = plugins, !.pod = NoPod]
Rest == worker' = [pc |-> "enable", info |-> NoInfo, pod |-> NoPod]
others == <<storeVars, informerVars, bindings, spent>>

\* mutant of WorkerEnables: the waiter is not registered before the look
WorkerEnables_No ==
    /\ worker.pc = "enable" /\ Go("check") /\ notified' = "off"
    /\ UNCHANGED <<queueVars, preemptVars, cache, preemptions, others>>

\* pop: register for notifications, then look, then sleep.
WorkerEnables ==
    /\ worker.pc = "enable" /\ Go("check") /\ notified' = "armed"
    /\ UNCHANGED <<queueVars, preemptVars, cache, preemptions, others>>

WorkerPops ==
    /\ worker.pc = "check"
    /\ \E n \in Names, place \in {"active", "backoff"} :
          /\ Pop(n, place)
          /\ worker' = [pc |-> "read", info |-> Popped(n, place), pod |-> NoPod]
    /\ notified' = "off"
    /\ UNCHANGED <<preemptVars, cache, preemptions, others>>

WorkerSleeps ==
    /\ worker.pc = "check" /\ Poppable(queue) = {} /\ Go("wait")
    /\ UNCHANGED <<queueVars, preemptVars, notified, cache, preemptions, others>>

WorkerWakes ==
    /\ worker.pc = "wait" /\ notified = "fired" /\ Go("enable") /\ notified' = "off"
    /\ UNCHANGED <<queueVars, preemptVars, cache, preemptions, others>>

\* try_schedule_pod reads the pod by name.
WorkerReads ==
    /\ worker.pc = "read"
    /\ LET p == store[worker.info.pod.name]
       IN  worker' = IF Pending(p) THEN [worker EXCEPT !.pc = "decide", !.pod = p]
                     ELSE [worker EXCEPT !.pc = "done"]
    /\ UNCHANGED <<queueVars, preemptVars, notified, cache, preemptions, others>>

\* Any read of the cycle fails: the pod goes back with no rejecting plugin.
WorkerErrs ==
    /\ worker.pc \in {"read", "decide"} /\ Spend /\ Failed({})
    /\ UNCHANGED <<queueVars, preemptVars, notified, cache, preemptions, storeVars,
                   informerVars, bindings>>

\* mutant of WorkerAssumes: assume does not look for the pod in the cache
WorkerAssumes_NoCheck ==
    /\ worker.pc = "decide"
    /\ cache' = [cache EXCEPT ![Uid(worker.pod)] = "assumed"]
    /\ bindings' = bindings \cup
          {[pc |-> "start", info |-> worker.info, pod |-> worker.pod,
            rejected |-> FALSE, forgotten |-> FALSE]}
    /\ Rest
    /\ UNCHANGED <<queueVars, preemptVars, notified, preemptions, storeVars,
                   informerVars, spent>>

\* assume_and_reserve: refused for a pod the cache already has; otherwise the
\* binding task is spawned, or Reserve fails and the pod is forgotten.
WorkerAssumes ==
    /\ worker.pc = "decide" /\ cache[Uid(worker.pod)] = "absent"
    /\ cache' = [cache EXCEPT ![Uid(worker.pod)] = "assumed"]
    /\ \/ /\ bindings' = bindings \cup
                {[pc |-> "start", info |-> worker.info, pod |-> worker.pod,
                  rejected |-> FALSE, forgotten |-> FALSE]}
          /\ Rest /\ UNCHANGED spent
       \/ Go("forget") /\ Spend /\ UNCHANGED bindings
    /\ UNCHANGED <<queueVars, preemptVars, notified, preemptions, storeVars,
                   informerVars>>

AssumeRefused ==
    /\ worker.pc = "decide" /\ cache[Uid(worker.pod)] # "absent" /\ Failed({})
    /\ UNCHANGED <<queueVars, preemptVars, notified, cache, preemptions, others>>

ReserveFailed ==
    /\ worker.pc = "forget" /\ ForgetPod(Uid(worker.pod)) /\ Failed({})
    /\ UNCHANGED <<queueVars, preemptVars, notified, preemptions, others>>

\* No node fits: rejected by some plugins, or by none when there is no node.
WorkerRejects ==
    /\ worker.pc = "decide"
    /\ \E plugins \in SUBSET Plugins :
          \/ Failed(plugins)
          \/ /\ worker.pod.nom
             /\ worker' = [worker EXCEPT !.pc = "clear", !.info.plugins = plugins]
    /\ UNCHANGED <<queueVars, preemptVars, notified, cache, preemptions, others>>

\* bound: only pods running from the start are preempted.
OldVictim(pod) == pod.inc = 1 /\ pod.rv = 1

\* prepare_candidate_async: from here PreEnqueue refuses the preemptor.
WorkerPreempts ==
    /\ worker.pc = "decide"
    /\ Pay(4)
    /\ \E v \in Names, plugins \in SUBSET Plugins \ {{}} :
          /\ v # worker.pod.name /\ Assigned(store[v]) /\ ~store[v].fin
          /\ OldVictim(store[v])
          /\ preemptions' = preemptions \cup
                {[pc |-> "register", pod |-> worker.pod, victim |-> v, failed |-> FALSE]}
          /\ worker' = [worker EXCEPT !.pc = "nominate", !.info.plugins = plugins]
    /\ preempting' = preempting \cup {Uid(worker.pod)}
    /\ due' = [due EXCEPT ![Uid(worker.pod)] = @ \ {PreemptPlugin}]
    /\ UNCHANGED <<queue, inFlightPods, inFlightEvents, since, pendingVictim, notified,
                   cache, storeVars, informerVars, bindings>>

\* nominate, clear_nominated_node: a status write by name; its failure is logged.
WorkerNominates ==
    /\ worker.pc \in {"nominate", "clear"} /\ Failed(worker.info.plugins)
    /\ LET p == store[worker.pod.name]
       IN  IF p = NoPod THEN UNCHANGED <<store, stream>>
           ELSE Write([p EXCEPT !.nom = (worker.pc = "nominate")])
    /\ UNCHANGED <<queueVars, preemptVars, notified, cache, preemptions, incs,
                   informerVars, bindings, spent>>

\* mutant of Back: a deleted pod is handed back as well
Back_Gone(info) ==
    LET p == store[info.pod.name]
    IN  IF p # NoPod /\ (Assigned(p) \/ Uid(p) # Uid(info.pod))
        THEN [pc |-> "done", info |-> info]
        ELSE [pc |-> "requeue", info |-> [info EXCEPT !.pod = p]]

\* mutant of Back: a pod that was written meanwhile counts as recreated
Back_SameVersion(info) ==
    LET p == store[info.pod.name]
    IN  IF p = NoPod \/ Assigned(p) \/ p # info.pod
        THEN [pc |-> "done", info |-> info]
        ELSE [pc |-> "requeue", info |-> [info EXCEPT !.pod = p]]

\* handle_scheduling_failure: re-read the pod, then hand it back or drop it.
Back(info) ==
    LET p == store[info.pod.name]
    IN  IF p = NoPod \/ Assigned(p) \/ Uid(p) # Uid(info.pod)
        THEN [pc |-> "done", info |-> info]
        ELSE [pc |-> "requeue", info |-> [info EXCEPT !.pod = p]]

WorkerRereads ==
    /\ worker.pc = "reread"
    /\ LET b == Back(worker.info)
       IN  worker' = [worker EXCEPT !.pc = b.pc, !.info = b.info]
    /\ UNCHANGED <<queueVars, preemptVars, notified, cache, preemptions, others>>

RereadFails ==
    /\ worker.pc = "reread" /\ Spend
    /\ worker' = [worker EXCEPT !.pc = "requeue", !.info.plugins = {}]
    /\ UNCHANGED <<queueVars, preemptVars, notified, cache, preemptions, storeVars,
                   informerVars, bindings>>

WorkerRequeues ==
    /\ worker.pc = "requeue" /\ AddUnschedulableIfNotPresent(worker.info) /\ Rest
    /\ UNCHANGED <<preemptVars, cache, preemptions, others>>

WorkerDone ==
    /\ worker.pc = "done" /\ Done(Uid(worker.info.pod)) /\ Rest
    /\ UNCHANGED <<preemptVars, cache, preemptions, others>>

-----------------------------------------------------------------------------
(* Binding tasks. *)

Step(b, c) == bindings' = (bindings \ {b}) \cup {c}
End(b) == bindings' = bindings \ {b}
aside == <<preemptVars, informerVars, worker, preemptions>>

BindingStarts(b) ==
    /\ b.pc = "start" /\ Done(Uid(b.info.pod)) /\ Step(b, [b EXCEPT !.pc = "bind"])
    /\ UNCHANGED <<aside, storeVars, cache, spent>>

\* bind: guarded by the resourceVersion; after a conflict once more, on the
\* pod now stored under the name.
Bind(b) ==
    /\ b.pc \in {"bind", "rebind"}
    /\ LET p == store[b.pod.name]
       IN  \/ /\ p # NoPod /\ (p = b.pod \/ b.pc = "rebind")
              /\ Write([p EXCEPT !.bound = TRUE, !.nom = FALSE]) /\ End(b)
           \/ /\ p # NoPod /\ p # b.pod /\ b.pc = "bind"
              /\ Step(b, [b EXCEPT !.pc = "rebind"]) /\ UNCHANGED <<store, stream>>
           \/ /\ p = NoPod
              /\ Step(b, [b EXCEPT !.pc = "abort"]) /\ UNCHANGED <<store, stream>>
    /\ UNCHANGED <<aside, queueVars, notified, incs, cache, spent>>

\* PreBind or Bind failed, as a rejection or as an error.
BindFails(b) ==
    /\ b.pc \in {"bind", "rebind"} /\ Spend
    /\ \E r \in BOOLEAN : Step(b, [b EXCEPT !.pc = "abort", !.rejected = r])
    /\ UNCHANGED <<aside, queueVars, notified, storeVars, cache>>

\* mutant of Abort: the assumed pod is not forgotten
Abort_NoForget(b) ==
    LET forgotten == Forgettable(Uid(b.pod))
    IN  /\ b.pc = "abort" /\ UNCHANGED cache
        /\ Step(b, [b EXCEPT !.forgotten = forgotten, !.info.plugins = {},
                             !.pc = IF forgotten /\ ~b.rejected THEN "move" ELSE "reread"])
        /\ UNCHANGED <<aside, queueVars, notified, storeVars, spent>>

\* abort_assumed
Abort(b) ==
    LET forgotten == Forgettable(Uid(b.pod))
    IN  /\ b.pc = "abort" /\ ForgetPod(Uid(b.pod))
        /\ Step(b, [b EXCEPT !.forgotten = forgotten, !.info.plugins = {},
                             !.pc = IF forgotten /\ ~b.rejected THEN "move" ELSE "reread"])
        /\ UNCHANGED <<aside, queueVars, notified, storeVars, spent>>

\* The forgotten pod freed its resources: before the requeue after an error,
\* after it (and without the pod itself) after a rejection.
BindingMoves(b) ==
    /\ b.pc \in {"move", "moveself"}
    /\ \E helps \in SUBSET Plugins :
          MoveAll(Event("AssignedPodDelete", helps, NoUid),
                  IF b.pc = "move" THEN {} ELSE {Uid(b.pod)}, {})
    /\ IF b.pc = "move" THEN Step(b, [b EXCEPT !.pc = "reread"]) ELSE End(b)
    /\ UNCHANGED <<aside, storeVars, cache, spent>>

BindingRereads(b) ==
    /\ b.pc = "reread"
    /\ \/ Step(b, [b EXCEPT !.pc = Back(b.info).pc, !.info = Back(b.info).info])
          /\ UNCHANGED spent
       \/ Step(b, [b EXCEPT !.pc = "requeue"]) /\ Spend
    /\ UNCHANGED <<aside, queueVars, notified, storeVars, cache>>

BindingReturns(b) ==
    /\ \/ b.pc = "requeue" /\ AddUnschedulableIfNotPresent(b.info)
       \/ b.pc = "done" /\ Done(Uid(b.info.pod))
    /\ IF b.forgotten /\ b.rejected THEN Step(b, [b EXCEPT !.pc = "moveself"])
       ELSE End(b)
    /\ UNCHANGED <<aside, storeVars, cache, spent>>

-----------------------------------------------------------------------------
(* Preemption tasks. *)

PStep(t, c) == preemptions' = (preemptions \ {t}) \cup {c}
away == <<queueVars, notified, informerVars, cache, worker, bindings, incs>>

SetLastVictim(t) ==
    /\ t.pc = "register"
    /\ pendingVictim' = [pendingVictim EXCEPT ![Uid(t.pod)] =
                            [name |-> t.victim, gone |-> FALSE]]
    /\ due' = [due EXCEPT ![Uid(t.pod)] = @ \ {PreemptPlugin}]
    /\ PStep(t, [t EXCEPT !.pc = "evict"])
    /\ UNCHANGED <<queue, inFlightPods, inFlightEvents, since, preempting, notified,
                   informerVars, cache, worker, bindings, storeVars, spent>>

\* evict_pod: by name; a victim already gone or terminating is no error.
Evict(t) ==
    /\ t.pc = "evict"
    /\ \/ /\ LET p == store[t.victim]
             IN  IF p = NoPod \/ p.fin THEN UNCHANGED <<store, stream>>
                 ELSE Write([p EXCEPT !.fin = TRUE])
          /\ PStep(t, [t EXCEPT !.pc = "finish"]) /\ UNCHANGED spent
       \/ /\ PStep(t, [t EXCEPT !.pc = "finish", !.failed = TRUE])
          /\ UNCHANGED <<store, stream, spent>>
    /\ UNCHANGED <<away, preemptVars>>

\* finish, and once more when the task drops its guard.
FinishPreemption(t) ==
    /\ t.pc \in {"finish", "drop"}
    /\ preempting' = preempting \ {Uid(t.pod)}
    /\ pendingVictim' = [pendingVictim EXCEPT ![Uid(t.pod)] = NoVictim]
    /\ IF t.pc = "drop" THEN preemptions' = preemptions \ {t}
       ELSE PStep(t, [t EXCEPT !.pc = IF t.failed THEN "activate" ELSE "drop"])
    /\ UNCHANGED <<away, store, stream, spent>>

ActivatePreemptor(t) ==
    /\ t.pc = "activate" /\ Activate(t.pod) /\ PStep(t, [t EXCEPT !.pc = "drop"])
    /\ UNCHANGED <<preemptVars, storeVars, informerVars, cache, worker, bindings, spent>>

-----------------------------------------------------------------------------
FirstPods ==
    {[name |-> n, inc |-> 1, gate |-> x = "gated", nom |-> FALSE,
      bound |-> x = "bound", fin |-> FALSE, rv |-> 1] :
        n \in Names, x \in {"pending", "gated", "bound"}}

Init ==
    /\ QInit
    /\ store \in [Names -> FirstPods]
    /\ \A n \in Names : store[n].name = n
    /\ incs = [n \in Names |-> 1]
    /\ stream = <<>> /\ watch = "list" /\ listing = {}
    /\ seen = [n \in Names |-> NoPod] /\ calls = <<>>
    /\ cache = [u \in Uids |-> "absent"]
    /\ worker = [pc |-> "enable", info |-> NoInfo, pod |-> NoPod]
    /\ bindings = {} /\ preemptions = {}
    /\ spent = 0

Informer ==
    Deliver \/ Resync \/ HandleListed \/ ListFails \/ OpenWatch \/ WatchBreaks
    \/ QueueCall \/ NodeEvent
Worker ==
    WorkerEnables \/ WorkerPops \/ WorkerSleeps \/ WorkerWakes \/ WorkerReads
    \/ WorkerErrs \/ WorkerAssumes \/ AssumeRefused \/ ReserveFailed \/ WorkerRejects
    \/ WorkerPreempts \/ WorkerNominates \/ WorkerRereads \/ RereadFails
    \/ WorkerRequeues \/ WorkerDone
Binding(b) ==
    BindingStarts(b) \/ Bind(b) \/ BindFails(b) \/ Abort(b) \/ BindingMoves(b)
    \/ BindingRereads(b) \/ BindingReturns(b)
Preemption(t) ==
    SetLastVictim(t) \/ Evict(t) \/ FinishPreemption(t) \/ ActivatePreemptor(t)
Users == \E n \in Names : CreatePod(n) \/ RemoveGates(n) \/ RemovePod(n)

Next ==
    \/ Informer \/ Worker \/ FlushBackoff \/ FlushLeftover
    \/ \E b \in bindings : Binding(b)
    \/ \E t \in preemptions : Preemption(t)
    \/ Users

Spec == Init /\ [][Next]_vars

-----------------------------------------------------------------------------
(* Properties. *)

Pcs == {"enable", "check", "wait", "read", "decide", "forget", "nominate",
        "clear", "reread", "requeue", "done"}
BindingPcs == {"start", "bind", "rebind", "abort", "move", "reread", "requeue",
               "done", "moveself"}
Calls == [op : {"add", "delete"}, pod : Pods]
    \cup [op : {"update"}, pod : Pods, old : Pods]
    \cup [op : {"move"}, kind : Kinds, pod : Pods, checked : BOOLEAN,
          freed : SUBSET Uids]

\* Type invariant of the scheduler, its queue and the store.
TypeOK ==
    /\ QTypeOK
    /\ store \in [Names -> Pods \cup {NoPod}] /\ incs \in [Names -> 0..MaxInc]
    /\ stream \in Seq([del : BOOLEAN, pod : Pods])
    /\ watch \in {"list", "listed", "watching"}
    /\ \A x \in listing : x \in [del : BOOLEAN, pod : Pods]
    /\ seen \in [Names -> Pods \cup {NoPod}] /\ calls \in Seq(Calls)
    /\ cache \in [Uids -> {"absent", "assumed", "added"}]
    /\ worker \in [pc : Pcs, info : Infos \cup {NoInfo}, pod : Pods \cup {NoPod}]
    /\ \A b \in bindings : b \in [pc : BindingPcs, info : Infos, pod : Pods,
                                  rejected : BOOLEAN, forgotten : BOOLEAN]
    /\ \A t \in preemptions :
          t \in [pc : {"register", "evict", "finish", "activate", "drop"}, pod : Pods,
                 victim : Names, failed : BOOLEAN]
    /\ spent \in 0..MaxEvents

\* A pod name is in at most one of activeQ, the two backoff queues and
\* unschedulablePods, whatever the callers of the queue interleave: a second
\* copy would be scheduled twice or outlive the delete of the first.
OnePlace ==
    \A n \in Names, p, q \in Places :
        (queue[n][p] # NoInfo /\ queue[n][q] # NoInfo) => p = q

\* For a pod in flight the queue still has every event since its pop, in
\* order, although unlockedDone of other pods prunes the shared list; with
\* nothing in flight the list is empty.
EventsKept ==
    /\ \A u \in inFlightPods :
          LET events == ClusterEventsForPod(u)
          IN  /\ Cardinality(events) = Len(since[u])
              /\ \A i \in events :
                    inFlightEvents[i] = since[u][Cardinality({j \in events : j <= i})]
    /\ inFlightPods = {} => inFlightEvents = <<>>

\* A pod in flight is with the worker or with a binding task that has just
\* started, one of which will be done with it: a leaked entry would keep every
\* later event and have its pod dropped at the next pop.
InFlightHeld ==
    \A u \in inFlightPods :
        \/ worker.info # NoInfo /\ Uid(worker.info.pod) = u
        \/ \E b \in bindings : b.pc = "start" /\ Uid(b.info.pod) = u

\* A pod waits in unschedulablePods only if no event since its pop, those
\* that arrived while it was in flight included, spoke for a plugin that
\* rejected it.
NoEventMissed ==
    \A u \in Uids :
        (Waiting(u) /\ ~Gated(queue[u[1]].unsched))
            => due[u] \cap queue[u[1]].unsched.plugins = {}

\* A preemptor is not left gated by its own preemption once the queue was told
\* that its last victim is gone, or was told to activate it.  (A preemptor
\* handed back after a failed re-read has lost its rejecting plugins, and only
\* the flush releases it: see the README.)
PreemptorReleased ==
    \A u \in Uids :
        ( /\ Waiting(u) /\ queue[u[1]].unsched.gating = PreemptPlugin
          /\ queue[u[1]].unsched.plugins \cap Plugins # {} )
            => PreemptPlugin \notin due[u]

\* The worker does not sleep through a pod it could pop: a notification
\* between its look at the queue and its await is not lost.
WakeupNotLost ==
    (worker.pc = "wait" /\ notified # "fired") => Poppable(queue) = {}

\* The scheduler has a pod in hand: worker or binding task will requeue it.
InHand(pod) ==
    \/ /\ worker.pc \in {"read", "decide", "forget", "nominate", "clear", "reread", "requeue"}
       /\ Uid(worker.info.pod) = Uid(pod)
    \/ \E b \in bindings : Uid(b.info.pod) = Uid(pod) /\ b.pc # "moveself"
Queued(pod) ==
    \E p \in Places : queue[pod.name][p] # NoInfo /\ Uid(queue[pod.name][p].pod) = Uid(pod)
FirstUse(pod) == pod.inc = 1

\* No pending pod is lost: once the informer has handled it, it is queued or
\* in hand until it is bound or deleted.  (Pods whose name was used before
\* are excepted: see the README.)
NoPodLost ==
    \A n \in Names :
        LET p == store[n]
        IN  (Pending(p) /\ FirstUse(p) /\ seen[n] # NoPod /\ calls = <<>>)
                => Queued(p) \/ InHand(p)

\* An assumed pod that is still pending has a binding task that will bind or
\* forget it: updates of an assumed pod are ignored, so nothing else would.
AssumedIsBeingBound ==
    \A n \in Names :
        (Pending(store[n]) /\ cache[Uid(store[n])] = "assumed")
            => \/ worker.pc = "forget" /\ Uid(worker.pod) = Uid(store[n])
               \/ \E b \in bindings :
                     /\ Uid(b.pod) = Uid(store[n])
                     /\ b.pc \in {"start", "bind", "rebind", "abort"}

\* A bind that takes effect finds the pod unbound, so no pod is moved from one
\* node to another: a task's retry after a conflict writes the node name
\* whatever it finds.  (First pods of a name, as above.)
BoundOnce ==
    [][\A b \in bindings :
          LET n == b.pod.name
          IN  ( /\ b.pc \in {"bind", "rebind"} /\ b \notin bindings'
                /\ store'[n] # store[n] /\ FirstUse(store[n]) )
              => ~Assigned(store[n])]_vars
=============================================================================
