-------------------------- MODULE SchedulingQueue --------------------------
(***************************************************************************)
(* The scheduler's PriorityQueue (scheduler/src/queue/scheduling_queue.rs) *)
(* with the two PreEnqueue plugins that can hold a pod back and the state  *)
(* of asynchronous preemption one of them reads (async_preemption.rs).     *)
(*                                                                         *)
(* Four places hold a pod by its NAME: activeQ, podBackoffQ,               *)
(* podErrorBackoffQ and unschedulablePods.  A pod handed to the scheduling *)
(* cycle is in flight, recorded by its UID, and the cluster events that    *)
(* arrive meanwhile are kept until it comes back.  Every method holds one  *)
(* mutex from start to end, so each is one operator, an action of the      *)
(* caller; the notify_waiters() after the unlock belongs to it.            *)
(*                                                                         *)
(* Heaps are sets: pop takes any pod, for the order (priority, time) is    *)
(* data.  Backoff time is a choice: a pod that has failed may or may not   *)
(* still be backing off when it is asked.  The cluster events modelled are *)
(* the ones some plugin registered (isEventOfInterest), and the plugins'   *)
(* hint functions are the set "helps" of an event.                         *)
(***************************************************************************)
EXTENDS Integers, Sequences, FiniteSets

CONSTANTS
    Names,        \* pod names (namespace/name keys)
    MaxInc,       \* bound: pods that use one name, one after the other
    Plugins,      \* the filter plugins that can reject a pod
    NoPod, NoInfo, NoUid    \* "no such value"

GatesPlugin == "SchedulingGates"
PreemptPlugin == "DefaultPreemption"
NoGating == "none"

ASSUME QueueAssumption ==
    /\ MaxInc \in Nat \ {0} /\ IsFiniteSet(Names)
    /\ GatesPlugin \notin Plugins /\ PreemptPlugin \notin Plugins

VARIABLES
    queue,            \* name -> place -> the QueuedPodInfo there, or NoInfo
    inFlightPods,     \* in_flight_pods: the UIDs being scheduled
    inFlightEvents,   \* in_flight_events: Pod entries and Event entries
    preempting,       \* AsyncPreemption: the UIDs running a preemption
    pendingVictim,    \* AsyncPreemption: UID -> name and whether it is gone
    notified,         \* the worker's Notified future has fired
    since,            \* history: events observed while a UID is in flight
    due               \* history: plugins an event spoke for since the pop

queueVars == <<queue, inFlightPods, inFlightEvents, since, due>>
preemptVars == <<preempting, pendingVictim>>

-----------------------------------------------------------------------------
(* Pods, queued pod infos and events. *)

Uids == Names \X (1..MaxInc)
Pods == [name : Names, inc : 1..MaxInc, gate : BOOLEAN, nom : BOOLEAN,
         bound : BOOLEAN, fin : BOOLEAN, rv : Nat]
Uid(pod) == <<pod.name, pod.inc>>

AllPlugins == Plugins \cup {GatesPlugin, PreemptPlugin}
Infos == [pod : Pods, plugins : SUBSET AllPlugins,
          gating : {NoGating, GatesPlugin, PreemptPlugin}, tried : BOOLEAN]
Places == {"active", "backoff", "error", "unsched"}
Nowhere == [p \in Places |-> NoInfo]

ASSUME NullAssumption ==
    NoPod \notin Pods /\ NoInfo \notin Infos /\ NoUid \notin Uids

\* newQueuedPodInfo
NewInfo(pod) ==
    [pod |-> pod, plugins |-> {}, gating |-> NoGating, tried |-> FALSE]

\* A cluster event: "only" is the pod a wildcard event or a hint is about.
Kinds == {"WildCard", "Node", "AssignedPodAdd", "AssignedPodUpdate",
          "AssignedPodDelete", "PodUpdate", "GatesEliminated"}
Event(kind, helps, only) == [kind |-> kind, helps |-> helps, only |-> only]
Events == [kind : Kinds, helps : SUBSET AllPlugins, only : Uids \cup {NoUid}]
UnschedulableTimeout == Event("WildCard", Plugins, NoUid)
ForceActivate(uid) == Event("WildCard", Plugins, uid)

\* pod_scheduling_properties_change of a pending pod: never no event at all.
ChangeOf(old, new) ==
    IF old.gate /\ ~new.gate
    THEN Event("GatesEliminated", {GatesPlugin}, Uid(new))
    ELSE Event("PodUpdate", {}, Uid(new))

\* isPodWorthRequeuing; no plugin of this build answers Pending, so the
\* strategy is QueueAfterBackoff (TRUE) or QueueSkip (FALSE).
WorthRequeuing(info, e) ==
    \/ info.plugins = {}
    \/ /\ e.only \in {NoUid, Uid(info.pod)}
       /\ (e.kind = "WildCard" \/ e.helps \cap info.plugins # {})

\* mutant of Registered: DefaultPreemption registers no event
Registered_GatesOnly(plugin, e) ==
    plugin = GatesPlugin /\ e.kind = "GatesEliminated"

\* The events a gating plugin registered (gating_plugin_events).
Registered(plugin, e) ==
    \/ plugin = GatesPlugin /\ e.kind = "GatesEliminated"
    \/ plugin = PreemptPlugin /\ e.kind = "AssignedPodDelete"

-----------------------------------------------------------------------------
(* PreEnqueue: the gating plugin is asked first, then the others in order. *)

\* IsPodRunningPreemption
NoVictim == [name |-> "none", gone |-> FALSE]
RunningPreemption(uid) ==
    /\ uid \in preempting
    /\ (pendingVictim[uid] = NoVictim \/ ~pendingVictim[uid].gone)

Refusals(pod) ==
    {g \in {GatesPlugin, PreemptPlugin} :
        \/ g = GatesPlugin /\ pod.gate
        \/ g = PreemptPlugin /\ RunningPreemption(Uid(pod))}

RunPreEnqueuePlugins(info) ==
    LET no == Refusals(info.pod)
        first == IF info.gating \in no THEN info.gating
                 ELSE IF GatesPlugin \in no THEN GatesPlugin ELSE PreemptPlugin
    IN  IF no = {} THEN [info EXCEPT !.gating = NoGating]
        ELSE [info EXCEPT !.gating = first, !.plugins = @ \cup {first}]

Gated(info) == info.gating # NoGating

\* What pop resets; nothing reads it in activeQ, so it is reset on the way in.
Cleared(info) == [info EXCEPT !.plugins = {}, !.gating = NoGating]

-----------------------------------------------------------------------------
(* Moves within the slot s of one name (the places that name may be in).  *)

BackoffDelete(s) ==
    IF s.backoff # NoInfo THEN [s EXCEPT !.backoff = NoInfo]
    ELSE [s EXCEPT !.error = NoInfo]

\* A pod no plugin rejected failed by an error.
BackoffAdd(s, info) ==
    IF info.plugins = {} THEN [s EXCEPT !.error = info, !.backoff = NoInfo]
    ELSE [s EXCEPT !.backoff = info, !.error = NoInfo]

\* mutant of MoveToActiveQ: the pod stays in unschedulablePods as well
MoveToActiveQ_KeepsOld(s, info, fromBackoff) ==
    LET i == IF fromBackoff THEN info ELSE RunPreEnqueuePlugins(info)
    IN  IF Gated(i) THEN (IF s # Nowhere THEN s ELSE [s EXCEPT !.unsched = i])
        ELSE [BackoffDelete(s) EXCEPT !.active = Cleared(i)]

\* moveToActiveQ: a gated pod goes to unschedulablePods unless queued already.
MoveToActiveQ(s, info, fromBackoff) ==
    LET i == IF fromBackoff THEN info ELSE RunPreEnqueuePlugins(info)
    IN  IF Gated(i) THEN (IF s # Nowhere THEN s ELSE [s EXCEPT !.unsched = i])
        ELSE [BackoffDelete(s) EXCEPT !.unsched = NoInfo, !.active = Cleared(i)]

\* moveToBackoffQ
MoveToBackoffQ(s, info) ==
    LET i == RunPreEnqueuePlugins(info)
    IN  IF Gated(i)
        THEN (IF s.unsched # NoInfo THEN s ELSE [s EXCEPT !.unsched = i])
        ELSE BackoffAdd([s EXCEPT !.unsched = NoInfo], i)

\* requeuePodWithQueueingStrategy
Requeue(s, info, worth, backing) ==
    IF ~worth THEN [s EXCEPT !.unsched = info]
    ELSE IF backing THEN MoveToBackoffQ(s, info)
    ELSE MoveToActiveQ(s, info, FALSE)

\* Pods pop can return: activeQ and podBackoffQ, not podErrorBackoffQ.
Poppable(q) == {n \in Names : q[n].active # NoInfo \/ q[n].backoff # NoInfo}
InBackoff(s) == s.backoff # NoInfo \/ s.error # NoInfo

\* notify_waiters wakes a registered waiter and is lost on an unregistered one.
\* The methods call it when one of the names S came to activeQ or backoffQ.
Notify(S) ==
    notified' = IF /\ notified = "armed"
                   /\ \E n \in S : queue'[n].active # NoInfo \/ InBackoff(queue'[n])
                THEN "fired" ELSE notified

-----------------------------------------------------------------------------
(* In-flight pods and the events recorded for them. *)

PodEntry(uid) == <<"pod", uid>>
EventEntry(e) == <<"event", e>>
Entries == ({"pod"} \X Uids) \cup ({"event"} \X Events)

IndexOf(uid) ==
    CHOOSE i \in 1..Len(inFlightEvents) : inFlightEvents[i] = PodEntry(uid)

\* clusterEventsForPod: where the Event entries after the pod's own entry are.
IsEvent(x) == x[1] = "event"
ClusterEventsForPod(uid) ==
    {i \in 1..Len(inFlightEvents) : i > IndexOf(uid) /\ IsEvent(inFlightEvents[i])}

\* The list without the pod's own entry.
Without(uid) ==
    SubSeq(inFlightEvents, 1, IndexOf(uid) - 1)
    \o SubSeq(inFlightEvents, IndexOf(uid) + 1, Len(inFlightEvents))

\* mutant of DoneWith: prunes every event
DoneWith_PrunesAll(uid) ==
    LET ispod(x) == ~IsEvent(x)
    IN  IF uid \notin inFlightPods
        THEN UNCHANGED <<inFlightPods, inFlightEvents, since>>
        ELSE /\ inFlightPods' = inFlightPods \ {uid}
             /\ inFlightEvents' = SelectSeq(Without(uid), ispod)
             /\ since' = [since EXCEPT ![uid] = <<>>]

\* unlockedDone: the pod's entry goes, and the events before the first pod.
DoneWith(uid) ==
    LET rest == Without(uid)
    IN  IF uid \notin inFlightPods
        THEN UNCHANGED <<inFlightPods, inFlightEvents, since>>
        ELSE /\ inFlightPods' = inFlightPods \ {uid}
             /\ \E front \in 1..(Len(rest) + 1) :
                   /\ \A i \in 1..(front - 1) : IsEvent(rest[i])
                   /\ front <= Len(rest) => ~IsEvent(rest[front])
                   /\ inFlightEvents' = SubSeq(rest, front, Len(rest))
             /\ since' = [since EXCEPT ![uid] = <<>>]

\* Record e for the pods in flight (addEventIfAnyInFlight, and
\* addEventsIfPodInFlight for the pod the event is about).
Record(e) ==
    /\ inFlightEvents' = IF inFlightPods = {} THEN inFlightEvents
                         ELSE Append(inFlightEvents, EventEntry(e))
    /\ since' = [u \in Uids |->
                    IF u \in inFlightPods THEN Append(since[u], EventEntry(e))
                    ELSE since[u]]
    /\ UNCHANGED inFlightPods

\* history: what an event said about a pod, kept while the pod is in flight
\* or in unschedulablePods.  The event e reached every pod outside "skip";
\* for the preemptors "freed" the preemption is over.
Waiting(uid) ==
    /\ queue[uid[1]].unsched # NoInfo
    /\ Uid(queue[uid[1]].unsched.pod) = uid
Kept(said) ==
    due' = [u \in Uids |-> IF u \in inFlightPods' \/ Waiting(u)' THEN said[u] ELSE {}]
Speaks(e, skip, freed) ==
    [u \in Uids |->
        IF u \in skip \/ e.only \notin {NoUid, u} THEN due[u]
        ELSE due[u] \cup e.helps \cup
             (IF u \in freed /\ Plugins \subseteq e.helps THEN {PreemptPlugin} ELSE {})]

-----------------------------------------------------------------------------
(* The methods. *)

QInit ==
    /\ queue = [n \in Names |-> Nowhere]
    /\ inFlightPods = {} /\ inFlightEvents = <<>>
    /\ preempting = {} /\ pendingVictim = [u \in Uids |-> NoVictim]
    /\ notified = "off"
    /\ since = [u \in Uids |-> <<>>] /\ due = [u \in Uids |-> {}]

In(place) == {n \in Names : queue[n][place] # NoInfo}
\* The pods of S that may still be backing off: those that failed before.
MayBackOff(S) == {n \in S : queue[n].unsched # NoInfo /\ queue[n].unsched.tried}

Add(pod) ==
    /\ queue' = [queue EXCEPT ![pod.name] = MoveToActiveQ(@, NewInfo(pod), FALSE)]
    /\ Notify({pod.name})
    /\ UNCHANGED <<inFlightPods, inFlightEvents, since>>
    /\ Kept(due)

\* Update: a pod in flight only has the change recorded; a queued copy is
\* replaced; a rejected pod is asked whether the change may help it; an
\* unknown pod is added.
Update(old, new) ==
    LET n == new.name
        s == queue[n]
        e == ChangeOf(old, new)
        inFlight == Uid(new) \in inFlightPods
        info == [s.unsched EXCEPT !.pod = new]
        rest == [s EXCEPT !.unsched = NoInfo]
        place == IF s.active # NoInfo THEN "active"
                 ELSE IF s.backoff # NoInfo THEN "backoff" ELSE "error"
    IN  \/ /\ inFlight
           /\ Record(e) /\ UNCHANGED <<queue, notified>>
           /\ Kept(Speaks(e, {}, {}))
        \/ /\ ~inFlight /\ (s.active # NoInfo \/ InBackoff(s))
           /\ queue' = [queue EXCEPT ![n][place].pod = new]
           /\ UNCHANGED <<inFlightPods, inFlightEvents, since, notified>>
           /\ Kept(due)
        \/ /\ ~inFlight /\ s.active = NoInfo /\ ~InBackoff(s) /\ s.unsched # NoInfo
           /\ \E backing \in SUBSET MayBackOff({n}) :
                  queue' = [queue EXCEPT
                      ![n] = Requeue(rest, info, WorthRequeuing(info, e), n \in backing)]
           /\ Notify({n})
           /\ UNCHANGED <<inFlightPods, inFlightEvents, since>>
           /\ Kept(Speaks(e, {}, {}))
        \/ /\ ~inFlight /\ s = Nowhere
           /\ queue' = [queue EXCEPT ![n] = MoveToActiveQ(@, NewInfo(new), FALSE)]
           /\ Notify({n})
           /\ UNCHANGED <<inFlightPods, inFlightEvents, since>>
           /\ Kept(due)

\* Delete, by name: from the first place that has it, never from in flight.
Delete(pod) ==
    LET s == queue[pod.name]
    IN  /\ queue' = [queue EXCEPT ![pod.name] =
                        IF s.active # NoInfo THEN [s EXCEPT !.active = NoInfo]
                        ELSE IF InBackoff(s) THEN BackoffDelete(s)
                        ELSE [s EXCEPT !.unsched = NoInfo]]
        /\ UNCHANGED <<inFlightPods, inFlightEvents, since, notified>>
        /\ Kept(due)

\* movePodsToActiveOrBackoffQueue: a gated pod is only asked on an event its
\* gating plugin registered.
Moves(info, e) ==
    /\ Gated(info) => (e.kind = "WildCard" \/ Registered(info.gating, e))
    /\ WorthRequeuing(info, e)
MovePods(S, e, skip, freed) ==
    LET moved == {n \in S \cap In("unsched") : Moves(queue[n].unsched, e)}
    IN  /\ \E backing \in SUBSET MayBackOff(moved) :
             queue' = [n \in Names |->
                 IF n \notin moved THEN queue[n]
                 ELSE Requeue([queue[n] EXCEPT !.unsched = NoInfo],
                              queue[n].unsched, TRUE, n \in backing)]
        /\ Record(e) /\ Notify(moved) /\ Kept(Speaks(e, skip, freed))

\* MoveAllToActiveOrBackoffQueue; "skip" are the UIDs pre_check refuses.
MoveAll(e, skip, freed) ==
    MovePods({n \in In("unsched") : Uid(queue[n].unsched.pod) \notin skip},
             e, skip, freed)

\* Activate: from unschedulablePods or a backoff queue; a pod in flight gets
\* EventForceActivate recorded.
Activate(pod) ==
    LET n == pod.name
        s == queue[n]
        slot == IF s.unsched # NoInfo THEN MoveToActiveQ(s, s.unsched, FALSE)
                ELSE IF s.backoff # NoInfo
                THEN MoveToActiveQ([s EXCEPT !.backoff = NoInfo], s.backoff, TRUE)
                ELSE IF s.error # NoInfo
                THEN MoveToActiveQ([s EXCEPT !.error = NoInfo], s.error, TRUE)
                ELSE s
        activated == s.active = NoInfo /\ slot.active # NoInfo
        e == ForceActivate(Uid(pod))
        \* history: it says nothing of a pod that PreEnqueue refuses, nor of one
        \* in flight when a queued pod of its name was activated instead
        missed == \/ activated
                  \/ Refusals(IF s.unsched # NoInfo THEN s.unsched.pod ELSE pod) # {}
    IN  /\ queue' = [queue EXCEPT ![n] = slot]
        /\ IF ~activated /\ Uid(pod) \in inFlightPods THEN Record(e)
           ELSE UNCHANGED <<inFlightPods, inFlightEvents, since>>
        /\ Notify(IF activated THEN {n} ELSE {})
        /\ Kept(Speaks(e, IF missed THEN {Uid(pod)} ELSE {}, {Uid(pod)} \ preempting))

\* mutant of AddUnschedulableIfNotPresent: ignores the in-flight events
AddUnschedulableIfNotPresent_NoHints(info) ==
    LET n == info.pod.name
        u == Uid(info.pod)
        worth == info.plugins = {} \/ u \notin inFlightPods
    IN  /\ queue' = IF queue[n] # Nowhere THEN queue
                    ELSE [queue EXCEPT ![n] =
                             Requeue(@, [info EXCEPT !.tried = TRUE], worth, TRUE)]
        /\ DoneWith(u)
        /\ Notify(IF queue[n] # Nowhere THEN {} ELSE {n})
        /\ Kept(due)

\* mutant of AddUnschedulableIfNotPresent: a refused pod stays in flight
AddUnschedulableIfNotPresent_EarlyReturn(info) ==
    LET n == info.pod.name
        u == Uid(info.pod)
        worth == \/ info.plugins = {} \/ u \notin inFlightPods
                 \/ \E i \in ClusterEventsForPod(u) :
                       WorthRequeuing(info, inFlightEvents[i][2])
    IN  IF queue[n] # Nowhere THEN UNCHANGED <<queueVars, notified>>
        ELSE /\ queue' = [queue EXCEPT ![n] =
                             Requeue(@, [info EXCEPT !.tried = TRUE], worth, TRUE)]
             /\ DoneWith(u) /\ Notify({n}) /\ Kept(due)

\* AddUnschedulableIfNotPresent: refused when the name is queued; otherwise
\* requeued at once if an event recorded since the pop may have helped.
AddUnschedulableIfNotPresent(info) ==
    LET n == info.pod.name
        u == Uid(info.pod)
        worth == \/ info.plugins = {} \/ u \notin inFlightPods
                 \/ \E i \in ClusterEventsForPod(u) :
                       WorthRequeuing(info, inFlightEvents[i][2])
    IN  /\ queue' = IF queue[n] # Nowhere THEN queue
                    ELSE [queue EXCEPT ![n] =
                             Requeue(@, [info EXCEPT !.tried = TRUE], worth, TRUE)]
        /\ DoneWith(u)
        /\ Notify(IF queue[n] # Nowhere THEN {} ELSE {n})
        /\ Kept(due)

Done(uid) ==
    /\ DoneWith(uid) /\ UNCHANGED <<queue, notified>> /\ Kept(due)

\* flushBackoffQCompleted: the pods S have completed their backoff.
FlushBackoffQCompleted(S) ==
    /\ S # {} /\ S \subseteq In("backoff") \cup In("error")
    /\ queue' = [n \in Names |->
          IF n \notin S THEN queue[n]
          ELSE LET s == queue[n]
                   info == IF s.backoff # NoInfo THEN s.backoff ELSE s.error
               IN  MoveToActiveQ(BackoffDelete(s), info, TRUE)]
    /\ Notify(S)
    /\ UNCHANGED <<inFlightPods, inFlightEvents, since>>
    /\ Kept(due)

\* flushUnschedulablePodsLeftover: the pods S have waited too long.
FlushUnschedulablePodsLeftover(S) ==
    /\ S # {} /\ S \subseteq In("unsched")
    /\ MovePods(S, UnschedulableTimeout, {u \in Uids : u[1] \notin S}, {})

\* unlockedPop: activeQ, or podBackoffQ when it is empty.  A pod that is in
\* flight already is discarded (the set "dropped") and the next one taken.
Duplicates(place) ==
    {n \in In(place) : Uid(queue[n][place].pod) \in inFlightPods}
Pop(n, place) ==
    /\ place = "backoff" => In("active") = Duplicates("active")
    /\ n \in In(place) \ Duplicates(place)
    /\ LET u == Uid(queue[n][place].pod)
       IN  /\ \E dropped \in SUBSET Duplicates(place) :
                queue' = [m \in Names |->
                    [p \in Places |->
                        IF \/ p = place /\ m \in dropped \cup {n}
                           \/ place = "backoff" /\ p = "active"
                        THEN NoInfo ELSE queue[m][p]]]
           /\ inFlightPods' = inFlightPods \cup {u}
           /\ inFlightEvents' = Append(inFlightEvents, PodEntry(u))
           /\ since' = [since EXCEPT ![u] = <<>>]
           /\ Kept([due EXCEPT ![u] = {}])
Popped(n, place) == Cleared(queue[n][place])

-----------------------------------------------------------------------------
QTypeOK ==
    /\ queue \in [Names -> [Places -> Infos \cup {NoInfo}]]
    /\ \A n \in Names, p \in Places :
          queue[n][p] # NoInfo => queue[n][p].pod.name = n
    /\ inFlightPods \subseteq Uids
    /\ inFlightEvents \in Seq(Entries)
    /\ preempting \subseteq Uids
    /\ pendingVictim \in [Uids -> [name : Names \cup {"none"}, gone : BOOLEAN]]
    /\ notified \in {"off", "armed", "fired"}
    /\ since \in [Uids -> Seq(Entries)] /\ due \in [Uids -> SUBSET AllPlugins]
=============================================================================
