----------------------- MODULE SchedulerEventProofs -----------------------
(***************************************************************************)
(* Proofs that the scheduling queue acts on what cluster events tell it:   *)
(* no pod waits in unschedulablePods although an event since its pop spoke *)
(* for a plugin that rejected it (NoEventMissed), and no preemptor stays   *)
(* gated by a preemption the queue was told is over (PreemptorReleased).   *)
(* For every set of pod names and filter plugins and all bounds.           *)
(***************************************************************************)
EXTENDS SchedulerProofs

-----------------------------------------------------------------------------
(* The inductive invariant: what the history "due" of a pod may hold, by    *)
(* where the pod is.                                                        *)

(* A plugin an event spoke for while the pod is in flight is in an event     *)
(* recorded for the pod, which AddUnschedulableIfNotPresent will look at.    *)
Hears(e, u) == e.only \in {NoUid, u}
Heard(S, u, p) == \E i \in 1..Len(S) : p \in S[i][2].helps /\ Hears(S[i][2], u)
HeardOK == \A u \in inFlightPods, p \in Plugins : p \in due[u] => Heard(since[u], u, p)

(* The pod i may go on waiting although events spoke for the plugins D. *)
Patient(i, D) ==
    /\ ~Gated(i) => i.plugins \subseteq Plugins /\ D \cap i.plugins = {}
    /\ (i.gating = PreemptPlugin /\ i.plugins \cap Plugins # {}) => PreemptPlugin \notin D
WaitOK ==
    \A n \in Names :
        queue[n]["unsched"] # NoInfo =>
            Patient(queue[n]["unsched"], due[Uid(queue[n]["unsched"].pod)])

(* The backoff queues hold no gated pod. *)
Ungated(s) == \A p \in {"backoff", "error"} : s[p] # NoInfo => ~Gated(s[p])
BackOK == \A n \in Names : Ungated(queue[n])

(* Nothing is remembered of a pod that is neither in flight nor waiting. *)
DueEmpty == \A u \in Uids : (u \notin inFlightPods /\ ~Waiting(u)) => due[u] = {}

(* While a preemption runs, no event has ended it. *)
RunOK == \A u \in Uids : PreemptPlugin \in due[u] => ~RunningPreemption(u)

EventsOK == HeardOK /\ WaitOK /\ BackOK /\ DueEmpty /\ RunOK

(* The pods in hand were rejected by filter plugins and are not gated. *)
Plain(i) == i.plugins \subseteq Plugins /\ i.gating = NoGating
HandsOK ==
    /\ worker.info # NoInfo => Plain(worker.info)
    /\ \A b \in bindings : Plain(b.info)

(* Only the event of a deletion frees preemptors. *)
FreesByDelete(c) == (c.op = "move" /\ c.freed # {}) => c.kind = "AssignedPodDelete"
GoodCalls == {c \in Calls : FreesByDelete(c)}
CallsOK == calls \in Seq(GoodCalls)

Told == EventsOK /\ HandsOK /\ CallsOK
EInv == IInv /\ Told

-----------------------------------------------------------------------------
(* PreEnqueue and the moves within a slot. *)

LEMMA PluginNames ==
    /\ GatesPlugin \notin Plugins /\ PreemptPlugin \notin Plugins
    /\ GatesPlugin # PreemptPlugin /\ GatesPlugin # NoGating /\ PreemptPlugin # NoGating
BY QueueAssumption DEF GatesPlugin, PreemptPlugin, NoGating

(* A gated pod is one a plugin refuses now. *)
Refused(i) ==
    Gated(i) /\ (i.gating = PreemptPlugin => RunningPreemption(Uid(i.pod)))

LEMMA PreEnqueueRefuses ==
    ASSUME NEW info \in Infos, Gated(RunPreEnqueuePlugins(info))
    PROVE  Refused(RunPreEnqueuePlugins(info)) /\ Refusals(info.pod) # {}
<1> DEFINE no == Refusals(info.pod)
           first == IF info.gating \in no THEN info.gating
                    ELSE IF GatesPlugin \in no THEN GatesPlugin ELSE PreemptPlugin
           i == RunPreEnqueuePlugins(info)
<1>1. i = IF no = {} THEN [info EXCEPT !.gating = NoGating]
          ELSE [info EXCEPT !.gating = first, !.plugins = @ \cup {first}]
  BY DEF RunPreEnqueuePlugins
<1>2. no \subseteq {GatesPlugin, PreemptPlugin} /\ (no # {} => first \in no)
  BY DEF Refusals
<1>3. PreemptPlugin \in no => RunningPreemption(Uid(info.pod))
  BY PluginNames DEF Refusals
<1>4. i.pod = info.pod /\ i \in Infos /\ i.gating # NoGating
  BY PreEnqueueFacts DEF Gated
<1> HIDE DEF no, first
<1>5. no # {}
  BY <1>1, <1>4 DEF Infos
<1>6. i.gating = first
  BY <1>1, <1>5 DEF Infos
<1> QED BY <1>2, <1>3, <1>4, <1>5, <1>6 DEF Refused, Gated, no

(* What a move within a slot may leave in unschedulablePods. *)
Held(s, t) ==
    \/ t["unsched"] = NoInfo
    \/ t["unsched"] = s["unsched"]
    \/ t["unsched"] \in Infos /\ Refused(t["unsched"])

LEMMA MoveToActiveQHolds ==
    ASSUME NEW n \in Names, NEW s, GoodSlot(s, n), Ungated(s), NEW info \in Infos,
           NEW fromBackoff \in BOOLEAN, fromBackoff => ~Gated(info)
    PROVE  /\ Ungated(MoveToActiveQ(s, info, fromBackoff))
           /\ Held(s, MoveToActiveQ(s, info, fromBackoff))
<1> DEFINE i == IF fromBackoff THEN info ELSE RunPreEnqueuePlugins(info)
           t == MoveToActiveQ(s, info, fromBackoff)
<1> SUFFICES Ungated(t) /\ Held(s, t)
  OBVIOUS
<1>1. t = IF Gated(i) THEN (IF s # Nowhere THEN s ELSE [s EXCEPT !.unsched = i])
          ELSE [BackoffDelete(s) EXCEPT !.unsched = NoInfo, !.active = Cleared(i)]
  BY DEF MoveToActiveQ
<1>2. i \in Infos /\ (Gated(i) => Refused(i))
  BY PreEnqueueFacts, PreEnqueueRefuses
<1> HIDE DEF i, t
<1>3. CASE Gated(i) /\ s # Nowhere
  BY <1>1, <1>3 DEF Held
<1>4. CASE Gated(i) /\ s = Nowhere
  <2>1. t = [s EXCEPT !["unsched"] = i]
    BY <1>1, <1>4
  <2>2. t["unsched"] = i /\ t["backoff"] = s["backoff"] /\ t["error"] = s["error"]
    BY <2>1, PlaceFacts DEF GoodSlot, Slots
  <2> QED BY <2>2, <1>2, <1>4 DEF Held, Ungated
<1>5. CASE ~Gated(i)
  <2>1. t = [BackoffDelete(s) EXCEPT !["unsched"] = NoInfo, !["active"] = Cleared(i)]
    BY <1>1, <1>5
  <2>2. /\ BackoffDelete(s) \in Slots
        /\ BackoffDelete(s)["backoff"] = NoInfo /\ BackoffDelete(s)["error"] = NoInfo
    BY BackoffDeleteFacts DEF GoodSlot
  <2>3. t["unsched"] = NoInfo /\ t["backoff"] = NoInfo /\ t["error"] = NoInfo
    BY <2>1, <2>2, PlaceFacts DEF Slots
  <2> QED BY <2>3 DEF Held, Ungated
<1> QED BY <1>3, <1>4, <1>5

LEMMA MoveToBackoffQHolds ==
    ASSUME NEW s \in Slots, Empty(s), NEW info \in Infos
    PROVE  /\ Ungated(MoveToBackoffQ(s, info))
           /\ Held(s, MoveToBackoffQ(s, info))
<1> DEFINE i == RunPreEnqueuePlugins(info)
           t == MoveToBackoffQ(s, info)
<1> SUFFICES Ungated(t) /\ Held(s, t)
  OBVIOUS
<1>1. t = IF Gated(i)
          THEN (IF s.unsched # NoInfo THEN s ELSE [s EXCEPT !.unsched = i])
          ELSE BackoffAdd([s EXCEPT !.unsched = NoInfo], i)
  BY DEF MoveToBackoffQ
<1>2. i \in Infos /\ (Gated(i) => Refused(i))
  BY PreEnqueueFacts, PreEnqueueRefuses
<1>3. s["unsched"] = NoInfo /\ s["backoff"] = NoInfo /\ s["error"] = NoInfo
  BY PlaceFacts DEF Empty
<1> HIDE DEF i, t
<1>4. CASE Gated(i)
  <2>1. t = [s EXCEPT !["unsched"] = i]
    BY <1>1, <1>3, <1>4
  <2>2. t["unsched"] = i /\ t["backoff"] = s["backoff"] /\ t["error"] = s["error"]
    BY <2>1, PlaceFacts DEF Slots
  <2> QED BY <2>2, <1>2, <1>3, <1>4 DEF Held, Ungated
<1>5. CASE ~Gated(i)
  <2>1. [s EXCEPT !["unsched"] = NoInfo] = s
    BY <1>3, PlaceFacts DEF Slots
  <2>2. t = BackoffAdd(s, i)
    BY <2>1, <1>1, <1>5
  <2>3. /\ t["unsched"] = NoInfo
        /\ t["backoff"] \in {NoInfo, i} /\ t["error"] \in {NoInfo, i}
    BY <2>2, <1>3, PlaceFacts DEF BackoffAdd, Slots
  <2> QED BY <2>3, <1>5 DEF Held, Ungated
<1> QED BY <1>4, <1>5

LEMMA RequeueHolds ==
    ASSUME NEW n \in Names, NEW s \in Slots, Empty(s), NEW info \in Infos,
           NEW worth \in BOOLEAN, NEW backing \in BOOLEAN
    PROVE  /\ Ungated(Requeue(s, info, worth, backing))
           /\ worth => Held(s, Requeue(s, info, worth, backing))
           /\ ~worth => Requeue(s, info, worth, backing)["unsched"] = info
<1>1. GoodSlot(s, n) /\ Ungated(s)
  BY EmptyFacts, PlaceFacts DEF Empty, Ungated
<1>2. /\ Ungated(MoveToActiveQ(s, info, FALSE))
      /\ Held(s, MoveToActiveQ(s, info, FALSE))
  BY <1>1, MoveToActiveQHolds
<1>3. /\ Ungated(MoveToBackoffQ(s, info))
      /\ Held(s, MoveToBackoffQ(s, info))
  BY MoveToBackoffQHolds
<1>4. [s EXCEPT !["unsched"] = info]["unsched"] = info
  BY PlaceFacts DEF Slots
<1>5. Ungated([s EXCEPT !["unsched"] = info])
  BY <1>1, PlaceFacts DEF Ungated, Slots
<1> QED BY <1>2, <1>3, <1>4, <1>5 DEF Requeue

-----------------------------------------------------------------------------
(* What the parts of the invariant need of a step. *)

LEMMA KeptDue ==
    ASSUME NEW said, Kept(said)
    PROVE  DueEmpty' /\ \A u \in Uids : due'[u] \subseteq said[u]
<1>1. due' = [u \in Uids |-> IF u \in inFlightPods' \/ Waiting(u)' THEN said[u] ELSE {}]
  BY DEF Kept
<1>2. \A u \in Uids : due'[u] = IF u \in inFlightPods' \/ Waiting(u)' THEN said[u] ELSE {}
  BY <1>1
<1> QED BY <1>2 DEF DueEmpty

LEMMA SpeaksDue ==
    ASSUME NEW e, NEW skip, NEW freed, NEW u \in Uids
    PROVE  /\ (u \in skip \/ ~Hears(e, u)) => Speaks(e, skip, freed)[u] = due[u]
           /\ \A p \in Speaks(e, skip, freed)[u] :
                 \/ p \in due[u]
                 \/ p \in e.helps /\ Hears(e, u)
                 \/ p = PreemptPlugin /\ u \in freed \ skip /\ Plugins \subseteq e.helps
<1>1. Speaks(e, skip, freed)[u] =
        IF u \in skip \/ e.only \notin {NoUid, u} THEN due[u]
        ELSE due[u] \cup e.helps \cup
             (IF u \in freed /\ Plugins \subseteq e.helps THEN {PreemptPlugin} ELSE {})
  BY DEF Speaks
<1>2. CASE u \in skip \/ ~Hears(e, u)
  <2>1. Speaks(e, skip, freed)[u] = due[u]
    BY <1>1, <1>2 DEF Hears
  <2> QED BY <2>1
<1>3. CASE ~(u \in skip \/ ~Hears(e, u))
  <2> DEFINE more == IF u \in freed /\ Plugins \subseteq e.helps THEN {PreemptPlugin} ELSE {}
  <2>1. Speaks(e, skip, freed)[u] = due[u] \cup e.helps \cup more
    BY <1>1, <1>3 DEF Hears
  <2>2. \A p \in more : p = PreemptPlugin /\ u \in freed /\ Plugins \subseteq e.helps
    OBVIOUS
  <2> HIDE DEF more
  <2> QED BY <2>1, <2>2, <1>3
<1> QED BY <1>2, <1>3

LEMMA HeardSame ==
    ASSUME HeardOK, inFlightPods' \subseteq inFlightPods,
           \A u \in inFlightPods' : since'[u] = since[u] /\ due'[u] \subseteq due[u]
    PROVE  HeardOK'
BY DEF HeardOK

LEMMA HeardRecord ==
    ASSUME HeardOK, ListOK, NEW e \in Events, Record(e),
           \A u \in inFlightPods, p \in Plugins :
              p \in due'[u] => p \in due[u] \/ (p \in e.helps /\ Hears(e, u))
    PROVE  HeardOK'
<1>1. inFlightPods \subseteq Uids /\ since \in [Uids -> Seq(Entries)]
  BY DEF ListOK, ListInv
<1>2. inFlightPods' = inFlightPods
  BY DEF Record
<1> SUFFICES ASSUME NEW u \in inFlightPods, NEW p \in Plugins, p \in due'[u]
             PROVE  Heard(since'[u], u, p)
  BY <1>2 DEF HeardOK
<1> DEFINE x == EventEntry(e)
           S == since[u]
           T == since'[u]
<1>3. x \in Entries /\ x[2] = e
  BY EntryFacts DEF EventEntry
<1>4. S \in Seq(Entries) /\ T = Append(S, x)
  BY <1>1 DEF Record
<1> HIDE DEF x, S, T
<1>5. /\ Len(T) = Len(S) + 1 /\ Len(S) \in Nat /\ T[Len(S) + 1] = x
      /\ \A i \in 1..Len(S) : T[i] = S[i]
  BY <1>3, <1>4, AppendFacts
<1>6. CASE p \in due[u]
  <2>1. PICK i \in 1..Len(S) : p \in S[i][2].helps /\ Hears(S[i][2], u)
    BY <1>6 DEF HeardOK, Heard, S
  <2>2. i \in 1..Len(T) /\ T[i] = S[i]
    BY <1>5
  <2> QED BY <2>1, <2>2 DEF Heard, T
<1>7. CASE p \in e.helps /\ Hears(e, u)
  <2>1. Len(S) + 1 \in 1..Len(T)
    BY <1>5
  <2> QED BY <2>1, <1>3, <1>5, <1>7 DEF Heard, T
<1> QED BY <1>6, <1>7

LEMMA RunSame ==
    ASSUME RunOK, UNCHANGED preemptVars,
           \A u \in Uids : PreemptPlugin \in due'[u]
                              => PreemptPlugin \in due[u] \/ ~RunningPreemption(u)
    PROVE  RunOK'
BY DEF RunOK, RunningPreemption, preemptVars

(* The slot t may be left so: nothing waits in it, or a pod refused now, or  *)
(* a pod the events said nothing for.                                        *)
Settled(t) ==
    \/ t["unsched"] = NoInfo
    \/ t["unsched"] \in Infos /\ Refused(t["unsched"])
    \/ Patient(t["unsched"], due'[Uid(t["unsched"].pod)])

LEMMA SettledWait ==
    ASSUME RunOK', UNCHANGED preemptVars,
           \A n \in Names : Settled(queue'[n]) /\ Ungated(queue'[n])
    PROVE  WaitOK' /\ BackOK'
<1>1. BackOK'
  BY DEF BackOK
<1>2. ASSUME NEW n \in Names, queue'[n]["unsched"] # NoInfo
      PROVE  Patient(queue'[n]["unsched"], due'[Uid(queue'[n]["unsched"].pod)])
  <2> DEFINE i == queue'[n]["unsched"]
             u == Uid(i.pod)
  <2>1. CASE i \in Infos /\ Refused(i)
    <3>1. u \in Uids /\ Gated(i) /\ (i.gating = PreemptPlugin => RunningPreemption(u))
      BY <2>1, InfoFacts DEF Refused
    <3>2. RunningPreemption(u) => PreemptPlugin \notin due'[u]
      BY <3>1 DEF RunOK, RunningPreemption, preemptVars
    <3> QED BY <3>1, <3>2 DEF Patient
  <2> QED BY <2>1, <1>2 DEF Settled
<1>3. WaitOK'
  BY <1>2 DEF WaitOK
<1> QED BY <1>1, <1>3

(* A pod that waits already may go on waiting when no event spoke. *)
LEMMA HeldSettled ==
    ASSUME QueueOK, WaitOK, NEW n \in Names, NEW t, Held(queue[n], t),
           \A u \in Uids : due'[u] \subseteq due[u]
    PROVE  Settled(t)
<1>1. CASE t["unsched"] = queue[n]["unsched"] /\ t["unsched"] # NoInfo
  <2> DEFINE i == t["unsched"]
  <2>1. i \in Infos
    BY <1>1, PlaceFacts DEF QueueOK, Slots
  <2>2. Uid(i.pod) \in Uids
    BY <2>1, InfoFacts
  <2>3. Patient(i, due[Uid(i.pod)])
    BY <1>1 DEF WaitOK
  <2> QED BY <2>2, <2>3 DEF Settled, Patient
<1> QED BY <1>1 DEF Held, Settled

(* A method that hears of no event. *)
LEMMA QuietMethod ==
    ASSUME QueueOK, EventsOK, Kept(due), UNCHANGED preemptVars,
           inFlightPods' \subseteq inFlightPods, inFlightPods \subseteq Uids,
           \A u \in inFlightPods' : since'[u] = since[u],
           \A n \in Names : Held(queue[n], queue'[n]) /\ Ungated(queue'[n])
    PROVE  EventsOK'
<1>1. DueEmpty' /\ \A u \in Uids : due'[u] \subseteq due[u]
  BY KeptDue
<1>2. HeardOK'
  BY <1>1, HeardSame DEF EventsOK
<1>3. RunOK'
  BY <1>1, RunSame DEF EventsOK
<1>4. \A n \in Names : Settled(queue'[n])
  BY <1>1, HeldSettled DEF EventsOK
<1>5. WaitOK' /\ BackOK'
  BY <1>3, <1>4, SettledWait
<1> QED BY <1>1, <1>2, <1>3, <1>5 DEF EventsOK

-----------------------------------------------------------------------------
(* The methods of the queue that hear of no event. *)

LEMMA AddEvents ==
    ASSUME QOK, EventsOK, UNCHANGED preemptVars, NEW pod \in Pods, Add(pod)
    PROVE  EventsOK'
<1> DEFINE n == pod.name
           s == MoveToActiveQ(queue[n], NewInfo(pod), FALSE)
<1>1. n \in Names /\ GoodSlot(queue[n], n) /\ NewInfo(pod) \in Infos
  BY PodFacts, NewInfoFacts DEF QOK, QueueOK
<1>2. \A m \in Names : Ungated(queue[m])
  BY DEF EventsOK, BackOK
<1>3. Ungated(s) /\ Held(queue[n], s)
  BY <1>1, <1>2, MoveToActiveQHolds
<1>4. /\ queue' = [queue EXCEPT ![n] = s] /\ Kept(due)
      /\ UNCHANGED <<inFlightPods, inFlightEvents, since>>
  BY DEF Add
<1> HIDE DEF s, n
<1>5. ASSUME NEW m \in Names
      PROVE  Held(queue[m], queue'[m]) /\ Ungated(queue'[m])
  <2>1. CASE m = n
    <3>1. queue'[m] = s
      BY <1>1, <1>4, <2>1 DEF QOK, QueueOK
    <3> QED BY <3>1, <2>1, <1>3
  <2>2. CASE m # n
    <3>1. queue'[m] = queue[m]
      BY <1>1, <1>4, <2>2 DEF QOK, QueueOK
    <3> QED BY <3>1, <1>2 DEF Held
  <2> QED BY <2>1, <2>2
<1>6. QueueOK /\ inFlightPods \subseteq Uids
  BY DEF QOK, ListOK, ListInv
<1> QED BY <1>4, <1>5, <1>6, QuietMethod

LEMMA DeleteEvents ==
    ASSUME QOK, EventsOK, UNCHANGED preemptVars, NEW pod \in Pods, Delete(pod)
    PROVE  EventsOK'
<1> DEFINE n == pod.name
           s == queue[n]
           t == IF s.active # NoInfo THEN [s EXCEPT !.active = NoInfo]
                ELSE IF InBackoff(s) THEN BackoffDelete(s)
                ELSE [s EXCEPT !.unsched = NoInfo]
<1>1. n \in Names /\ GoodSlot(s, n) /\ s \in Slots
  BY PodFacts DEF QOK, QueueOK, GoodSlot
<1>2. \A m \in Names : Ungated(queue[m])
  BY DEF EventsOK, BackOK
<1>3. t["unsched"] \in {NoInfo, s["unsched"]}
  BY <1>1, PlaceFacts, BackoffDeleteFacts DEF Slots
<1>4. t["backoff"] \in {NoInfo, s["backoff"]} /\ t["error"] \in {NoInfo, s["error"]}
  BY <1>1, PlaceFacts, BackoffDeleteFacts DEF Slots
<1>5. /\ queue' = [queue EXCEPT ![n] = t] /\ Kept(due)
      /\ UNCHANGED <<inFlightPods, inFlightEvents, since>>
  BY DEF Delete
<1> HIDE DEF t
<1>6. Held(s, t) /\ Ungated(t)
  BY <1>1, <1>2, <1>3, <1>4 DEF Held, Ungated
<1>7. ASSUME NEW m \in Names
      PROVE  Held(queue[m], queue'[m]) /\ Ungated(queue'[m])
  <2>1. CASE m = n
    <3>1. queue'[m] = t
      BY <1>1, <1>5, <2>1 DEF QOK, QueueOK
    <3> QED BY <3>1, <2>1, <1>6
  <2>2. CASE m # n
    <3>1. queue'[m] = queue[m]
      BY <1>1, <1>5, <2>2 DEF QOK, QueueOK
    <3> QED BY <3>1, <1>2 DEF Held
  <2> QED BY <2>1, <2>2
<1>8. QueueOK /\ inFlightPods \subseteq Uids
  BY DEF QOK, ListOK, ListInv
<1> QED BY <1>5, <1>7, <1>8, QuietMethod

LEMMA FlushBackoffEvents ==
    ASSUME QOK, EventsOK, UNCHANGED preemptVars, NEW S, FlushBackoffQCompleted(S)
    PROVE  EventsOK'
<1> DEFINE info(n) == IF queue[n].backoff # NoInfo THEN queue[n].backoff ELSE queue[n].error
<1>1. /\ queue' = [n \in Names |->
                  IF n \notin S THEN queue[n]
                  ELSE MoveToActiveQ(BackoffDelete(queue[n]), info(n), TRUE)]
      /\ Kept(due) /\ UNCHANGED <<inFlightPods, inFlightEvents, since>>
  BY DEF FlushBackoffQCompleted
<1>2. \A n \in S : n \in Names /\ (queue[n]["backoff"] # NoInfo \/ queue[n]["error"] # NoInfo)
  BY DEF FlushBackoffQCompleted, In
<1>3. \A m \in Names : Ungated(queue[m])
  BY DEF EventsOK, BackOK
<1>4. ASSUME NEW m \in Names
      PROVE  Held(queue[m], queue'[m]) /\ Ungated(queue'[m])
  <2>1. CASE m \in S
    <3> DEFINE s == queue[m]
               i == info(m)
               r == BackoffDelete(s)
               t == MoveToActiveQ(r, i, TRUE)
    <3>1. GoodSlot(s, m) /\ s \in Slots
      BY DEF QOK, QueueOK, GoodSlot
    <3>2. i \in Infos /\ ~Gated(i)
      BY <1>2, <1>3, <2>1, <3>1, PlaceFacts DEF Slots, Ungated
    <3>3. queue'[m] = t
      BY <1>1, <2>1
    <3> HIDE DEF s, i, info
    <3>4. /\ GoodSlot(r, m) /\ r["backoff"] = NoInfo /\ r["error"] = NoInfo
          /\ r["unsched"] = s["unsched"]
      BY <3>1, BackoffDeleteFacts
    <3> HIDE DEF r
    <3>5. Ungated(t) /\ Held(r, t)
      BY <3>2, <3>4, MoveToActiveQHolds DEF Ungated
    <3> HIDE DEF t
    <3> QED BY <3>3, <3>4, <3>5 DEF Held, s
  <2>2. CASE m \notin S
    <3>1. queue'[m] = queue[m]
      BY <1>1, <2>2
    <3> QED BY <3>1, <1>3 DEF Held
  <2> QED BY <2>1, <2>2
<1>5. QueueOK /\ inFlightPods \subseteq Uids
  BY DEF QOK, ListOK, ListInv
<1> QED BY <1>1, <1>4, <1>5, QuietMethod

(* unlockedDone forgets only what was recorded for the pod it is done with. *)
LEMMA DoneWithSince ==
    ASSUME ListOK, NEW u, DoneWith(u)
    PROVE  /\ inFlightPods' = inFlightPods \ {u} /\ inFlightPods \subseteq Uids
           /\ \A v \in inFlightPods' : since'[v] = since[v]
<1>1. inFlightPods \subseteq Uids /\ since \in [Uids -> Seq(Entries)]
  BY DEF ListOK, ListInv
<1>2. CASE u \notin inFlightPods
  BY <1>1, <1>2 DEF DoneWith
<1>3. CASE u \in inFlightPods
  <2>1. inFlightPods' = inFlightPods \ {u} /\ since' = [since EXCEPT ![u] = <<>>]
    BY <1>3 DEF DoneWith
  <2> QED BY <2>1, <1>1
<1> QED BY <1>2, <1>3

LEMMA DoneEvents ==
    ASSUME QOK, EventsOK, UNCHANGED preemptVars, NEW u, Done(u)
    PROVE  EventsOK'
<1>1. DoneWith(u) /\ UNCHANGED queue /\ Kept(due)
  BY DEF Done
<1>2. /\ inFlightPods' = inFlightPods \ {u} /\ inFlightPods \subseteq Uids
      /\ \A v \in inFlightPods' : since'[v] = since[v]
  BY <1>1, DoneWithSince DEF QOK
<1>3. \A m \in Names : Held(queue[m], queue'[m]) /\ Ungated(queue'[m])
  BY <1>1 DEF EventsOK, BackOK, Held
<1> QED BY <1>1, <1>2, <1>3, QuietMethod DEF QOK

-----------------------------------------------------------------------------
(* Moving pods on an event. *)

(* A pod the event left where it is: the event did not speak for it. *)
LEMMA LeftIsPatient ==
    ASSUME NEW i \in Infos, NEW D, NEW E, Patient(i, D), NEW e \in Events,
           e.only = NoUid, e.helps \subseteq Plugins, ~Moves(i, e),
           \A p \in E : p \in D \/ p \in e.helps
                        \/ (/\ p = PreemptPlugin /\ Plugins \subseteq e.helps
                            /\ e.kind = "AssignedPodDelete")
    PROVE  Patient(i, E)
<1>1. CASE ~Gated(i)
  <2>1. ~WorthRequeuing(i, e)
    BY <1>1 DEF Moves
  <2>2. e.helps \cap i.plugins = {}
    BY <2>1 DEF WorthRequeuing
  <2>3. i.plugins \subseteq Plugins /\ D \cap i.plugins = {} /\ PreemptPlugin \notin i.plugins
    BY <1>1, PluginNames DEF Patient
  <2>4. E \cap i.plugins = {}
    BY <2>2, <2>3
  <2> QED BY <2>3, <2>4, <1>1, PluginNames DEF Patient, Gated
<1>2. CASE Gated(i)
  <2> SUFFICES ASSUME i.gating = PreemptPlugin, i.plugins \cap Plugins # {}, PreemptPlugin \in E
               PROVE  FALSE
    BY <1>2 DEF Patient
  <2>1. Plugins \subseteq e.helps /\ e.kind = "AssignedPodDelete"
    BY PluginNames DEF Patient
  <2>2. WorthRequeuing(i, e)
    BY <2>1 DEF WorthRequeuing
  <2>3. Registered(i.gating, e)
    BY <2>1 DEF Registered
  <2> QED BY <2>2, <2>3 DEF Moves
<1> QED BY <1>1, <1>2

LEMMA MovePodsEvents ==
    ASSUME QOK, EventsOK, UNCHANGED preemptVars, NEW S, NEW e \in Events,
           e.only = NoUid, e.helps \subseteq Plugins, NEW skip, NEW freed,
           \A u \in Uids : u \in freed => ~RunningPreemption(u) /\ e.kind = "AssignedPodDelete",
           \A n \in Names : (queue[n]["unsched"] # NoInfo /\ n \notin S)
                               => Uid(queue[n]["unsched"].pod) \in skip,
           MovePods(S, e, skip, freed)
    PROVE  EventsOK'
<1> DEFINE moved == {n \in S \cap In("unsched") : Moves(queue[n].unsched, e)}
<1>1. PICK backing \in SUBSET MayBackOff(moved) :
        queue' = [n \in Names |->
                    IF n \notin moved THEN queue[n]
                    ELSE Requeue([queue[n] EXCEPT !.unsched = NoInfo],
                                 queue[n].unsched, TRUE, n \in backing)]
  BY DEF MovePods
<1>2. Record(e) /\ Kept(Speaks(e, skip, freed))
  BY DEF MovePods
<1>3. \A n \in Names : n \in moved =>
         n \in S /\ queue[n]["unsched"] # NoInfo
  BY DEF In
<1>4. \A n \in Names : (n \in S /\ queue[n]["unsched"] # NoInfo /\ n \notin moved)
         => ~Moves(queue[n]["unsched"], e)
  BY DEF In
<1> HIDE DEF moved
<1>5. DueEmpty' /\ \A u \in Uids : due'[u] \subseteq Speaks(e, skip, freed)[u]
  BY <1>2, KeptDue
<1>6. \A u \in Uids : u \in skip => due'[u] \subseteq due[u]
  BY <1>5, SpeaksDue
<1>7. \A u \in Uids : \A p \in due'[u] :
         p \in due[u] \/ p \in e.helps
         \/ (p = PreemptPlugin /\ u \in freed /\ Plugins \subseteq e.helps)
  BY <1>5, SpeaksDue
<1>8. HeardOK'
  <2>1. ASSUME NEW u \in inFlightPods, NEW p \in Plugins, p \in due'[u]
        PROVE  p \in due[u] \/ (p \in e.helps /\ Hears(e, u))
    <3>1. u \in Uids
      BY DEF QOK, ListOK, ListInv
    <3> QED BY <3>1, <2>1, <1>7, PluginNames DEF Hears
  <2> QED BY <2>1, <1>2, HeardRecord DEF EventsOK, QOK
<1>9. RunOK'
  <2>1. ASSUME NEW u \in Uids, PreemptPlugin \in due'[u]
        PROVE  PreemptPlugin \in due[u] \/ ~RunningPreemption(u)
    BY <2>1, <1>7, PluginNames
  <2> QED BY <2>1, RunSame DEF EventsOK
<1>10. ASSUME NEW n \in Names
       PROVE  Settled(queue'[n]) /\ Ungated(queue'[n])
  <2> DEFINE s == queue[n]
             i == s["unsched"]
             u == Uid(i.pod)
  <2>1. GoodSlot(s, n) /\ s \in Slots /\ Ungated(s)
    BY DEF QOK, QueueOK, GoodSlot, EventsOK, BackOK
  <2>2. CASE n \in moved
    <3> DEFINE b == n \in backing
               r == [s EXCEPT !["unsched"] = NoInfo]
    <3>1. queue'[n] = Requeue(r, i, TRUE, b)
      BY <1>1, <2>2
    <3>2. b \in BOOLEAN /\ i # NoInfo /\ i \in Infos
      BY <1>3, <2>1, <2>2, PlaceFacts DEF Slots
    <3>3. r \in Slots /\ Empty(r) /\ r["unsched"] = NoInfo
      BY <2>1, <3>2, PlaceFacts, TakenOut DEF GoodSlot, Empty
    <3> HIDE DEF b, r, i
    <3>4. Ungated(Requeue(r, i, TRUE, b)) /\ Held(r, Requeue(r, i, TRUE, b))
      BY <3>2, <3>3, RequeueHolds
    <3> QED BY <3>1, <3>3, <3>4 DEF Held, Settled
  <2>3. CASE n \notin moved
    <3>1. queue'[n] = s
      BY <1>1, <2>3
    <3>2. CASE i = NoInfo
      BY <2>1, <3>1, <3>2 DEF Settled
    <3>3. CASE i # NoInfo
      <4>1. i \in Infos /\ u \in Uids /\ Patient(i, due[u])
        BY <2>1, <3>3, PlaceFacts, InfoFacts DEF Slots, EventsOK, WaitOK
      <4>2. CASE u \in skip
        <5>1. Patient(i, due'[u])
          BY <4>1, <4>2, <1>6 DEF Patient
        <5> QED BY <5>1, <2>1, <3>1 DEF Settled
      <4>3. CASE u \notin skip
        <5>1. ~Moves(i, e)
          BY <1>4, <2>3, <3>3, <4>3
        <5> HIDE DEF i, u
        <5>2. \A p \in due'[u] :
                 p \in due[u] \/ p \in e.helps
                 \/ (/\ p = PreemptPlugin /\ Plugins \subseteq e.helps
                     /\ e.kind = "AssignedPodDelete")
          BY <1>7, <4>1
        <5>3. Patient(i, due'[u])
          BY <4>1, <5>1, <5>2, LeftIsPatient
        <5> QED BY <5>3, <2>1, <3>1 DEF Settled, i, u
      <4> QED BY <4>2, <4>3
    <3> QED BY <3>2, <3>3
  <2> QED BY <2>2, <2>3
<1>11. WaitOK' /\ BackOK'
  BY <1>9, <1>10, SettledWait
<1> QED BY <1>5, <1>8, <1>9, <1>11 DEF EventsOK

LEMMA MoveAllEvents ==
    ASSUME QOK, EventsOK, UNCHANGED preemptVars,
           NEW kind \in Kinds, NEW helps \in SUBSET Plugins, NEW skip, NEW freed,
           \A u \in Uids : u \in freed => ~RunningPreemption(u) /\ kind = "AssignedPodDelete",
           MoveAll(Event(kind, helps, NoUid), skip, freed)
    PROVE  EventsOK'
<1> DEFINE e == Event(kind, helps, NoUid)
           S == {n \in In("unsched") : Uid(queue[n].unsched.pod) \notin skip}
<1>1. e \in Events /\ e.only = NoUid /\ e.helps \subseteq Plugins /\ e.kind = kind
  BY EventFacts DEF Event
<1>2. MovePods(S, e, skip, freed)
  BY DEF MoveAll
<1>3. \A n \in Names : (queue[n]["unsched"] # NoInfo /\ n \notin S)
                          => Uid(queue[n]["unsched"].pod) \in skip
  BY DEF In
<1> HIDE DEF e, S
<1> QED BY <1>1, <1>2, <1>3, MovePodsEvents

LEMMA FlushLeftoverEvents ==
    ASSUME QOK, EventsOK, UNCHANGED preemptVars, NEW S, FlushUnschedulablePodsLeftover(S)
    PROVE  EventsOK'
<1> DEFINE e == UnschedulableTimeout
           skip == {u \in Uids : u[1] \notin S}
<1>1. e \in Events /\ e.only = NoUid /\ e.helps \subseteq Plugins
  BY EventFacts DEF UnschedulableTimeout, Event
<1>2. MovePods(S, e, skip, {})
  BY DEF FlushUnschedulablePodsLeftover
<1>3. ASSUME NEW n \in Names, queue[n]["unsched"] # NoInfo, n \notin S
      PROVE  Uid(queue[n]["unsched"].pod) \in skip
  <2> DEFINE i == queue[n]["unsched"]
  <2>1. i \in Infos /\ i.pod.name = n
    BY <1>3, PlaceFacts DEF QOK, QueueOK, GoodSlot, Slots
  <2>2. Uid(i.pod) \in Uids /\ Uid(i.pod)[1] = n
    BY <2>1, InfoFacts DEF Uid
  <2> QED BY <2>2, <1>3
<1> HIDE DEF e, skip
<1> QED BY <1>1, <1>2, <1>3, MovePodsEvents

-----------------------------------------------------------------------------
(* Updates of a pod: an event about that pod, which speaks at most for the   *)
(* scheduling gates.                                                         *)

LEMMA ChangeHelps ==
    ASSUME NEW old, NEW new
    PROVE  ChangeOf(old, new).helps \subseteq {GatesPlugin}
BY DEF ChangeOf, Event

LEMMA NearPatient ==
    ASSUME NEW i, NEW D, NEW E, Patient(i, D), E \subseteq D \cup {GatesPlugin}
    PROVE  Patient(i, E)
BY PluginNames DEF Patient

LEMMA ReplaceEvents ==
    ASSUME QOK, EventsOK, UNCHANGED preemptVars, Kept(due),
           NEW n \in Names, NEW p \in {"active", "backoff", "error"}, queue[n][p] # NoInfo,
           NEW new \in Pods, queue' = [queue EXCEPT ![n][p].pod = new],
           UNCHANGED <<inFlightPods, inFlightEvents, since>>
    PROVE  EventsOK'
<1> DEFINE s == queue[n]
           i == [s[p] EXCEPT !.pod = new]
           t == [s EXCEPT ![p] = i]
<1>1. s \in Slots /\ p \in Places /\ s[p] \in Infos
  BY PlaceFacts DEF QOK, QueueOK, GoodSlot, Slots
<1>2. i.gating = s[p].gating /\ i # NoInfo
  <2>1. i \in Infos /\ i.gating = s[p].gating
    BY <1>1 DEF Infos
  <2> QED BY <2>1, InfoFacts
<1>3. queue' = [queue EXCEPT ![n] = t]
  BY DEF QOK, QueueOK, Slots
<1>4. Ungated(s)
  BY DEF EventsOK, BackOK
<1> HIDE DEF i
<1>5. Held(s, t) /\ Ungated(t)
  BY <1>1, <1>2, <1>4, PlaceFacts DEF Held, Ungated, Slots, Gated
<1> HIDE DEF t
<1>6. ASSUME NEW m \in Names
      PROVE  Held(queue[m], queue'[m]) /\ Ungated(queue'[m])
  <2>1. CASE m = n
    BY <1>3, <1>5, <2>1 DEF QOK, QueueOK
  <2>2. CASE m # n
    <3>1. queue'[m] = queue[m]
      BY <1>3, <2>2 DEF QOK, QueueOK
    <3> QED BY <3>1 DEF Held, EventsOK, BackOK
  <2> QED BY <2>1, <2>2
<1>7. QueueOK /\ inFlightPods \subseteq Uids
  BY DEF QOK, ListOK, ListInv
<1> QED BY <1>6, <1>7, QuietMethod

LEMMA UpdateEvents ==
    ASSUME QOK, EventsOK, UNCHANGED preemptVars, NEW old \in Pods, NEW new \in Pods,
           Update(old, new)
    PROVE  EventsOK'
<1> DEFINE n == new.name
           s == queue[n]
           e == ChangeOf(old, new)
           inFlight == Uid(new) \in inFlightPods
           info == [s.unsched EXCEPT !.pod = new]
           rest == [s EXCEPT !.unsched = NoInfo]
           place == IF s.active # NoInfo THEN "active"
                    ELSE IF s.backoff # NoInfo THEN "backoff" ELSE "error"
<1>1. n \in Names /\ GoodSlot(s, n) /\ s \in Slots /\ e \in Events /\ Uid(new) \in Uids
  BY PodFacts, EventFacts DEF QOK, QueueOK, GoodSlot
<1>2. e.helps \subseteq {GatesPlugin}
  BY ChangeHelps
<1>3. /\ \A m \in Names : Ungated(queue[m])
      /\ inFlightPods \subseteq Uids /\ queue \in [Names -> Slots]
  BY DEF EventsOK, BackOK, QOK, QueueOK, ListOK, ListInv
<1>4. ASSUME Kept(Speaks(e, {}, {}))
      PROVE  /\ DueEmpty' /\ RunOK'
             /\ \A u \in Uids : due'[u] \subseteq due[u] \cup {GatesPlugin}
             /\ \A u \in Uids, p \in Plugins : p \in due'[u] => p \in due[u]
  <2> HIDE DEF e
  <2>1. DueEmpty' /\ \A u \in Uids : due'[u] \subseteq Speaks(e, {}, {})[u]
    BY <1>4, KeptDue
  <2>2. \A u \in Uids : \A p \in Speaks(e, {}, {})[u] : p \in due[u] \/ p \in e.helps
    BY SpeaksDue
  <2>3. \A u \in Uids : due'[u] \subseteq due[u] \cup {GatesPlugin}
    BY <2>1, <2>2, <1>2
  <2>4. RunOK'
    BY <2>3, PluginNames, RunSame DEF EventsOK
  <2> QED BY <2>1, <2>3, <2>4, PluginNames
<1>5. ASSUME Kept(Speaks(e, {}, {})), NEW m \in Names, queue'[m] = queue[m]
      PROVE  Settled(queue'[m]) /\ Ungated(queue'[m])
  <2> DEFINE i == queue[m]["unsched"]
  <2>1. CASE i = NoInfo
    BY <1>3, <1>5, <2>1 DEF Settled
  <2>2. CASE i # NoInfo
    <3>1. i \in Infos /\ Patient(i, due[Uid(i.pod)])
      BY <1>3, <2>2, PlaceFacts DEF Slots, EventsOK, WaitOK
    <3>2. Uid(i.pod) \in Uids
      BY <3>1, InfoFacts
    <3>3. Patient(i, due'[Uid(i.pod)])
      BY <1>4, <1>5, <3>1, <3>2, NearPatient
    <3> QED BY <3>3, <1>3, <1>5 DEF Settled
  <2> QED BY <2>1, <2>2
<1>6. CASE /\ inFlight
           /\ Record(e) /\ UNCHANGED <<queue, notified>>
           /\ Kept(Speaks(e, {}, {}))
  <2>1. HeardOK'
    BY <1>1, <1>3, <1>4, <1>6, HeardRecord DEF QOK, EventsOK
  <2>2. WaitOK' /\ BackOK'
    BY <1>4, <1>5, <1>6, SettledWait
  <2> QED BY <2>1, <2>2, <1>4, <1>6 DEF EventsOK
<1>7. CASE /\ ~inFlight /\ (s.active # NoInfo \/ InBackoff(s))
           /\ queue' = [queue EXCEPT ![n][place].pod = new]
           /\ UNCHANGED <<inFlightPods, inFlightEvents, since, notified>>
           /\ Kept(due)
  <2>1. place \in {"active", "backoff", "error"} /\ s[place] # NoInfo
    BY <1>7 DEF InBackoff
  <2> QED BY <2>1, <1>1, <1>7, ReplaceEvents
<1>8. CASE /\ ~inFlight /\ s.active = NoInfo /\ ~InBackoff(s) /\ s.unsched # NoInfo
           /\ \E backing \in SUBSET MayBackOff({n}) :
                 queue' = [queue EXCEPT
                     ![n] = Requeue(rest, info, WorthRequeuing(info, e), n \in backing)]
           /\ Notify({n})
           /\ UNCHANGED <<inFlightPods, inFlightEvents, since>>
           /\ Kept(Speaks(e, {}, {}))
  <2>1. PICK backing \in SUBSET MayBackOff({n}) :
          queue' = [queue EXCEPT
                     ![n] = Requeue(rest, info, WorthRequeuing(info, e), n \in backing)]
    BY <1>8
  <2> DEFINE i0 == s["unsched"]
             worth == WorthRequeuing(info, e)
             b == n \in backing
             t == Requeue(rest, info, worth, b)
  <2>2. i0 \in Infos /\ i0.pod.name = n /\ i0 # NoInfo
    BY <1>1, <1>8, PlaceFacts DEF Slots, GoodSlot
  <2>3. /\ info \in Infos /\ info.pod = new
        /\ info.plugins = i0.plugins /\ info.gating = i0.gating
    BY <2>2 DEF Infos
  <2>4. rest \in Slots /\ Empty(rest) /\ rest["unsched"] = NoInfo
    <3>1. rest \in Slots /\ Empty(rest)
      BY <1>1, <1>8, PlaceFacts, TakenOut DEF GoodSlot
    <3> QED BY <3>1, PlaceFacts DEF Empty
  <2>5. worth \in BOOLEAN /\ b \in BOOLEAN
    BY DEF WorthRequeuing
  <2>6. queue' = [queue EXCEPT ![n] = t]
    BY <2>1
  <2>7. Patient(i0, due[Uid(i0.pod)])
    BY <1>1, <2>2 DEF EventsOK, WaitOK
  <2>8. Uid(new) # Uid(i0.pod) => due[Uid(new)] = {}
    <3>1. Uid(new)[1] = n
      BY DEF Uid
    <3>2. Uid(new) # Uid(i0.pod) => ~Waiting(Uid(new))
      BY <3>1 DEF Waiting
    <3> QED BY <3>2, <1>1, <1>8 DEF EventsOK, DueEmpty
  <2>9. Patient(info, due'[Uid(new)])
    <3>1. due'[Uid(new)] \subseteq due[Uid(new)] \cup {GatesPlugin}
      BY <1>1, <1>4, <1>8
    <3>2. Patient(info, due[Uid(new)])
      BY <2>3, <2>7, <2>8 DEF Patient, Gated
    <3> QED BY <3>1, <3>2, NearPatient
  <2> HIDE DEF s, e, info, rest, worth, b, t
  <2>10. Ungated(t) /\ (worth => Held(rest, t)) /\ (~worth => t["unsched"] = info)
    BY <1>1, <2>3, <2>4, <2>5, RequeueHolds DEF t
  <2>11. Settled(t) /\ Ungated(t)
    BY <2>3, <2>4, <2>9, <2>10 DEF Held, Settled
  <2>12. ASSUME NEW m \in Names
         PROVE  Settled(queue'[m]) /\ Ungated(queue'[m])
    <3>1. CASE m = n
      <4>1. queue'[m] = t
        BY <1>1, <1>3, <2>6, <3>1
      <4> QED BY <4>1, <2>11
    <3>2. CASE m # n
      <4>1. queue'[m] = queue[m]
        BY <1>1, <1>3, <2>6, <3>2
      <4> QED BY <4>1, <1>5, <1>8
    <3> QED BY <3>1, <3>2
  <2>13. WaitOK' /\ BackOK'
    BY <1>4, <1>8, <2>12, SettledWait
  <2>14. HeardOK'
    BY <1>3, <1>4, <1>8 DEF EventsOK, HeardOK
  <2> QED BY <2>13, <2>14, <1>4, <1>8 DEF EventsOK
<1>9. CASE /\ ~inFlight /\ s = Nowhere
           /\ queue' = [queue EXCEPT ![n] = MoveToActiveQ(@, NewInfo(new), FALSE)]
           /\ Notify({n})
           /\ UNCHANGED <<inFlightPods, inFlightEvents, since>>
           /\ Kept(due)
  <2>1. Add(new)
    BY <1>9 DEF Add
  <2> QED BY <2>1, AddEvents
<1> QED BY <1>6, <1>7, <1>8, <1>9 DEF Update

-----------------------------------------------------------------------------
(* Activation of a preemptor. *)

LEMMA ActivateEvents ==
    ASSUME QOK, EventsOK, UNCHANGED preemptVars, NEW pod \in Pods, Activate(pod)
    PROVE  EventsOK'
<1> DEFINE n == pod.name
           s == queue[n]
           slot == IF s.unsched # NoInfo THEN MoveToActiveQ(s, s.unsched, FALSE)
                   ELSE IF s.backoff # NoInfo
                   THEN MoveToActiveQ([s EXCEPT !.backoff = NoInfo], s.backoff, TRUE)
                   ELSE IF s.error # NoInfo
                   THEN MoveToActiveQ([s EXCEPT !.error = NoInfo], s.error, TRUE)
                   ELSE s
           activated == s.active = NoInfo /\ slot.active # NoInfo
           u == Uid(pod)
           e == ForceActivate(u)
           missed == \/ activated
                     \/ Refusals(IF s.unsched # NoInfo THEN s.unsched.pod ELSE pod) # {}
           skip == IF missed THEN {u} ELSE {}
           freed == {u} \ preempting
<1>1. n \in Names /\ GoodSlot(s, n) /\ s \in Slots /\ u \in Uids /\ e \in Events /\ Ungated(s)
  BY PodFacts, EventFacts DEF QOK, QueueOK, GoodSlot, EventsOK, BackOK
<1>2. /\ queue' = [queue EXCEPT ![n] = slot]
      /\ IF ~activated /\ u \in inFlightPods THEN Record(e)
         ELSE UNCHANGED <<inFlightPods, inFlightEvents, since>>
      /\ Kept(Speaks(e, skip, freed))
  BY DEF Activate
<1>3. e.helps = Plugins /\ Hears(e, u) /\ \A v : v # u => ~Hears(e, v)
  BY <1>1, NullAssumption DEF ForceActivate, Event, Hears
<1>4. inFlightPods \subseteq Uids /\ queue \in [Names -> Slots]
  BY DEF QOK, QueueOK, ListOK, ListInv
(* What is left in the slot. *)
<1>5. /\ Ungated(slot)
      /\ Held(s, slot)
      /\ slot["unsched"] # NoInfo =>
            (Refusals(s["unsched"].pod) # {} /\ s["unsched"] # NoInfo)
  <2>1. CASE s["unsched"] # NoInfo
    <3> DEFINE i == s["unsched"]
    <3>1. slot = MoveToActiveQ(s, i, FALSE) /\ i \in Infos
      BY <1>1, <2>1, PlaceFacts DEF Slots
    <3>2. Ungated(slot) /\ Held(s, slot)
      BY <3>1, <1>1, MoveToActiveQHolds
    <3>3. CASE Gated(RunPreEnqueuePlugins(i))
      BY <3>1, <3>2, <3>3, <2>1, PreEnqueueRefuses
    <3>4. CASE ~Gated(RunPreEnqueuePlugins(i))
      <4> DEFINE j == RunPreEnqueuePlugins(i)
      <4>1. slot = [BackoffDelete(s) EXCEPT !["unsched"] = NoInfo, !["active"] = Cleared(j)]
        BY <3>1, <3>4 DEF MoveToActiveQ
      <4> HIDE DEF j, slot
      <4>2. BackoffDelete(s) \in Slots
        BY <1>1, BackoffDeleteFacts DEF GoodSlot
      <4>3. slot["unsched"] = NoInfo
        BY <4>1, <4>2, PlaceFacts DEF Slots
      <4> QED BY <4>3, <3>2
    <3> QED BY <3>3, <3>4
  <2>2. ASSUME NEW p \in {"backoff", "error"}, s["unsched"] = NoInfo, s[p] # NoInfo,
               slot = MoveToActiveQ([s EXCEPT ![p] = NoInfo], s[p], TRUE)
        PROVE  Ungated(slot) /\ Held(s, slot) /\ slot["unsched"] = NoInfo
    <3> DEFINE t == [s EXCEPT ![p] = NoInfo]
               i == s[p]
    <3>1. p \in Places /\ i \in Infos /\ ~Gated(i)
      BY <1>1, <2>2, PlaceFacts DEF Slots, Ungated
    <3>2. GoodSlot(t, n) /\ t \in Slots
      BY <1>1, <3>1, TakenOut DEF GoodSlot
    <3>3. Ungated(t)
      BY <1>1, <3>1, PlaceFacts DEF Ungated, Slots
    <3>4. slot = [BackoffDelete(t) EXCEPT !["unsched"] = NoInfo, !["active"] = Cleared(i)]
      BY <2>2, <3>1 DEF MoveToActiveQ
    <3>5. Ungated(MoveToActiveQ(t, i, TRUE))
      <4> HIDE DEF t, i
      <4> QED BY <1>1, <3>1, <3>2, <3>3, MoveToActiveQHolds
    <3> HIDE DEF t, i, slot
    <3>6. BackoffDelete(t) \in Slots
      BY <1>1, <3>2, BackoffDeleteFacts DEF GoodSlot
    <3>7. slot["unsched"] = NoInfo
      BY <3>4, <3>6, PlaceFacts DEF Slots
    <3> QED BY <2>2, <3>5, <3>7 DEF Held, t, i
  <2>3. CASE s["unsched"] = NoInfo /\ s["backoff"] # NoInfo
    <3>1. slot = MoveToActiveQ([s EXCEPT !["backoff"] = NoInfo], s["backoff"], TRUE)
      BY <2>3
    <3> HIDE DEF slot
    <3> QED BY <3>1, <2>2, <2>3
  <2>4. CASE s["unsched"] = NoInfo /\ s["backoff"] = NoInfo /\ s["error"] # NoInfo
    <3>1. slot = MoveToActiveQ([s EXCEPT !["error"] = NoInfo], s["error"], TRUE)
      BY <2>4
    <3> HIDE DEF slot
    <3> QED BY <3>1, <2>2, <2>4
  <2>5. CASE s["unsched"] = NoInfo /\ s["backoff"] = NoInfo /\ s["error"] = NoInfo
    <3>1. slot = s
      BY <2>5
    <3> HIDE DEF slot
    <3> QED BY <3>1, <2>5, <1>1 DEF Held
  <2> QED BY <2>1, <2>3, <2>4, <2>5
<1>6. (s["unsched"] # NoInfo /\ Refusals(s["unsched"].pod) # {}) => skip = {u}
  OBVIOUS
<1>7. skip \subseteq {u} /\ (activated => skip = {u})
  OBVIOUS
<1>8. \A v \in freed : ~RunningPreemption(v)
  BY DEF RunningPreemption
<1> HIDE DEF slot, missed, skip, freed, e
<1>9. DueEmpty' /\ \A v \in Uids : due'[v] \subseteq Speaks(e, skip, freed)[v]
  BY <1>2, KeptDue
<1>10. \A v \in Uids : (v # u \/ skip = {u}) => due'[v] \subseteq due[v]
  <2> SUFFICES ASSUME NEW v \in Uids, v # u \/ skip = {u}
               PROVE  due'[v] \subseteq due[v]
    OBVIOUS
  <2>1. v \in skip \/ ~Hears(e, v)
    BY <1>3
  <2>2. Speaks(e, skip, freed)[v] = due[v]
    BY <2>1, SpeaksDue
  <2> QED BY <2>2, <1>9
<1>11. HeardOK'
  <2>1. CASE ~activated /\ u \in inFlightPods
    <3>1. Record(e)
      BY <1>2, <2>1
    <3>2. ASSUME NEW v \in inFlightPods, NEW p \in Plugins, p \in due'[v]
          PROVE  p \in due[v] \/ (p \in e.helps /\ Hears(e, v))
      BY <1>3, <1>4, <1>10, <3>2
    <3> QED BY <1>1, <3>1, <3>2, HeardRecord DEF QOK, EventsOK
  <2>2. CASE activated \/ u \notin inFlightPods
    <3>1. UNCHANGED <<inFlightPods, inFlightEvents, since>>
      BY <1>2, <2>2
    <3>2. \A v \in inFlightPods : due'[v] \subseteq due[v]
      BY <1>4, <1>7, <1>10, <2>2
    <3> QED BY <3>1, <3>2, HeardSame DEF EventsOK
  <2> QED BY <2>1, <2>2
<1>12. RunOK'
  <2>1. ASSUME NEW v \in Uids, PreemptPlugin \in due'[v]
        PROVE  PreemptPlugin \in due[v] \/ ~RunningPreemption(v)
    <3>1. PreemptPlugin \in Speaks(e, skip, freed)[v]
      BY <1>9, <2>1
    <3>2. PreemptPlugin \in due[v] \/ PreemptPlugin \in e.helps \/ v \in freed
      BY <3>1, SpeaksDue
    <3> QED BY <3>2, <1>3, <1>8, PluginNames
  <2> QED BY <2>1, RunSame DEF EventsOK
<1>13. Settled(slot)
  <2>1. CASE slot["unsched"] = NoInfo
    BY <2>1 DEF Settled
  <2>2. CASE slot["unsched"] # NoInfo
    <3>1. \A v \in Uids : due'[v] \subseteq due[v]
      BY <2>2, <1>5, <1>6, <1>10
    <3> QED BY <3>1, <1>1, <1>5, HeldSettled DEF QOK, EventsOK
  <2> QED BY <2>1, <2>2
<1>14. ASSUME NEW m \in Names
       PROVE  Settled(queue'[m]) /\ Ungated(queue'[m])
  <2>1. CASE m = n
    <3>1. queue'[m] = slot
      BY <1>1, <1>2, <1>4, <2>1
    <3> QED BY <3>1, <1>5, <1>13
  <2>2. CASE m # n
    <3> DEFINE i == queue[m]["unsched"]
    <3>1. queue'[m] = queue[m] /\ Ungated(queue[m])
      BY <1>1, <1>2, <1>4, <2>2 DEF EventsOK, BackOK
    <3>2. CASE i = NoInfo
      BY <3>1, <3>2 DEF Settled
    <3>3. CASE i # NoInfo
      <4>1. i \in Infos /\ i.pod.name = m /\ Patient(i, due[Uid(i.pod)])
        BY <3>3, <1>4, PlaceFacts DEF QOK, QueueOK, GoodSlot, Slots, EventsOK, WaitOK
      <4>2. Uid(i.pod) \in Uids /\ Uid(i.pod) # u
        BY <4>1, <2>2, InfoFacts DEF Uid
      <4>3. Patient(i, due'[Uid(i.pod)])
        BY <4>1, <4>2, <1>10 DEF Patient
      <4> QED BY <4>3, <3>1 DEF Settled
    <3> QED BY <3>2, <3>3
  <2> QED BY <2>1, <2>2
<1>15. WaitOK' /\ BackOK'
  BY <1>12, <1>14, SettledWait
<1> QED BY <1>9, <1>11, <1>12, <1>15 DEF EventsOK

-----------------------------------------------------------------------------
(* Handing a pod back, and taking the next. *)

(* The events recorded for a pod in flight are the ones the queue looks at. *)
LEMMA HeardIsKept ==
    ASSUME ListOK, NEW u \in inFlightPods, NEW p, Heard(since[u], u, p)
    PROVE  \E i \in ClusterEventsForPod(u) :
              p \in inFlightEvents[i][2].helps /\ Hears(inFlightEvents[i][2], u)
<1> DEFINE L == inFlightEvents
           S == since[u]
           c == IndexOf(u)
<1>1. PICK k \in 1..Len(S) : p \in S[k][2].helps /\ Hears(S[k][2], u)
  BY DEF Heard
<1>2. \E i \in 1..Len(L) : L[i] = PodEntry(u)
  BY DEF ListOK, ListInv
<1>3. c \in 1..Len(L) /\ L[c] = PodEntry(u)
  BY <1>2 DEF IndexOf
<1>4. PICK f : Follows(L, c, S, f)
  BY <1>3 DEF ListOK, ListInv
<1>5. f[k] \in 1..Len(L) /\ f[k] > c /\ IsEvent(L[f[k]]) /\ L[f[k]] = S[k]
  BY <1>4 DEF Follows
<1>6. f[k] \in ClusterEventsForPod(u)
  BY <1>5 DEF ClusterEventsForPod
<1> QED BY <1>1, <1>5, <1>6

LEMMA AddUnschedulableEvents ==
    ASSUME QOK, EventsOK, UNCHANGED preemptVars, NEW info \in Infos, Plain(info),
           AddUnschedulableIfNotPresent(info)
    PROVE  EventsOK'
<1> DEFINE n == info.pod.name
           u == Uid(info.pod)
           worth == \/ info.plugins = {} \/ u \notin inFlightPods
                    \/ \E i \in ClusterEventsForPod(u) :
                          WorthRequeuing(info, inFlightEvents[i][2])
           i2 == [info EXCEPT !.tried = TRUE]
           t == Requeue(queue[n], i2, worth, TRUE)
<1>1. n \in Names /\ GoodSlot(queue[n], n) /\ u \in Uids
  BY InfoFacts DEF QOK, QueueOK
<1>2. /\ i2 \in Infos /\ i2.pod = info.pod
      /\ i2.plugins = info.plugins /\ i2.gating = info.gating
  BY DEF Infos
<1>3. /\ queue' = IF queue[n] # Nowhere THEN queue ELSE [queue EXCEPT ![n] = t]
      /\ DoneWith(u) /\ Kept(due)
  BY DEF AddUnschedulableIfNotPresent
<1>4. /\ inFlightPods' = inFlightPods \ {u} /\ inFlightPods \subseteq Uids
      /\ \A v \in inFlightPods' : since'[v] = since[v]
  BY <1>3, DoneWithSince DEF QOK
<1>5. DueEmpty' /\ \A v \in Uids : due'[v] \subseteq due[v]
  BY <1>3, KeptDue
<1>6. ASSUME ~worth PROVE Patient(i2, due'[u])
  <2>1. /\ u \in inFlightPods /\ info.plugins \subseteq Plugins
        /\ \A i \in ClusterEventsForPod(u) : ~WorthRequeuing(info, inFlightEvents[i][2])
    BY <1>6 DEF Plain
  <2>2. ASSUME NEW p \in due[u], p \in info.plugins PROVE FALSE
    <3>1. Heard(since[u], u, p)
      BY <2>1, <2>2 DEF EventsOK, HeardOK
    <3>2. PICK i \in ClusterEventsForPod(u) :
            p \in inFlightEvents[i][2].helps /\ Hears(inFlightEvents[i][2], u)
      BY <3>1, <2>1, HeardIsKept DEF QOK
    <3>3. WorthRequeuing(info, inFlightEvents[i][2])
      BY <2>2, <3>2 DEF WorthRequeuing, Hears
    <3> QED BY <2>1, <3>3
  <2>3. due'[u] \cap i2.plugins = {}
    BY <2>2, <1>1, <1>2, <1>5
  <2> QED BY <2>1, <2>3, <1>2, PluginNames DEF Patient, Plain
<1>7. worth \in BOOLEAN
  OBVIOUS
<1> HIDE DEF worth, i2, t
<1>8. \A m \in Names : Ungated(queue[m]) /\ Held(queue[m], queue[m])
  BY DEF EventsOK, BackOK, Held
<1>9. HeardOK' /\ RunOK'
  BY <1>4, <1>5, HeardSame, RunSame DEF EventsOK
<1>10. ASSUME NEW m \in Names, queue'[m] = queue[m]
       PROVE  Settled(queue'[m]) /\ Ungated(queue'[m])
  BY <1>5, <1>8, <1>10, HeldSettled DEF QOK, EventsOK
<1>11. ASSUME NEW m \in Names
       PROVE  Settled(queue'[m]) /\ Ungated(queue'[m])
  <2>1. CASE queue[n] # Nowhere
    BY <1>3, <1>10, <2>1
  <2>2. CASE queue[n] = Nowhere /\ m # n
    <3>1. queue'[m] = queue[m]
      BY <1>1, <1>3, <2>2 DEF QOK, QueueOK
    <3> QED BY <3>1, <1>10
  <2>3. CASE queue[n] = Nowhere /\ m = n
    <3>1. queue[n] \in Slots /\ Empty(queue[n])
      BY <2>3, NowhereFacts
    <3>2. Ungated(t) /\ (worth => Held(queue[n], t)) /\ (~worth => t["unsched"] = i2)
      BY <3>1, <1>1, <1>2, <1>7, RequeueHolds DEF t
    <3>3. Settled(t)
      <4>1. CASE worth
        BY <4>1, <3>2, <1>1, <1>5, HeldSettled DEF QOK, EventsOK
      <4>2. CASE ~worth
        BY <4>2, <3>2, <1>2, <1>6 DEF Settled
      <4> QED BY <4>1, <4>2
    <3>4. queue'[m] = t
      BY <1>1, <1>3, <2>3 DEF QOK, QueueOK
    <3> QED BY <3>2, <3>3, <3>4
  <2> QED BY <2>1, <2>2, <2>3
<1>12. WaitOK' /\ BackOK'
  BY <1>9, <1>11, SettledWait
<1> QED BY <1>5, <1>9, <1>12 DEF EventsOK

LEMMA PopEvents ==
    ASSUME QOK, EventsOK, UNCHANGED preemptVars, NEW n \in Names,
           NEW place \in {"active", "backoff"}, Pop(n, place)
    PROVE  EventsOK' /\ Plain(Popped(n, place))
<1> DEFINE i == queue[n][place]
           u == Uid(i.pod)
           said == [due EXCEPT ![u] = {}]
<1>1. place \in Places /\ i # NoInfo /\ u \notin inFlightPods
  BY PlaceFacts DEF Pop, In, Duplicates
<1>2. queue \in [Names -> Slots] /\ inFlightPods \subseteq Uids /\ since \in [Uids -> Seq(Entries)]
      /\ due \in [Uids -> SUBSET AllPlugins]
  BY DEF QOK, QueueOK, ListOK, ListInv, DueOK
<1>3. i \in Infos /\ u \in Uids
  BY <1>1, <1>2, InfoFacts DEF Slots
<1>4. Plain(Popped(n, place))
  BY <1>3 DEF Plain, Popped, Cleared, Infos
<1>5. /\ \E dropped \in SUBSET Duplicates(place) :
            queue' = [m \in Names |->
                [p \in Places |->
                    IF \/ p = place /\ m \in dropped \cup {n}
                       \/ place = "backoff" /\ p = "active"
                    THEN NoInfo ELSE queue[m][p]]]
      /\ inFlightPods' = inFlightPods \cup {u}
      /\ since' = [since EXCEPT ![u] = <<>>]
      /\ Kept(said)
  BY DEF Pop
<1> HIDE DEF i, u
<1>6. \A m \in Names, p \in Places : queue'[m][p] \in {NoInfo, queue[m][p]}
  BY <1>5
<1>7. /\ DueEmpty' /\ due'[u] = {}
      /\ \A v \in Uids : due'[v] \subseteq due[v]
  <2>1. said[u] = {} /\ \A v \in Uids : said[v] \subseteq due[v]
    BY <1>2, <1>3
  <2> HIDE DEF said
  <2>2. DueEmpty' /\ \A v \in Uids : due'[v] \subseteq said[v]
    BY <1>5, KeptDue
  <2> QED BY <2>1, <2>2, <1>3
<1>8. HeardOK'
  <2>1. ASSUME NEW v \in inFlightPods', NEW p \in Plugins, p \in due'[v]
        PROVE  Heard(since'[v], v, p)
    <3>1. v # u /\ v \in inFlightPods
      BY <1>5, <1>7, <2>1
    <3>2. since'[v] = since[v] /\ p \in due[v]
      BY <1>2, <1>3, <1>5, <1>7, <2>1, <3>1
    <3> QED BY <3>1, <3>2 DEF EventsOK, HeardOK
  <2> QED BY <2>1 DEF HeardOK
<1>9. RunOK'
  BY <1>7, RunSame DEF EventsOK
<1>10. ASSUME NEW m \in Names
       PROVE  Settled(queue'[m]) /\ Ungated(queue'[m])
  <2>1. Held(queue[m], queue'[m])
    BY <1>6, PlaceFacts DEF Held
  <2>2. Ungated(queue'[m])
    BY <1>6, PlaceFacts DEF Ungated, EventsOK, BackOK
  <2> QED BY <2>1, <2>2, <1>7, HeldSettled DEF QOK, EventsOK
<1>11. WaitOK' /\ BackOK'
  BY <1>9, <1>10, SettledWait
<1> QED BY <1>4, <1>7, <1>8, <1>9, <1>11 DEF EventsOK

-----------------------------------------------------------------------------
(* Steps that leave a part alone. *)

LEMMA EventsSame ==
    ASSUME EventsOK, UNCHANGED <<queueVars, preemptVars>>
    PROVE  EventsOK'
BY DEF EventsOK, HeardOK, WaitOK, BackOK, DueEmpty, RunOK, RunningPreemption, Waiting,
       queueVars, preemptVars

LEMMA HandsSame ==
    ASSUME HandsOK, UNCHANGED <<worker, bindings>>
    PROVE  HandsOK'
BY DEF HandsOK

LEMMA CallsSame ==
    ASSUME CallsOK, UNCHANGED informerVars
    PROVE  CallsOK'
BY DEF CallsOK, informerVars

LEMMA QuietStep ==
    ASSUME EInv, UNCHANGED <<queueVars, preemptVars, calls, worker, bindings>>
    PROVE  Told'
BY EventsSame, HandsSame DEF EInv, Told, CallsOK

-----------------------------------------------------------------------------
(* The informer loop and the timers. *)

LEMMA CallsFree ==
    ASSUME EnvOK, NEW pod \in Pods, NEW old \in Pods, NEW kind \in Kinds,
           NEW checked \in BOOLEAN
    PROVE  /\ AddCall(pod) \in GoodCalls /\ UpdateCall(old, pod) \in GoodCalls
           /\ DeleteCall(pod) \in GoodCalls /\ MoveCall(kind, pod, checked) \in GoodCalls
           /\ Freeing(MoveCall("AssignedPodDelete", pod, checked), pod) \in GoodCalls
<1>1. /\ AddCall(pod) \in Calls /\ UpdateCall(old, pod) \in Calls
      /\ DeleteCall(pod) \in Calls /\ MoveCall(kind, pod, checked) \in Calls
      /\ Freeing(MoveCall("AssignedPodDelete", pod, checked), pod) \in Calls
  BY CallFacts DEF EnvOK, Kinds
<1>2. /\ FreesByDelete(AddCall(pod)) /\ FreesByDelete(UpdateCall(old, pod))
      /\ FreesByDelete(DeleteCall(pod))
  BY DEF FreesByDelete, AddCall, UpdateCall, DeleteCall
<1>3. FreesByDelete(MoveCall(kind, pod, checked))
  BY DEF FreesByDelete, MoveCall
<1>4. FreesByDelete(Freeing(MoveCall("AssignedPodDelete", pod, checked), pod))
  BY DEF FreesByDelete, Freeing, MoveCall
<1> QED BY <1>1, <1>2, <1>3, <1>4 DEF GoodCalls

(* A handler queues calls that free preemptors only by a deletion, and marks *)
(* victims only as gone.                                                     *)
TellingHandler(h) ==
    /\ h.calls \in Seq(GoodCalls)
    /\ h.victims = pendingVictim \/ \E pod \in Pods : h.victims = Observe(pod)

LEMMA TellingParts ==
    ASSUME NEW s, NEW c, NEW q \in Seq(GoodCalls), NEW pod \in Pods
    PROVE  TellingHandler(H(s, c, pendingVictim, q)) /\ TellingHandler(H(s, c, Observe(pod), q))
BY DEF H, TellingHandler

LEMMA DeletedTells ==
    ASSUME EnvOK, NEW pod \in Pods
    PROVE  TellingHandler(OnPodDeleted(pod))
<1> DEFINE n == pod.name
           gone == [seen EXCEPT ![n] = NoPod]
           move == MoveCall("AssignedPodDelete", pod, FALSE)
           first == IF seen[n] = NoPod THEN <<>> ELSE <<Freeing(move, pod)>>
           nominated == IF pod.nom
                        THEN <<MoveCall("AssignedPodDelete", pod, TRUE)>> ELSE <<>>
           second == <<DeleteCall(pod)>> \o nominated
<1>1. "AssignedPodDelete" \in Kinds
  BY DEF Kinds
<1>2. first \in Seq(GoodCalls)
  BY <1>1, CallsFree, CallSeqs
<1>3. second \in Seq(GoodCalls)
  BY <1>1, CallsFree, CallSeqs
<1>4. OnPodDeleted(pod) =
        IF seen[n] = NoPod \/ pod.bound
        THEN H(gone, CacheRemove(cache, pod), Observe(pod), first)
        ELSE H(gone, cache, Observe(pod), second)
  BY DEF OnPodDeleted
<1> HIDE DEF gone, first, second
<1> QED BY <1>2, <1>3, <1>4, TellingParts

LEMMA UpdatedTells ==
    ASSUME EnvOK, NEW pod \in Pods, NEW old \in Pods
    PROVE  TellingHandler(UpdatePod(old, pod))
<1> DEFINE s == [seen EXCEPT ![pod.name] = pod]
           moved == IF old.nom # pod.nom
                    THEN <<MoveCall("AssignedPodDelete", old, TRUE)>> ELSE <<>>
           q1 == <<MoveCall("AssignedPodUpdate", pod, FALSE)>>
           q2 == <<MoveCall("AssignedPodAdd", pod, FALSE), DeleteCall(old)>>
           q3 == <<UpdateCall(old, pod)>> \o moved
<1>1. /\ "AssignedPodDelete" \in Kinds /\ "AssignedPodUpdate" \in Kinds
      /\ "AssignedPodAdd" \in Kinds
  BY DEF Kinds
<1>2. /\ q1 \in Seq(GoodCalls) /\ q2 \in Seq(GoodCalls) /\ q3 \in Seq(GoodCalls)
      /\ <<>> \in Seq(GoodCalls)
  BY <1>1, CallsFree, CallSeqs
<1>3. UpdatePod(old, pod) =
        IF old.bound THEN H(s, CacheUpdate(cache, old, pod), pendingVictim, q1)
        ELSE IF pod.bound THEN H(s, CacheAdd(cache, pod), pendingVictim, q2)
        ELSE IF cache[Uid(pod)] = "assumed" THEN H(s, cache, pendingVictim, <<>>)
        ELSE H(s, cache, pendingVictim, q3)
  BY DEF UpdatePod
<1> HIDE DEF s, q1, q2, q3
<1> QED BY <1>2, <1>3, TellingParts

LEMMA HandlerTells ==
    ASSUME EnvOK, NEW x \in Watched
    PROVE  TellingHandler(IF x.del THEN OnPodDeleted(x.pod) ELSE OnPodEvent(x.pod))
<1> DEFINE pod == x.pod
           s == [seen EXCEPT ![pod.name] = pod]
           q1 == <<MoveCall("AssignedPodAdd", pod, FALSE)>>
           q2 == <<AddCall(pod)>>
<1>1. pod \in Pods /\ "AssignedPodAdd" \in Kinds
  BY DEF Watched, Kinds
<1>2. q1 \in Seq(GoodCalls) /\ q2 \in Seq(GoodCalls) /\ <<>> \in Seq(GoodCalls)
  BY <1>1, CallsFree, CallSeqs
<1>3. seen[pod.name] \in Pods \cup {NoPod}
  BY <1>1, PodFacts DEF EnvOK, InformerOK
<1>4. seen[pod.name] # NoPod => TellingHandler(UpdatePod(seen[pod.name], pod))
  BY <1>1, <1>3, UpdatedTells
<1>5. TellingHandler(OnPodDeleted(pod))
  BY <1>1, DeletedTells
<1>6. OnPodEvent(pod) =
        IF pod.fin THEN OnPodDeleted(pod)
        ELSE IF seen[pod.name] = NoPod
        THEN (IF pod.bound THEN H(s, CacheAdd(cache, pod), pendingVictim, q1)
              ELSE H(s, cache, pendingVictim, q2))
        ELSE IF seen[pod.name] = pod THEN H(s, cache, pendingVictim, <<>>)
        ELSE UpdatePod(seen[pod.name], pod)
  BY DEF OnPodEvent
<1> HIDE DEF pod, s, q1, q2
<1>7. TellingHandler(OnPodEvent(pod))
  BY <1>1, <1>2, <1>4, <1>5, <1>6, TellingParts
<1> QED BY <1>5, <1>7 DEF pod

(* A victim is marked as gone, which only ends preemptions. *)
LEMMA VictimsGone ==
    ASSUME EventsOK, UNCHANGED <<queueVars, preempting>>,
           \A u \in Uids : RunningPreemption(u)' => RunningPreemption(u)
    PROVE  EventsOK'
<1>1. HeardOK' /\ WaitOK' /\ BackOK' /\ DueEmpty'
  BY DEF EventsOK, HeardOK, WaitOK, BackOK, DueEmpty, Waiting, queueVars
<1>2. RunOK'
  BY DEF EventsOK, RunOK, queueVars
<1> QED BY <1>1, <1>2 DEF EventsOK

LEMMA ObserveEnds ==
    ASSUME EnvOK, NEW pod \in Pods, pendingVictim' = Observe(pod), UNCHANGED preempting
    PROVE  \A u \in Uids : RunningPreemption(u)' => RunningPreemption(u)
<1> SUFFICES ASSUME NEW u \in Uids, RunningPreemption(u)' PROVE RunningPreemption(u)
  OBVIOUS
<1> DEFINE v == pendingVictim[u]
<1>1. v \in [name : Names \cup {"none"}, gone : BOOLEAN]
  BY DEF EnvOK, PreemptOK
<1>2. pendingVictim'[u] = IF v.name = pod.name THEN [v EXCEPT !.gone = TRUE] ELSE v
  BY DEF Observe
<1>3. /\ u \in preempting
      /\ pendingVictim'[u] = NoVictim \/ ~pendingVictim'[u].gone
  BY DEF RunningPreemption
<1> HIDE DEF v
<1>4. CASE v.name = pod.name
  <2>1. pendingVictim'[u].gone = TRUE
    BY <1>1, <1>2, <1>4
  <2> QED BY <2>1, <1>3 DEF NoVictim
<1>5. CASE v.name # pod.name
  BY <1>2, <1>3, <1>5 DEF RunningPreemption, v
<1> QED BY <1>4, <1>5

LEMMA HandleTold ==
    ASSUME EInv, NEW h, TellingHandler(h), Handle(h)
    PROVE  Told'
<1>1. UNCHANGED <<queueVars, preempting, worker, bindings>>
      /\ calls' = h.calls /\ pendingVictim' = h.victims
  BY DEF Handle
<1>2. EventsOK'
  <2>1. CASE h.victims = pendingVictim
    BY <1>1, <2>1, EventsSame DEF EInv, Told, preemptVars
  <2>2. CASE \E pod \in Pods : h.victims = Observe(pod)
    BY <1>1, <2>2, ObserveEnds, VictimsGone DEF EInv, Told, IInv
  <2> QED BY <2>1, <2>2 DEF TellingHandler
<1>3. CallsOK'
  BY <1>1 DEF CallsOK, TellingHandler
<1> QED BY <1>1, <1>2, <1>3, HandsSame DEF EInv, Told

LEMMA DeliverTold == ASSUME EInv, Deliver \/ HandleListed PROVE Told'
<1>1. PICK x \in Watched : Handle(IF x.del THEN OnPodDeleted(x.pod) ELSE OnPodEvent(x.pod))
  <2>1. CASE Deliver
    <3> DEFINE x == Head(stream)
    <3>1. x \in Watched
      BY <2>1, HeadTail DEF Deliver, EInv, IInv, EnvOK, InformerOK
    <3>2. Handle(IF x.del THEN OnPodDeleted(x.pod) ELSE OnPodEvent(x.pod))
      BY <2>1 DEF Deliver
    <3> HIDE DEF x
    <3> QED BY <3>1, <3>2
  <2>2. CASE HandleListed
    <3>1. PICK x \in listing :
            Handle(IF x.del THEN OnPodDeleted(x.pod) ELSE OnPodEvent(x.pod))
      BY <2>2 DEF HandleListed
    <3>2. x \in Watched
      BY DEF EInv, IInv, EnvOK, InformerOK
    <3> QED BY <3>1, <3>2
  <2> QED BY <2>1, <2>2
<1>2. TellingHandler(IF x.del THEN OnPodDeleted(x.pod) ELSE OnPodEvent(x.pod))
  BY HandlerTells DEF EInv, IInv
<1> QED BY <1>1, <1>2, HandleTold

(* The preemptors an event frees have no preemption running. *)
LEMMA ReleasedFacts ==
    ASSUME EnvOK, NEW c \in GoodCalls, c.op = "move"
    PROVE  \A u \in Uids : u \in Released(c) =>
              ~RunningPreemption(u) /\ c.kind = "AssignedPodDelete"
<1> SUFFICES ASSUME NEW u \in Uids, u \in Released(c)
             PROVE  ~RunningPreemption(u) /\ c.kind = "AssignedPodDelete"
  OBVIOUS
<1>1. CASE /\ u \in c.freed \cap preempting
           /\ pendingVictim[u].name = c.pod.name /\ pendingVictim[u].gone
  <2>1. pendingVictim[u] # NoVictim
    BY <1>1 DEF NoVictim
  <2>2. c.kind = "AssignedPodDelete"
    BY <1>1 DEF GoodCalls, FreesByDelete
  <2> QED BY <1>1, <2>1, <2>2 DEF RunningPreemption
<1>2. CASE u \notin preempting /\ c.kind = "AssignedPodDelete"
  BY <1>2 DEF RunningPreemption
<1> QED BY <1>1, <1>2 DEF Released

LEMMA QueueCallTold == ASSUME EInv, QueueCall PROVE Told'
<1> DEFINE c == Head(calls)
<1>1. c \in GoodCalls /\ c \in Calls /\ calls' \in Seq(GoodCalls)
  BY HeadTail DEF QueueCall, EInv, Told, CallsOK, GoodCalls
<1>2. QOK /\ EventsOK /\ EnvOK /\ UNCHANGED preemptVars
  BY DEF QueueCall, EInv, Told, IInv
<1>3. EventsOK'
  <2>1. CASE c.op = "add" /\ Add(c.pod)
    <3>1. c.pod \in Pods
      BY <1>1, <2>1 DEF Calls
    <3> QED BY <3>1, <2>1, <1>2, AddEvents
  <2>2. CASE c.op = "update" /\ Update(c.old, c.pod)
    <3>1. c.pod \in Pods /\ c.old \in Pods
      BY <1>1, <2>2 DEF Calls
    <3> QED BY <3>1, <2>2, <1>2, UpdateEvents
  <2>3. CASE c.op = "delete" /\ Delete(c.pod)
    <3>1. c.pod \in Pods
      BY <1>1, <2>3 DEF Calls
    <3> QED BY <3>1, <2>3, <1>2, DeleteEvents
  <2>4. CASE /\ c.op = "move"
             /\ \E helps \in SUBSET Plugins,
                   skip \in SUBSET {u \in Uids : c.checked /\ u # Uid(c.pod) /\ Waiting(u)} :
                   MoveAll(Event(c.kind, helps, NoUid), skip, Released(c))
    <3>1. PICK helps \in SUBSET Plugins,
               skip \in SUBSET {u \in Uids : c.checked /\ u # Uid(c.pod) /\ Waiting(u)} :
               MoveAll(Event(c.kind, helps, NoUid), skip, Released(c))
      BY <2>4
    <3>2. c.kind \in Kinds
      BY <1>1, <2>4 DEF Calls
    <3>3. \A u \in Uids : u \in Released(c) =>
             ~RunningPreemption(u) /\ c.kind = "AssignedPodDelete"
      BY <1>1, <1>2, <2>4, ReleasedFacts
    <3> HIDE DEF c
    <3> QED BY <1>2, <3>1, <3>2, <3>3, MoveAllEvents
  <2> QED BY <2>1, <2>2, <2>3, <2>4 DEF QueueCall
<1>4. HandsOK'
  BY HandsSame DEF QueueCall, EInv, Told
<1> QED BY <1>1, <1>3, <1>4 DEF Told, CallsOK

LEMMA TimersTold == ASSUME EInv, NodeEvent \/ FlushBackoff \/ FlushLeftover PROVE Told'
<1>1. QOK /\ EventsOK /\ UNCHANGED <<preemptVars, informerVars, worker, bindings>>
  BY DEF NodeEvent, FlushBackoff, FlushLeftover, outside, EInv, Told, IInv
<1>2. CASE NodeEvent
  <2>1. PICK helps \in SUBSET Plugins \ {{}} : MoveAll(Event("Node", helps, NoUid), {}, {})
    BY <1>2 DEF NodeEvent
  <2>2. "Node" \in Kinds
    BY DEF Kinds
  <2>3. EventsOK'
    BY <1>1, <2>1, <2>2, MoveAllEvents
  <2> QED BY <1>1, <2>3, HandsSame, CallsSame DEF EInv, Told
<1>3. CASE FlushBackoff
  <2>1. EventsOK'
    BY <1>1, <1>3, FlushBackoffEvents DEF FlushBackoff
  <2> QED BY <1>1, <2>1, HandsSame, CallsSame DEF EInv, Told
<1>4. CASE FlushLeftover
  <2>1. EventsOK'
    BY <1>1, <1>4, FlushLeftoverEvents DEF FlushLeftover
  <2> QED BY <1>1, <2>1, HandsSame, CallsSame DEF EInv, Told
<1> QED BY <1>2, <1>3, <1>4

-----------------------------------------------------------------------------
(* The worker. *)

(* The worker moves on with a pod rejected by filter plugins only. *)
LEMMA WorkerQuiet ==
    ASSUME EInv, UNCHANGED <<queueVars, preemptVars, informerVars, bindings>>,
           worker'.info # NoInfo => Plain(worker'.info)
    PROVE  Told'
BY EventsSame, CallsSame DEF EInv, Told, HandsOK

LEMMA GoPlain ==
    ASSUME EInv, NEW pc, Go(pc)
    PROVE  worker'.info # NoInfo => Plain(worker'.info)
<1>1. worker'.info = worker.info
  BY DEF Go, EInv, IInv, WorkerOK
<1> QED BY <1>1 DEF EInv, Told, HandsOK

LEMMA PluginsPlain ==
    ASSUME EInv, worker.info \in Infos, NEW P \in SUBSET Plugins, NEW pc,
           worker' = [worker EXCEPT !.pc = pc, !.info.plugins = P]
    PROVE  Plain(worker'.info)
<1> DEFINE i == [worker.info EXCEPT !.plugins = P]
<1>1. i.plugins = P /\ i.gating = worker.info.gating
  BY DEF Infos
<1>2. worker'.info = i
  BY DEF EInv, IInv, WorkerOK
<1>3. Plain(worker.info)
  BY InfoFacts DEF EInv, Told, HandsOK
<1> HIDE DEF i
<1> QED BY <1>1, <1>2, <1>3 DEF Plain

LEMMA FailedPlain ==
    ASSUME EInv, worker.info \in Infos, NEW P \in SUBSET Plugins, Failed(P)
    PROVE  Plain(worker'.info)
<1> DEFINE i == [worker.info EXCEPT !.plugins = P]
<1>1. i.plugins = P /\ i.gating = worker.info.gating
  BY DEF Infos
<1>2. worker'.info = i
  BY DEF Failed, EInv, IInv, WorkerOK
<1>3. Plain(worker.info)
  BY InfoFacts DEF EInv, Told, HandsOK
<1> HIDE DEF i
<1> QED BY <1>1, <1>2, <1>3 DEF Plain

LEMMA PopPartTold == ASSUME EInv, WorkerEnables \/ WorkerSleeps \/ WorkerWakes PROVE Told'
<1>1. /\ UNCHANGED <<queueVars, preemptVars, informerVars, bindings>>
      /\ \E pc \in Pcs : Go(pc)
  BY DEF WorkerEnables, WorkerSleeps, WorkerWakes, others, Pcs
<1> QED BY <1>1, GoPlain, WorkerQuiet

LEMMA WorkerPopsTold == ASSUME EInv, WorkerPops PROVE Told'
<1>1. PICK n \in Names, place \in {"active", "backoff"} :
        /\ Pop(n, place)
        /\ worker' = [pc |-> "read", info |-> Popped(n, place), pod |-> NoPod]
  BY DEF WorkerPops
<1>2. UNCHANGED <<preemptVars, informerVars, bindings>>
  BY DEF WorkerPops, others
<1>3. EventsOK' /\ Plain(Popped(n, place))
  BY <1>1, <1>2, PopEvents DEF EInv, Told, IInv
<1>4. HandsOK'
  BY <1>1, <1>2, <1>3 DEF EInv, Told, HandsOK
<1> QED BY <1>2, <1>3, <1>4, CallsSame DEF EInv, Told

LEMMA WorkerReadsTold == ASSUME EInv, WorkerReads PROVE Told'
<1>1. worker'.info = worker.info
  BY DEF WorkerReads, EInv, IInv, WorkerOK
<1>2. worker'.info # NoInfo => Plain(worker'.info)
  BY <1>1 DEF EInv, Told, HandsOK
<1> QED BY <1>2, WorkerQuiet DEF WorkerReads, others

(* The steps in which the attempt fails. *)
LEMMA WorkerFailsTold ==
    ASSUME EInv, WorkerErrs \/ AssumeRefused \/ ReserveFailed \/ WorkerNominates PROVE Told'
<1>1. UNCHANGED <<queueVars, preemptVars, informerVars, bindings>>
  BY DEF WorkerErrs, AssumeRefused, ReserveFailed, WorkerNominates, others
<1>2. worker.info \in Infos
  BY WorkerFacts DEF WorkerErrs, AssumeRefused, ReserveFailed, WorkerNominates, EInv, IInv,
     InHandPcs, Pcs, InPop
<1>3. worker.info.plugins \in SUBSET Plugins
  BY <1>2, InfoFacts DEF EInv, Told, HandsOK, Plain
<1>4. \E P \in SUBSET Plugins : Failed(P)
  BY <1>3 DEF WorkerErrs, AssumeRefused, ReserveFailed, WorkerNominates
<1>5. Plain(worker'.info)
  BY <1>2, <1>4, FailedPlain
<1> QED BY <1>1, <1>5, WorkerQuiet

LEMMA WorkerRejectsTold == ASSUME EInv, WorkerRejects PROVE Told'
<1>1. PICK P \in SUBSET Plugins :
        \/ Failed(P)
        \/ worker' = [worker EXCEPT !.pc = "clear", !.info.plugins = P]
  BY Zenon DEF WorkerRejects
<1>2. worker.info \in Infos
  BY WorkerFacts DEF WorkerRejects, EInv, IInv, InHandPcs, Pcs, InPop
<1>3. Plain(worker'.info)
  <2>1. CASE Failed(P)
    BY <1>2, <2>1, FailedPlain
  <2>2. CASE worker' = [worker EXCEPT !.pc = "clear", !.info.plugins = P]
    BY <1>2, <2>2, PluginsPlain, Zenon
  <2> QED BY <1>1, <2>1, <2>2, Zenon
<1> QED BY <1>3, WorkerQuiet DEF WorkerRejects, others

LEMMA RereadFailsTold == ASSUME EInv, RereadFails PROVE Told'
<1>1. worker' = [worker EXCEPT !.pc = "requeue", !.info.plugins = {}]
  BY DEF RereadFails
<1>2. worker.info \in Infos
  BY WorkerFacts DEF RereadFails, EInv, IInv, InHandPcs, Pcs, InPop
<1>3. Plain(worker'.info)
  <2>1. {} \in SUBSET Plugins
    OBVIOUS
  <2> QED BY <1>1, <1>2, <2>1, PluginsPlain, Zenon
<1> QED BY <1>3, WorkerQuiet DEF RereadFails

LEMMA BackPlain ==
    ASSUME NEW info \in Infos, Plain(info)
    PROVE  Plain(Back(info).info)
<1> DEFINE j == [info EXCEPT !.pod = store[info.pod.name]]
<1>1. j.plugins = info.plugins /\ j.gating = info.gating
  BY DEF Infos
<1> HIDE DEF j
<1>2. Back(info).info \in {info, j}
  BY DEF Back, j
<1> QED BY <1>1, <1>2 DEF Plain

LEMMA WorkerRereadsTold == ASSUME EInv, WorkerRereads PROVE Told'
<1> DEFINE b == Back(worker.info)
<1>1. worker.info \in Infos
  BY WorkerFacts DEF WorkerRereads, EInv, IInv, InHandPcs, Pcs, InPop
<1>2. Plain(b.info)
  BY <1>1, BackPlain, InfoFacts DEF EInv, Told, HandsOK
<1>3. worker' = [worker EXCEPT !.pc = b.pc, !.info = b.info]
  BY DEF WorkerRereads
<1> HIDE DEF b
<1>4. worker'.info = b.info
  BY <1>3 DEF EInv, IInv, WorkerOK
<1> QED BY <1>2, <1>4, WorkerQuiet DEF WorkerRereads, others

LEMMA WorkerReturnsTold == ASSUME EInv, WorkerRequeues \/ WorkerDone PROVE Told'
<1>1. worker.info \in Infos /\ Plain(worker.info)
  <2>1. worker.info \in Infos
    BY WorkerFacts DEF WorkerRequeues, WorkerDone, EInv, IInv, InHandPcs, Pcs, InPop
  <2> QED BY <2>1, InfoFacts DEF EInv, Told, HandsOK
<1>2. UNCHANGED <<preemptVars, informerVars, bindings>> /\ Rest
  BY DEF WorkerRequeues, WorkerDone, others
<1>3. EventsOK'
  <2>1. CASE AddUnschedulableIfNotPresent(worker.info)
    BY <1>1, <1>2, <2>1, AddUnschedulableEvents DEF EInv, Told, IInv
  <2>2. CASE Done(Uid(worker.info.pod))
    BY <1>2, <2>2, DoneEvents DEF EInv, Told, IInv
  <2> QED BY <2>1, <2>2 DEF WorkerRequeues, WorkerDone
<1>4. HandsOK'
  BY <1>2 DEF Rest, EInv, Told, HandsOK
<1> QED BY <1>2, <1>3, <1>4, CallsSame DEF EInv, Told

LEMMA WorkerAssumesTold == ASSUME EInv, WorkerAssumes PROVE Told'
<1> DEFINE b == [pc |-> "start", info |-> worker.info, pod |-> worker.pod,
                 rejected |-> FALSE, forgotten |-> FALSE]
<1>1. worker.info \in Infos /\ Plain(worker.info)
  <2>1. worker.info \in Infos
    BY WorkerFacts DEF WorkerAssumes, EInv, IInv, InHandPcs, Pcs, InPop
  <2> QED BY <2>1, InfoFacts DEF EInv, Told, HandsOK
<1>2. UNCHANGED <<queueVars, preemptVars, informerVars>>
  BY DEF WorkerAssumes
<1>3. CASE bindings' = bindings \cup {b} /\ Rest
  <2>1. \A a \in bindings' : Plain(a.info)
    BY <1>1, <1>3 DEF EInv, Told, HandsOK
  <2>2. worker'.info = NoInfo
    BY <1>3 DEF Rest
  <2> QED BY <1>2, <2>1, <2>2, EventsSame, CallsSame DEF EInv, Told, HandsOK
<1>4. CASE Go("forget") /\ UNCHANGED bindings
  BY <1>2, <1>4, GoPlain, WorkerQuiet
<1> QED BY <1>3, <1>4 DEF WorkerAssumes

(* What was said for a preemption is forgotten when a new one starts or its  *)
(* victim is named.                                                          *)
LEMMA NewPreemption ==
    ASSUME EventsOK, DueOK, QueueOK, NEW u \in Uids, due' = [due EXCEPT ![u] = @ \ {PreemptPlugin}],
           UNCHANGED <<queue, inFlightPods, since>>, inFlightPods \subseteq Uids,
           \A v \in Uids \ {u} : RunningPreemption(v)' => RunningPreemption(v)
    PROVE  EventsOK'
<1>1. /\ PreemptPlugin \notin due'[u] /\ \A v \in Uids : due'[v] \subseteq due[v]
      /\ \A v \in Uids \ {u} : due'[v] = due[v]
  BY DEF DueOK
<1>2. HeardOK'
  BY <1>1, HeardSame DEF EventsOK
<1>3. RunOK'
  BY <1>1 DEF EventsOK, RunOK
<1>4. ASSUME NEW n \in Names, queue[n]["unsched"] # NoInfo
      PROVE  Patient(queue[n]["unsched"], due'[Uid(queue[n]["unsched"].pod)])
  <2> DEFINE i == queue[n]["unsched"]
  <2>1. i \in Infos /\ Patient(i, due[Uid(i.pod)])
    BY <1>4, PlaceFacts DEF EventsOK, WaitOK, QueueOK, Slots
  <2>2. Uid(i.pod) \in Uids
    BY <2>1, InfoFacts
  <2> HIDE DEF i
  <2>3. Patient(i, due'[Uid(i.pod)])
    BY <2>1, <2>2, <1>1 DEF Patient
  <2> QED BY <2>3 DEF i
<1>5. WaitOK' /\ BackOK'
  BY <1>4 DEF WaitOK, EventsOK, BackOK
<1>6. DueEmpty'
  BY <1>1 DEF EventsOK, DueEmpty, Waiting
<1> QED BY <1>2, <1>3, <1>5, <1>6 DEF EventsOK

LEMMA WorkerPreemptsTold == ASSUME EInv, WorkerPreempts PROVE Told'
<1> DEFINE u == Uid(worker.pod)
<1>1. PICK P \in SUBSET Plugins : worker' = [worker EXCEPT !.pc = "nominate", !.info.plugins = P]
  <2>1. SUBSET Plugins \ {{}} \subseteq SUBSET Plugins
    OBVIOUS
  <2> QED BY <2>1, Zenon DEF WorkerPreempts
<1>2. /\ worker.pc = "decide" /\ preempting' = preempting \cup {u}
      /\ due' = [due EXCEPT ![u] = @ \ {PreemptPlugin}]
      /\ UNCHANGED <<queue, inFlightPods, since, pendingVictim, informerVars, bindings>>
  BY DEF WorkerPreempts
<1>3. worker.info \in Infos /\ u \in Uids
  BY <1>2, WorkerFacts, PodFacts DEF EInv, IInv, InHandPcs, Pcs, InPop, HasRead
<1>4. \A v \in Uids \ {u} : RunningPreemption(v)' => RunningPreemption(v)
  BY <1>2 DEF RunningPreemption
<1>5. EventsOK'
  BY <1>2, <1>3, <1>4, NewPreemption DEF EInv, Told, IInv, QOK, ListOK, ListInv
<1>6. Plain(worker'.info)
  BY <1>1, <1>3, PluginsPlain, Zenon
<1>7. HandsOK'
  BY <1>2, <1>6 DEF EInv, Told, HandsOK
<1> QED BY <1>2, <1>5, <1>7, CallsSame DEF EInv, Told

-----------------------------------------------------------------------------
(* Binding tasks. *)

LEMMA TasksPlain ==
    ASSUME EInv, NEW b \in bindings, NEW c, Plain(c.info), UNCHANGED worker,
           Step(b, c) \/ End(b)
    PROVE  HandsOK'
BY DEF EInv, Told, HandsOK, Step, End

LEMMA PcPlain ==
    ASSUME EInv, NEW b \in bindings, NEW pc
    PROVE  Plain([b EXCEPT !.pc = pc].info)
BY DEF EInv, Told, HandsOK, IInv, TasksOK, BindingTasks

LEMMA BindingStartsTold == ASSUME EInv, NEW b \in bindings, BindingStarts(b) PROVE Told'
<1>1. /\ UNCHANGED <<preemptVars, informerVars, worker>> /\ Done(Uid(b.info.pod))
      /\ Step(b, [b EXCEPT !.pc = "bind"])
  BY DEF BindingStarts, aside
<1>2. EventsOK'
  BY <1>1, DoneEvents DEF EInv, Told, IInv
<1>3. HandsOK'
  BY <1>1, PcPlain, TasksPlain
<1> QED BY <1>1, <1>2, <1>3, CallsSame DEF EInv, Told

(* The steps of a task that leave the queue alone. *)
LEMMA TaskQuiet ==
    ASSUME EInv, UNCHANGED <<aside, queueVars>>, HandsOK'
    PROVE  Told'
BY EventsSame, CallsSame DEF EInv, Told, aside

LEMMA BindTold == ASSUME EInv, NEW b \in bindings, Bind(b) PROVE Told'
<1>1. /\ UNCHANGED <<aside, queueVars>>
      /\ End(b) \/ \E pc \in BindingPcs : Step(b, [b EXCEPT !.pc = pc])
  BY DEF Bind, BindingPcs
<1>2. HandsOK'
  BY <1>1, PcPlain, TasksPlain DEF aside
<1> QED BY <1>1, <1>2, TaskQuiet

LEMMA BindFailsTold == ASSUME EInv, NEW b \in bindings, BindFails(b) PROVE Told'
<1>1. PICK r \in BOOLEAN : Step(b, [b EXCEPT !.pc = "abort", !.rejected = r])
  BY Zenon DEF BindFails
<1>2. Plain([b EXCEPT !.pc = "abort", !.rejected = r].info)
  BY DEF EInv, Told, HandsOK, IInv, TasksOK, BindingTasks
<1>3. HandsOK'
  BY <1>1, <1>2, TasksPlain DEF BindFails, aside
<1> QED BY <1>3, TaskQuiet DEF BindFails

LEMMA AbortTold == ASSUME EInv, NEW b \in bindings, Abort(b) PROVE Told'
<1> DEFINE forgotten == Forgettable(Uid(b.pod))
           pc == IF forgotten /\ ~b.rejected THEN "move" ELSE "reread"
           i == [b.info EXCEPT !.plugins = {}]
           c == [b EXCEPT !.forgotten = forgotten, !.info.plugins = {}, !.pc = pc]
<1>1. Step(b, c)
  BY DEF Abort
<1>2. b \in BindingTasks /\ b.info \in Infos /\ Plain(b.info)
  BY TaskFacts DEF EInv, Told, HandsOK, IInv
<1>3. i.plugins = {} /\ i.gating = b.info.gating
  BY <1>2 DEF Infos
<1>4. c = [b EXCEPT !.forgotten = forgotten, !.info = i, !.pc = pc]
  BY <1>2 DEF BindingTasks
<1> HIDE DEF forgotten, pc, i
<1>5. c.info = i
  BY <1>2, <1>4 DEF BindingTasks
<1> HIDE DEF c
<1>6. Plain(c.info)
  BY <1>2, <1>3, <1>5 DEF Plain
<1>7. HandsOK'
  BY <1>1, <1>6, TasksPlain DEF Abort, aside
<1> QED BY <1>7, TaskQuiet DEF Abort

LEMMA BindingMovesTold == ASSUME EInv, NEW b \in bindings, BindingMoves(b) PROVE Told'
<1> DEFINE skip == IF b.pc = "move" THEN {} ELSE {Uid(b.pod)}
<1>1. PICK helps \in SUBSET Plugins : MoveAll(Event("AssignedPodDelete", helps, NoUid), skip, {})
  BY DEF BindingMoves
<1>2. UNCHANGED <<preemptVars, informerVars, worker>> /\ "AssignedPodDelete" \in Kinds
  BY DEF BindingMoves, aside, Kinds
<1> HIDE DEF skip
<1>3. EventsOK'
  BY <1>1, <1>2, MoveAllEvents DEF EInv, Told, IInv
<1>4. Step(b, [b EXCEPT !.pc = "reread"]) \/ End(b)
  BY DEF BindingMoves
<1>5. HandsOK'
  BY <1>2, <1>4, PcPlain, TasksPlain
<1> QED BY <1>2, <1>3, <1>5, CallsSame DEF EInv, Told

LEMMA BindingRereadsTold == ASSUME EInv, NEW b \in bindings, BindingRereads(b) PROVE Told'
<1> DEFINE c == [b EXCEPT !.pc = Back(b.info).pc, !.info = Back(b.info).info]
           d == [b EXCEPT !.pc = "requeue"]
<1>1. Step(b, c) \/ Step(b, d)
  BY DEF BindingRereads
<1>2. b \in BindingTasks /\ b.info \in Infos /\ Plain(b.info)
  BY TaskFacts DEF EInv, Told, HandsOK, IInv
<1>3. c.info = Back(b.info).info
  BY <1>2 DEF BindingTasks
<1>4. Plain(c.info) /\ Plain(d.info)
  BY <1>2, <1>3, BackPlain, PcPlain
<1> HIDE DEF c, d
<1>5. HandsOK'
  BY <1>1, <1>4, TasksPlain DEF BindingRereads, aside
<1> QED BY <1>5, TaskQuiet DEF BindingRereads

LEMMA BindingReturnsTold == ASSUME EInv, NEW b \in bindings, BindingReturns(b) PROVE Told'
<1>1. /\ UNCHANGED <<preemptVars, informerVars, worker>>
      /\ Step(b, [b EXCEPT !.pc = "moveself"]) \/ End(b)
  BY DEF BindingReturns, aside
<1>2. b.info \in Infos /\ Plain(b.info)
  BY TaskFacts DEF EInv, Told, HandsOK, IInv
<1>3. EventsOK'
  <2>1. CASE AddUnschedulableIfNotPresent(b.info)
    BY <1>1, <1>2, <2>1, AddUnschedulableEvents DEF EInv, Told, IInv
  <2>2. CASE Done(Uid(b.info.pod))
    BY <1>1, <2>2, DoneEvents DEF EInv, Told, IInv
  <2> QED BY <2>1, <2>2 DEF BindingReturns
<1>4. HandsOK'
  BY <1>1, PcPlain, TasksPlain
<1> QED BY <1>1, <1>3, <1>4, CallsSame DEF EInv, Told

-----------------------------------------------------------------------------
(* Preemption tasks. *)

LEMMA SetLastVictimTold == ASSUME EInv, NEW t \in preemptions, SetLastVictim(t) PROVE Told'
<1> DEFINE u == Uid(t.pod)
           v == [name |-> t.victim, gone |-> FALSE]
<1>1. /\ pendingVictim' = [pendingVictim EXCEPT ![u] = v]
      /\ due' = [due EXCEPT ![u] = @ \ {PreemptPlugin}]
      /\ UNCHANGED <<queue, inFlightPods, since, preempting, informerVars, worker, bindings>>
  BY DEF SetLastVictim
<1>2. u \in Uids
  BY PreemptionFacts DEF EInv, IInv
<1>3. \A w \in Uids \ {u} : RunningPreemption(w)' => RunningPreemption(w)
  BY <1>1, <1>2 DEF RunningPreemption, EInv, IInv, EnvOK, PreemptOK
<1>4. EventsOK'
  BY <1>1, <1>2, <1>3, NewPreemption DEF EInv, Told, IInv, QOK, ListOK, ListInv
<1> QED BY <1>1, <1>4, HandsSame, CallsSame DEF EInv, Told

LEMMA FinishPreemptionTold ==
    ASSUME EInv, NEW t \in preemptions, FinishPreemption(t) PROVE Told'
<1> DEFINE u == Uid(t.pod)
<1>1. /\ preempting' = preempting \ {u}
      /\ pendingVictim' = [pendingVictim EXCEPT ![u] = NoVictim]
      /\ UNCHANGED <<queueVars, informerVars, worker, bindings>>
  BY DEF FinishPreemption, away
<1>2. \A w \in Uids : RunningPreemption(w)' => RunningPreemption(w)
  BY <1>1 DEF RunningPreemption, EInv, IInv, EnvOK, PreemptOK
<1>3. HeardOK' /\ WaitOK' /\ BackOK' /\ DueEmpty'
  BY <1>1 DEF EInv, Told, EventsOK, HeardOK, WaitOK, BackOK, DueEmpty, Waiting, queueVars
<1>4. RunOK'
  BY <1>1, <1>2 DEF EInv, Told, EventsOK, RunOK, queueVars
<1> QED BY <1>1, <1>3, <1>4, HandsSame, CallsSame DEF EInv, Told, EventsOK

LEMMA ActivatePreemptorTold ==
    ASSUME EInv, NEW t \in preemptions, ActivatePreemptor(t) PROVE Told'
<1>1. UNCHANGED <<preemptVars, informerVars, worker, bindings>> /\ Activate(t.pod)
  BY DEF ActivatePreemptor
<1>2. t.pod \in Pods
  BY PreemptionFacts DEF EInv, IInv
<1>3. EventsOK'
  BY <1>1, <1>2, ActivateEvents DEF EInv, Told, IInv
<1> QED BY <1>1, <1>3, HandsSame, CallsSame DEF EInv, Told

LEMMA EvictTold == ASSUME EInv, NEW t \in preemptions, Evict(t) PROVE Told'
BY QuietStep DEF Evict, away, informerVars

-----------------------------------------------------------------------------
(* Users and the informer's own steps touch none of it. *)

LEMMA AsideTold ==
    ASSUME EInv, Resync \/ ListFails \/ OpenWatch \/ WatchBreaks \/ Users
    PROVE  Told'
BY QuietStep DEF Resync, ListFails, OpenWatch, WatchBreaks, Users, CreatePod, RemoveGates,
       RemovePod, informerVars

-----------------------------------------------------------------------------
(* The theorems. *)

LEMMA InitTold == ASSUME Init PROVE Told
<1>1. \A n \in Names, p \in Places : queue[n][p] = NoInfo
  BY DEF Init, QInit, Nowhere
<1>2. \A u \in Uids : due[u] = {}
  BY DEF Init, QInit
<1>3. EventsOK
  BY <1>1, <1>2, PlaceFacts DEF Init, QInit, EventsOK, HeardOK, WaitOK, BackOK, Ungated,
     DueEmpty, RunOK
<1>4. HandsOK /\ CallsOK
  BY DEF Init, HandsOK, CallsOK
<1> QED BY <1>3, <1>4 DEF Told

LEMMA NextTold == ASSUME EInv, Next PROVE Told'
<1>1. CASE Informer
  BY <1>1, DeliverTold, AsideTold, QueueCallTold, TimersTold DEF Informer
<1>2. CASE Worker
  BY <1>2, PopPartTold, WorkerPopsTold, WorkerReadsTold, WorkerFailsTold, WorkerAssumesTold,
     WorkerRejectsTold, WorkerPreemptsTold, WorkerRereadsTold, RereadFailsTold,
     WorkerReturnsTold DEF Worker
<1>3. CASE FlushBackoff \/ FlushLeftover
  BY <1>3, TimersTold
<1>4. CASE \E b \in bindings : Binding(b)
  BY <1>4, BindingStartsTold, BindTold, BindFailsTold, AbortTold, BindingMovesTold,
     BindingRereadsTold, BindingReturnsTold DEF Binding
<1>5. CASE \E t \in preemptions : Preemption(t)
  BY <1>5, SetLastVictimTold, EvictTold, FinishPreemptionTold, ActivatePreemptorTold
     DEF Preemption
<1>6. CASE Users
  BY <1>6, AsideTold
<1> QED BY <1>1, <1>2, <1>3, <1>4, <1>5, <1>6 DEF Next

(* The history of the events agrees with where each pod is and with what was *)
(* recorded for it, in every state of every behaviour: the invariant behind  *)
(* the two theorems below.                                                    *)
THEOREM EventInvariance == Spec => []EInv
<1>1. Init => EInv
  BY InitInv, InitTold DEF EInv
<1>2. EInv /\ [Next]_vars => EInv'
  <2> SUFFICES ASSUME EInv, [Next]_vars PROVE EInv'
    OBVIOUS
  <2>1. CASE Next
    BY <2>1, NextInv, NextTold DEF EInv
  <2>2. CASE UNCHANGED vars
    BY <2>2, StutterInv, QuietStep DEF EInv, vars, informerVars
  <2> QED BY <2>1, <2>2
<1> QED BY <1>1, <1>2, PTL DEF Spec

(* A pod waits in unschedulablePods only if no cluster event since its pop   *)
(* spoke for a plugin that rejected it: neither the events that arrived      *)
(* while the pod was in flight (AddUnschedulableIfNotPresent looks at them)  *)
(* nor those since (movePodsToActiveOrBackoffQueue) are missed, whatever the *)
(* informer, the worker, the timers and the tasks interleave.                *)
THEOREM EventsHeeded == Spec => []NoEventMissed
<1>1. ASSUME EInv, NEW u \in Uids, Waiting(u), ~Gated(queue[u[1]].unsched)
      PROVE  due[u] \cap queue[u[1]].unsched.plugins = {}
  <2>1. u[1] \in Names
    BY DEF Uids
  <2> QED BY <2>1, <1>1 DEF EInv, Told, EventsOK, WaitOK, Waiting, Patient
<1>2. EInv => NoEventMissed
  BY <1>1 DEF NoEventMissed
<1> QED BY <1>2, EventInvariance, PTL

(* A preemptor is not left gated by its own preemption (the PreEnqueue       *)
(* plugin of async_preemption.rs) once the queue was told that its last      *)
(* victim is gone or was told to activate it, unless it has lost the plugins *)
(* that rejected it.                                                         *)
THEOREM PreemptorsReleased == Spec => []PreemptorReleased
<1>1. ASSUME EInv, NEW u \in Uids, Waiting(u), queue[u[1]].unsched.gating = PreemptPlugin,
             queue[u[1]].unsched.plugins \cap Plugins # {}
      PROVE  PreemptPlugin \notin due[u]
  <2>1. u[1] \in Names
    BY DEF Uids
  <2> QED BY <2>1, <1>1 DEF EInv, Told, EventsOK, WaitOK, Waiting, Patient
<1>2. EInv => PreemptorReleased
  BY <1>1 DEF PreemptorReleased
<1> QED BY <1>2, EventInvariance, PTL

=============================================================================
