------------------------- MODULE SchedulerPodProofs -------------------------
(***************************************************************************)
(* The life of a pod in the scheduler, for every set of names and plugins  *)
(* and all budgets: no pending pod is lost (NoPodLost) and none is bound   *)
(* twice (BoundOnce).                                                      *)
(*                                                                         *)
(* Both are about the first pod of a name.  While it is stored, every copy *)
(* of a pod of that name, in the queue, in somebody's hand or in an event  *)
(* under way, is a copy of this one, and no event tells of its deletion or *)
(* of a bind that has not happened.  The invariant adds this to IInv of    *)
(* SchedulerProofs.                                                        *)
(***************************************************************************)
EXTENDS SchedulerProofs

PodsIn(s) == {s[p].pod : p \in {q \in Places : s[q] # NoInfo}}
Copy(pod) == pod.inc <= incs[pod.name]
News == {stream[i] : i \in 1..Len(stream)} \cup listing

(* The stored pod is the last one created under its name ... *)
CountOK ==
    \A n \in Names : /\ 1 <= incs[n]
                     /\ store[n] # NoPod => store[n].inc = incs[n] /\ 1 <= store[n].rv
(* ... and nobody has a copy of a later one. *)
QueuedOK == \A n \in Names : \A pod \in PodsIn(queue[n]) : Copy(pod)
HeardOK ==
    /\ \A x \in News : Copy(x.pod)
    /\ \A n \in Names : seen[n] # NoPod => seen[n].name = n /\ Copy(seen[n])
    /\ \A k \in 1..Len(calls) : Copy(calls[k].pod)
HandOK ==
    /\ worker.info # NoInfo => Copy(worker.info.pod)
    /\ worker.pc \in HasRead => worker.pod.name = worker.info.pod.name
BoundsOK ==
    \A b \in bindings :
        Copy(b.pod) /\ Copy(b.info.pod) /\ b.pod.name = b.info.pod.name

(* The first pod of its name is stored. *)
Fresh(n) == store[n] # NoPod /\ incs[n] = 1

(* What is under way does not run ahead of the store. *)
NewsAt(n) ==
    /\ \A x \in News : x.pod.name = n =>
          ~x.del /\ (x.pod.bound => store[n].bound) /\ (x.pod.fin => store[n].fin)
    /\ seen[n] # NoPod /\ seen[n].bound => store[n].bound
    /\ \A k \in 1..Len(calls) :
          calls[k].op = "delete" /\ calls[k].pod.name = n => ~Pending(store[n])

(* A pod the informer has handled is queued, in hand, or about to be added. *)
HandPcs == {"read", "decide", "forget", "nominate", "clear", "reread", "requeue"}
WorkerHas(n) == worker.pc \in HandPcs /\ worker.info.pod.name = n
TaskHas(n) == \E b \in bindings : b.info.pod.name = n /\ b.pc # "moveself"
ToAdd(n) == \E k \in 1..Len(calls) : calls[k].op = "add" /\ calls[k].pod.name = n
Held(n) == PodsIn(queue[n]) # {} \/ WorkerHas(n) \/ TaskHas(n) \/ ToAdd(n)
KeptAt(n) ==
    /\ Pending(store[n]) /\ seen[n] # NoPod => Held(n)
    /\ \A b \in bindings : b.pc = "done" /\ b.info.pod.name = n => ~Pending(store[n])

(* Old pods ran from the start, and only they are evicted.  A pod the        *)
(* scheduler bound stays in the cache; one it binds is assumed, by one task  *)
(* or by the worker.                                                         *)
Old(n) == store[n].bound /\ (store[n].rv = 1 \/ store[n].fin)
Reading(n) == worker.pc \in HasRead /\ worker.pod.name = n
Forgetting(n) == worker.pc = "forget" /\ worker.pod.name = n
Binder(b, n) == b.pc \in Binds /\ b.pod.name = n
EvictAt(n) ==
    /\ store[n].fin => store[n].bound
    /\ \A t \in preemptions : t.victim = n => Old(n)
    /\ Old(n) => ~Reading(n)
BoundAt(n) ==
    store[n].bound => /\ ~Forgetting(n) /\ \A b \in bindings : ~Binder(b, n)
                      /\ ~Old(n) => cache[<<n, 1>>] # "absent"
UnboundAt(n) ==
    ~store[n].bound =>
        /\ Forgetting(n) => cache[<<n, 1>>] = "assumed"
        /\ \A b \in bindings : Binder(b, n) => cache[<<n, 1>>] = "assumed" /\ ~Forgetting(n)
        /\ \A b, c \in bindings : Binder(b, n) /\ Binder(c, n) => b = c
BindAt(n) == EvictAt(n) /\ BoundAt(n) /\ UnboundAt(n)

CopiesOK == CountOK /\ QueuedOK /\ HeardOK /\ HandOK /\ BoundsOK
FreshOK == \A n \in Names : Fresh(n) => NewsAt(n) /\ KeptAt(n) /\ BindAt(n)
LInv == IInv /\ CopiesOK /\ FreshOK

-----------------------------------------------------------------------------
(* The pods of a slot. *)

LEMMA PodsInFacts ==
    ASSUME NEW s
    PROVE  /\ \A p \in Places : s[p] # NoInfo => s[p].pod \in PodsIn(s)
           /\ \A pod \in PodsIn(s) : \E p \in Places : s[p] # NoInfo /\ s[p].pod = pod
BY DEF PodsIn

LEMMA DropFacts ==
    ASSUME NEW s \in Slots, NEW p \in Places
    PROVE  LET t == [s EXCEPT ![p] = NoInfo]
           IN  t \in Slots /\ PodsIn(t) \subseteq PodsIn(s)
<1> DEFINE t == [s EXCEPT ![p] = NoInfo]
<1>1. t \in Slots /\ \A q \in Places : t[q] = NoInfo \/ t[q] = s[q]
  BY DEF Slots
<1> HIDE DEF t
<1>2. PodsIn(t) \subseteq PodsIn(s)
  BY <1>1, PodsInFacts
<1> QED BY <1>1, <1>2 DEF t

LEMMA PutFacts ==
    ASSUME NEW s \in Slots, NEW p \in Places, NEW i \in Infos
    PROVE  LET t == [s EXCEPT ![p] = i]
           IN  t \in Slots /\ PodsIn(t) \subseteq PodsIn(s) \cup {i.pod} /\ PodsIn(t) # {}
<1> DEFINE t == [s EXCEPT ![p] = i]
<1>1. t \in Slots /\ t[p] = i /\ \A q \in Places : t[q] = i \/ t[q] = s[q]
  BY DEF Slots
<1>2. i # NoInfo
  BY InfoFacts
<1> HIDE DEF t
<1>3. PodsIn(t) \subseteq PodsIn(s) \cup {i.pod} /\ i.pod \in PodsIn(t)
  BY <1>1, <1>2, PodsInFacts
<1> QED BY <1>1, <1>3 DEF t

LEMMA SomewhereFacts ==
    ASSUME NEW s \in Slots, s # Nowhere
    PROVE  PodsIn(s) # {}
<1>1. \E p \in Places : s[p] # NoInfo
  <2> SUFFICES ASSUME \A p \in Places : s[p] = NoInfo PROVE FALSE
    OBVIOUS
  <2>1. s = [p \in Places |-> s[p]]
    BY DEF Slots
  <2> QED BY <2>1 DEF Nowhere
<1> QED BY <1>1, PodsInFacts

(* What a move makes of the slot: no pod but info's comes in, and the slot   *)
(* is not left empty.                                                        *)
Moved(t, s, pod) == t \in Slots /\ PodsIn(t) \subseteq PodsIn(s) \cup {pod} /\ PodsIn(t) # {}

LEMMA BackoffDeletePods ==
    ASSUME NEW s \in Slots
    PROVE  BackoffDelete(s) \in Slots /\ PodsIn(BackoffDelete(s)) \subseteq PodsIn(s)
<1>1. [s EXCEPT !["backoff"] = NoInfo] \in Slots /\ PodsIn([s EXCEPT !["backoff"] = NoInfo]) \subseteq PodsIn(s)
  BY DropFacts, PlaceFacts, Zenon
<1>2. [s EXCEPT !["error"] = NoInfo] \in Slots /\ PodsIn([s EXCEPT !["error"] = NoInfo]) \subseteq PodsIn(s)
  BY DropFacts, PlaceFacts, Zenon
<1> QED BY <1>1, <1>2 DEF BackoffDelete

LEMMA BackoffAddPods ==
    ASSUME NEW s \in Slots, NEW info \in Infos
    PROVE  Moved(BackoffAdd(s, info), s, info.pod)
<1>1. ASSUME NEW p \in Places, NEW q \in Places, p # q
      PROVE  Moved([s EXCEPT ![p] = info, ![q] = NoInfo], s, info.pod)
  <2> DEFINE r == [s EXCEPT ![q] = NoInfo]
             t == [s EXCEPT ![p] = info, ![q] = NoInfo]
  <2>1. t = [r EXCEPT ![p] = info]
    BY <1>1 DEF Slots
  <2>2. r \in Slots /\ PodsIn(r) \subseteq PodsIn(s)
    BY DropFacts, Zenon
  <2> HIDE DEF r, t
  <2>3. LET u == [r EXCEPT ![p] = info]
        IN  u \in Slots /\ PodsIn(u) \subseteq PodsIn(r) \cup {info.pod} /\ PodsIn(u) # {}
    BY <2>2, PutFacts, Zenon
  <2>4. t \in Slots /\ PodsIn(t) \subseteq PodsIn(r) \cup {info.pod} /\ PodsIn(t) # {}
    BY <2>1, <2>3
  <2>5. Moved(t, s, info.pod)
    BY <2>2, <2>4 DEF Moved
  <2> QED BY <2>5 DEF t
<1>2. Moved([s EXCEPT !["error"] = info, !["backoff"] = NoInfo], s, info.pod)
  BY <1>1, PlaceFacts
<1>3. Moved([s EXCEPT !["backoff"] = info, !["error"] = NoInfo], s, info.pod)
  BY <1>1, PlaceFacts
<1> QED BY <1>2, <1>3 DEF BackoffAdd

LEMMA MoveToActiveQPods ==
    ASSUME NEW s \in Slots, NEW info \in Infos, NEW fromBackoff \in BOOLEAN
    PROVE  Moved(MoveToActiveQ(s, info, fromBackoff), s, info.pod)
<1> DEFINE i == IF fromBackoff THEN info ELSE RunPreEnqueuePlugins(info)
<1>1. i \in Infos /\ i.pod = info.pod
  BY PreEnqueueFacts
<1>2. Cleared(i) \in Infos /\ Cleared(i).pod = info.pod
  BY <1>1, ClearedFacts
<1>3. MoveToActiveQ(s, info, fromBackoff) =
        IF Gated(i) THEN (IF s # Nowhere THEN s ELSE [s EXCEPT !.unsched = i])
        ELSE [BackoffDelete(s) EXCEPT !.unsched = NoInfo, !.active = Cleared(i)]
  BY DEF MoveToActiveQ
<1> HIDE DEF i
<1>4. CASE Gated(i) /\ s = Nowhere
  <2>1. LET t == [s EXCEPT !["unsched"] = i]
        IN  t \in Slots /\ PodsIn(t) \subseteq PodsIn(s) \cup {i.pod} /\ PodsIn(t) # {}
    BY <1>1, PutFacts, PlaceFacts, Zenon
  <2>2. MoveToActiveQ(s, info, fromBackoff) = [s EXCEPT !.unsched = i]
    BY <1>3, <1>4
  <2> QED BY <2>1, <2>2, <1>1 DEF Moved
<1>5. CASE Gated(i) /\ s # Nowhere
  BY <1>3, <1>5, SomewhereFacts DEF Moved
<1>6. CASE ~Gated(i)
  <2> DEFINE r == BackoffDelete(s)
             q == [r EXCEPT !["unsched"] = NoInfo]
             c == Cleared(i)
             t == [r EXCEPT !["unsched"] = NoInfo, !["active"] = c]
  <2>1. r \in Slots /\ PodsIn(r) \subseteq PodsIn(s)
    BY BackoffDeletePods
  <2>2. MoveToActiveQ(s, info, fromBackoff) = t
    BY <1>3, <1>6
  <2> HIDE DEF r, c
  <2>3. t = [q EXCEPT !["active"] = c]
    BY <2>1 DEF Slots
  <2>4. q \in Slots /\ PodsIn(q) \subseteq PodsIn(r)
    BY <2>1, DropFacts, PlaceFacts, Zenon
  <2> HIDE DEF q, t
  <2>5. LET u == [q EXCEPT !["active"] = c]
        IN  u \in Slots /\ PodsIn(u) \subseteq PodsIn(q) \cup {c.pod} /\ PodsIn(u) # {}
    BY <1>2, <2>4, PutFacts, PlaceFacts, Zenon DEF c
  <2>6. c.pod = info.pod
    BY <1>2 DEF c
  <2>7. Moved(t, s, info.pod)
    BY <2>1, <2>3, <2>4, <2>5, <2>6 DEF Moved
  <2> QED BY <2>2, <2>7
<1> QED BY <1>4, <1>5, <1>6

LEMMA MoveToBackoffQPods ==
    ASSUME NEW s \in Slots, NEW info \in Infos
    PROVE  Moved(MoveToBackoffQ(s, info), s, info.pod)
<1> DEFINE i == RunPreEnqueuePlugins(info)
           r == [s EXCEPT !["unsched"] = NoInfo]
           u == [s EXCEPT !["unsched"] = i]
<1>1. i \in Infos /\ i.pod = info.pod
  BY PreEnqueueFacts
<1>2. MoveToBackoffQ(s, info) =
        IF Gated(i) THEN (IF s["unsched"] # NoInfo THEN s ELSE u) ELSE BackoffAdd(r, i)
  BY DEF MoveToBackoffQ
<1> HIDE DEF i
<1>3. u \in Slots /\ PodsIn(u) \subseteq PodsIn(s) \cup {i.pod} /\ PodsIn(u) # {}
  BY <1>1, PutFacts, PlaceFacts, Zenon
<1>4. r \in Slots /\ PodsIn(r) \subseteq PodsIn(s)
  BY DropFacts, PlaceFacts, Zenon
<1>5. s["unsched"] # NoInfo => PodsIn(s) # {}
  BY PodsInFacts, PlaceFacts
<1> HIDE DEF r, u
<1>6. Moved(BackoffAdd(r, i), r, i.pod)
  BY <1>1, <1>4, BackoffAddPods
<1> QED BY <1>1, <1>2, <1>3, <1>4, <1>5, <1>6 DEF Moved

LEMMA RequeuePods ==
    ASSUME NEW s \in Slots, NEW info \in Infos, NEW worth \in BOOLEAN, NEW backing \in BOOLEAN
    PROVE  Moved(Requeue(s, info, worth, backing), s, info.pod)
<1>1. LET t == [s EXCEPT !["unsched"] = info]
      IN  t \in Slots /\ PodsIn(t) \subseteq PodsIn(s) \cup {info.pod} /\ PodsIn(t) # {}
  BY PutFacts, PlaceFacts, Zenon
<1>2. Moved([s EXCEPT !.unsched = info], s, info.pod)
  BY <1>1 DEF Moved
<1>3. Moved(MoveToBackoffQ(s, info), s, info.pod)
  BY MoveToBackoffQPods
<1>4. Moved(MoveToActiveQ(s, info, FALSE), s, info.pod)
  BY MoveToActiveQPods
<1> QED BY <1>2, <1>3, <1>4 DEF Requeue

-----------------------------------------------------------------------------
(* What the methods of the queue do to the pods in it. *)

(* Only pods of P come in, and no name is left without one it had. *)
Spreads(P) ==
    \A m \in Names : /\ PodsIn(queue'[m]) \subseteq PodsIn(queue[m]) \cup P
                     /\ PodsIn(queue[m]) # {} => PodsIn(queue'[m]) # {}

LEMMA SlotMoved ==
    ASSUME QueueOK, NEW n \in Names, NEW t, NEW pod, Moved(t, queue[n], pod),
           queue' = [queue EXCEPT ![n] = t]
    PROVE  Spreads({pod}) /\ PodsIn(queue'[n]) # {}
<1>1. queue'[n] = t /\ \A m \in Names \ {n} : queue'[m] = queue[m]
  BY DEF QueueOK
<1>2. ASSUME NEW m \in Names
      PROVE  /\ PodsIn(queue'[m]) \subseteq PodsIn(queue[m]) \cup {pod}
             /\ PodsIn(queue[m]) # {} => PodsIn(queue'[m]) # {}
  <2>1. CASE m = n
    BY <2>1, <1>1 DEF Moved
  <2>2. CASE m # n
    BY <2>2, <1>1
  <2> QED BY <2>1, <2>2
<1> QED BY <1>1, <1>2 DEF Spreads, Moved

LEMMA SameSpreads == ASSUME UNCHANGED queue, NEW P PROVE Spreads(P)
BY DEF Spreads

LEMMA AddPods ==
    ASSUME QueueOK, NEW pod \in Pods, Add(pod)
    PROVE  Spreads({pod}) /\ PodsIn(queue'[pod.name]) # {}
<1> DEFINE n == pod.name
           t == MoveToActiveQ(queue[n], NewInfo(pod), FALSE)
<1>1. n \in Names /\ queue[n] \in Slots /\ NewInfo(pod) \in Infos /\ NewInfo(pod).pod = pod
  BY PodFacts, NewInfoFacts DEF QueueOK
<1>2. queue' = [queue EXCEPT ![n] = t]
  BY DEF Add
<1> HIDE DEF n
<1>3. Moved(t, queue[n], pod)
  BY <1>1, MoveToActiveQPods
<1> HIDE DEF t
<1>4. Spreads({pod}) /\ PodsIn(queue'[n]) # {}
  BY <1>1, <1>2, <1>3, SlotMoved
<1> QED BY <1>4 DEF n

LEMMA UpdatePods ==
    ASSUME QueueOK, NEW old \in Pods, NEW new \in Pods, Update(old, new)
    PROVE  Spreads({new})
<1> DEFINE n == new.name
           s == queue[n]
           e == ChangeOf(old, new)
           info == [s.unsched EXCEPT !.pod = new]
           rest == [s EXCEPT !.unsched = NoInfo]
           place == IF s.active # NoInfo THEN "active"
                    ELSE IF s.backoff # NoInfo THEN "backoff" ELSE "error"
<1>1. n \in Names /\ s \in Slots
  BY PodFacts DEF QueueOK
<1>2. CASE UNCHANGED queue
  BY <1>2, SameSpreads
<1>3. CASE (s.active # NoInfo \/ InBackoff(s)) /\ queue' = [queue EXCEPT ![n][place].pod = new]
  <2> DEFINE i == [s[place] EXCEPT !.pod = new]
             t == [s EXCEPT ![place] = i]
  <2>1. place \in Places /\ s[place] # NoInfo
    BY <1>3, PlaceFacts DEF InBackoff
  <2>2. s[place] \in Infos
    BY <1>1, <2>1 DEF Slots
  <2>3. i \in Infos /\ i.pod = new
    BY <2>2 DEF Infos
  <2>4. queue' = [queue EXCEPT ![n] = t]
    BY <1>3, <1>1, <2>1 DEF QueueOK, Slots
  <2> HIDE DEF i, place, s
  <2>5. t \in Slots /\ PodsIn(t) \subseteq PodsIn(s) \cup {i.pod} /\ PodsIn(t) # {}
    BY <1>1, <2>1, <2>3, PutFacts, Zenon
  <2>6. Moved(t, s, new)
    BY <2>3, <2>5 DEF Moved
  <2> HIDE DEF t
  <2> QED BY <1>1, <2>4, <2>6, SlotMoved DEF s
<1>4. CASE /\ s.unsched # NoInfo
           /\ \E backing \in SUBSET MayBackOff({n}) :
                 queue' = [queue EXCEPT
                     ![n] = Requeue(rest, info, WorthRequeuing(info, e), n \in backing)]
  <2>1. PICK backing \in SUBSET MayBackOff({n}) :
          queue' = [queue EXCEPT
                     ![n] = Requeue(rest, info, WorthRequeuing(info, e), n \in backing)]
    BY <1>4
  <2>2. s.unsched \in Infos
    BY <1>1, <1>4, PlaceFacts DEF Slots
  <2>3. info \in Infos /\ info.pod = new
    BY <2>2 DEF Infos
  <2>4. rest \in Slots /\ PodsIn(rest) \subseteq PodsIn(s)
    BY <1>1, DropFacts, PlaceFacts, Zenon
  <2> DEFINE worth == WorthRequeuing(info, e)
             b == n \in backing
             t == Requeue(rest, info, worth, b)
  <2>5. worth \in BOOLEAN /\ b \in BOOLEAN
    BY DEF WorthRequeuing
  <2>6. queue' = [queue EXCEPT ![n] = t]
    BY <2>1
  <2> HIDE DEF n, s, e, info, rest, worth, b
  <2>7. Moved(t, rest, info.pod)
    BY <2>3, <2>4, <2>5, RequeuePods
  <2> HIDE DEF t
  <2>8. Moved(t, s, new)
    BY <2>3, <2>4, <2>7 DEF Moved
  <2> QED BY <1>1, <2>6, <2>8, SlotMoved DEF s
<1>5. CASE queue' = [queue EXCEPT ![n] = MoveToActiveQ(@, NewInfo(new), FALSE)]
  <2> DEFINE t == MoveToActiveQ(s, NewInfo(new), FALSE)
  <2>1. NewInfo(new) \in Infos /\ NewInfo(new).pod = new
    BY NewInfoFacts
  <2>2. queue' = [queue EXCEPT ![n] = t]
    BY <1>5
  <2> HIDE DEF s
  <2>3. Moved(t, s, new)
    BY <1>1, <2>1, MoveToActiveQPods
  <2> HIDE DEF t
  <2> QED BY <1>1, <2>2, <2>3, SlotMoved DEF s
<1> QED BY <1>2, <1>3, <1>4, <1>5 DEF Update

(* Delete only concerns its own name. *)
LEMMA DeletePods ==
    ASSUME QueueOK, NEW pod \in Pods, Delete(pod)
    PROVE  /\ \A m \in Names : PodsIn(queue'[m]) \subseteq PodsIn(queue[m])
           /\ \A m \in Names \ {pod.name} : queue'[m] = queue[m]
<1> DEFINE n == pod.name
           s == queue[n]
           a == [s EXCEPT !["active"] = NoInfo]
           u == [s EXCEPT !["unsched"] = NoInfo]
           t == IF s.active # NoInfo THEN a ELSE IF InBackoff(s) THEN BackoffDelete(s) ELSE u
<1>1. n \in Names /\ s \in Slots
  BY PodFacts DEF QueueOK
<1>2. queue' = [queue EXCEPT ![n] = t]
  BY DEF Delete
<1> HIDE DEF s
<1>3. PodsIn(a) \subseteq PodsIn(s) /\ PodsIn(u) \subseteq PodsIn(s)
  BY <1>1, DropFacts, PlaceFacts, Zenon
<1>4. PodsIn(t) \subseteq PodsIn(s)
  BY <1>1, <1>3, BackoffDeletePods
<1> HIDE DEF t
<1>5. queue'[n] = t /\ \A m \in Names \ {n} : queue'[m] = queue[m]
  BY <1>1, <1>2 DEF QueueOK
<1> QED BY <1>4, <1>5 DEF s

LEMMA UnschedFacts ==
    ASSUME QueueOK, NEW n \in Names, NEW p \in Places, queue[n][p] # NoInfo
    PROVE  /\ queue[n] \in Slots /\ queue[n][p] \in Infos
           /\ queue[n][p].pod \in PodsIn(queue[n])
           /\ [queue[n] EXCEPT ![p] = NoInfo] \in Slots
           /\ PodsIn([queue[n] EXCEPT ![p] = NoInfo]) \subseteq PodsIn(queue[n])
<1>1. queue[n] \in Slots
  BY DEF QueueOK
<1>2. queue[n][p] \in Infos /\ queue[n][p].pod \in PodsIn(queue[n])
  BY <1>1, PodsInFacts DEF Slots
<1> DEFINE s == queue[n]
<1> HIDE DEF s
<1>3. s \in Slots
  BY <1>1 DEF s
<1>4. [s EXCEPT ![p] = NoInfo] \in Slots /\ PodsIn([s EXCEPT ![p] = NoInfo]) \subseteq PodsIn(s)
  BY <1>3, DropFacts, Zenon
<1> QED BY <1>1, <1>2, <1>4 DEF s

LEMMA MovePodsPods ==
    ASSUME QueueOK, NEW S, NEW e, NEW skip, NEW freed, MovePods(S, e, skip, freed)
    PROVE  Spreads({})
<1> DEFINE moved == {n \in S \cap In("unsched") : Moves(queue[n].unsched, e)}
<1>1. PICK backing \in SUBSET MayBackOff(moved) :
        queue' = [n \in Names |->
                    IF n \notin moved THEN queue[n]
                    ELSE Requeue([queue[n] EXCEPT !.unsched = NoInfo],
                                 queue[n].unsched, TRUE, n \in backing)]
  BY DEF MovePods
<1>2. \A n \in moved : n \in Names /\ queue[n]["unsched"] # NoInfo
  BY DEF In
<1> HIDE DEF moved
<1>3. ASSUME NEW n \in moved, NEW b \in BOOLEAN
      PROVE  LET t == Requeue([queue[n] EXCEPT !.unsched = NoInfo], queue[n].unsched, TRUE, b)
             IN  PodsIn(t) \subseteq PodsIn(queue[n]) /\ PodsIn(t) # {}
  <2> DEFINE s == queue[n]
             r == [s EXCEPT !["unsched"] = NoInfo]
             i == s["unsched"]
  <2>1. /\ s \in Slots /\ i \in Infos /\ i.pod \in PodsIn(s) /\ r \in Slots
        /\ PodsIn(r) \subseteq PodsIn(s)
    BY <1>2, UnschedFacts, PlaceFacts, Zenon
  <2> HIDE DEF s, r, i
  <2>2. Moved(Requeue(r, i, TRUE, b), r, i.pod)
    BY <2>1, RequeuePods
  <2>3. PodsIn(Requeue(r, i, TRUE, b)) \subseteq PodsIn(s) /\ PodsIn(Requeue(r, i, TRUE, b)) # {}
    BY <2>1, <2>2 DEF Moved
  <2> QED BY <2>3 DEF s, r, i
<1>4. ASSUME NEW m \in Names
      PROVE  /\ PodsIn(queue'[m]) \subseteq PodsIn(queue[m])
             /\ PodsIn(queue[m]) # {} => PodsIn(queue'[m]) # {}
  <2>1. CASE m \in moved
    <3> DEFINE b == m \in backing
    <3>1. b \in BOOLEAN
      OBVIOUS
    <3>2. queue'[m] = Requeue([queue[m] EXCEPT !.unsched = NoInfo], queue[m].unsched, TRUE, b)
      BY <1>1, <2>1
    <3> HIDE DEF b
    <3> QED BY <3>1, <3>2, <2>1, <1>3
  <2>2. CASE m \notin moved
    BY <1>1, <2>2
  <2> QED BY <2>1, <2>2
<1> QED BY <1>4 DEF Spreads

LEMMA MoveAllPods ==
    ASSUME QueueOK, NEW e, NEW skip, NEW freed, MoveAll(e, skip, freed)
    PROVE  Spreads({})
BY MovePodsPods DEF MoveAll

LEMMA FlushLeftoverPods ==
    ASSUME QueueOK, NEW S, FlushUnschedulablePodsLeftover(S)
    PROVE  Spreads({})
BY MovePodsPods DEF FlushUnschedulablePodsLeftover

LEMMA FlushBackoffPods ==
    ASSUME QueueOK, NEW S, FlushBackoffQCompleted(S)
    PROVE  Spreads({})
<1> DEFINE info(n) == IF queue[n].backoff # NoInfo THEN queue[n].backoff ELSE queue[n].error
<1>1. queue' = [n \in Names |->
                  IF n \notin S THEN queue[n]
                  ELSE MoveToActiveQ(BackoffDelete(queue[n]), info(n), TRUE)]
  BY DEF FlushBackoffQCompleted
<1>2. \A n \in S : n \in Names /\ (queue[n]["backoff"] # NoInfo \/ queue[n]["error"] # NoInfo)
  BY DEF FlushBackoffQCompleted, In
<1>3. ASSUME NEW n \in S
      PROVE  LET t == MoveToActiveQ(BackoffDelete(queue[n]), info(n), TRUE)
             IN  PodsIn(t) \subseteq PodsIn(queue[n]) /\ PodsIn(t) # {}
  <2> DEFINE s == queue[n]
             r == BackoffDelete(s)
             i == info(n)
  <2>1. s \in Slots /\ i \in Infos /\ i.pod \in PodsIn(s)
    BY <1>2, UnschedFacts, PlaceFacts
  <2> HIDE DEF s, i, info
  <2>2. r \in Slots /\ PodsIn(r) \subseteq PodsIn(s)
    BY <2>1, BackoffDeletePods
  <2> HIDE DEF r
  <2>3. Moved(MoveToActiveQ(r, i, TRUE), r, i.pod)
    BY <2>1, <2>2, MoveToActiveQPods
  <2>4. PodsIn(MoveToActiveQ(r, i, TRUE)) \subseteq PodsIn(s) /\ PodsIn(MoveToActiveQ(r, i, TRUE)) # {}
    BY <2>1, <2>2, <2>3 DEF Moved
  <2> QED BY <2>4 DEF s, r, i
<1>4. ASSUME NEW m \in Names
      PROVE  /\ PodsIn(queue'[m]) \subseteq PodsIn(queue[m])
             /\ PodsIn(queue[m]) # {} => PodsIn(queue'[m]) # {}
  <2>1. CASE m \in S
    BY <1>1, <1>3, <2>1
  <2>2. CASE m \notin S
    BY <1>1, <2>2
  <2> QED BY <2>1, <2>2
<1> QED BY <1>4 DEF Spreads

(* A pod handed back is queued, if its name was not. *)
LEMMA AddUnschedulablePods ==
    ASSUME QueueOK, NEW info \in Infos, AddUnschedulableIfNotPresent(info)
    PROVE  Spreads({info.pod}) /\ PodsIn(queue'[info.pod.name]) # {}
<1> DEFINE n == info.pod.name
           u == Uid(info.pod)
           worth == \/ info.plugins = {} \/ u \notin inFlightPods
                    \/ \E i \in ClusterEventsForPod(u) :
                          WorthRequeuing(info, inFlightEvents[i][2])
           i2 == [info EXCEPT !.tried = TRUE]
           t == Requeue(queue[n], i2, worth, TRUE)
<1>1. n \in Names /\ queue[n] \in Slots /\ i2 \in Infos /\ i2.pod = info.pod
  BY InfoFacts DEF QueueOK, Infos
<1>2. queue' = IF queue[n] # Nowhere THEN queue ELSE [queue EXCEPT ![n] = t]
  BY DEF AddUnschedulableIfNotPresent
<1>3. worth \in BOOLEAN
  OBVIOUS
<1> HIDE DEF worth, i2, t, n
<1>4. CASE queue[n] # Nowhere
  <2>1. UNCHANGED queue
    BY <1>2, <1>4
  <2> QED BY <2>1, <1>1, <1>4, SameSpreads, SomewhereFacts DEF n
<1>5. CASE queue[n] = Nowhere
  <2>1. Moved(t, queue[n], i2.pod)
    BY <1>1, <1>3, RequeuePods DEF t
  <2>2. queue' = [queue EXCEPT ![n] = t]
    BY <1>2, <1>5
  <2>3. Spreads({i2.pod}) /\ PodsIn(queue'[n]) # {}
    BY <1>1, <2>1, <2>2, SlotMoved
  <2> QED BY <2>3, <1>1 DEF n
<1> QED BY <1>4, <1>5

LEMMA ActivatePods ==
    ASSUME QueueOK, NEW pod \in Pods, Activate(pod)
    PROVE  Spreads({})
<1> DEFINE n == pod.name
           s == queue[n]
           slot == IF s.unsched # NoInfo THEN MoveToActiveQ(s, s.unsched, FALSE)
                   ELSE IF s.backoff # NoInfo
                   THEN MoveToActiveQ([s EXCEPT !.backoff = NoInfo], s.backoff, TRUE)
                   ELSE IF s.error # NoInfo
                   THEN MoveToActiveQ([s EXCEPT !.error = NoInfo], s.error, TRUE)
                   ELSE s
<1>1. n \in Names /\ s \in Slots /\ queue' = [queue EXCEPT ![n] = slot]
  BY PodFacts DEF QueueOK, Activate
<1>2. ASSUME NEW r \in Slots, PodsIn(r) \subseteq PodsIn(s), NEW i \in Infos, i.pod \in PodsIn(s),
             NEW back \in BOOLEAN, slot = MoveToActiveQ(r, i, back)
      PROVE  Spreads({})
  <2> HIDE DEF slot, s, n
  <2>1. Moved(slot, r, i.pod)
    BY <1>2, MoveToActiveQPods
  <2>2. Moved(slot, s, i.pod)
    BY <1>2, <2>1 DEF Moved
  <2>3. Spreads({i.pod})
    BY <1>1, <2>2, SlotMoved DEF s
  <2>4. queue'[n] = slot /\ \A m \in Names \ {n} : queue'[m] = queue[m]
    BY <1>1 DEF QueueOK
  <2>5. PodsIn(queue'[n]) \subseteq PodsIn(queue[n])
    BY <1>2, <2>2, <2>4 DEF Moved, s
  <2> QED BY <2>3, <2>4, <2>5 DEF Spreads
<1>3. CASE s.unsched # NoInfo
  <2>1. slot = MoveToActiveQ(s, s.unsched, FALSE)
    BY <1>3
  <2>2. s.unsched \in Infos /\ s.unsched.pod \in PodsIn(s)
    BY <1>1, <1>3, UnschedFacts, PlaceFacts
  <2> HIDE DEF slot, s, n
  <2> QED BY <2>1, <2>2, <1>1, <1>2
<1>4. CASE s.unsched = NoInfo /\ s.backoff # NoInfo
  <2> DEFINE r == [s EXCEPT !["backoff"] = NoInfo]
             i == s["backoff"]
  <2>1. slot = MoveToActiveQ(r, i, TRUE)
    BY <1>4
  <2>2. i \in Infos /\ i.pod \in PodsIn(s) /\ r \in Slots /\ PodsIn(r) \subseteq PodsIn(s)
    BY <1>1, <1>4, UnschedFacts, PlaceFacts, Zenon
  <2> HIDE DEF slot, s, n, r, i
  <2> QED BY <2>1, <2>2, <1>1, <1>2
<1>5. CASE s.unsched = NoInfo /\ s.backoff = NoInfo /\ s.error # NoInfo
  <2> DEFINE r == [s EXCEPT !["error"] = NoInfo]
             i == s["error"]
  <2>1. slot = MoveToActiveQ(r, i, TRUE)
    BY <1>5
  <2>2. i \in Infos /\ i.pod \in PodsIn(s) /\ r \in Slots /\ PodsIn(r) \subseteq PodsIn(s)
    BY <1>1, <1>5, UnschedFacts, PlaceFacts, Zenon
  <2> HIDE DEF slot, s, n, r, i
  <2> QED BY <2>1, <2>2, <1>1, <1>2
<1>6. CASE s.unsched = NoInfo /\ s.backoff = NoInfo /\ s.error = NoInfo
  <2>1. queue' = queue
    BY <1>1, <1>6 DEF QueueOK
  <2> QED BY <2>1, SameSpreads
<1> QED BY <1>3, <1>4, <1>5, <1>6

(* Pop takes the name n out, and of the other names only pods that are in    *)
(* flight already.                                                           *)
LEMMA PopPods ==
    ASSUME QueueOK, NEW n \in Names, NEW place \in {"active", "backoff"}, Pop(n, place)
    PROVE  /\ \A m \in Names : PodsIn(queue'[m]) \subseteq PodsIn(queue[m])
           /\ \A m \in Names \ {n} :
                 PodsIn(queue[m]) # {} =>
                     \/ PodsIn(queue'[m]) # {}
                     \/ \E pod \in PodsIn(queue[m]) : Uid(pod) \in inFlightPods
           /\ Popped(n, place).pod \in PodsIn(queue[n])
           /\ Popped(n, place) \in Infos
<1>1. PICK dropped \in SUBSET Duplicates(place) :
        queue' = [m \in Names |->
                    [p \in Places |->
                        IF \/ p = place /\ m \in dropped \cup {n}
                           \/ place = "backoff" /\ p = "active"
                        THEN NoInfo ELSE queue[m][p]]]
  BY DEF Pop
<1>2. place \in Places /\ queue[n][place] # NoInfo
  BY PlaceFacts DEF Pop, In
<1>3. queue[n][place] \in Infos /\ queue[n][place].pod \in PodsIn(queue[n])
  BY <1>2, UnschedFacts
<1>4. Popped(n, place) \in Infos /\ Popped(n, place).pod \in PodsIn(queue[n])
  BY <1>3, ClearedFacts DEF Popped
<1>5. \A m \in Names, p \in Places :
        /\ queue'[m][p] = NoInfo \/ queue'[m][p] = queue[m][p]
        /\ queue'[m][p] # queue[m][p] => \/ p = place /\ m \in dropped \cup {n}
                                         \/ place = "backoff" /\ p = "active"
  BY <1>1
<1>6. \A m \in Names : PodsIn(queue'[m]) \subseteq PodsIn(queue[m])
  BY <1>5, PodsInFacts
<1>7. ASSUME NEW m \in Names \ {n}, PodsIn(queue[m]) # {}, PodsIn(queue'[m]) = {}
      PROVE  \E pod \in PodsIn(queue[m]) : Uid(pod) \in inFlightPods
  <2>1. PICK p \in Places : queue[m][p] # NoInfo
    BY <1>7, PodsInFacts
  <2>2. queue'[m][p] = NoInfo
    BY <1>7, PodsInFacts
  <2>3. queue[m][p].pod \in PodsIn(queue[m])
    BY <2>1, PodsInFacts
  <2>4. CASE p = place /\ m \in dropped
    BY <2>3, <2>4 DEF Duplicates
  <2>5. CASE place = "backoff" /\ p = "active"
    <3>1. m \in In("active")
      BY <2>1, <2>5 DEF In
    <3>2. m \in Duplicates("active")
      BY <2>5, <3>1 DEF Pop
    <3> QED BY <2>3, <2>5, <3>2 DEF Duplicates
  <2> QED BY <1>5, <2>1, <2>2, <2>4, <2>5
<1> QED BY <1>4, <1>6, <1>7

-----------------------------------------------------------------------------
(* What a step leaves alone. *)

LEMMA LifeFacts ==
    ASSUME LInv
    PROVE  /\ QueueOK /\ StoreOK /\ InformerOK /\ CacheOK /\ WorkerOK /\ TasksOK /\ InFlightHeld
           /\ CountOK /\ QueuedOK /\ HeardOK /\ HandOK /\ BoundsOK
           /\ \A n \in Names : Fresh(n) => NewsAt(n) /\ KeptAt(n) /\ BindAt(n)
BY DEF LInv, IInv, QOK, EnvOK, CopiesOK, FreshOK

LEMMA CountSame == ASSUME CountOK, UNCHANGED <<store, incs>> PROVE CountOK'
BY DEF CountOK

LEMMA QueuedStep ==
    ASSUME QueuedOK, UNCHANGED incs, NEW P, Spreads(P), \A pod \in P : Copy(pod)
    PROVE  QueuedOK'
BY DEF QueuedOK, Spreads, Copy

LEMMA HandSame == ASSUME HandOK, UNCHANGED <<incs, worker>> PROVE HandOK'
BY DEF HandOK, Copy

LEMMA BoundsSame == ASSUME BoundsOK, UNCHANGED <<incs, bindings>> PROVE BoundsOK'
BY DEF BoundsOK, Copy

FewerCalls == \A k \in 1..Len(calls') : \E j \in 1..Len(calls) : calls'[k] = calls[j]

LEMMA HeardStep ==
    ASSUME HeardOK, UNCHANGED <<incs, seen>>, FewerCalls, \A x \in News' : x \in News \/ Copy(x.pod)
    PROVE  HeardOK'
<1>1. \A x \in News' : Copy(x.pod)
  BY DEF HeardOK
<1>2. \A k \in 1..Len(calls') : Copy(calls'[k].pod)
  BY DEF HeardOK, FewerCalls
<1> QED BY <1>1, <1>2 DEF HeardOK, Copy

LEMMA NewsSame == ASSUME UNCHANGED <<stream, listing>> PROVE News' = News
BY DEF News

LEMMA SameCalls == ASSUME UNCHANGED calls PROVE FewerCalls
BY DEF FewerCalls

(* A stored pod may be written, but what was bound or finished stays so. *)
Rises(n) == /\ store[n].bound => store'[n].bound
            /\ store[n].fin => store'[n].fin
            /\ Pending(store'[n]) => Pending(store[n])

LEMMA NewsStep ==
    ASSUME NEW n \in Names, NewsAt(n), Rises(n), UNCHANGED seen, FewerCalls,
           \A x \in News' : x \in News \/ (x.pod.name = n => ~x.del /\ x.pod = store'[n])
    PROVE  NewsAt(n)'
<1>1. \A x \in News' : x.pod.name = n =>
          ~x.del /\ (x.pod.bound => store'[n].bound) /\ (x.pod.fin => store'[n].fin)
  BY DEF NewsAt, Rises
<1>2. seen'[n] # NoPod /\ seen'[n].bound => store'[n].bound
  BY DEF NewsAt, Rises
<1>3. \A k \in 1..Len(calls') :
          calls'[k].op = "delete" /\ calls'[k].pod.name = n => ~Pending(store'[n])
  BY DEF NewsAt, Rises, FewerCalls
<1> QED BY <1>1, <1>2, <1>3 DEF NewsAt, Pending

LEMMA KeptStep ==
    ASSUME NEW n \in Names, KeptAt(n), Rises(n), UNCHANGED seen,
           \A b \in bindings' : b.pc = "done" /\ b.info.pod.name = n => ~Pending(store'[n]),
           Pending(store'[n]) /\ Held(n) => Held(n)'
    PROVE  KeptAt(n)'
BY DEF KeptAt, Rises, Pending

SameVictims == \A t \in preemptions' : \E s \in preemptions : s.victim = t.victim

LEMMA BindSame ==
    ASSUME NEW n \in Names, BindAt(n), store'[n] = store[n], SameVictims,
           UNCHANGED <<cache, worker, bindings>>
    PROVE  BindAt(n)'
BY DEF BindAt, EvictAt, BoundAt, UnboundAt, Old, Reading, Forgetting, Binder, SameVictims

(* The worker goes on without assuming or forgetting a pod. *)
LEMMA BindWorkerStep ==
    ASSUME NEW n \in Names, BindAt(n), store'[n] = store[n], SameVictims,
           UNCHANGED <<cache, bindings>>, Reading(n)' => Reading(n), ~Forgetting(n)'
    PROVE  BindAt(n)'
BY DEF BindAt, EvictAt, BoundAt, UnboundAt, Old, Binder, SameVictims

(* A task goes on and keeps to the pod it binds. *)
LEMMA BindTaskStep ==
    ASSUME NEW n \in Names, BindAt(n), store'[n] = store[n], cache'[<<n, 1>>] = cache[<<n, 1>>],
           UNCHANGED <<worker, preemptions>>, NEW b \in bindings, NEW c, bindings' \subseteq (bindings \ {b}) \cup {c},
           Binder(c, n) => Binder(b, n)
    PROVE  BindAt(n)'
<1>1. EvictAt(n)'
  BY DEF BindAt, EvictAt, Old, Reading
<1>2. BoundAt(n)'
  BY DEF BindAt, BoundAt, Old, Forgetting, Binder
<1>3. UnboundAt(n)'
  <2> SUFFICES ASSUME ~store[n].bound PROVE UnboundAt(n)'
    BY DEF UnboundAt
  <2>1. /\ Forgetting(n) => cache[<<n, 1>>] = "assumed"
        /\ \A d \in bindings : Binder(d, n) => cache[<<n, 1>>] = "assumed" /\ ~Forgetting(n)
        /\ \A d, e \in bindings : Binder(d, n) /\ Binder(e, n) => d = e
    BY DEF BindAt, UnboundAt
  <2>2. \A d \in bindings' : Binder(d, n) => d = c \/ d \in bindings \ {b}
    OBVIOUS
  <2>3. \A d \in bindings' : Binder(d, n) => cache[<<n, 1>>] = "assumed" /\ ~Forgetting(n)
    BY <2>1, <2>2
  <2>4. \A d, e \in bindings' : Binder(d, n) /\ Binder(e, n) => d = e
    BY <2>1, <2>2
  <2> QED BY <2>1, <2>3, <2>4 DEF UnboundAt, Forgetting, Binder
<1> QED BY <1>1, <1>2, <1>3 DEF BindAt

-----------------------------------------------------------------------------
(* Timers, nodes and preemption tasks. *)

Lives == CopiesOK' /\ FreshOK'

(* The parts that a step which keeps counts and copies must show. *)
LEMMA LivesIf ==
    ASSUME LInv, CountOK', QueuedOK', HeardOK', HandOK', BoundsOK',
           \A n \in Names : Fresh(n)' => Fresh(n),
           \A n \in Names : Fresh(n) /\ Fresh(n)' => NewsAt(n)' /\ KeptAt(n)' /\ BindAt(n)'
    PROVE  Lives
BY DEF Lives, CopiesOK, FreshOK

LEMMA FreshSame == ASSUME UNCHANGED <<store, incs>> PROVE \A n \in Names : Fresh(n)' => Fresh(n)
BY DEF Fresh

LEMMA RisesSame == ASSUME NEW n, store'[n] = store[n] PROVE Rises(n)
BY DEF Rises

(* The pods in the queue move on, or nothing happens to a pod. *)
LEMMA QuietLife ==
    ASSUME LInv, UNCHANGED <<storeVars, informerVars, cache, worker, bindings>>, Spreads({}),
           SameVictims
    PROVE  Lives
<1>1. /\ UNCHANGED <<store, incs>> /\ UNCHANGED <<incs, seen>> /\ UNCHANGED <<stream, listing>>
      /\ UNCHANGED calls /\ UNCHANGED <<incs, worker>> /\ UNCHANGED <<incs, bindings>>
  BY DEF storeVars, informerVars
<1>2. News' = News /\ FewerCalls
  BY <1>1, NewsSame, SameCalls
<1>3. CountOK' /\ QueuedOK' /\ HandOK' /\ BoundsOK'
  BY <1>1, LifeFacts, CountSame, QueuedStep, HandSame, BoundsSame
<1>4. HeardOK'
  BY <1>1, <1>2, LifeFacts, HeardStep
<1>5. ASSUME NEW n \in Names, Fresh(n)
      PROVE  NewsAt(n)' /\ KeptAt(n)' /\ BindAt(n)'
  <2>1. NewsAt(n) /\ KeptAt(n) /\ BindAt(n) /\ Rises(n)
    BY <1>1, <1>5, LifeFacts, RisesSame
  <2>2. NewsAt(n)'
    BY <1>1, <1>2, <2>1, NewsStep
  <2>3. Held(n) => Held(n)'
    BY <1>1 DEF Held, Spreads, WorkerHas, TaskHas, ToAdd
  <2>4. KeptAt(n)'
    BY <1>1, <2>1, <2>3 DEF KeptAt, Pending
  <2>5. BindAt(n)'
    BY <1>1, <2>1, BindSame
  <2> QED BY <2>2, <2>4, <2>5
<1> QED BY <1>1, <1>3, <1>4, <1>5, LivesIf, FreshSame

LEMMA TimersLife == ASSUME LInv, NodeEvent \/ FlushBackoff \/ FlushLeftover PROVE Lives
<1>1. /\ UNCHANGED <<storeVars, informerVars, cache, worker, bindings>>
      /\ UNCHANGED preemptions
  BY DEF NodeEvent, FlushBackoff, FlushLeftover, outside
<1>2. SameVictims /\ QueueOK
  BY <1>1, LifeFacts DEF SameVictims
<1>3. Spreads({})
  BY <1>2, MoveAllPods, FlushBackoffPods, FlushLeftoverPods DEF NodeEvent, FlushBackoff, FlushLeftover
<1> QED BY <1>1, <1>2, <1>3, QuietLife

LEMMA StutterLife == ASSUME LInv, UNCHANGED vars PROVE Lives
<1>1. Spreads({})
  BY SameSpreads DEF vars, queueVars
<1>2. SameVictims
  BY DEF SameVictims, vars
<1> QED BY <1>1, <1>2, QuietLife DEF vars

LEMMA PStepVictims ==
    ASSUME TasksOK, NEW t \in preemptions, NEW c, c.victim = t.victim,
           PStep(t, c) \/ preemptions' = preemptions \ {t}
    PROVE  SameVictims
BY DEF SameVictims, PStep

LEMMA PcVictims ==
    ASSUME TasksOK, NEW t \in preemptions, NEW pc
    PROVE  /\ [t EXCEPT !.pc = pc].victim = t.victim
           /\ [t EXCEPT !.pc = pc, !.failed = TRUE].victim = t.victim
BY DEF TasksOK, PreemptionTasks

LEMMA SetLastVictimLife ==
    ASSUME LInv, NEW t \in preemptions, SetLastVictim(t) PROVE Lives
<1>1. /\ UNCHANGED <<storeVars, informerVars, cache, worker, bindings>> /\ UNCHANGED queue
      /\ PStep(t, [t EXCEPT !.pc = "evict"])
  BY DEF SetLastVictim
<1>2. SameVictims
  BY <1>1, LifeFacts, PcVictims, PStepVictims
<1> QED BY <1>1, <1>2, SameSpreads, QuietLife

LEMMA FinishPreemptionLife ==
    ASSUME LInv, NEW t \in preemptions, FinishPreemption(t) PROVE Lives
<1> DEFINE pc == IF t.failed THEN "activate" ELSE "drop"
<1>1. /\ UNCHANGED <<storeVars, informerVars, cache, worker, bindings>> /\ UNCHANGED queue
      /\ PStep(t, [t EXCEPT !.pc = pc]) \/ preemptions' = preemptions \ {t}
  BY DEF FinishPreemption, away, queueVars, storeVars
<1> HIDE DEF pc
<1>2. SameVictims
  BY <1>1, LifeFacts, PcVictims, PStepVictims
<1> QED BY <1>1, <1>2, SameSpreads, QuietLife

LEMMA ActivatePreemptorLife ==
    ASSUME LInv, NEW t \in preemptions, ActivatePreemptor(t) PROVE Lives
<1>1. /\ UNCHANGED <<storeVars, informerVars, cache, worker, bindings>> /\ Activate(t.pod)
      /\ PStep(t, [t EXCEPT !.pc = "drop"])
  BY DEF ActivatePreemptor
<1>2. SameVictims
  BY <1>1, LifeFacts, PcVictims, PStepVictims
<1>3. Spreads({})
  BY <1>1, LifeFacts, PreemptionFacts, ActivatePods
<1> QED BY <1>1, <1>2, <1>3, QuietLife

-----------------------------------------------------------------------------
(* The informer loop. *)

(* Events of stored pods come under way, or events get lost. *)
LEMMA ListingLife ==
    ASSUME LInv, UNCHANGED <<queue, store, incs, seen, calls, cache, worker, bindings, preemptions>>,
           \A x \in News' : x \in News \/ /\ Copy(x.pod)
                                          /\ x.del => store[x.pod.name] = NoPod
                                          /\ ~x.del => x.pod = store[x.pod.name]
    PROVE  Lives
<1>1. /\ UNCHANGED <<store, incs>> /\ UNCHANGED <<incs, seen>> /\ UNCHANGED calls
      /\ UNCHANGED <<incs, worker>> /\ UNCHANGED <<incs, bindings>>
  OBVIOUS
<1>2. FewerCalls /\ Spreads({}) /\ SameVictims
  BY <1>1, SameCalls, SameSpreads DEF SameVictims
<1>3. CountOK' /\ QueuedOK' /\ HandOK' /\ BoundsOK'
  BY <1>1, <1>2, LifeFacts, CountSame, QueuedStep, HandSame, BoundsSame
<1>4. HeardOK'
  BY <1>1, <1>2, LifeFacts, HeardStep
<1>5. ASSUME NEW n \in Names, Fresh(n)
      PROVE  NewsAt(n)' /\ KeptAt(n)' /\ BindAt(n)'
  <2>1. NewsAt(n) /\ KeptAt(n) /\ BindAt(n) /\ Rises(n)
    BY <1>1, <1>5, LifeFacts, RisesSame
  <2>2. \A x \in News' : x \in News \/ (x.pod.name = n => ~x.del /\ x.pod = store'[n])
    BY <1>5 DEF Fresh
  <2>3. NewsAt(n)'
    BY <1>1, <1>2, <2>1, <2>2, NewsStep
  <2>4. KeptAt(n)'
    BY <1>1, <2>1 DEF KeptAt, Held, WorkerHas, TaskHas, ToAdd, Pending
  <2>5. BindAt(n)'
    BY <1>1, <1>2, <2>1, BindSame
  <2> QED BY <2>3, <2>4, <2>5
<1> QED BY <1>1, <1>3, <1>4, <1>5, LivesIf, FreshSame

LEMMA LoopLife == ASSUME LInv, ListFails \/ OpenWatch \/ WatchBreaks PROVE Lives
<1>1. UNCHANGED <<queue, store, incs, seen, calls, cache, worker, bindings, preemptions>>
  BY DEF ListFails, OpenWatch, WatchBreaks, queueVars, storeVars
<1>2. UNCHANGED listing /\ (UNCHANGED stream \/ stream' = <<>>)
  BY DEF ListFails, OpenWatch, WatchBreaks, storeVars
<1>3. News' \subseteq News
  BY <1>2 DEF News
<1> QED BY <1>1, <1>3, ListingLife

LEMMA ResyncLife == ASSUME LInv, Resync PROVE Lives
<1>1. UNCHANGED <<queue, store, incs, seen, calls, cache, worker, bindings, preemptions>>
  BY DEF Resync, queueVars, storeVars
<1>2. /\ stream' = stream
      /\ listing' = {[del |-> FALSE, pod |-> store[n]] : n \in {m \in Names : store[m] # NoPod}}
             \cup {[del |-> TRUE, pod |-> seen[n]] :
                       n \in {m \in Names : store[m] = NoPod /\ seen[m] # NoPod}}
  BY DEF Resync, storeVars
<1>3. \A x \in News' : x \in News \/ x \in listing'
  BY <1>2 DEF News
<1>4. ASSUME NEW x \in listing'
      PROVE  /\ Copy(x.pod)
             /\ x.del => store[x.pod.name] = NoPod
             /\ ~x.del => x.pod = store[x.pod.name]
  <2>1. CASE \E n \in Names : store[n] # NoPod /\ x = [del |-> FALSE, pod |-> store[n]]
    <3>1. PICK n \in Names : store[n] # NoPod /\ x = [del |-> FALSE, pod |-> store[n]]
      BY <2>1
    <3>2. x.pod = store[n] /\ x.del = FALSE
      BY <3>1
    <3>3. store[n].name = n /\ store[n].inc <= incs[n]
      BY <3>1, LifeFacts DEF StoreOK
    <3> QED BY <3>2, <3>3 DEF Copy
  <2>2. CASE \E n \in Names : store[n] = NoPod /\ seen[n] # NoPod /\ x = [del |-> TRUE, pod |-> seen[n]]
    <3>1. PICK n \in Names : store[n] = NoPod /\ seen[n] # NoPod /\ x = [del |-> TRUE, pod |-> seen[n]]
      BY <2>2
    <3>2. x.pod = seen[n] /\ x.del = TRUE
      BY <3>1
    <3>3. seen[n].name = n /\ Copy(seen[n])
      BY <3>1, LifeFacts DEF HeardOK
    <3> QED BY <3>1, <3>2, <3>3
  <2>3. \/ \E n \in Names : store[n] # NoPod /\ x = [del |-> FALSE, pod |-> store[n]]
        \/ \E n \in Names : store[n] = NoPod /\ seen[n] # NoPod /\ x = [del |-> TRUE, pod |-> seen[n]]
    BY <1>2, <1>4
  <2> QED BY <2>1, <2>2, <2>3
<1> QED BY <1>1, <1>3, <1>4, ListingLife

(* The handlers. *)
Calling(q) == {q[k] : k \in 1..Len(q)}

LEMMA CallingFacts ==
    ASSUME NEW x, NEW y
    PROVE  Calling(<<>>) = {} /\ Calling(<<x>>) = {x} /\ Calling(<<x, y>>) = {x, y}
<1>1. Calling(<<>>) = {}
  BY DEF Calling
<1>2. Calling(<<x>>) = {x}
  BY DEF Calling
<1>3. Calling(<<x, y>>) = {x, y}
  BY DEF Calling
<1> QED BY <1>1, <1>2, <1>3

LEMMA CallingBoth ==
    ASSUME NEW x, NEW y, NEW q, q = <<x>> \o <<y>> \/ q = <<x>> \o <<>>
    PROVE  Calling(q) \subseteq {x, y}
<1>1. CASE q = <<x>> \o <<>>
  <2>1. Len(q) = 1 /\ q[1] = x
    BY <1>1
  <2> QED BY <2>1 DEF Calling
<1>2. CASE q = <<x>> \o <<y>>
  <2>1. Len(q) = 2 /\ q[1] = x /\ q[2] = y
    BY <1>2
  <2> QED BY <2>1 DEF Calling
<1> QED BY <1>1, <1>2

(* What the handler of an event of the pod does, the first pod of its name   *)
(* in particular: a delete of it is only called for when it is not pending,  *)
(* its first sight asks for an add, and the cache keeps it.                  *)
GoodSeen(s, pod) ==
    s = [seen EXCEPT ![pod.name] = NoPod] \/ s = [seen EXCEPT ![pod.name] = pod]
GoodCalls(q, pod) ==
    /\ \A c \in Calling(q) :
          c.pod = pod \/ (seen[pod.name] # NoPod /\ c.pod = seen[pod.name])
    /\ Fresh(pod.name) => \A c \in Calling(q) : c.op = "delete" => ~Pending(store[pod.name])
AddsFirst(s, q, pod) ==
    Fresh(pod.name) /\ Pending(store[pod.name]) /\ s[pod.name] # NoPod =>
        seen[pod.name] # NoPod \/ \E c \in Calling(q) : c.op = "add"
GoodCache(c, pod) ==
    LET n == pod.name
    IN  /\ \A m \in Names \ {n} : c[<<m, 1>>] = cache[<<m, 1>>]
        /\ Fresh(n) =>
              /\ ~store[n].bound => c[<<n, 1>>] = cache[<<n, 1>>]
              /\ store[n].bound /\ ~store[n].fin /\ cache[<<n, 1>>] # "absent" =>
                    c[<<n, 1>>] # "absent"
GoodLife(h, pod) ==
    /\ GoodSeen(h.seen, pod) /\ GoodCalls(h.calls, pod) /\ AddsFirst(h.seen, h.calls, pod)
    /\ GoodCache(h.cache, pod)

LEMMA LifeParts ==
    ASSUME NEW s, NEW c, NEW v, NEW q, NEW pod, GoodSeen(s, pod), GoodCalls(q, pod),
           AddsFirst(s, q, pod), GoodCache(c, pod)
    PROVE  GoodLife(H(s, c, v, q), pod)
BY DEF GoodLife, H

LEMMA CacheParts ==
    ASSUME CacheOK, NEW pod \in Pods
    PROVE  /\ \A m \in Names \ {pod.name} :
                 /\ CacheAdd(cache, pod)[<<m, 1>>] = cache[<<m, 1>>]
                 /\ CacheRemove(cache, pod)[<<m, 1>>] = cache[<<m, 1>>]
           /\ pod.inc = 1 => CacheAdd(cache, pod)[<<pod.name, 1>>] = "added"
<1>1. \A m \in Names : <<m, 1>> \in Uids
  BY QueueAssumption DEF Uids
<1> DEFINE u == Uid(pod)
<1>2. u \in Uids /\ pod.name \in Names
  BY PodFacts
<1>3. \A m \in Names \ {pod.name} : <<m, 1>> # u
  BY DEF Uid
<1>4. pod.inc = 1 => u = <<pod.name, 1>>
  BY DEF Uid
<1>5. cache \in [Uids -> {"absent", "assumed", "added"}]
  BY DEF CacheOK
<1>6. CacheAdd(cache, pod) = [cache EXCEPT ![u] = "added"]
  BY DEF CacheAdd
<1>7. CacheRemove(cache, pod) = [cache EXCEPT ![u] = "absent"]
  BY DEF CacheRemove
<1> HIDE DEF u
<1>8. \A w \in Uids \ {u} : CacheAdd(cache, pod)[w] = cache[w] /\ CacheRemove(cache, pod)[w] = cache[w]
  BY <1>5, <1>6, <1>7
<1>9. CacheAdd(cache, pod)[u] = "added"
  BY <1>2, <1>5, <1>6
<1>10. ASSUME NEW m \in Names \ {pod.name}
       PROVE  /\ CacheAdd(cache, pod)[<<m, 1>>] = cache[<<m, 1>>]
              /\ CacheRemove(cache, pod)[<<m, 1>>] = cache[<<m, 1>>]
  <2>1. <<m, 1>> \in Uids /\ <<m, 1>> # u
    BY <1>1, <1>3
  <2> QED BY <2>1, <1>8
<1> QED BY <1>4, <1>9, <1>10

LEMMA CacheUpdateParts ==
    ASSUME CacheOK, NEW pod \in Pods, NEW old \in Pods, old.name = pod.name
    PROVE  /\ \A m \in Names \ {pod.name} :
                 CacheUpdate(cache, old, pod)[<<m, 1>>] = cache[<<m, 1>>]
           /\ pod.inc = 1 => \/ CacheUpdate(cache, old, pod) = cache
                             \/ CacheUpdate(cache, old, pod)[<<pod.name, 1>>] = "added"
<1> DEFINE u == Uid(pod)
           w == Uid(old)
           d == CacheUpdate(cache, old, pod)
<1>1. \A m \in Names : <<m, 1>> \in Uids
  BY QueueAssumption DEF Uids
<1>2. u \in Uids /\ w \in Uids /\ pod.name \in Names
  BY PodFacts
<1>3. \A m \in Names \ {pod.name} : <<m, 1>> # u /\ <<m, 1>> # w
  BY DEF Uid
<1>4. pod.inc = 1 => u = <<pod.name, 1>>
  BY DEF Uid
<1>5. cache \in [Uids -> {"absent", "assumed", "added"}]
  BY DEF CacheOK
<1>6. d = cache \/ d = [[cache EXCEPT ![w] = "absent"] EXCEPT ![u] = "added"]
  BY DEF CacheUpdate, CacheAdd
<1> HIDE DEF u, w, d
<1>7. \A v \in Uids \ {u, w} : d[v] = cache[v]
  BY <1>5, <1>6
<1>8. d = cache \/ d[u] = "added"
  BY <1>2, <1>5, <1>6
<1>10. ASSUME NEW m \in Names \ {pod.name}
       PROVE  d[<<m, 1>>] = cache[<<m, 1>>]
  <2>1. <<m, 1>> \in Uids /\ <<m, 1>> # u /\ <<m, 1>> # w
    BY <1>1, <1>3
  <2> QED BY <2>1, <1>7
<1>11. pod.inc = 1 => d = cache \/ d[<<pod.name, 1>>] = "added"
  BY <1>4, <1>8
<1> QED BY <1>10, <1>11 DEF d

LEMMA DeletedLife ==
    ASSUME InformerOK, CacheOK, NEW pod \in Pods,
           Fresh(pod.name) => store[pod.name].bound /\ store[pod.name].fin
    PROVE  GoodLife(OnPodDeleted(pod), pod)
<1> DEFINE n == pod.name
           gone == [seen EXCEPT ![n] = NoPod]
           free == Freeing(MoveCall("AssignedPodDelete", pod, FALSE), pod)
           first == IF seen[n] = NoPod THEN <<>> ELSE <<free>>
           del == DeleteCall(pod)
           mov == MoveCall("AssignedPodDelete", pod, TRUE)
           nominated == IF pod.nom THEN <<mov>> ELSE <<>>
           second == <<del>> \o nominated
<1>1. OnPodDeleted(pod) =
        IF seen[n] = NoPod \/ pod.bound
        THEN H(gone, CacheRemove(cache, pod), Observe(pod), first)
        ELSE H(gone, cache, Observe(pod), second)
  BY DEF OnPodDeleted
<1>2. free.pod = pod /\ del.pod = pod /\ mov.pod = pod
  BY DEF Freeing, MoveCall, DeleteCall
<1> HIDE DEF free, del, mov
<1>3. first = <<>> \/ first = <<free>>
  OBVIOUS
<1>4. second = <<del>> \o <<mov>> \/ second = <<del>> \o <<>>
  BY Zenon
<1> HIDE DEF first, second
<1>5. Calling(first) \subseteq {free} /\ Calling(second) \subseteq {del, mov}
  <2>1. Calling(first) \subseteq {free}
    BY <1>3, CallingFacts
  <2>2. Calling(second) \subseteq {del, mov}
    BY <1>4, CallingBoth
  <2> QED BY <2>1, <2>2
<1>6. Fresh(n) => ~Pending(store[n])
  BY DEF Pending
<1>7. GoodCalls(first, pod) /\ GoodCalls(second, pod)
  BY <1>2, <1>5, <1>6 DEF GoodCalls
<1>8. GoodSeen(gone, pod)
  BY DEF GoodSeen
<1>9. AddsFirst(gone, first, pod) /\ AddsFirst(gone, second, pod)
  BY <1>6 DEF AddsFirst
<1>10. GoodCache(cache, pod) /\ GoodCache(CacheRemove(cache, pod), pod)
  BY CacheParts DEF GoodCache
<1> HIDE DEF gone, n
<1>11. GoodLife(H(gone, CacheRemove(cache, pod), Observe(pod), first), pod)
  BY <1>7, <1>8, <1>9, <1>10, LifeParts
<1>12. GoodLife(H(gone, cache, Observe(pod), second), pod)
  BY <1>7, <1>8, <1>9, <1>10, LifeParts
<1> QED BY <1>1, <1>11, <1>12

LEMMA UpdatedLife ==
    ASSUME InformerOK, CacheOK, NEW pod \in Pods, NEW old \in Pods, old.name = pod.name,
           old = seen[pod.name],
           Fresh(pod.name) => /\ pod.inc = 1
                              /\ pod.bound => store[pod.name].bound
                              /\ old.bound => store[pod.name].bound
    PROVE  GoodLife(UpdatePod(old, pod), pod)
<1> DEFINE n == pod.name
           s == [seen EXCEPT ![n] = pod]
           upd == MoveCall("AssignedPodUpdate", pod, FALSE)
           add == MoveCall("AssignedPodAdd", pod, FALSE)
           del == DeleteCall(old)
           chg == UpdateCall(old, pod)
           mov == MoveCall("AssignedPodDelete", old, TRUE)
           moved == IF old.nom # pod.nom THEN <<mov>> ELSE <<>>
           q1 == <<upd>>
           q2 == <<add, del>>
           q3 == <<chg>> \o moved
           q4 == <<>>
<1>1. UpdatePod(old, pod) =
        IF old.bound THEN H(s, CacheUpdate(cache, old, pod), pendingVictim, q1)
        ELSE IF pod.bound THEN H(s, CacheAdd(cache, pod), pendingVictim, q2)
        ELSE IF cache[Uid(pod)] = "assumed" THEN H(s, cache, pendingVictim, q4)
        ELSE H(s, cache, pendingVictim, q3)
  BY DEF UpdatePod
<1>2. /\ upd.pod = pod /\ add.pod = pod /\ del.pod = old /\ chg.pod = pod /\ mov.pod = old
      /\ upd.op = "move" /\ add.op = "move" /\ chg.op = "update" /\ mov.op = "move"
  BY DEF MoveCall, DeleteCall, UpdateCall
<1> HIDE DEF upd, add, del, chg, mov
<1>3. q3 = <<chg>> \o <<mov>> \/ q3 = <<chg>> \o <<>>
  BY Zenon
<1>4. Calling(q1) = {upd} /\ Calling(q2) = {add, del} /\ Calling(q4) = {}
  BY CallingFacts
<1> HIDE DEF q1, q2, q3, q4
<1>5. Calling(q3) \subseteq {chg, mov}
  BY <1>3, CallingBoth
<1>6. old # NoPod /\ old = seen[n]
  BY PodFacts
<1>7. GoodCalls(q1, pod) /\ GoodCalls(q3, pod) /\ GoodCalls(q4, pod)
  BY <1>2, <1>4, <1>5, <1>6 DEF GoodCalls
<1>8. pod.bound => GoodCalls(q2, pod)
  BY <1>2, <1>4, <1>6 DEF GoodCalls, Pending
<1>9. GoodSeen(s, pod) /\ \A q : AddsFirst(s, q, pod)
  BY <1>6 DEF GoodSeen, AddsFirst
<1>10. GoodCache(cache, pod)
  BY DEF GoodCache
<1>11. pod.bound => GoodCache(CacheAdd(cache, pod), pod)
  BY CacheParts DEF GoodCache
<1>12. old.bound => GoodCache(CacheUpdate(cache, old, pod), pod)
  BY CacheUpdateParts DEF GoodCache
<1> HIDE DEF s, n
<1>13. old.bound => GoodLife(H(s, CacheUpdate(cache, old, pod), pendingVictim, q1), pod)
  BY <1>7, <1>9, <1>12, LifeParts
<1>14. pod.bound => GoodLife(H(s, CacheAdd(cache, pod), pendingVictim, q2), pod)
  BY <1>8, <1>9, <1>11, LifeParts
<1>15. /\ GoodLife(H(s, cache, pendingVictim, q3), pod)
       /\ GoodLife(H(s, cache, pendingVictim, q4), pod)
  BY <1>7, <1>9, <1>10, LifeParts
<1> QED BY <1>1, <1>13, <1>14, <1>15

LEMMA EventLife ==
    ASSUME LInv, NEW pod \in Pods, Copy(pod),
           Fresh(pod.name) => /\ pod.bound => store[pod.name].bound
                              /\ pod.fin => store[pod.name].fin
    PROVE  GoodLife(OnPodEvent(pod), pod)
<1> DEFINE n == pod.name
           s == [seen EXCEPT ![n] = pod]
           mov == MoveCall("AssignedPodAdd", pod, FALSE)
           add == AddCall(pod)
           q1 == <<mov>>
           q2 == <<add>>
           q3 == <<>>
<1>1. OnPodEvent(pod) =
        IF pod.fin THEN OnPodDeleted(pod)
        ELSE IF seen[n] = NoPod
        THEN (IF pod.bound THEN H(s, CacheAdd(cache, pod), pendingVictim, q1)
              ELSE H(s, cache, pendingVictim, q2))
        ELSE IF seen[n] = pod THEN H(s, cache, pendingVictim, q3)
        ELSE UpdatePod(seen[n], pod)
  BY DEF OnPodEvent
<1>2. InformerOK /\ CacheOK /\ HeardOK /\ n \in Names
  BY LifeFacts, PodFacts
<1>3. Fresh(n) => pod.inc = 1 /\ NewsAt(n) /\ BindAt(n)
  <2>1. Fresh(n) => pod.inc <= 1
    BY DEF Fresh, Copy
  <2>2. pod.inc \in 1..MaxInc
    BY PodFacts
  <2>3. Fresh(n) => pod.inc = 1
    BY <2>1, <2>2
  <2> QED BY <2>3, <1>2, LifeFacts
<1>4. pod.fin => GoodLife(OnPodDeleted(pod), pod)
  <2>1. pod.fin /\ Fresh(n) => store[n].bound /\ store[n].fin
    BY <1>3 DEF BindAt, EvictAt
  <2> QED BY <2>1, <1>2, DeletedLife
<1>5. seen[n] # NoPod => GoodLife(UpdatePod(seen[n], pod), pod)
  <2> SUFFICES ASSUME seen[n] # NoPod PROVE GoodLife(UpdatePod(seen[n], pod), pod)
    OBVIOUS
  <2>1. seen[n] \in Pods /\ seen[n].name = n
    BY <1>2 DEF InformerOK, HeardOK
  <2>2. Fresh(n) => pod.inc = 1 /\ (pod.bound => store[n].bound) /\ (seen[n].bound => store[n].bound)
    BY <1>3 DEF NewsAt
  <2> QED BY <1>2, <2>1, <2>2, UpdatedLife
<1>6. mov.pod = pod /\ mov.op = "move" /\ add.pod = pod /\ add.op = "add"
  BY DEF MoveCall, AddCall
<1> HIDE DEF mov, add
<1>7. Calling(q1) = {mov} /\ Calling(q2) = {add} /\ Calling(q3) = {}
  BY CallingFacts
<1> HIDE DEF q1, q2, q3
<1>8. GoodCalls(q1, pod) /\ GoodCalls(q2, pod) /\ GoodCalls(q3, pod)
  BY <1>6, <1>7 DEF GoodCalls
<1>9. GoodSeen(s, pod)
  BY DEF GoodSeen
<1>10. /\ pod.bound => AddsFirst(s, q1, pod)
       /\ AddsFirst(s, q2, pod)
       /\ seen[n] # NoPod => AddsFirst(s, q3, pod)
  BY <1>6, <1>7 DEF AddsFirst, Pending
<1>11. GoodCache(cache, pod)
  BY DEF GoodCache
<1>12. pod.bound => GoodCache(CacheAdd(cache, pod), pod)
  BY <1>2, <1>3, CacheParts DEF GoodCache
<1> HIDE DEF s, n
<1>13. pod.bound => GoodLife(H(s, CacheAdd(cache, pod), pendingVictim, q1), pod)
  BY <1>8, <1>9, <1>10, <1>12, LifeParts
<1>14. GoodLife(H(s, cache, pendingVictim, q2), pod)
  BY <1>8, <1>9, <1>10, <1>11, LifeParts
<1>15. seen[n] # NoPod => GoodLife(H(s, cache, pendingVictim, q3), pod)
  BY <1>8, <1>9, <1>10, <1>11, LifeParts
<1> QED BY <1>1, <1>4, <1>5, <1>13, <1>14, <1>15

LEMMA NewsFacts ==
    ASSUME LInv, NEW x \in News
    PROVE  /\ x.pod \in Pods /\ x.del \in BOOLEAN /\ Copy(x.pod)
           /\ Fresh(x.pod.name) => /\ ~x.del
                                   /\ x.pod.bound => store[x.pod.name].bound
                                   /\ x.pod.fin => store[x.pod.name].fin
<1>1. stream \in Seq(Watched) /\ listing \subseteq Watched /\ HeardOK
  BY LifeFacts DEF InformerOK
<1>2. x \in Watched
  BY <1>1 DEF News
<1>3. x.pod \in Pods /\ x.del \in BOOLEAN
  BY <1>2 DEF Watched
<1>4. Fresh(x.pod.name) => NewsAt(x.pod.name)
  BY <1>3, LifeFacts, PodFacts
<1> QED BY <1>1, <1>3, <1>4 DEF HeardOK, NewsAt

LEMMA EventsLife ==
    ASSUME LInv, NEW x \in News
    PROVE  GoodLife(IF x.del THEN OnPodDeleted(x.pod) ELSE OnPodEvent(x.pod), x.pod)
BY NewsFacts, LifeFacts, DeletedLife, EventLife

LEMMA HandleLife ==
    ASSUME LInv, NEW x \in News, NEW h, GoodLife(h, x.pod), Handle(h), calls = <<>>,
           News' \subseteq News
    PROVE  Lives
<1> DEFINE pod == x.pod
           o == pod.name
<1>1. /\ seen' = h.seen /\ cache' = h.cache /\ calls' = h.calls
      /\ UNCHANGED <<queue, store, incs, worker, bindings, preemptions>>
  BY DEF Handle, queueVars
<1>2. /\ pod \in Pods /\ Copy(pod) /\ o \in Names
      /\ Fresh(o) /\ pod.bound => store[o].bound
  BY NewsFacts, PodFacts
<1>3. /\ GoodSeen(seen', pod) /\ GoodCalls(calls', pod) /\ AddsFirst(seen', calls', pod)
      /\ GoodCache(cache', pod)
  BY <1>1 DEF GoodLife
<1>4. /\ seen'[o] = NoPod \/ seen'[o] = pod
      /\ \A m \in Names \ {o} : seen'[m] = seen[m]
  BY <1>2, <1>3, LifeFacts DEF GoodSeen, InformerOK
<1>5. \A c \in Calling(calls') : c.pod.name = o /\ Copy(c.pod)
  BY <1>2, <1>3, LifeFacts DEF GoodCalls, HeardOK
<1>6. \A k \in 1..Len(calls') : calls'[k] \in Calling(calls')
  BY DEF Calling
<1> HIDE DEF pod, o
<1>7. CountOK' /\ QueuedOK' /\ HandOK' /\ BoundsOK'
  <2>1. UNCHANGED <<store, incs>> /\ UNCHANGED <<incs, worker>> /\ UNCHANGED <<incs, bindings>>
    BY <1>1
  <2>2. Spreads({})
    BY <1>1, SameSpreads
  <2> QED BY <2>1, <2>2, LifeFacts, CountSame, QueuedStep, HandSame, BoundsSame
<1>8. HeardOK'
  <2>1. \A y \in News' : Copy(y.pod)
    BY LifeFacts DEF HeardOK
  <2>2. \A n \in Names : seen'[n] # NoPod => seen'[n].name = n /\ Copy(seen'[n])
    <3> SUFFICES ASSUME NEW n \in Names, seen'[n] # NoPod PROVE seen'[n].name = n /\ Copy(seen'[n])
      OBVIOUS
    <3>1. CASE n = o
      BY <1>2, <1>4, <3>1 DEF o
    <3>2. CASE n # o
      BY <1>4, <3>2, LifeFacts DEF HeardOK
    <3> QED BY <3>1, <3>2
  <2>3. \A k \in 1..Len(calls') : Copy(calls'[k].pod)
    BY <1>5, <1>6
  <2> QED BY <1>1, <2>1, <2>2, <2>3 DEF HeardOK, Copy
<1>9. ASSUME NEW n \in Names, Fresh(n)
      PROVE  NewsAt(n)' /\ KeptAt(n)' /\ BindAt(n)'
  <2>1. NewsAt(n) /\ KeptAt(n) /\ BindAt(n)
    BY <1>9, LifeFacts
  <2>2. NewsAt(n)'
    <3>1. \A y \in News' : y.pod.name = n =>
              ~y.del /\ (y.pod.bound => store[n].bound) /\ (y.pod.fin => store[n].fin)
      BY <2>1 DEF NewsAt
    <3>2. seen'[n] # NoPod /\ seen'[n].bound => store[n].bound
      BY <1>2, <1>4, <1>9, <2>1 DEF NewsAt
    <3>3. \A k \in 1..Len(calls') :
              calls'[k].op = "delete" /\ calls'[k].pod.name = n => ~Pending(store[n])
      BY <1>3, <1>5, <1>6, <1>9 DEF GoodCalls, o
    <3> QED BY <1>1, <3>1, <3>2, <3>3 DEF NewsAt, Pending
  <2>3. KeptAt(n)'
    <3>1. Held(n) => Held(n)'
      BY <1>1 DEF Held, WorkerHas, TaskHas, ToAdd
    <3>2. Pending(store[n]) /\ seen'[n] # NoPod => Held(n)'
      <4> SUFFICES ASSUME Pending(store[n]), seen'[n] # NoPod PROVE Held(n)'
        OBVIOUS
      <4>1. CASE seen[n] # NoPod
        BY <4>1, <2>1, <3>1 DEF KeptAt
      <4>2. CASE seen[n] = NoPod
        <5>1. n = o
          BY <1>4, <4>2
        <5>2. PICK c \in Calling(calls') : c.op = "add"
          BY <1>3, <1>9, <4>2, <5>1 DEF AddsFirst, o
        <5>3. c.pod.name = n
          BY <1>5, <5>1, <5>2
        <5>4. \E k \in 1..Len(calls') : c = calls'[k]
          BY <5>2 DEF Calling
        <5> QED BY <5>2, <5>3, <5>4 DEF Held, ToAdd
      <4> QED BY <4>1, <4>2
    <3> QED BY <1>1, <2>1, <3>2 DEF KeptAt, Pending
  <2>4. BindAt(n)'
    <3>1. /\ ~store[n].bound => cache'[<<n, 1>>] = cache[<<n, 1>>]
          /\ store[n].bound /\ ~store[n].fin /\ cache[<<n, 1>>] # "absent" =>
                cache'[<<n, 1>>] # "absent"
      <4>1. CASE n = o
        BY <1>3, <1>9, <4>1 DEF GoodCache, o
      <4>2. CASE n # o
        BY <1>3, <4>2 DEF GoodCache, o
      <4> QED BY <4>1, <4>2
    <3>2. EvictAt(n)'
      BY <1>1, <2>1 DEF BindAt, EvictAt, Old, Reading
    <3>3. BoundAt(n)'
      BY <1>1, <2>1, <3>1 DEF BindAt, BoundAt, Old, Forgetting, Binder
    <3>4. UnboundAt(n)'
      BY <1>1, <2>1, <3>1 DEF BindAt, UnboundAt, Forgetting, Binder
    <3> QED BY <3>2, <3>3, <3>4 DEF BindAt
  <2> QED BY <2>2, <2>3, <2>4
<1> QED BY <1>1, <1>7, <1>8, <1>9, LivesIf, FreshSame

LEMMA DeliverLife == ASSUME LInv, Deliver PROVE Lives
<1> DEFINE x == Head(stream)
           h == IF x.del THEN OnPodDeleted(x.pod) ELSE OnPodEvent(x.pod)
<1>1. Handle(h) /\ calls = <<>> /\ stream # <<>> /\ stream' = Tail(stream) /\ UNCHANGED listing
  BY DEF Deliver, Idle
<1>2. stream \in Seq(Watched)
  BY LifeFacts DEF InformerOK
<1>3. x \in News
  BY <1>1, <1>2 DEF News
<1>4. \A i \in 1..Len(stream') : i + 1 \in 1..Len(stream) /\ stream'[i] = stream[i + 1]
  BY <1>1, <1>2
<1>5. News' \subseteq News
  BY <1>1, <1>4 DEF News
<1> HIDE DEF x
<1>6. GoodLife(h, x.pod)
  BY <1>3, EventsLife
<1> HIDE DEF h
<1> QED BY <1>1, <1>3, <1>5, <1>6, HandleLife

LEMMA HandleListedLife == ASSUME LInv, HandleListed PROVE Lives
<1>1. PICK x \in listing :
        /\ Handle(IF x.del THEN OnPodDeleted(x.pod) ELSE OnPodEvent(x.pod))
        /\ listing' = listing \ {x}
  BY DEF HandleListed
<1> DEFINE h == IF x.del THEN OnPodDeleted(x.pod) ELSE OnPodEvent(x.pod)
<1>2. calls = <<>> /\ UNCHANGED stream
  BY DEF HandleListed
<1>3. x \in News
  BY DEF News
<1>4. News' \subseteq News
  BY <1>1, <1>2 DEF News
<1>5. GoodLife(h, x.pod)
  BY <1>3, EventsLife
<1>6. Handle(h)
  BY <1>1
<1> HIDE DEF h
<1> QED BY <1>2, <1>3, <1>4, <1>5, <1>6, HandleLife

(* The queue calls of the handlers. *)
LEMMA CallPods ==
    ASSUME LInv, QueueCall
    PROVE  LET c == Head(calls)
           IN  /\ \A m \in Names : PodsIn(queue'[m]) \subseteq PodsIn(queue[m]) \cup {c.pod}
               /\ \A m \in Names : PodsIn(queue[m]) # {} =>
                     PodsIn(queue'[m]) # {} \/ (c.op = "delete" /\ c.pod.name = m)
               /\ c.op = "add" => PodsIn(queue'[c.pod.name]) # {}
<1> DEFINE c == Head(calls)
<1>1. QueueOK /\ calls \in Seq(Calls) /\ calls # <<>>
  BY LifeFacts DEF QueueCall, InformerOK
<1>2. c \in Calls
  BY <1>1
<1>3. CASE c.op = "add" /\ Add(c.pod)
  <2>1. c.pod \in Pods
    BY <1>2, <1>3 DEF Calls
  <2> HIDE DEF c
  <2>2. Spreads({c.pod}) /\ PodsIn(queue'[c.pod.name]) # {}
    BY <1>1, <1>3, <2>1, AddPods
  <2> QED BY <2>2 DEF Spreads, c
<1>4. CASE c.op = "update" /\ Update(c.old, c.pod)
  <2>1. c.pod \in Pods /\ c.old \in Pods
    BY <1>2, <1>4 DEF Calls
  <2> HIDE DEF c
  <2>2. Spreads({c.pod})
    BY <1>1, <1>4, <2>1, UpdatePods
  <2>3. c.op # "add"
    BY <1>4
  <2> QED BY <2>2, <2>3 DEF Spreads, c
<1>5. CASE c.op = "delete" /\ Delete(c.pod)
  <2>1. c.pod \in Pods
    BY <1>2, <1>5 DEF Calls
  <2> HIDE DEF c
  <2>2. /\ \A m \in Names : PodsIn(queue'[m]) \subseteq PodsIn(queue[m])
        /\ \A m \in Names \ {c.pod.name} : queue'[m] = queue[m]
    BY <1>1, <1>5, <2>1, DeletePods
  <2> QED BY <2>2, <1>5 DEF c
<1>6. CASE /\ c.op = "move"
           /\ \E helps \in SUBSET Plugins,
                 skip \in SUBSET {u \in Uids : c.checked /\ u # Uid(c.pod) /\ Waiting(u)} :
                 MoveAll(Event(c.kind, helps, NoUid), skip, Released(c))
  <2>1. Spreads({})
    BY <1>1, <1>6, MoveAllPods
  <2> QED BY <2>1, <1>6 DEF Spreads
<1>7. \/ c.op = "add" /\ Add(c.pod)
      \/ c.op = "update" /\ Update(c.old, c.pod)
      \/ c.op = "delete" /\ Delete(c.pod)
      \/ /\ c.op = "move"
         /\ \E helps \in SUBSET Plugins,
               skip \in SUBSET {u \in Uids : c.checked /\ u # Uid(c.pod) /\ Waiting(u)} :
               MoveAll(Event(c.kind, helps, NoUid), skip, Released(c))
  BY DEF QueueCall
<1> QED BY <1>3, <1>4, <1>5, <1>6, <1>7

LEMMA QueueCallLife == ASSUME LInv, QueueCall PROVE Lives
<1> DEFINE c == Head(calls)
<1>1. /\ calls' = Tail(calls) /\ calls # <<>> /\ calls \in Seq(Calls)
      /\ UNCHANGED <<storeVars, listing, seen, cache, worker, bindings, preemptions>>
  BY LifeFacts DEF QueueCall, InformerOK
<1>2. /\ \A i \in 1..Len(calls') : i + 1 \in 1..Len(calls) /\ calls'[i] = calls[i + 1]
      /\ \A i \in 1..Len(calls) : calls[i] = c \/ (i - 1 \in 1..Len(calls') /\ calls'[i - 1] = calls[i])
      /\ \E i \in 1..Len(calls) : calls[i] = c
  BY <1>1
<1>3. FewerCalls
  BY <1>2 DEF FewerCalls
<1>4. /\ \A m \in Names : PodsIn(queue'[m]) \subseteq PodsIn(queue[m]) \cup {c.pod}
      /\ \A m \in Names : PodsIn(queue[m]) # {} =>
            PodsIn(queue'[m]) # {} \/ (c.op = "delete" /\ c.pod.name = m)
      /\ c.op = "add" => PodsIn(queue'[c.pod.name]) # {}
  BY CallPods
<1> HIDE DEF c
<1>5. /\ UNCHANGED <<store, incs>> /\ UNCHANGED <<incs, seen>> /\ UNCHANGED <<stream, listing>>
      /\ UNCHANGED <<incs, worker>> /\ UNCHANGED <<incs, bindings>>
  BY <1>1 DEF storeVars
<1>6. News' = News /\ SameVictims
  BY <1>1, <1>5, NewsSame DEF SameVictims
<1>7. Copy(c.pod)
  BY <1>2, LifeFacts DEF HeardOK
<1>8. QueuedOK'
  BY <1>4, <1>5, <1>7, LifeFacts DEF QueuedOK, Copy
<1>9. CountOK' /\ HandOK' /\ BoundsOK' /\ HeardOK'
  BY <1>3, <1>5, <1>6, LifeFacts, CountSame, HandSame, BoundsSame, HeardStep
<1>10. ASSUME NEW n \in Names, Fresh(n)
       PROVE  NewsAt(n)' /\ KeptAt(n)' /\ BindAt(n)'
  <2>1. NewsAt(n) /\ KeptAt(n) /\ BindAt(n) /\ Rises(n)
    BY <1>5, <1>10, LifeFacts, RisesSame
  <2>2. NewsAt(n)'
    BY <1>3, <1>5, <1>6, <2>1, NewsStep
  <2>3. Pending(store[n]) /\ Held(n) => Held(n)'
    <3> SUFFICES ASSUME Pending(store[n]), Held(n) PROVE Held(n)'
      OBVIOUS
    <3>1. CASE PodsIn(queue[n]) # {}
      <4>1. ~(c.op = "delete" /\ c.pod.name = n)
        BY <1>2, <2>1 DEF NewsAt
      <4> QED BY <3>1, <4>1, <1>4 DEF Held
    <3>2. CASE WorkerHas(n) \/ TaskHas(n)
      BY <3>2, <1>1 DEF Held, WorkerHas, TaskHas
    <3>3. CASE ToAdd(n)
      <4>1. PICK k \in 1..Len(calls) : calls[k].op = "add" /\ calls[k].pod.name = n
        BY <3>3 DEF ToAdd
      <4>2. CASE calls[k] = c
        BY <4>1, <4>2, <1>4 DEF Held
      <4>3. CASE k - 1 \in 1..Len(calls') /\ calls'[k - 1] = calls[k]
        BY <4>1, <4>3 DEF Held, ToAdd
      <4> QED BY <4>2, <4>3, <1>2
    <3> QED BY <3>1, <3>2, <3>3 DEF Held
  <2>4. KeptAt(n)'
    BY <1>1, <1>5, <2>1, <2>3 DEF KeptAt, Pending
  <2>5. BindAt(n)'
    BY <1>1, <1>5, <1>6, <2>1, BindSame
  <2> QED BY <2>2, <2>4, <2>5
<1> QED BY <1>5, <1>8, <1>9, <1>10, LivesIf, FreshSame

-----------------------------------------------------------------------------
(* The worker. *)

LEMMA WorkerLife ==
    ASSUME LInv, UNCHANGED <<queue, storeVars, informerVars, cache, bindings>>,
           \A t \in preemptions' : \/ \E s \in preemptions : s.victim = t.victim
                                   \/ Fresh(t.victim) => Old(t.victim),
           worker'.info # NoInfo => Copy(worker'.info.pod),
           worker'.pc \in HasRead => worker'.pod.name = worker'.info.pod.name,
           worker'.pc # "forget",
           \A n \in Names : Fresh(n) =>
               /\ Reading(n)' => Reading(n) \/ ~store[n].bound
               /\ Pending(store[n]) /\ WorkerHas(n) => WorkerHas(n)'
    PROVE  Lives
<1>1. /\ UNCHANGED <<store, incs>> /\ UNCHANGED <<incs, seen>> /\ UNCHANGED <<stream, listing>>
      /\ UNCHANGED calls /\ UNCHANGED <<incs, bindings>>
  BY DEF storeVars, informerVars
<1>2. News' = News /\ FewerCalls /\ Spreads({})
  BY <1>1, NewsSame, SameCalls, SameSpreads
<1>3. CountOK' /\ QueuedOK' /\ BoundsOK' /\ HeardOK'
  BY <1>1, <1>2, LifeFacts, CountSame, QueuedStep, BoundsSame, HeardStep
<1>4. HandOK'
  BY <1>1 DEF HandOK, Copy
<1>5. ASSUME NEW n \in Names, Fresh(n)
      PROVE  NewsAt(n)' /\ KeptAt(n)' /\ BindAt(n)'
  <2>1. NewsAt(n) /\ KeptAt(n) /\ BindAt(n) /\ Rises(n)
    BY <1>1, <1>5, LifeFacts, RisesSame
  <2>2. NewsAt(n)'
    BY <1>1, <1>2, <2>1, NewsStep
  <2>3. Pending(store[n]) /\ Held(n) => Held(n)'
    BY <1>1, <1>5 DEF Held, TaskHas, ToAdd
  <2>4. KeptAt(n)'
    BY <1>1, <2>1, <2>3 DEF KeptAt, Pending
  <2>5. EvictAt(n)'
    BY <1>1, <1>5, <2>1 DEF BindAt, EvictAt, Old
  <2>6. BoundAt(n)' /\ UnboundAt(n)'
    BY <1>1, <2>1 DEF BindAt, BoundAt, UnboundAt, Old, Forgetting, Binder
  <2> QED BY <2>2, <2>4, <2>5, <2>6 DEF BindAt
<1> QED BY <1>1, <1>3, <1>4, <1>5, LivesIf, FreshSame

LEMMA PopPartLife == ASSUME LInv, WorkerEnables \/ WorkerSleeps \/ WorkerWakes PROVE Lives
<1>1. /\ UNCHANGED <<queue, storeVars, informerVars, cache, bindings>> /\ UNCHANGED preemptions
      /\ worker.pc \in InPop
      /\ \E pc \in InPop : worker' = [worker EXCEPT !.pc = pc]
  BY DEF WorkerEnables, WorkerSleeps, WorkerWakes, Go, InPop, queueVars, others
<1>2. worker.info = NoInfo /\ WorkerOK
  BY <1>1, LifeFacts DEF WorkerOK
<1>3. worker'.pc \in InPop /\ worker'.info = NoInfo
  BY <1>1, <1>2, GoFacts DEF InPop, Pcs
<1>4. worker'.pc \notin HasRead /\ worker'.pc # "forget" /\ worker.pc \notin HandPcs
  BY <1>1, <1>3 DEF InPop, HasRead, HandPcs
<1> QED BY <1>1, <1>3, <1>4, WorkerLife DEF Reading, WorkerHas

(* The worker goes on with the pod it has in hand. *)
LEMMA GoesOn ==
    ASSUME LInv, UNCHANGED <<queue, storeVars, informerVars, cache, bindings>>,
           worker.info # NoInfo, worker'.info.pod = worker.info.pod,
           worker'.pc \in HandPcs \ HasRead,
           UNCHANGED preemptions
    PROVE  Lives
<1>1. Copy(worker'.info.pod)
  BY LifeFacts DEF HandOK, Copy
<1>2. worker'.pc \notin HasRead /\ worker'.pc # "forget" /\ worker'.pc \in HandPcs
  BY DEF HasRead
<1> QED BY <1>1, <1>2, WorkerLife DEF Reading, WorkerHas

LEMMA InHandFacts ==
    ASSUME LInv, worker.pc \in HandPcs \cup {"done"}
    PROVE  /\ worker.info # NoInfo /\ worker.info \in Infos /\ worker.info.pod \in Pods
           /\ worker.info.pod.name \in Names /\ Copy(worker.info.pod) /\ WorkerOK
           /\ worker.pc \in HasRead =>
                 worker.pod \in Pods /\ worker.pod.name = worker.info.pod.name
<1>1. WorkerOK /\ HandOK
  BY LifeFacts
<1>2. worker.pc \in InHandPcs
  BY DEF InHandPcs, HandPcs, Pcs, InPop
<1>3. worker.info \in Infos /\ worker.info # NoInfo
  BY <1>1, <1>2, WorkerFacts, InfoFacts
<1> QED BY <1>1, <1>3, WorkerFacts, InfoFacts DEF HandOK

LEMMA FailedParts ==
    ASSUME WorkerOK, worker.info \in Infos, NEW P \in SUBSET AllPlugins, Failed(P)
    PROVE  /\ worker'.pc = "reread" /\ worker'.info \in Infos
           /\ worker'.info.pod = worker.info.pod
<1> DEFINE w == [worker EXCEPT !.pc = "reread", !.info.plugins = P, !.pod = NoPod]
<1>1. "reread" \in Pcs
  BY DEF Pcs
<1>2. w.pc = "reread" /\ w.info \in Infos /\ w.info.pod = worker.info.pod
  BY <1>1, PluginsFacts, Zenon
<1>3. worker' = w
  BY DEF Failed
<1> HIDE DEF w
<1> QED BY <1>2, <1>3

LEMMA FailedLife ==
    ASSUME LInv, worker.pc \in HandPcs, NEW P \in SUBSET AllPlugins, Failed(P),
           UNCHANGED <<queue, storeVars, informerVars, cache, bindings>>, UNCHANGED preemptions
    PROVE  Lives
<1>1. worker'.pc = "reread" /\ worker'.info.pod = worker.info.pod /\ worker.info # NoInfo
  BY InHandFacts, FailedParts
<1>2. worker'.pc \in HandPcs \ HasRead
  BY <1>1 DEF HandPcs, HasRead
<1> QED BY <1>1, <1>2, GoesOn

LEMMA WorkerFailsLife == ASSUME LInv, WorkerErrs \/ AssumeRefused PROVE Lives
<1>1. /\ worker.pc \in HandPcs /\ Failed({}) /\ UNCHANGED preemptions
      /\ UNCHANGED <<queue, storeVars, informerVars, cache, bindings>>
  BY DEF WorkerErrs, AssumeRefused, HandPcs, others, queueVars
<1>2. {} \in SUBSET AllPlugins
  OBVIOUS
<1> QED BY <1>1, <1>2, FailedLife

LEMMA RereadFailsLife == ASSUME LInv, RereadFails PROVE Lives
<1> DEFINE w == [worker EXCEPT !.pc = "requeue", !.info.plugins = {}]
<1>1. /\ worker.pc = "reread" /\ worker' = w /\ UNCHANGED preemptions
      /\ UNCHANGED <<queue, storeVars, informerVars, cache, bindings>>
  BY DEF RereadFails, queueVars
<1>2. WorkerOK /\ worker.info \in Infos /\ worker.info # NoInfo
  BY <1>1, InHandFacts DEF HandPcs
<1>3. "requeue" \in Pcs /\ {} \in SUBSET AllPlugins
  BY DEF Pcs
<1>4. w.pc = "requeue" /\ w.info.pod = worker.info.pod
  BY <1>2, <1>3, PluginsFacts, Zenon
<1> HIDE DEF w
<1>5. worker'.pc \in HandPcs \ HasRead /\ worker'.info.pod = worker.info.pod
  BY <1>1, <1>4 DEF HandPcs, HasRead
<1> QED BY <1>1, <1>2, <1>5, GoesOn

LEMMA WorkerReadsLife == ASSUME LInv, WorkerReads PROVE Lives
<1> DEFINE n == worker.info.pod.name
           p == store[n]
<1>1. /\ worker.pc = "read" /\ UNCHANGED preemptions
      /\ UNCHANGED <<queue, storeVars, informerVars, cache, bindings>>
      /\ worker' = IF Pending(p) THEN [worker EXCEPT !.pc = "decide", !.pod = p]
                   ELSE [worker EXCEPT !.pc = "done"]
  BY DEF WorkerReads, queueVars, others
<1>2. WorkerOK /\ n \in Names /\ Copy(worker.info.pod)
  BY <1>1, InHandFacts DEF HandPcs
<1>3. p # NoPod => p.name = n
  BY <1>2, LifeFacts DEF StoreOK
<1> HIDE DEF p
<1>4. /\ worker'.info = worker.info /\ worker'.pc # "forget"
      /\ \/ Pending(p) /\ worker'.pc = "decide" /\ worker'.pod = p
         \/ ~Pending(p) /\ worker'.pc = "done"
  BY <1>1, <1>2 DEF WorkerOK
<1>5. worker'.pc \in HasRead => worker'.pod.name = worker'.info.pod.name
  BY <1>3, <1>4 DEF HasRead, Pending
<1>6. ASSUME NEW m \in Names, Fresh(m)
      PROVE  /\ Reading(m)' => Reading(m) \/ ~store[m].bound
             /\ Pending(store[m]) /\ WorkerHas(m) => WorkerHas(m)'
  <2>1. Reading(m)' => m = n /\ Pending(p)
    BY <1>3, <1>4 DEF Reading, HasRead, Pending
  <2>2. Reading(m)' => ~store[m].bound
    BY <2>1 DEF p, Pending
  <2>3. Pending(p) => worker'.pc \in HandPcs /\ worker'.info.pod.name = n
    BY <1>4 DEF HandPcs
  <2>4. WorkerHas(m) => m = n
    BY DEF WorkerHas
  <2> HIDE DEF n
  <2>5. Pending(store[m]) /\ WorkerHas(m) => WorkerHas(m)'
    BY <2>3, <2>4 DEF p, WorkerHas
  <2> QED BY <2>2, <2>5
<1> HIDE DEF n
<1>7. Copy(worker'.info.pod)
  BY <1>2, <1>4
<1> QED BY <1>1, <1>4, <1>5, <1>6, <1>7, WorkerLife

(* The worker notes who rejected the pod, and keeps the copy it read. *)
LEMMA NotedParts ==
    ASSUME LInv, worker.pc = "decide", NEW P \in SUBSET AllPlugins, NEW pc \in {"clear", "nominate"},
           worker' = [worker EXCEPT !.pc = pc, !.info.plugins = P]
    PROVE  /\ worker'.pc = pc /\ worker'.pod = worker.pod /\ worker'.info.pod = worker.info.pod
           /\ Copy(worker'.info.pod) /\ worker'.pc # "forget" /\ worker'.pc \in HandPcs
           /\ worker'.pod.name = worker'.info.pod.name
           /\ \A n : /\ Reading(n)' => Reading(n)
                     /\ WorkerHas(n) => WorkerHas(n)'
<1> DEFINE w == [worker EXCEPT !.pc = pc, !.info.plugins = P]
<1>1. /\ WorkerOK /\ worker.info \in Infos /\ Copy(worker.info.pod)
      /\ worker.pod.name = worker.info.pod.name
  BY InHandFacts DEF HandPcs, HasRead
<1>2. pc \in Pcs
  BY DEF Pcs
<1>3. w.pc = pc /\ w.pod = worker.pod /\ w.info.pod = worker.info.pod
  BY <1>1, <1>2, PluginsFacts, Zenon
<1> HIDE DEF w
<1>4. worker'.pc = pc /\ worker'.pod = worker.pod /\ worker'.info.pod = worker.info.pod
  BY <1>3 DEF w
<1>5. worker'.pc # "forget" /\ worker'.pc \in HandPcs
  BY <1>4 DEF HandPcs
<1>6. \A n : (Reading(n)' => Reading(n)) /\ (WorkerHas(n) => WorkerHas(n)')
  BY <1>4, <1>5 DEF Reading, WorkerHas, HasRead
<1> QED BY <1>1, <1>4, <1>5, <1>6

LEMMA WorkerRejectsLife == ASSUME LInv, WorkerRejects PROVE Lives
<1>1. /\ worker.pc = "decide" /\ UNCHANGED <<queue, storeVars, informerVars, cache, bindings>>
      /\ UNCHANGED preemptions
  BY DEF WorkerRejects, others, queueVars
<1>2. PICK P \in SUBSET Plugins :
        \/ Failed(P)
        \/ worker' = [worker EXCEPT !.pc = "clear", !.info.plugins = P]
  BY Zenon DEF WorkerRejects
<1>3. P \in SUBSET AllPlugins /\ "clear" \in {"clear", "nominate"} /\ worker.pc \in HandPcs
  BY <1>1 DEF AllPlugins, HandPcs
<1>4. CASE Failed(P)
  BY <1>1, <1>3, <1>4, FailedLife
<1>5. CASE worker' = [worker EXCEPT !.pc = "clear", !.info.plugins = P]
  <2>1. /\ Copy(worker'.info.pod) /\ worker'.pc # "forget"
        /\ worker'.pod.name = worker'.info.pod.name
        /\ \A n : (Reading(n)' => Reading(n)) /\ (WorkerHas(n) => WorkerHas(n)')
    BY <1>1, <1>3, <1>5, NotedParts, Zenon
  <2> QED BY <1>1, <2>1, WorkerLife
<1> QED BY <1>2, <1>4, <1>5

LEMMA WorkerPreemptsLife == ASSUME LInv, WorkerPreempts PROVE Lives
<1>1. /\ worker.pc = "decide" /\ UNCHANGED <<queue, storeVars, informerVars, cache, bindings>>
  BY DEF WorkerPreempts
<1>2. PICK v \in Names, P \in SUBSET Plugins :
        /\ Assigned(store[v]) /\ OldVictim(store[v])
        /\ preemptions' = preemptions \cup
              {[pc |-> "register", pod |-> worker.pod, victim |-> v, failed |-> FALSE]}
        /\ worker' = [worker EXCEPT !.pc = "nominate", !.info.plugins = P]
  BY Zenon DEF WorkerPreempts
<1>3. P \in SUBSET AllPlugins /\ "nominate" \in {"clear", "nominate"}
  BY DEF AllPlugins
<1>4. worker' = [worker EXCEPT !.pc = "nominate", !.info.plugins = P]
  BY <1>2, Zenon
<1>5. /\ Copy(worker'.info.pod) /\ worker'.pc # "forget"
      /\ worker'.pod.name = worker'.info.pod.name
      /\ \A n : (Reading(n)' => Reading(n)) /\ (WorkerHas(n) => WorkerHas(n)')
  BY <1>1, <1>3, <1>4, NotedParts, Zenon
<1>6. \A t \in preemptions' : (\E s \in preemptions : s.victim = t.victim) \/ Old(t.victim)
  <2>1. Old(v)
    BY <1>2 DEF Old, OldVictim, Assigned
  <2>2. preemptions' = preemptions \cup
          {[pc |-> "register", pod |-> worker.pod, victim |-> v, failed |-> FALSE]}
    BY <1>2, Zenon
  <2> QED BY <2>1, <2>2
<1> QED BY <1>1, <1>5, <1>6, WorkerLife

(* handle_scheduling_failure only drops a pod that is not pending any more. *)
LEMMA BackLife ==
    ASSUME LInv, NEW info \in Infos, Copy(info.pod)
    PROVE  /\ Back(info).pc \in {"done", "requeue"}
           /\ Copy(Back(info).info.pod) /\ Back(info).info.pod.name = info.pod.name
           /\ Fresh(info.pod.name) /\ Pending(store[info.pod.name]) => Back(info).pc = "requeue"
<1> DEFINE n == info.pod.name
           p == store[n]
           j == [info EXCEPT !.pod = p]
<1>1. n \in Names /\ info.pod.inc \in 1..MaxInc
  BY InfoFacts, PodFacts
<1>2. p # NoPod => p.name = n /\ p.inc <= incs[n] /\ p.inc = incs[n]
  BY <1>1, LifeFacts DEF StoreOK, CountOK
<1>3. Back(info) = IF p = NoPod \/ Assigned(p) \/ Uid(p) # Uid(info.pod)
                   THEN [pc |-> "done", info |-> info]
                   ELSE [pc |-> "requeue", info |-> j]
  BY DEF Back
<1>4. j.pod = p
  BY DEF Infos
<1>5. Fresh(n) /\ Pending(p) => ~(p = NoPod \/ Assigned(p) \/ Uid(p) # Uid(info.pod))
  <2> SUFFICES ASSUME Fresh(n), Pending(p) PROVE p # NoPod /\ ~Assigned(p) /\ Uid(p) = Uid(info.pod)
    OBVIOUS
  <2>1. p # NoPod /\ ~Assigned(p)
    BY DEF Pending, Assigned
  <2>2. info.pod.inc <= 1 /\ p.inc = 1
    BY <2>1, <1>2 DEF Fresh, Copy
  <2>3. info.pod.inc = 1
    BY <2>2, <1>1
  <2> QED BY <2>1, <2>2, <2>3, <1>2 DEF Uid
<1> HIDE DEF j
<1>6. CASE p = NoPod \/ Assigned(p) \/ Uid(p) # Uid(info.pod)
  <2>1. Back(info).pc = "done" /\ Back(info).info = info
    BY <1>3, <1>6
  <2> QED BY <2>1, <1>5, <1>6
<1>7. CASE ~(p = NoPod \/ Assigned(p) \/ Uid(p) # Uid(info.pod))
  <2>1. Back(info).pc = "requeue" /\ Back(info).info = j
    BY <1>3, <1>7
  <2> QED BY <2>1, <1>2, <1>4, <1>7 DEF Copy
<1> QED BY <1>6, <1>7

LEMMA WorkerRereadsLife == ASSUME LInv, WorkerRereads PROVE Lives
<1> DEFINE b == Back(worker.info)
           n == worker.info.pod.name
<1>1. /\ worker.pc = "reread" /\ worker' = [worker EXCEPT !.pc = b.pc, !.info = b.info]
      /\ UNCHANGED <<queue, storeVars, informerVars, cache, bindings>> /\ UNCHANGED preemptions
  BY DEF WorkerRereads, others, queueVars
<1>2. WorkerOK /\ worker.info \in Infos /\ Copy(worker.info.pod)
  BY <1>1, InHandFacts DEF HandPcs
<1>3. /\ b.pc \in {"done", "requeue"} /\ Copy(b.info.pod) /\ b.info.pod.name = n
      /\ Fresh(n) /\ Pending(store[n]) => b.pc = "requeue"
  BY <1>2, BackLife
<1> HIDE DEF b
<1>4. worker'.pc = b.pc /\ worker'.info = b.info
  BY <1>1, <1>2 DEF WorkerOK
<1>5. worker'.pc \notin HasRead /\ worker'.pc # "forget" /\ Copy(worker'.info.pod)
  BY <1>3, <1>4 DEF HasRead
<1>6. ASSUME NEW m \in Names, Fresh(m)
      PROVE  ~Reading(m)' /\ (Pending(store[m]) /\ WorkerHas(m) => WorkerHas(m)')
  <2>1. ~Reading(m)'
    BY <1>5 DEF Reading
  <2>2. WorkerHas(m) => m = n
    BY DEF WorkerHas
  <2>3. m = n /\ Pending(store[m]) => worker'.pc = "requeue" /\ worker'.info.pod.name = m
    BY <1>3, <1>4, <1>6
  <2> QED BY <2>1, <2>2, <2>3 DEF WorkerHas, HandPcs
<1> HIDE DEF n
<1> QED BY <1>1, <1>5, <1>6, WorkerLife

(* The worker takes a pod from the queue or gives it back. *)
LEMMA WorkerQueueLife ==
    ASSUME LInv, UNCHANGED <<storeVars, informerVars, cache, bindings, preemptions>>, QueuedOK',
           worker'.info # NoInfo => Copy(worker'.info.pod), worker'.pc \notin HasRead,
           \A n \in Names :
               Fresh(n) /\ Pending(store[n]) /\ (PodsIn(queue[n]) # {} \/ WorkerHas(n)) => Held(n)'
    PROVE  Lives
<1>1. /\ UNCHANGED <<store, incs>> /\ UNCHANGED <<incs, seen>> /\ UNCHANGED <<stream, listing>>
      /\ UNCHANGED calls /\ UNCHANGED <<incs, bindings>> /\ UNCHANGED <<cache, bindings>>
  BY DEF storeVars, informerVars
<1>2. News' = News /\ FewerCalls /\ SameVictims
  BY <1>1, NewsSame, SameCalls DEF SameVictims
<1>3. CountOK' /\ BoundsOK' /\ HeardOK'
  BY <1>1, <1>2, LifeFacts, CountSame, BoundsSame, HeardStep
<1>4. HandOK'
  BY <1>1 DEF HandOK, Copy
<1>5. ASSUME NEW n \in Names, Fresh(n)
      PROVE  NewsAt(n)' /\ KeptAt(n)' /\ BindAt(n)'
  <2>1. NewsAt(n) /\ KeptAt(n) /\ BindAt(n) /\ Rises(n)
    BY <1>1, <1>5, LifeFacts, RisesSame
  <2>2. NewsAt(n)'
    BY <1>1, <1>2, <2>1, NewsStep
  <2>3. TaskHas(n) \/ ToAdd(n) => Held(n)'
    BY <1>1 DEF Held, TaskHas, ToAdd
  <2>4. Pending(store[n]) /\ Held(n) => Held(n)'
    BY <1>5, <2>3 DEF Held
  <2>5. KeptAt(n)'
    BY <1>1, <2>1, <2>4 DEF KeptAt, Pending
  <2>6. ~Reading(n)' /\ ~Forgetting(n)'
    BY DEF Reading, Forgetting, HasRead
  <2>7. BindAt(n)'
    BY <1>1, <1>2, <2>1, <2>6, BindWorkerStep
  <2> QED BY <2>2, <2>5, <2>7
<1> QED BY <1>1, <1>3, <1>4, <1>5, LivesIf, FreshSame

LEMMA WorkerReturnsLife == ASSUME LInv, WorkerRequeues \/ WorkerDone PROVE Lives
<1>1. /\ worker.pc \in HandPcs \cup {"done"} /\ Rest
      /\ UNCHANGED <<storeVars, informerVars, cache, bindings, preemptions>>
  BY DEF WorkerRequeues, WorkerDone, HandPcs, others
<1>2. worker'.pc \notin HasRead /\ worker'.info = NoInfo
  BY <1>1, RestFacts DEF HasRead
<1>3. worker.info \in Infos /\ Copy(worker.info.pod) /\ worker.info.pod.name \in Names
  BY <1>1, InHandFacts
<1>4. UNCHANGED incs
  BY <1>1 DEF storeVars
<1>5. CASE WorkerRequeues
  <2>1. Spreads({worker.info.pod}) /\ PodsIn(queue'[worker.info.pod.name]) # {}
    BY <1>3, <1>5, LifeFacts, AddUnschedulablePods DEF WorkerRequeues
  <2>2. QueuedOK'
    BY <1>3, <1>4, <2>1, LifeFacts, QueuedStep
  <2>3. ASSUME NEW n \in Names, PodsIn(queue[n]) # {} \/ WorkerHas(n)
        PROVE  Held(n)'
    BY <2>1, <2>3 DEF Held, Spreads, WorkerHas
  <2> QED BY <1>1, <1>2, <2>2, <2>3, WorkerQueueLife
<1>6. CASE WorkerDone
  <2>1. UNCHANGED queue /\ worker.pc = "done"
    BY <1>6 DEF WorkerDone, Done
  <2>4. Spreads({})
    BY <2>1, SameSpreads
  <2>2. QueuedOK'
    BY <1>4, <2>4, LifeFacts, QueuedStep
  <2>3. ASSUME NEW n \in Names, PodsIn(queue[n]) # {} \/ WorkerHas(n)
        PROVE  Held(n)'
    BY <2>1, <2>3 DEF Held, WorkerHas, HandPcs
  <2> QED BY <1>1, <1>2, <2>2, <2>3, WorkerQueueLife
<1> QED BY <1>5, <1>6

LEMMA WorkerPopsLife == ASSUME LInv, WorkerPops PROVE Lives
<1>1. PICK n \in Names, place \in {"active", "backoff"} :
        /\ Pop(n, place)
        /\ worker' = [pc |-> "read", info |-> Popped(n, place), pod |-> NoPod]
  BY DEF WorkerPops
<1>2. /\ worker.pc = "check" /\ UNCHANGED <<storeVars, informerVars, cache, bindings, preemptions>>
  BY DEF WorkerPops, others
<1>3. worker.info = NoInfo /\ worker.pc \notin HandPcs
  BY <1>2, LifeFacts DEF WorkerOK, InPop, HandPcs
<1> DEFINE i == Popped(n, place)
<1>4. /\ \A m \in Names : PodsIn(queue'[m]) \subseteq PodsIn(queue[m])
      /\ \A m \in Names \ {n} : PodsIn(queue[m]) # {} =>
            \/ PodsIn(queue'[m]) # {}
            \/ \E pod \in PodsIn(queue[m]) : Uid(pod) \in inFlightPods
      /\ i.pod \in PodsIn(queue[n]) /\ i \in Infos
  BY <1>1, LifeFacts, PopPods
<1>5. worker'.pc = "read" /\ worker'.info = i
  BY <1>1
<1> HIDE DEF i
<1>6. ASSUME NEW m \in Names, NEW pod \in PodsIn(queue[m])
      PROVE  pod.name = m
  BY <1>6, LifeFacts, PodsInFacts DEF QueueOK, GoodSlot
<1>7. QueuedOK'
  BY <1>2, <1>4, LifeFacts DEF QueuedOK, Copy, storeVars
<1>8. Copy(worker'.info.pod)
  BY <1>4, <1>5, LifeFacts DEF QueuedOK
<1>9. ASSUME NEW m \in Names, PodsIn(queue[m]) # {} \/ WorkerHas(m)
      PROVE  Held(m)'
  <2>1. PodsIn(queue[m]) # {}
    BY <1>3, <1>9 DEF WorkerHas
  <2>2. CASE m = n
    <3>1. worker'.info.pod.name = m
      BY <1>4, <1>5, <1>6, <2>2
    <3> QED BY <3>1, <1>5 DEF Held, WorkerHas, HandPcs
  <2>3. CASE m # n /\ PodsIn(queue'[m]) # {}
    BY <2>3 DEF Held
  <2>4. CASE \E pod \in PodsIn(queue[m]) : Uid(pod) \in inFlightPods
    <3>1. PICK pod \in PodsIn(queue[m]) : Uid(pod) \in inFlightPods
      BY <2>4
    <3>2. PICK b \in bindings : b.pc = "start" /\ Uid(b.info.pod) = Uid(pod)
      BY <3>1, <1>3, LifeFacts DEF InFlightHeld
    <3>3. b.info.pod.name = m
      BY <3>1, <3>2, <1>6 DEF Uid
    <3>4. b \in bindings' /\ b.pc # "moveself"
      BY <1>2, <3>2
    <3> QED BY <3>3, <3>4 DEF Held, TaskHas
  <2> QED BY <2>1, <2>2, <2>3, <2>4, <1>4
<1>10. worker'.pc \notin HasRead
  BY <1>5 DEF HasRead
<1> QED BY <1>2, <1>7, <1>8, <1>9, <1>10, WorkerQueueLife

-----------------------------------------------------------------------------
(* Assuming, binding and forgetting. *)

(* Whoever has a pod in hand goes on, and the store stays as it is. *)
LEMMA HandsLife ==
    ASSUME LInv, UNCHANGED <<storeVars, informerVars>>, QueuedOK', HandOK', BoundsOK',
           \A n \in Names : Fresh(n) => BindAt(n)',
           \A b \in bindings' : b.pc = "done" /\ Fresh(b.info.pod.name) =>
               ~Pending(store[b.info.pod.name]),
           \A n \in Names : Fresh(n) /\ Pending(store[n]) /\ Held(n) => Held(n)'
    PROVE  Lives
<1>1. /\ UNCHANGED <<store, incs>> /\ UNCHANGED <<incs, seen>> /\ UNCHANGED <<stream, listing>>
      /\ UNCHANGED calls
  BY DEF storeVars, informerVars
<1>2. News' = News /\ FewerCalls
  BY <1>1, NewsSame, SameCalls
<1>3. CountOK' /\ HeardOK'
  BY <1>1, <1>2, LifeFacts, CountSame, HeardStep
<1>4. ASSUME NEW n \in Names, Fresh(n)
      PROVE  NewsAt(n)' /\ KeptAt(n)' /\ BindAt(n)'
  <2>1. NewsAt(n) /\ KeptAt(n) /\ Rises(n)
    BY <1>1, <1>4, LifeFacts, RisesSame
  <2>2. NewsAt(n)'
    BY <1>1, <1>2, <2>1, NewsStep
  <2>3. \A b \in bindings' : b.pc = "done" /\ b.info.pod.name = n => ~Pending(store'[n])
    BY <1>1, <1>4 DEF Pending
  <2>4. Pending(store'[n]) /\ Held(n) => Held(n)'
    BY <1>1, <1>4 DEF Pending
  <2>5. KeptAt(n)'
    BY <1>1, <2>1, <2>3, <2>4, KeptStep
  <2> QED BY <1>4, <2>2, <2>5
<1> QED BY <1>1, <1>3, <1>4, LivesIf, FreshSame

(* A binding task goes on as c, or ends. *)
LEMMA TaskLife ==
    ASSUME LInv, NEW b \in bindings, NEW c, bindings \ {b} \subseteq bindings',
           bindings' \subseteq (bindings \ {b}) \cup {c},
           UNCHANGED <<storeVars, informerVars, worker>>, QueuedOK',
           Copy(c.pod), Copy(c.info.pod), c.pod.name = c.info.pod.name,
           \A n \in Names : Fresh(n) => BindAt(n)',
           c.pc = "done" /\ Fresh(c.info.pod.name) => ~Pending(store[c.info.pod.name]),
           \A n \in Names : PodsIn(queue[n]) # {} => PodsIn(queue'[n]) # {},
           b.pc # "moveself" /\ Fresh(b.info.pod.name) /\ Pending(store[b.info.pod.name]) =>
               Held(b.info.pod.name)'
    PROVE  Lives
<1>1. UNCHANGED <<incs, store>> /\ UNCHANGED <<incs, worker>> /\ UNCHANGED calls
  BY DEF storeVars, informerVars
<1>2. HandOK'
  BY <1>1, LifeFacts, HandSame
<1>3. BoundsOK'
  BY <1>1, LifeFacts DEF BoundsOK, Copy
<1>4. ASSUME NEW d \in bindings', d.pc = "done", Fresh(d.info.pod.name)
      PROVE  ~Pending(store[d.info.pod.name])
  <2>1. CASE d = c
    BY <2>1, <1>4
  <2>2. CASE d \in bindings
    <3>1. d.info \in Infos
      BY <2>2, LifeFacts, TaskFacts
    <3>2. d.info.pod.name \in Names
      BY <3>1, InfoFacts
    <3> QED BY <2>2, <3>2, <1>4, LifeFacts DEF KeptAt
  <2> QED BY <2>1, <2>2
<1>5. ASSUME NEW n \in Names, Fresh(n), Pending(store[n]), Held(n)
      PROVE  Held(n)'
  <2>1. CASE PodsIn(queue[n]) # {}
    BY <2>1 DEF Held
  <2>2. CASE WorkerHas(n)
    BY <2>2, <1>1 DEF Held, WorkerHas
  <2>3. CASE ToAdd(n)
    BY <2>3, <1>1 DEF Held, ToAdd
  <2>4. CASE TaskHas(n)
    <3>1. PICK d \in bindings : d.info.pod.name = n /\ d.pc # "moveself"
      BY <2>4 DEF TaskHas
    <3>2. CASE d = b
      BY <3>1, <3>2, <1>5
    <3>3. CASE d # b
      BY <3>1, <3>3 DEF Held, TaskHas
    <3> QED BY <3>2, <3>3
  <2> QED BY <1>5, <2>1, <2>2, <2>3, <2>4 DEF Held
<1> QED BY <1>2, <1>3, <1>4, <1>5, HandsLife

(* What a task is about, and what its moves keep. *)
LEMMA TaskParts ==
    ASSUME LInv, NEW b \in bindings
    PROVE  /\ b.info \in Infos /\ b.pod \in Pods /\ b.pod.name \in Names
           /\ Copy(b.pod) /\ Copy(b.info.pod) /\ b.pod.name = b.info.pod.name
           /\ \A pc \in BindingPcs :
                 LET c == [b EXCEPT !.pc = pc]
                 IN  c.pod = b.pod /\ c.info = b.info /\ c.pc = pc
<1>1. TasksOK /\ BoundsOK
  BY LifeFacts
<1>2. b \in BindingTasks /\ b.info \in Infos /\ b.pod \in Pods
  BY <1>1, TaskFacts
<1>3. \A pc \in BindingPcs :
         LET c == [b EXCEPT !.pc = pc]
         IN  c.pod = b.pod /\ c.info = b.info /\ c.pc = pc
  BY <1>2 DEF BindingTasks
<1> QED BY <1>1, <1>2, <1>3, PodFacts DEF BoundsOK

(* The task goes on with the pod it has, and stays out of the queue. *)
LEMMA TaskGoesOn ==
    ASSUME LInv, NEW b \in bindings, NEW c, Step(b, c), b.pc # "moveself", c.pc # "moveself",
           UNCHANGED <<queue, storeVars, informerVars, cache, worker, preemptions>>,
           c.pod = b.pod, Copy(c.info.pod), c.info.pod.name = b.info.pod.name,
           c.pc = "done" /\ Fresh(c.info.pod.name) => ~Pending(store[c.info.pod.name]),
           c.pc \in Binds => b.pc \in Binds
    PROVE  Lives
<1>1. /\ bindings \ {b} \subseteq bindings' /\ bindings' \subseteq (bindings \ {b}) \cup {c}
      /\ c \in bindings'
  BY DEF Step
<1>2. /\ Copy(b.pod) /\ b.pod.name = b.info.pod.name /\ UNCHANGED <<store, incs>>
  BY TaskParts DEF storeVars
<1>3. Spreads({})
  BY SameSpreads
<1>4. QueuedOK'
  BY <1>2, <1>3, LifeFacts, QueuedStep
<1>5. ASSUME NEW n \in Names, Fresh(n)
      PROVE  BindAt(n)'
  <2>1. BindAt(n) /\ store'[n] = store[n]
    BY <1>2, <1>5, LifeFacts
  <2>2. Binder(c, n) => Binder(b, n)
    BY DEF Binder
  <2> QED BY <1>1, <2>1, <2>2, BindTaskStep
<1>6. Held(b.info.pod.name)'
  <2> DEFINE n == b.info.pod.name
  <2>1. \E d \in bindings' : d.info.pod.name = n /\ d.pc # "moveself"
    BY <1>1
  <2> HIDE DEF n
  <2>2. TaskHas(n)'
    BY <2>1 DEF TaskHas, n
  <2> QED BY <2>2 DEF Held, n
<1> QED BY <1>1, <1>2, <1>4, <1>5, <1>6, TaskLife

LEMMA BindingStartsLife == ASSUME LInv, NEW b \in bindings, BindingStarts(b) PROVE Lives
<1> DEFINE c == [b EXCEPT !.pc = "bind"]
<1>1. /\ b.pc = "start" /\ Step(b, c)
      /\ UNCHANGED <<queue, storeVars, informerVars, cache, worker, preemptions>>
  BY DEF BindingStarts, Done, aside
<1>2. c.pc = "bind" /\ c.pod = b.pod /\ c.info = b.info
  BY TaskParts DEF BindingPcs
<1> HIDE DEF c
<1>3. Copy(c.info.pod) /\ b.pc \in Binds
  BY <1>1, <1>2, TaskParts DEF Binds
<1> QED BY <1>1, <1>2, <1>3, TaskGoesOn

LEMMA BindFailsLife == ASSUME LInv, NEW b \in bindings, BindFails(b) PROVE Lives
<1>1. PICK r \in BOOLEAN : Step(b, [b EXCEPT !.pc = "abort", !.rejected = r])
  BY Zenon DEF BindFails
<1> DEFINE c == [b EXCEPT !.pc = "abort", !.rejected = r]
<1>2. /\ b.pc \in {"bind", "rebind"}
      /\ UNCHANGED <<queue, storeVars, informerVars, cache, worker, preemptions>>
  BY DEF BindFails, aside, queueVars
<1>3. b \in BindingTasks
  BY LifeFacts, TaskFacts
<1>4. c.pc = "abort" /\ c.pod = b.pod /\ c.info = b.info
  BY <1>3 DEF BindingTasks
<1>5. Step(b, c)
  BY <1>1
<1> HIDE DEF c
<1>6. Copy(c.info.pod) /\ b.pc \in Binds
  BY <1>2, <1>4, TaskParts DEF Binds
<1> QED BY <1>2, <1>4, <1>5, <1>6, TaskGoesOn

LEMMA BindingRereadsLife == ASSUME LInv, NEW b \in bindings, BindingRereads(b) PROVE Lives
<1> DEFINE k == Back(b.info)
           c == [b EXCEPT !.pc = k.pc, !.info = k.info]
           d == [b EXCEPT !.pc = "requeue"]
<1>1. /\ b.pc = "reread" /\ (Step(b, c) \/ Step(b, d))
      /\ UNCHANGED <<queue, storeVars, informerVars, cache, worker, preemptions>>
  BY DEF BindingRereads, aside, queueVars
<1>2. b \in BindingTasks /\ b.info \in Infos /\ Copy(b.info.pod)
  BY LifeFacts, TaskFacts, TaskParts
<1>3. /\ k.pc \in {"done", "requeue"} /\ Copy(k.info.pod) /\ k.info.pod.name = b.info.pod.name
      /\ Fresh(b.info.pod.name) /\ Pending(store[b.info.pod.name]) => k.pc = "requeue"
  BY <1>2, BackLife
<1> HIDE DEF k
<1>4. c.pc = k.pc /\ c.info = k.info /\ c.pod = b.pod
  BY <1>2 DEF BindingTasks
<1>5. d.pc = "requeue" /\ d.info = b.info /\ d.pod = b.pod
  BY <1>2 DEF BindingTasks
<1> HIDE DEF c, d
<1>6. c.pc \notin Binds /\ c.pc # "moveself" /\ d.pc \notin Binds
  BY <1>3, <1>4, <1>5 DEF Binds
<1>7. c.pc = "done" /\ Fresh(c.info.pod.name) => ~Pending(store[c.info.pod.name])
  BY <1>3, <1>4
<1>8. CASE Step(b, c)
  BY <1>1, <1>3, <1>4, <1>6, <1>7, <1>8, TaskGoesOn
<1>9. CASE Step(b, d)
  BY <1>1, <1>2, <1>5, <1>6, <1>9, TaskGoesOn
<1> QED BY <1>1, <1>8, <1>9

(* A task past its bind touches the queue and goes on as c, or ends. *)
LEMMA LateLife ==
    ASSUME LInv, NEW b \in bindings, NEW c, Step(b, c) \/ End(b), b.pc \notin Binds,
           c.pc \notin Binds \cup {"done"}, c.pod = b.pod, c.info = b.info,
           UNCHANGED <<storeVars, informerVars, cache, worker, preemptions>>,
           NEW P, Spreads(P), \A pod \in P : Copy(pod),
           b.pc # "moveself" /\ Fresh(b.info.pod.name) /\ Pending(store[b.info.pod.name]) =>
               Held(b.info.pod.name)'
    PROVE  Lives
<1>1. bindings \ {b} \subseteq bindings' /\ bindings' \subseteq (bindings \ {b}) \cup {c}
  BY DEF Step, End
<1>2. /\ Copy(c.pod) /\ Copy(c.info.pod) /\ c.pod.name = c.info.pod.name /\ UNCHANGED <<store, incs>>
  BY TaskParts DEF storeVars
<1>3. QueuedOK' /\ \A n \in Names : PodsIn(queue[n]) # {} => PodsIn(queue'[n]) # {}
  BY <1>2, LifeFacts, QueuedStep DEF Spreads
<1>4. ASSUME NEW n \in Names, Fresh(n)
      PROVE  BindAt(n)'
  <2>1. BindAt(n) /\ store'[n] = store[n] /\ ~Binder(c, n)
    BY <1>2, <1>4, LifeFacts DEF Binder
  <2> QED BY <1>1, <2>1, BindTaskStep
<1> QED BY <1>1, <1>2, <1>3, <1>4, TaskLife

LEMMA BindingMovesLife == ASSUME LInv, NEW b \in bindings, BindingMoves(b) PROVE Lives
<1> DEFINE c == [b EXCEPT !.pc = "reread"]
<1>1. /\ b.pc \in {"move", "moveself"}
      /\ \/ b.pc = "move" /\ Step(b, c)
         \/ b.pc = "moveself" /\ End(b)
      /\ UNCHANGED <<storeVars, informerVars, cache, worker, preemptions>>
  BY DEF BindingMoves, aside
<1>2. Spreads({})
  BY LifeFacts, MoveAllPods DEF BindingMoves
<1>3. c.pc = "reread" /\ c.pod = b.pod /\ c.info = b.info
  BY TaskParts DEF BindingPcs
<1> HIDE DEF c
<1>4. b.pc \notin Binds /\ c.pc \notin Binds \cup {"done"}
  BY <1>1, <1>3 DEF Binds
<1>5. b.pc # "moveself" => Held(b.info.pod.name)'
  <2> SUFFICES ASSUME b.pc # "moveself" PROVE Held(b.info.pod.name)'
    OBVIOUS
  <2>1. c \in bindings' /\ c.pc # "moveself"
    BY <1>1, <1>3 DEF Step
  <2> QED BY <2>1, <1>3 DEF Held, TaskHas
<1> QED BY <1>1, <1>2, <1>3, <1>4, <1>5, LateLife

LEMMA BindingReturnsLife == ASSUME LInv, NEW b \in bindings, BindingReturns(b) PROVE Lives
<1> DEFINE c == [b EXCEPT !.pc = "moveself"]
           n == b.info.pod.name
<1>1. /\ \/ b.pc = "requeue" /\ AddUnschedulableIfNotPresent(b.info)
         \/ b.pc = "done" /\ UNCHANGED queue
      /\ Step(b, c) \/ End(b)
      /\ UNCHANGED <<storeVars, informerVars, cache, worker, preemptions>>
  BY DEF BindingReturns, aside, Done
<1>2. c.pc = "moveself" /\ c.pod = b.pod /\ c.info = b.info
  BY TaskParts DEF BindingPcs
<1>3. b.info \in Infos /\ Copy(b.info.pod) /\ n \in Names
  BY TaskParts
<1> HIDE DEF c
<1>4. b.pc \notin Binds /\ c.pc \notin Binds \cup {"done"}
  BY <1>1, <1>2 DEF Binds
<1> DEFINE P == {b.info.pod}
<1>5. Spreads(P) /\ (Fresh(n) /\ Pending(store[n]) => PodsIn(queue'[n]) # {})
  <2>1. CASE b.pc = "requeue" /\ AddUnschedulableIfNotPresent(b.info)
    BY <2>1, <1>3, LifeFacts, AddUnschedulablePods
  <2>2. CASE b.pc = "done" /\ UNCHANGED queue
    <3>1. Fresh(n) => ~Pending(store[n])
      BY <2>2, <1>3, LifeFacts DEF KeptAt
    <3> QED BY <2>2, <3>1, SameSpreads
  <2> QED BY <1>1, <2>1, <2>2
<1>6. Fresh(n) /\ Pending(store[n]) => Held(n)'
  BY <1>5 DEF Held
<1>7. \A pod \in P : Copy(pod)
  BY <1>3
<1> HIDE DEF P
<1> QED BY <1>1, <1>2, <1>4, <1>5, <1>6, <1>7, LateLife

(* The cache of the first pods, where one pod is assumed or forgotten. *)
LEMMA OtherUids ==
    ASSUME NEW pod \in Pods, \A w \in Uids \ {Uid(pod)} : cache'[w] = cache[w],
           NEW m \in Names, m # pod.name
    PROVE  cache'[<<m, 1>>] = cache[<<m, 1>>]
<1>1. <<m, 1>> \in Uids /\ <<m, 1>> # Uid(pod)
  BY QueueAssumption DEF Uids, Uid
<1> QED BY <1>1

LEMMA CacheMoves ==
    ASSUME CacheOK, NEW u \in Uids, cache' = [cache EXCEPT ![u] = "assumed"] \/ ForgetPod(u)
    PROVE  \A w \in Uids \ {u} : cache'[w] = cache[w]
BY DEF CacheOK, ForgetPod

LEMMA AbortLife == ASSUME LInv, NEW b \in bindings, Abort(b) PROVE Lives
<1> DEFINE f == Forgettable(Uid(b.pod))
           pc == IF f /\ ~b.rejected THEN "move" ELSE "reread"
           c == [b EXCEPT !.forgotten = f, !.info.plugins = {}, !.pc = pc]
           i == [b.info EXCEPT !.plugins = {}]
           o == b.pod.name
<1>1. /\ b.pc = "abort" /\ ForgetPod(Uid(b.pod)) /\ Step(b, c)
      /\ UNCHANGED <<storeVars, informerVars, worker>> /\ UNCHANGED <<queue, preemptions>>
  BY DEF Abort, aside, queueVars
<1>2. /\ b.pod \in Pods /\ o \in Names /\ Copy(b.pod) /\ Copy(b.info.pod)
      /\ o = b.info.pod.name /\ b \in BindingTasks /\ b.info \in Infos
  BY TaskParts, LifeFacts, TaskFacts
<1>3. c.pod = b.pod /\ c.info.pod = b.info.pod /\ c.pc \in {"move", "reread"}
  <2>1. i.pod = b.info.pod
    BY <1>2 DEF Infos
  <2>2. c = [b EXCEPT !.forgotten = f, !.info = i, !.pc = pc]
    BY <1>2 DEF BindingTasks
  <2>3. pc \in {"move", "reread"}
    OBVIOUS
  <2> HIDE DEF f, pc, i, c
  <2> QED BY <1>2, <2>1, <2>2, <2>3 DEF BindingTasks
<1> HIDE DEF f, pc, i, c, o
<1>4. /\ c.pc \notin Binds /\ c.pc # "done" /\ c.pc # "moveself" /\ b.pc \in Binds
      /\ c \in bindings' /\ bindings \ {b} \subseteq bindings'
      /\ bindings' \subseteq (bindings \ {b}) \cup {c}
  BY <1>1, <1>3 DEF Binds, Step
<1>5. UNCHANGED <<store, incs>> /\ UNCHANGED <<worker, preemptions>>
  BY <1>1 DEF storeVars
<1>6. \A w \in Uids \ {Uid(b.pod)} : cache'[w] = cache[w]
  BY <1>1, <1>2, LifeFacts, PodFacts, CacheMoves
<1>7. ASSUME NEW n \in Names, Fresh(n)
      PROVE  BindAt(n)'
  <2>1. BindAt(n) /\ store'[n] = store[n] /\ ~Binder(c, n)
    BY <1>4, <1>5, <1>7, LifeFacts DEF Binder
  <2>2. CASE n # o
    <3>1. cache'[<<n, 1>>] = cache[<<n, 1>>]
      BY <1>2, <1>6, <2>2, OtherUids DEF o
    <3> QED BY <1>4, <1>5, <2>1, <3>1, BindTaskStep
  <2>3. CASE n = o
    <3>1. Binder(b, n)
      BY <1>4, <2>3 DEF Binder, o
    <3>2. ~store[n].bound
      BY <2>1, <3>1 DEF BindAt, BoundAt
    <3>3. /\ ~Forgetting(n)
          /\ \A d \in bindings : Binder(d, n) => d = b
      BY <2>1, <3>1, <3>2 DEF BindAt, UnboundAt
    <3>4. ~Forgetting(n)' /\ \A d \in bindings' : ~Binder(d, n)
      BY <1>4, <1>5, <2>1, <3>3 DEF Forgetting
    <3>5. EvictAt(n)'
      BY <1>5, <2>1 DEF BindAt, EvictAt, Old, Reading
    <3>6. BoundAt(n)' /\ UnboundAt(n)'
      BY <2>1, <3>2, <3>4 DEF BoundAt, UnboundAt, Binder
    <3> QED BY <3>5, <3>6 DEF BindAt
  <2> QED BY <2>2, <2>3
<1>8. Spreads({})
  BY <1>1, SameSpreads
<1>9. QueuedOK'
  BY <1>5, <1>8, LifeFacts, QueuedStep
<1>11. \A n \in Names : PodsIn(queue[n]) # {} => PodsIn(queue'[n]) # {}
  BY <1>1
<1>12. c.pod.name = c.info.pod.name /\ Copy(c.pod) /\ Copy(c.info.pod)
  BY <1>2, <1>3 DEF o
<1>10. Held(b.info.pod.name)'
  BY <1>3, <1>4 DEF Held, TaskHas
<1> QED BY <1>1, <1>4, <1>7, <1>9, <1>10, <1>11, <1>12, TaskLife

LEMMA FirstUid ==
    ASSUME LInv, NEW pod \in Pods, Copy(pod), Fresh(pod.name)
    PROVE  Uid(pod) = <<pod.name, 1>> /\ <<pod.name, 1>> \in Uids
<1>1. pod.inc \in 1..MaxInc /\ pod.inc <= 1
  BY PodFacts DEF Copy, Fresh
<1>2. pod.inc = 1
  BY <1>1
<1> QED BY <1>2, PodFacts DEF Uid

LEMMA SpreadsNothing ==
    ASSUME LInv, UNCHANGED <<queue, incs>>
    PROVE  QueuedOK'
<1>1. Spreads({})
  BY SameSpreads
<1> QED BY <1>1, LifeFacts, QueuedStep

(* The worker has read the pod it assumes or forgets. *)
LEMMA ReadFacts ==
    ASSUME LInv, worker.pc \in HasRead
    PROVE  /\ worker.pod \in Pods /\ worker.pod.name \in Names /\ Copy(worker.pod)
           /\ worker.info \in Infos /\ Copy(worker.info.pod)
           /\ worker.info.pod.name = worker.pod.name /\ WorkerOK /\ CacheOK
           /\ Uid(worker.pod) \in Uids
<1>1. worker.pc \in HandPcs
  BY DEF HasRead, HandPcs
<1>2. /\ worker.pod \in Pods /\ worker.pod.name = worker.info.pod.name
      /\ worker.info \in Infos /\ Copy(worker.info.pod) /\ WorkerOK
  BY <1>1, InHandFacts
<1>3. worker.pod # NoPod
  BY <1>2 DEF WorkerOK
<1> QED BY <1>2, <1>3, LifeFacts, PodFacts DEF WorkerOK, Copy

(* The first pod of a name is assumed only while nobody binds it. *)
LEMMA AssumesFacts ==
    ASSUME LInv, worker.pc = "decide", cache[Uid(worker.pod)] = "absent",
           cache' = [cache EXCEPT ![Uid(worker.pod)] = "assumed"], Fresh(worker.pod.name)
    PROVE  LET n == worker.pod.name
           IN  /\ ~store[n].bound /\ cache'[<<n, 1>>] = "assumed"
               /\ \A b \in bindings : ~Binder(b, n)
<1> DEFINE n == worker.pod.name
           u == Uid(worker.pod)
<1>1. /\ worker.pod \in Pods /\ n \in Names /\ Copy(worker.pod) /\ CacheOK
      /\ u \in Uids
  BY ReadFacts DEF HasRead
<1>2. u = <<n, 1>>
  BY <1>1, FirstUid
<1>3. cache[u] = "absent" /\ cache'[u] = "assumed"
  BY <1>1 DEF CacheOK
<1> HIDE DEF n, u
<1>4. cache[<<n, 1>>] = "absent" /\ cache'[<<n, 1>>] = "assumed"
  BY <1>2, <1>3
<1>5. BindAt(n) /\ Reading(n)
  BY <1>1, LifeFacts DEF Reading, HasRead, n
<1>6. ~Old(n)
  BY <1>5 DEF BindAt, EvictAt
<1>7. ~store[n].bound
  BY <1>4, <1>5, <1>6 DEF BindAt, BoundAt
<1>8. \A b \in bindings : ~Binder(b, n)
  <2>1. \A b \in bindings : Binder(b, n) => cache[<<n, 1>>] = "assumed"
    BY <1>5, <1>7 DEF BindAt, UnboundAt
  <2> QED BY <1>4, <2>1
<1> QED BY <1>4, <1>7, <1>8 DEF n

LEMMA WorkerAssumesLife == ASSUME LInv, WorkerAssumes PROVE Lives
<1> DEFINE c == [pc |-> "start", info |-> worker.info, pod |-> worker.pod,
                 rejected |-> FALSE, forgotten |-> FALSE]
           o == worker.pod.name
<1>1. /\ worker.pc = "decide" /\ cache[Uid(worker.pod)] = "absent"
      /\ cache' = [cache EXCEPT ![Uid(worker.pod)] = "assumed"]
      /\ UNCHANGED <<storeVars, informerVars>> /\ UNCHANGED <<queue, preemptions>>
      /\ \/ bindings' = bindings \cup {c} /\ Rest
         \/ Go("forget") /\ UNCHANGED bindings
  BY DEF WorkerAssumes, queueVars
<1>2. /\ worker.pod \in Pods /\ o \in Names /\ Copy(worker.pod)
      /\ worker.info \in Infos /\ Copy(worker.info.pod) /\ worker.info.pod.name = o
      /\ WorkerOK /\ CacheOK /\ Uid(worker.pod) \in Uids
  BY <1>1, ReadFacts DEF HasRead
<1>3. c.pc = "start" /\ c.pod = worker.pod /\ c.info = worker.info
  OBVIOUS
<1> HIDE DEF c
<1>4. \A w \in Uids \ {Uid(worker.pod)} : cache'[w] = cache[w]
  BY <1>1, <1>2, CacheMoves
<1>5. Fresh(o) => /\ ~store[o].bound /\ cache'[<<o, 1>>] = "assumed"
                  /\ \A b \in bindings : ~Binder(b, o)
  BY <1>1, AssumesFacts
<1>6. UNCHANGED <<store, incs>> /\ UNCHANGED calls
  BY <1>1 DEF storeVars, informerVars
<1>7. QueuedOK'
  BY <1>1, <1>6, SpreadsNothing
<1>8. \/ /\ bindings' = bindings \cup {c} /\ worker'.pc = "enable" /\ worker'.info = NoInfo
      \/ /\ UNCHANGED bindings /\ worker'.pc = "forget" /\ worker'.pod = worker.pod
         /\ worker'.info = worker.info
  <2>1. CASE bindings' = bindings \cup {c} /\ Rest
    BY <2>1, RestFacts
  <2>2. CASE Go("forget") /\ UNCHANGED bindings
    <3>1. /\ worker'.pc = "forget" /\ worker'.pod = worker.pod /\ worker'.info = worker.info
      BY <2>2, <1>2, GoFacts DEF Go, Pcs
    <3> QED BY <2>2, <3>1
  <2> QED BY <1>1, <2>1, <2>2
<1>9. HandOK'
  BY <1>2, <1>6, <1>8 DEF HandOK, HasRead, Copy
<1>10. BoundsOK'
  <2>1. \A b \in bindings : Copy(b.pod) /\ Copy(b.info.pod) /\ b.pod.name = b.info.pod.name
    BY LifeFacts DEF BoundsOK
  <2>2. \A b \in bindings' : b = c \/ b \in bindings
    BY <1>8
  <2>3. Copy(c.pod) /\ Copy(c.info.pod) /\ c.pod.name = c.info.pod.name
    BY <1>2, <1>3
  <2> HIDE DEF o
  <2>4. \A b \in bindings' : Copy(b.pod) /\ Copy(b.info.pod) /\ b.pod.name = b.info.pod.name
    BY <2>1, <2>2, <2>3
  <2> QED BY <2>4, <1>6 DEF BoundsOK, Copy
<1>11. ASSUME NEW b \in bindings', b.pc = "done", Fresh(b.info.pod.name)
       PROVE  ~Pending(store[b.info.pod.name])
  <2>1. b \in bindings
    BY <1>3, <1>8, <1>11
  <2>2. b.info.pod.name \in Names
    BY <2>1, TaskParts
  <2> QED BY <2>1, <2>2, <1>11, LifeFacts DEF KeptAt
<1>12. ASSUME NEW n \in Names, Held(n)
       PROVE  Held(n)'
  <2>1. CASE PodsIn(queue[n]) # {} \/ TaskHas(n) \/ ToAdd(n)
    BY <2>1, <1>1, <1>6, <1>8 DEF Held, TaskHas, ToAdd
  <2>2. CASE WorkerHas(n)
    <3>1. n = o
      BY <2>2, <1>2 DEF WorkerHas
    <3> HIDE DEF o
    <3>2. TaskHas(n)' \/ WorkerHas(n)'
      BY <3>1, <1>2, <1>3, <1>8 DEF TaskHas, WorkerHas, HandPcs
    <3> QED BY <3>2 DEF Held
  <2> QED BY <1>12, <2>1, <2>2 DEF Held
<1>13. ASSUME NEW n \in Names, Fresh(n)
       PROVE  BindAt(n)'
  <2>1. BindAt(n) /\ store'[n] = store[n]
    BY <1>6, <1>13, LifeFacts
  <2>2. CASE n # o
    <3>1. cache'[<<n, 1>>] = cache[<<n, 1>>]
      BY <1>2, <1>4, <2>2, OtherUids
    <3>2. ~Reading(n)' /\ ~Forgetting(n)'
      BY <1>8, <2>2 DEF Reading, Forgetting, HasRead
    <3>3. \A b \in bindings' : Binder(b, n) => b \in bindings
      BY <1>3, <1>8, <2>2 DEF Binder
    <3> HIDE DEF o
    <3>4. EvictAt(n)'
      BY <1>1, <2>1, <3>2 DEF BindAt, EvictAt, Old
    <3>5. BoundAt(n)' /\ UnboundAt(n)'
      BY <2>1, <3>1, <3>2, <3>3 DEF BindAt, BoundAt, UnboundAt, Old, Binder
    <3> QED BY <3>4, <3>5 DEF BindAt
  <2>3. CASE n = o
    <3>1. /\ ~store[n].bound /\ cache'[<<n, 1>>] = "assumed"
          /\ \A b \in bindings : ~Binder(b, n)
      BY <1>5, <1>13, <2>3
    <3>2. \A b \in bindings' : Binder(b, n) => b = c /\ ~Forgetting(n)'
      BY <1>8, <3>1 DEF Forgetting
    <3> HIDE DEF o
    <3>3. EvictAt(n)'
      BY <1>1, <2>1, <3>1 DEF BindAt, EvictAt, Old
    <3>4. BoundAt(n)' /\ UnboundAt(n)'
      BY <2>1, <3>1, <3>2 DEF BoundAt, UnboundAt, Binder
    <3> QED BY <3>3, <3>4 DEF BindAt
  <2> QED BY <2>2, <2>3
<1> HIDE DEF o
<1> QED BY <1>1, <1>7, <1>9, <1>10, <1>11, <1>12, <1>13, HandsLife

LEMMA ReserveFailedLife == ASSUME LInv, ReserveFailed PROVE Lives
<1> DEFINE o == worker.pod.name
<1>1. /\ worker.pc = "forget" /\ ForgetPod(Uid(worker.pod)) /\ Failed({})
      /\ UNCHANGED <<storeVars, informerVars>> /\ UNCHANGED <<queue, preemptions, bindings>>
  BY DEF ReserveFailed, queueVars, others
<1>2. /\ worker.pod \in Pods /\ o \in Names /\ WorkerOK /\ CacheOK /\ Uid(worker.pod) \in Uids
      /\ worker.info \in Infos /\ Copy(worker.info.pod) /\ worker.info.pod.name = o
  BY <1>1, ReadFacts DEF HasRead
<1>3. \A w \in Uids \ {Uid(worker.pod)} : cache'[w] = cache[w]
  BY <1>1, <1>2, CacheMoves
<1>4. UNCHANGED <<store, incs>> /\ UNCHANGED calls /\ UNCHANGED <<incs, bindings>>
  BY <1>1 DEF storeVars, informerVars
<1>5. {} \in SUBSET AllPlugins
  OBVIOUS
<1>6. worker'.pc = "reread" /\ worker'.info.pod = worker.info.pod
  BY <1>1, <1>2, <1>5, FailedParts
<1>7. QueuedOK' /\ BoundsOK'
  BY <1>1, <1>4, LifeFacts, SpreadsNothing, BoundsSame
<1>8. HandOK'
  BY <1>2, <1>4, <1>6 DEF HandOK, HasRead, Copy
<1>9. ASSUME NEW b \in bindings', b.pc = "done", Fresh(b.info.pod.name)
      PROVE  ~Pending(store[b.info.pod.name])
  <2>1. b \in bindings /\ b.info.pod.name \in Names
    BY <1>1, TaskParts
  <2> QED BY <2>1, <1>9, LifeFacts DEF KeptAt
<1>10. ASSUME NEW n \in Names, Held(n)
       PROVE  Held(n)'
  BY <1>1, <1>4, <1>6, <1>10 DEF Held, TaskHas, ToAdd, WorkerHas, HandPcs
<1>11. ASSUME NEW n \in Names, Fresh(n)
       PROVE  BindAt(n)'
  <2>1. BindAt(n) /\ store'[n] = store[n] /\ ~Reading(n)' /\ ~Forgetting(n)'
    BY <1>4, <1>6, <1>11, LifeFacts DEF Reading, Forgetting, HasRead
  <2>2. EvictAt(n)'
    BY <1>1, <2>1 DEF BindAt, EvictAt, Old
  <2>3. CASE n # o
    <3>1. cache'[<<n, 1>>] = cache[<<n, 1>>]
      BY <1>2, <1>3, <2>3, OtherUids
    <3> HIDE DEF o
    <3>2. BoundAt(n)' /\ UnboundAt(n)'
      BY <1>1, <2>1, <3>1 DEF BindAt, BoundAt, UnboundAt, Old, Binder
    <3> QED BY <2>2, <3>2 DEF BindAt
  <2>4. CASE n = o
    <3>1. Forgetting(n)
      BY <1>1, <2>4 DEF Forgetting
    <3>2. ~store[n].bound
      BY <2>1, <3>1 DEF BindAt, BoundAt
    <3>3. \A b \in bindings : ~Binder(b, n)
      BY <2>1, <3>1, <3>2 DEF BindAt, UnboundAt
    <3> HIDE DEF o
    <3>4. BoundAt(n)' /\ UnboundAt(n)'
      BY <1>1, <2>1, <3>2, <3>3 DEF BoundAt, UnboundAt, Binder
    <3> QED BY <2>2, <3>4 DEF BindAt
  <2> QED BY <2>3, <2>4
<1> HIDE DEF o
<1> QED BY <1>1, <1>7, <1>8, <1>9, <1>10, <1>11, HandsLife

-----------------------------------------------------------------------------
(* Writes to the store. *)

LEMMA EmitNews ==
    ASSUME LInv, NEW x \in Watched, Emit(x.del, x.pod), UNCHANGED listing
    PROVE  \A y \in News' : y \in News \/ y = x
<1>1. stream \in Seq(Watched)
  BY LifeFacts DEF InformerOK
<1>2. [del |-> x.del, pod |-> x.pod] = x
  BY DEF Watched
<1>3. stream' = stream \/ stream' = Append(stream, x)
  BY <1>2 DEF Emit
<1>4. \A i \in 1..Len(stream') : stream'[i] = x \/ \E j \in 1..Len(stream) : stream'[i] = stream[j]
  <2>1. CASE stream' = stream
    BY <2>1
  <2>2. CASE stream' = Append(stream, x)
    <3>1. /\ Len(stream') = Len(stream) + 1 /\ stream'[Len(stream) + 1] = x /\ Len(stream) \in Nat
          /\ \A i \in 1..Len(stream) : stream'[i] = stream[i]
      BY <2>2, <1>1, AppendFacts
    <3>2. \A i \in 1..Len(stream') : i \in 1..Len(stream) \/ i = Len(stream) + 1
      BY <3>1
    <3> QED BY <3>1, <3>2
  <2> QED BY <1>3, <2>1, <2>2
<1> QED BY <1>4 DEF News

(* What a write of the pod stored under n makes of it. *)
LEMMA WrittenFacts ==
    ASSUME LInv, NEW n \in Names, store[n] # NoPod, NEW p \in Pods, p.name = n,
           Uid(p) = Uid(store[n]), p.rv = store[n].rv, Write(p), UNCHANGED incs
    PROVE  /\ store'[n].bound = p.bound /\ store'[n].fin = p.fin /\ 2 <= store'[n].rv
           /\ store'[n] # NoPod /\ store'[n].name = n /\ store'[n].inc = incs[n]
           /\ \A m \in Names \ {n} : store'[m] = store[m]
           /\ Pending(store'[n]) => ~p.bound /\ ~p.fin
           /\ store'[n].rv # 1 /\ 1 <= store'[n].rv /\ store'[n] \in Pods
           /\ Emit(FALSE, store'[n])
<1> DEFINE q == [p EXCEPT !.rv = @ + 1]
<1>1. EnvOK /\ CountOK
  BY LifeFacts DEF LInv, IInv
<1>2. store'[n] = q /\ store'[n] \in Pods /\ \A m \in Names \ {n} : store'[m] = store[m]
  BY <1>1, RewriteFacts
<1>3. 1 <= p.rv /\ p.rv \in Int /\ p.inc = incs[n]
  <2>1. 1 <= store[n].rv /\ store[n].inc = incs[n]
    BY <1>1 DEF CountOK
  <2>2. p.inc = store[n].inc
    BY DEF Uid
  <2> QED BY <2>1, <2>2, PodFacts
<1>4. q.bound = p.bound /\ q.fin = p.fin /\ q.rv = p.rv + 1 /\ q.name = n /\ q.inc = incs[n]
  BY <1>3 DEF Pods
<1>5. Emit(FALSE, q)
  BY DEF Write
<1> HIDE DEF q
<1>6. 2 <= store'[n].rv /\ store'[n].rv # 1 /\ 1 <= store'[n].rv
  BY <1>2, <1>3, <1>4
<1>7. store'[n] # NoPod
  BY <1>2, PodFacts
<1> QED BY <1>2, <1>4, <1>5, <1>6, <1>7 DEF Pending

LEMMA RewriteLife ==
    ASSUME LInv, NEW n \in Names, store[n] # NoPod, NEW p \in Pods, p.name = n,
           Uid(p) = Uid(store[n]), p.rv = store[n].rv, Write(p),
           store[n].bound => p.bound, store[n].fin => p.fin,
           UNCHANGED <<queue, incs, informerVars>>, HandOK', bindings' \subseteq bindings,
           \A m \in Names : Fresh(m) => BindAt(m)',
           \A m \in Names : Fresh(m) /\ Pending(store'[m]) /\ Held(m) => Held(m)'
    PROVE  Lives
<1> DEFINE x == [del |-> FALSE, pod |-> store'[n]]
<1>1. /\ UNCHANGED incs /\ UNCHANGED <<incs, seen>> /\ UNCHANGED listing
      /\ UNCHANGED calls /\ UNCHANGED <<queue, incs>>
  BY DEF informerVars
<1>2. /\ store'[n].bound = p.bound /\ store'[n].fin = p.fin
      /\ store'[n] # NoPod /\ store'[n].name = n /\ store'[n].inc = incs[n]
      /\ \A m \in Names \ {n} : store'[m] = store[m]
      /\ Pending(store'[n]) => ~p.bound /\ ~p.fin
      /\ 1 <= store'[n].rv /\ store'[n] \in Pods /\ Emit(FALSE, store'[n])
  BY <1>1, WrittenFacts
<1>3. x \in Watched /\ x.del = FALSE /\ x.pod = store'[n]
  BY <1>2 DEF Watched
<1> HIDE DEF x
<1>4. \A y \in News' : y \in News \/ y = x
  BY <1>1, <1>2, <1>3, EmitNews
<1>5. Copy(x.pod)
  <2>1. incs[n] \in Int
    BY LifeFacts DEF StoreOK
  <2> QED BY <1>2, <1>3, <2>1 DEF Copy
<1>6. FewerCalls /\ QueuedOK'
  BY <1>1, SameCalls, SpreadsNothing
<1>7. HeardOK'
  BY <1>1, <1>4, <1>5, <1>6, LifeFacts, HeardStep
<1>8. CountOK'
  <2>1. ASSUME NEW m \in Names
        PROVE  /\ 1 <= incs'[m]
               /\ store'[m] # NoPod => store'[m].inc = incs'[m] /\ 1 <= store'[m].rv
    <3>1. CountOK
      BY LifeFacts
    <3>2. CASE m = n
      BY <3>1, <3>2, <1>1, <1>2 DEF CountOK
    <3>3. CASE m # n
      BY <3>1, <3>3, <1>1, <1>2 DEF CountOK
    <3> QED BY <3>2, <3>3
  <2> QED BY <2>1 DEF CountOK
<1>9. BoundsOK'
  BY <1>1, LifeFacts DEF BoundsOK, Copy
<1>10. \A m \in Names : Fresh(m)' => Fresh(m)
  BY <1>1, <1>2 DEF Fresh
<1>11. ASSUME NEW m \in Names, Fresh(m)
       PROVE  NewsAt(m)' /\ KeptAt(m)' /\ BindAt(m)'
  <2>1. NewsAt(m) /\ KeptAt(m)
    BY <1>11, LifeFacts
  <2>2. Rises(m)
    <3>1. CASE m = n
      BY <3>1, <1>2 DEF Rises, Pending
    <3>2. CASE m # n
      BY <3>2, <1>2, RisesSame
    <3> QED BY <3>1, <3>2
  <2>3. \A y \in News' : y \in News \/ (y.pod.name = m => ~y.del /\ y.pod = store'[m])
    BY <1>2, <1>3, <1>4
  <2>4. NewsAt(m)'
    BY <1>1, <1>6, <2>1, <2>2, <2>3, NewsStep
  <2>5. \A b \in bindings' : b.pc = "done" /\ b.info.pod.name = m => ~Pending(store'[m])
    BY <2>1, <2>2 DEF KeptAt, Rises
  <2>6. KeptAt(m)'
    BY <1>1, <1>11, <2>1, <2>2, <2>5, KeptStep
  <2> QED BY <1>11, <2>4, <2>6
<1> QED BY <1>6, <1>7, <1>8, <1>9, <1>10, <1>11, LivesIf

(* A write that neither binds nor evicts the pod. *)
LEMMA BindRewritten ==
    ASSUME NEW n \in Names, BindAt(n), ~Old(n), store'[n].rv # 1,
           store'[n].bound = store[n].bound, store'[n].fin = store[n].fin,
           UNCHANGED <<cache, bindings, preemptions>>, Forgetting(n)' => Forgetting(n)
    PROVE  BindAt(n)'
<1>1. ~Old(n)'
  BY DEF Old
<1>2. EvictAt(n)'
  BY <1>1 DEF BindAt, EvictAt
<1>3. BoundAt(n)'
  BY <1>1 DEF BindAt, BoundAt, Binder
<1>4. UnboundAt(n)'
  BY DEF BindAt, UnboundAt, Binder
<1> QED BY <1>2, <1>3, <1>4 DEF BindAt

LEMMA RemoveGatesLife == ASSUME LInv, NEW n \in Names, RemoveGates(n) PROVE Lives
<1> DEFINE p == [store[n] EXCEPT !.gate = FALSE]
<1>1. /\ Pending(store[n]) /\ Write(p) /\ UNCHANGED <<queue, incs, informerVars>>
      /\ UNCHANGED <<cache, bindings, preemptions>> /\ UNCHANGED <<incs, worker>>
      /\ UNCHANGED <<calls, worker>>
  BY DEF RemoveGates, queueVars, informerVars
<1>2. store[n] # NoPod /\ store[n] \in Pods /\ store[n].name = n
  BY <1>1, StoredFacts DEF Pending, LInv, IInv
<1>3. /\ p \in Pods /\ p.name = n /\ Uid(p) = Uid(store[n]) /\ p.rv = store[n].rv
      /\ p.bound = store[n].bound /\ p.fin = store[n].fin
  BY <1>2 DEF Pods, Uid
<1> HIDE DEF p
<1>4. UNCHANGED incs /\ UNCHANGED <<cache, worker, bindings>> /\ SameVictims
  BY <1>1 DEF SameVictims
<1>5. /\ store'[n].bound = store[n].bound /\ store'[n].fin = store[n].fin /\ store'[n].rv # 1
      /\ \A m \in Names \ {n} : store'[m] = store[m]
  BY <1>1, <1>2, <1>3, <1>4, WrittenFacts
<1>6. HandOK' /\ bindings' \subseteq bindings
  BY <1>1, LifeFacts, HandSame
<1>7. ASSUME NEW m \in Names, Fresh(m)
      PROVE  BindAt(m)'
  <2>1. BindAt(m)
    BY <1>7, LifeFacts
  <2>2. CASE m # n
    BY <1>4, <1>5, <2>1, <2>2, BindSame
  <2>3. CASE m = n
    <3>1. ~Old(n) /\ (Forgetting(n)' => Forgetting(n))
      BY <1>1 DEF Old, Pending, Forgetting
    <3> QED BY <1>1, <1>5, <2>1, <2>3, <3>1, BindRewritten
  <2> QED BY <2>2, <2>3
<1>8. ASSUME NEW m \in Names, Held(m)
      PROVE  Held(m)'
  BY <1>1, <1>8 DEF Held, WorkerHas, TaskHas, ToAdd
<1> QED BY <1>1, <1>2, <1>3, <1>6, <1>7, <1>8, RewriteLife

LEMMA WorkerNominatesLife == ASSUME LInv, WorkerNominates PROVE Lives
<1> DEFINE n == worker.pod.name
           p == store[n]
           q == [p EXCEPT !.nom = (worker.pc = "nominate")]
           P == worker.info.plugins
<1>1. /\ worker.pc \in {"nominate", "clear"} /\ Failed(P)
      /\ IF p = NoPod THEN UNCHANGED <<store, stream>> ELSE Write(q)
      /\ UNCHANGED <<queue, incs, informerVars>> /\ UNCHANGED <<cache, bindings, preemptions>>
      /\ UNCHANGED <<calls, bindings>>
  BY DEF WorkerNominates, queueVars, informerVars
<1>2. /\ worker.info \in Infos /\ n \in Names /\ WorkerOK /\ Copy(worker.info.pod)
      /\ worker.pc \in HandPcs
  BY <1>1, ReadFacts DEF HasRead, HandPcs
<1>3. P \in SUBSET AllPlugins
  BY <1>2 DEF Infos
<1>4. CASE p = NoPod
  <2>1. UNCHANGED <<queue, storeVars, informerVars, cache, bindings>> /\ UNCHANGED preemptions
    BY <1>1, <1>4 DEF storeVars
  <2> HIDE DEF n, p, q, P
  <2> QED BY <1>1, <1>2, <1>3, <2>1, FailedLife
<1>5. CASE p # NoPod
  <2>1. p \in Pods /\ p.name = n /\ Write(q) /\ store[n] # NoPod
    BY <1>1, <1>2, <1>5, StoredFacts DEF LInv, IInv
  <2>2. (worker.pc = "nominate") \in BOOLEAN
    OBVIOUS
  <2>3. /\ q \in Pods /\ q.name = n /\ Uid(q) = Uid(store[n]) /\ q.rv = store[n].rv
        /\ q.bound = store[n].bound /\ q.fin = store[n].fin
    BY <2>1, <2>2 DEF Pods, Uid
  <2> HIDE DEF q, P
  <2>4. worker'.pc = "reread" /\ worker'.info.pod = worker.info.pod
    BY <1>1, <1>2, <1>3, FailedParts
  <2>5. HandOK' /\ bindings' \subseteq bindings
    BY <1>1, <1>2, <2>4 DEF HandOK, HasRead, Copy
  <2>6. UNCHANGED incs
    BY <1>1
  <2>7. /\ store'[n].bound = store[n].bound /\ store'[n].fin = store[n].fin /\ store'[n].rv # 1
        /\ \A m \in Names \ {n} : store'[m] = store[m]
    BY <1>2, <2>1, <2>3, <2>6, WrittenFacts
  <2>8. ASSUME NEW m \in Names, Fresh(m)
        PROVE  BindAt(m)'
    <3>1. BindAt(m) /\ ~Forgetting(m)' /\ ~Reading(m)'
      BY <2>4, <2>8, LifeFacts DEF Forgetting, Reading, HasRead
    <3>2. CASE m # n
      <4>1. store'[m] = store[m] /\ SameVictims /\ UNCHANGED <<cache, bindings>>
        BY <1>1, <2>7, <3>2 DEF SameVictims
      <4> QED BY <3>1, <4>1, BindWorkerStep
    <3>3. CASE m = n
      <4>1. Reading(m)
        BY <1>1, <3>3 DEF Reading, HasRead
      <4>2. ~Old(m)
        BY <3>1, <4>1 DEF BindAt, EvictAt
      <4>3. store'[m].bound = store[m].bound /\ store'[m].fin = store[m].fin /\ store'[m].rv # 1
        BY <2>7, <3>3
      <4> QED BY <1>1, <3>1, <4>2, <4>3, BindRewritten
    <3> QED BY <3>2, <3>3
  <2>9. ASSUME NEW m \in Names, Held(m)
        PROVE  Held(m)'
    BY <1>1, <2>4, <2>9 DEF Held, WorkerHas, TaskHas, ToAdd, HandPcs
  <2> HIDE DEF p
  <2>10. (store[n].bound => q.bound) /\ (store[n].fin => q.fin)
    BY <2>3
  <2> HIDE DEF n
  <2> QED BY <1>1, <1>2, <2>1, <2>3, <2>5, <2>8, <2>9, <2>10, RewriteLife
<1> QED BY <1>4, <1>5

LEMMA EvictLife == ASSUME LInv, NEW t \in preemptions, Evict(t) PROVE Lives
<1> DEFINE n == t.victim
           p == store[n]
           q == [p EXCEPT !.fin = TRUE]
<1>1. /\ UNCHANGED <<queue, incs, informerVars>> /\ UNCHANGED <<cache, worker, bindings>>
      /\ PStep(t, [t EXCEPT !.pc = "finish"]) \/ PStep(t, [t EXCEPT !.pc = "finish", !.failed = TRUE])
      /\ UNCHANGED <<store, stream>> \/ (p # NoPod /\ Write(q))
  BY DEF Evict, away, queueVars
<1>2. SameVictims /\ n \in Names
  <2> DEFINE c == [t EXCEPT !.pc = "finish"]
             d == [t EXCEPT !.pc = "finish", !.failed = TRUE]
  <2>1. c.victim = t.victim /\ d.victim = t.victim /\ (PStep(t, c) \/ PStep(t, d))
    BY <1>1, LifeFacts, PcVictims
  <2> HIDE DEF c, d
  <2>2. SameVictims
    BY <2>1, LifeFacts, PStepVictims
  <2> QED BY <2>2, LifeFacts, PreemptionFacts
<1>3. CASE UNCHANGED <<store, stream>>
  <2>1. UNCHANGED <<storeVars, informerVars, cache, worker, bindings>>
    BY <1>1, <1>3 DEF storeVars
  <2>2. Spreads({})
    BY <1>1, SameSpreads
  <2> QED BY <1>2, <2>1, <2>2, QuietLife
<1>4. CASE p # NoPod /\ Write(q)
  <2>1. p \in Pods /\ p.name = n
    BY <1>2, <1>4, StoredFacts DEF LInv, IInv
  <2>2. /\ q \in Pods /\ q.name = n /\ Uid(q) = Uid(p) /\ q.rv = p.rv /\ q.fin
        /\ q.bound = p.bound
    BY <2>1 DEF Pods, Uid
  <2> HIDE DEF q
  <2>3. UNCHANGED incs /\ UNCHANGED <<incs, worker>> /\ UNCHANGED calls
    BY <1>1 DEF informerVars
  <2>4. /\ store'[n].bound = store[n].bound /\ store'[n].fin
        /\ \A m \in Names \ {n} : store'[m] = store[m]
    BY <1>2, <1>4, <2>2, <2>3, WrittenFacts
  <2>5. HandOK' /\ bindings' \subseteq bindings
    BY <1>1, <2>3, LifeFacts, HandSame
  <2>6. ASSUME NEW m \in Names, Fresh(m)
        PROVE  BindAt(m)'
    <3>1. BindAt(m)
      BY <2>6, LifeFacts
    <3>2. CASE m # n
      <4>1. store'[m] = store[m]
        BY <2>4, <3>2
      <4> QED BY <1>1, <1>2, <3>1, <4>1, BindSame
    <3>3. CASE m = n
      <4>1. Old(m)
        BY <3>1, <3>3 DEF BindAt, EvictAt
      <4>2. store[m].bound /\ store'[m].bound /\ store'[m].fin
        BY <2>4, <3>3, <4>1 DEF Old
      <4>3. Old(m)'
        BY <4>2 DEF Old
      <4>4. EvictAt(m)'
        BY <1>1, <3>1, <4>1, <4>2, <4>3 DEF BindAt, EvictAt, Reading
      <4>5. BoundAt(m)' /\ UnboundAt(m)'
        BY <1>1, <3>1, <4>2, <4>3 DEF BindAt, BoundAt, UnboundAt, Forgetting, Binder
      <4> QED BY <4>4, <4>5 DEF BindAt
    <3> QED BY <3>2, <3>3
  <2>7. ASSUME NEW m \in Names, Held(m)
        PROVE  Held(m)'
    BY <1>1, <2>3, <2>7 DEF Held, WorkerHas, TaskHas, ToAdd
  <2> QED BY <1>1, <1>2, <1>4, <2>2, <2>5, <2>6, <2>7, RewriteLife
<1> QED BY <1>1, <1>3, <1>4

(* The write of a binding: of a pod that is not bound yet, if it is the      *)
(* first of its name, by the only task that binds it.                        *)
LEMMA BindWriteLife ==
    ASSUME LInv, NEW b \in bindings, b.pc \in Binds, store[b.pod.name] # NoPod, End(b),
           NEW q \in Pods, q.name = b.pod.name, Uid(q) = Uid(store[b.pod.name]), Write(q),
           q.rv = store[b.pod.name].rv, q.bound, q.fin = store[b.pod.name].fin,
           UNCHANGED <<queue, incs, informerVars>>, UNCHANGED <<cache, worker, preemptions>>
    PROVE  Lives
<1> DEFINE n == b.pod.name
<1>1. n \in Names /\ n = b.info.pod.name
  BY TaskParts
<1>4. /\ q \in Pods /\ q.name = n /\ Uid(q) = Uid(store[n]) /\ q.rv = store[n].rv /\ q.bound
      /\ q.fin = store[n].fin /\ Write(q) /\ store[n] # NoPod
  OBVIOUS
<1>5. UNCHANGED incs /\ UNCHANGED <<incs, worker>> /\ UNCHANGED calls
  BY DEF informerVars
<1>6. /\ store'[n].bound /\ store'[n].fin = store[n].fin /\ store'[n].rv # 1
      /\ \A m \in Names \ {n} : store'[m] = store[m]
  BY <1>1, <1>4, <1>5, WrittenFacts
<1>7. HandOK' /\ bindings' = bindings \ {b} /\ bindings' \subseteq bindings
  BY <1>5, LifeFacts, HandSame DEF End
<1>8. ASSUME NEW m \in Names, Fresh(m)
      PROVE  BindAt(m)'
  <2>1. BindAt(m)
    BY <1>8, LifeFacts
  <2>2. CASE m # n
    <3>1. ~Binder(b, m) /\ store'[m] = store[m]
      BY <1>6, <2>2 DEF Binder
    <3>2. bindings' \subseteq (bindings \ {b}) \cup {b}
      BY <1>7
    <3>3. UNCHANGED <<worker, preemptions>> /\ cache'[<<m, 1>>] = cache[<<m, 1>>]
      OBVIOUS
    <3> QED BY <2>1, <3>1, <3>2, <3>3, BindTaskStep
  <2>3. CASE m = n
    <3>1. Binder(b, m)
      BY <2>3 DEF Binder
    <3>2. ~store[m].bound
      BY <2>1, <3>1 DEF BindAt, BoundAt
    <3>3. ~store[m].fin /\ ~Old(m)
      BY <2>1, <3>2 DEF BindAt, EvictAt, Old
    <3>4. /\ cache[<<m, 1>>] = "assumed" /\ ~Forgetting(m)
          /\ \A c \in bindings : Binder(c, m) => c = b
      BY <2>1, <3>1, <3>2 DEF BindAt, UnboundAt
    <3>5. store'[m].bound /\ ~store'[m].fin /\ store'[m].rv # 1
      BY <1>6, <2>3, <3>3
    <3>6. ~Old(m)'
      BY <3>5 DEF Old
    <3>7. EvictAt(m)'
      BY <2>1, <3>3, <3>5, <3>6 DEF BindAt, EvictAt
    <3>8. ~Forgetting(m)' /\ \A c \in bindings' : ~Binder(c, m)
      BY <1>7, <3>4 DEF Forgetting
    <3>9. cache'[<<m, 1>>] # "absent"
      BY <3>4
    <3>10. BoundAt(m)' /\ UnboundAt(m)'
      BY <3>5, <3>8, <3>9 DEF BoundAt, UnboundAt, Binder
    <3> QED BY <3>7, <3>10 DEF BindAt
  <2> QED BY <2>2, <2>3
<1>9. ASSUME NEW m \in Names, Pending(store'[m]), Held(m)
      PROVE  Held(m)'
  <2>1. m # n
    BY <1>6, <1>9 DEF Pending
  <2>2. TaskHas(m) => TaskHas(m)'
    BY <1>1, <1>7, <2>1 DEF TaskHas
  <2> QED BY <1>5, <1>9, <2>2 DEF Held, WorkerHas, ToAdd
<1> QED BY <1>1, <1>4, <1>7, <1>8, <1>9, RewriteLife

LEMMA BindLife == ASSUME LInv, NEW b \in bindings, Bind(b) PROVE Lives
<1> DEFINE p == store[b.pod.name]
           q == [p EXCEPT !.bound = TRUE, !.nom = FALSE]
           c == [b EXCEPT !.pc = "rebind"]
           d == [b EXCEPT !.pc = "abort"]
<1>1. /\ b.pc \in {"bind", "rebind"}
      /\ UNCHANGED <<queue, incs, informerVars>> /\ UNCHANGED <<cache, worker, preemptions>>
      /\ \/ p # NoPod /\ Write(q) /\ End(b)
         \/ (Step(b, c) \/ Step(b, d)) /\ UNCHANGED <<store, stream>>
  BY DEF Bind, aside, queueVars
<1>2. b.pc \in Binds /\ b.pc # "moveself"
  BY <1>1 DEF Binds
<1>3. CASE p # NoPod /\ Write(q) /\ End(b)
  <2>1. b.pod.name \in Names
    BY TaskParts
  <2>2. p \in Pods /\ p.name = b.pod.name
    BY <1>3, <2>1, StoredFacts DEF LInv, IInv
  <2>3. /\ q \in Pods /\ q.name = b.pod.name /\ Uid(q) = Uid(p) /\ q.rv = p.rv /\ q.bound
        /\ q.fin = p.fin
    BY <2>2 DEF Pods, Uid
  <2> HIDE DEF q
  <2> QED BY <1>1, <1>2, <1>3, <2>3, BindWriteLife
<1>4. CASE (Step(b, c) \/ Step(b, d)) /\ UNCHANGED <<store, stream>>
  <2>1. PICK e \in {c, d} : Step(b, e)
    BY <1>4
  <2>2. e.pod = b.pod /\ e.info = b.info /\ e.pc \in {"rebind", "abort"}
    <3>1. c.pod = b.pod /\ c.info = b.info /\ c.pc = "rebind"
      BY TaskParts DEF BindingPcs
    <3>2. d.pod = b.pod /\ d.info = b.info /\ d.pc = "abort"
      BY TaskParts DEF BindingPcs
    <3> HIDE DEF c, d
    <3> QED BY <3>1, <3>2
  <2> HIDE DEF c, d, p
  <2>3. Copy(e.info.pod) /\ e.pc # "moveself" /\ e.pc # "done"
    BY <2>2, TaskParts
  <2>4. UNCHANGED <<queue, storeVars, informerVars, cache, worker, preemptions>>
    BY <1>1, <1>4 DEF storeVars
  <2> QED BY <1>2, <2>1, <2>2, <2>3, <2>4, TaskGoesOn
<1> QED BY <1>1, <1>3, <1>4

LEMMA CopyGrows ==
    ASSUME StoreOK, StoreOK', \A m \in Names : incs[m] <= incs'[m], NEW pod \in Pods, Copy(pod)
    PROVE  Copy(pod)'
<1>1. pod.name \in Names /\ pod.inc \in Int
  BY PodFacts
<1>2. /\ incs[pod.name] \in Int /\ incs'[pod.name] \in Int /\ incs[pod.name] <= incs'[pod.name]
      /\ pod.inc <= incs[pod.name]
  BY <1>1 DEF StoreOK, Copy
<1> QED BY <1>1, <1>2 DEF Copy

(* Users create or remove the pod n; no pod of that name is a fresh one then. *)
LEMMA UserLife ==
    ASSUME LInv, NEW n \in Names, ~Fresh(n)', StoreOK', CountOK',
           \A m \in Names : incs[m] <= incs'[m],
           \A m \in Names \ {n} : store'[m] = store[m] /\ incs'[m] = incs[m],
           NEW x \in Watched, x.pod.name = n, Copy(x.pod)', \A y \in News' : y \in News \/ y = x,
           UNCHANGED <<queue, informerVars>>, UNCHANGED <<cache, worker, bindings, preemptions>>
    PROVE  Lives
<1>1. UNCHANGED seen /\ UNCHANGED calls /\ FewerCalls
  BY SameCalls DEF informerVars
<1>2. StoreOK /\ QueueOK /\ InformerOK /\ WorkerOK /\ TasksOK
  BY LifeFacts
<1>3. \A pod \in Pods : Copy(pod) => pod.inc <= incs'[pod.name]
  BY <1>2, CopyGrows DEF Copy
<1>4. QueuedOK'
  <2>1. ASSUME NEW m \in Names, NEW pod \in PodsIn(queue[m])
        PROVE  pod.inc <= incs'[pod.name]
    <3>1. PICK p \in Places : queue[m][p] # NoInfo /\ queue[m][p].pod = pod
      BY PodsInFacts
    <3>2. queue[m][p] \in Infos
      BY <1>2, <3>1, UnschedFacts
    <3> QED BY <1>3, <3>1, <3>2, InfoFacts, LifeFacts DEF QueuedOK
  <2> QED BY <2>1 DEF QueuedOK, Copy
<1>5. HeardOK'
  <2>1. ASSUME NEW y \in News' PROVE y.pod.inc <= incs'[y.pod.name]
    <3>1. CASE y \in News
      <4>1. y.pod \in Pods /\ Copy(y.pod)
        BY <3>1, NewsFacts
      <4> QED BY <4>1, <1>3
    <3>2. CASE y = x
      BY <3>2 DEF Copy
    <3> QED BY <3>1, <3>2
  <2>2. ASSUME NEW m \in Names, seen[m] # NoPod
        PROVE  seen[m].name = m /\ seen[m].inc <= incs'[seen[m].name]
    <3>1. seen[m] \in Pods /\ seen[m].name = m /\ Copy(seen[m])
      BY <2>2, <1>2, LifeFacts DEF HeardOK, InformerOK
    <3> QED BY <3>1, <1>3
  <2>3. ASSUME NEW k \in 1..Len(calls) PROVE calls[k].pod.inc <= incs'[calls[k].pod.name]
    <3>1. calls[k].pod \in Pods
      BY <1>2 DEF InformerOK, Calls
    <3>2. Copy(calls[k].pod)
      BY LifeFacts DEF HeardOK
    <3> QED BY <3>1, <3>2, <1>3
  <2> QED BY <2>1, <2>2, <2>3, <1>1 DEF HeardOK, Copy
<1>6. HandOK'
  <2>1. ASSUME worker.info # NoInfo PROVE worker.info.pod.inc <= incs'[worker.info.pod.name]
    <3>1. worker.info.pod \in Pods /\ Copy(worker.info.pod)
      BY <2>1, <1>2, LifeFacts, InfoFacts DEF HandOK, WorkerOK
    <3> QED BY <3>1, <1>3
  <2> QED BY <2>1, LifeFacts DEF HandOK, Copy
<1>7. BoundsOK'
  <2>1. ASSUME NEW b \in bindings
        PROVE  /\ b.pod.inc <= incs'[b.pod.name] /\ b.info.pod.inc <= incs'[b.info.pod.name]
               /\ b.pod.name = b.info.pod.name
    <3>1. b.pod \in Pods /\ b.info.pod \in Pods
      BY TaskParts, InfoFacts
    <3> QED BY <3>1, <1>3, TaskParts
  <2> QED BY <2>1 DEF BoundsOK, Copy
<1>8. ASSUME NEW m \in Names, Fresh(m)'
      PROVE  Fresh(m) /\ NewsAt(m)' /\ KeptAt(m)' /\ BindAt(m)'
  <2>1. m # n /\ store'[m] = store[m] /\ incs'[m] = incs[m]
    BY <1>8
  <2>2. Fresh(m)
    BY <1>8, <2>1 DEF Fresh
  <2>3. NewsAt(m) /\ KeptAt(m) /\ BindAt(m) /\ Rises(m) /\ SameVictims
    BY <2>1, <2>2, LifeFacts, RisesSame DEF SameVictims
  <2>4. \A y \in News' : y \in News \/ (y.pod.name = m => ~y.del /\ y.pod = store'[m])
    BY <2>1
  <2>5. NewsAt(m)'
    BY <1>1, <2>3, <2>4, NewsStep
  <2>6. KeptAt(m)'
    BY <1>1, <2>1, <2>3 DEF KeptAt, Held, WorkerHas, TaskHas, ToAdd, Pending
  <2>7. BindAt(m)'
    BY <2>1, <2>3, BindSame
  <2> QED BY <2>2, <2>5, <2>6, <2>7
<1> QED BY <1>4, <1>5, <1>6, <1>7, <1>8, LivesIf

LEMMA RemovePodLife == ASSUME LInv, NEW n \in Names, RemovePod(n) PROVE Lives
<1>1. /\ store[n] # NoPod /\ store' = [store EXCEPT ![n] = NoPod] /\ Emit(TRUE, store[n])
      /\ UNCHANGED incs /\ UNCHANGED <<queue, informerVars>>
      /\ UNCHANGED <<cache, worker, bindings, preemptions>> /\ UNCHANGED listing
  BY DEF RemovePod, queueVars, informerVars
<1>2. store[n] \in Pods /\ store[n].name = n /\ store \in [Names -> Pods \cup {NoPod}]
  BY <1>1, StoredFacts DEF LInv, IInv, EnvOK, StoreOK
<1>3. store'[n] = NoPod /\ \A m \in Names \ {n} : store'[m] = store[m]
  BY <1>1, <1>2
<1>4. PICK x \in Watched : x.del = TRUE /\ x.pod = store[n]
  <2>1. [del |-> TRUE, pod |-> store[n]] \in Watched
    BY <1>2 DEF Watched
  <2> QED BY <2>1
<1>5. \A y \in News' : y \in News \/ y = x
  BY <1>1, <1>4, EmitNews
<1>6. StoreOK' /\ \A m \in Names : incs[m] <= incs'[m]
  BY <1>1, RemovePodInv DEF LInv, IInv, EnvOK, StoreOK
<1>7. Copy(x.pod)'
  BY <1>1, <1>2, <1>4, StoredFacts DEF LInv, IInv, Copy
<1>8. CountOK'
  BY <1>1, <1>3, LifeFacts DEF CountOK
<1>9. ~Fresh(n)'
  BY <1>3 DEF Fresh
<1> QED BY <1>1, <1>2, <1>3, <1>4, <1>5, <1>6, <1>7, <1>8, <1>9, UserLife

LEMMA CreatePodLife == ASSUME LInv, NEW n \in Names, CreatePod(n) PROVE Lives
<1>1. PICK gate \in BOOLEAN : Write(NewPod(n, gate))
  BY DEF CreatePod
<1> DEFINE pod == NewPod(n, gate)
           p == [pod EXCEPT !.rv = @ + 1]
<1>2. /\ incs \in [Names -> 0..MaxInc] /\ store \in [Names -> Pods \cup {NoPod}]
      /\ incs' = [incs EXCEPT ![n] = @ + 1] /\ incs[n] < MaxInc /\ MaxInc \in Nat
      /\ UNCHANGED <<queue, informerVars>> /\ UNCHANGED <<cache, worker, bindings, preemptions>>
      /\ UNCHANGED listing
  BY LifeFacts, QueueAssumption DEF CreatePod, queueVars, informerVars, StoreOK
<1>3. incs[n] \in 0..MaxInc /\ 1 <= incs[n] /\ incs'[n] = incs[n] + 1
  BY <1>2, LifeFacts DEF CountOK
<1>4. p \in Pods /\ p.name = n /\ p.inc = incs'[n] /\ p.rv = 1
  <2> DEFINE k == incs[n] + 1
  <2>1. k \in 1..MaxInc /\ k = incs'[n]
    BY <1>2, <1>3
  <2>2. pod = [name |-> n, inc |-> k, gate |-> gate, nom |-> FALSE, bound |-> FALSE,
               fin |-> FALSE, rv |-> 0]
    BY DEF NewPod
  <2> HIDE DEF k, pod
  <2>3. pod \in [name : Names, inc : 1..MaxInc, gate : BOOLEAN, nom : BOOLEAN,
                bound : BOOLEAN, fin : BOOLEAN, rv : Nat]
    BY <2>1, <2>2
  <2>4. pod.name = n /\ pod.inc = k /\ pod.rv = 0
    BY <2>2
  <2> QED BY <2>1, <2>3, <2>4 DEF Pods
<1>5. store' = [store EXCEPT ![p.name] = p] /\ Emit(FALSE, p)
  BY <1>1 DEF Write
<1> HIDE DEF p
<1>6. PICK x \in Watched : x.del = FALSE /\ x.pod = p
  <2>1. [del |-> FALSE, pod |-> p] \in Watched
    BY <1>4 DEF Watched
  <2> QED BY <2>1
<1>7. \A y \in News' : y \in News \/ y = x
  BY <1>2, <1>5, <1>6, EmitNews
<1>8. store'[n] = p /\ \A m \in Names \ {n} : store'[m] = store[m] /\ incs'[m] = incs[m]
  BY <1>2, <1>4, <1>5
<1>9. StoreOK'
  BY CreatePodInv DEF LInv, IInv, EnvOK
<1>10. ASSUME NEW m \in Names
       PROVE  /\ incs[m] <= incs'[m] /\ 1 <= incs'[m]
              /\ store'[m] # NoPod => store'[m].inc = incs'[m] /\ 1 <= store'[m].rv
  <2>1. CASE m = n
    BY <2>1, <1>3, <1>4, <1>8
  <2>2. CASE m # n
    <3>1. store'[m] = store[m] /\ incs'[m] = incs[m] /\ incs[m] \in Int
      BY <2>2, <1>2, <1>8
    <3> QED BY <3>1, LifeFacts DEF CountOK
  <2> QED BY <2>1, <2>2
<1>11. CountOK' /\ \A m \in Names : incs[m] <= incs'[m]
  BY <1>10 DEF CountOK
<1>12. Copy(x.pod)'
  BY <1>3, <1>4, <1>6 DEF Copy
<1>13. ~Fresh(n)'
  BY <1>3 DEF Fresh
<1> QED BY <1>2, <1>4, <1>6, <1>7, <1>8, <1>9, <1>11, <1>12, <1>13, UserLife

-----------------------------------------------------------------------------
(* The induction. *)

LEMMA InitLife == ASSUME Init PROVE LInv
<1>1. IInv
  BY InitInv
<1>2. /\ queue = [n \in Names |-> Nowhere] /\ stream = <<>> /\ listing = {} /\ calls = <<>>
      /\ seen = [n \in Names |-> NoPod] /\ bindings = {} /\ preemptions = {}
      /\ worker.pc = "enable" /\ worker.info = NoInfo /\ incs = [n \in Names |-> 1]
  BY DEF Init, QInit
<1>3. ASSUME NEW n \in Names
      PROVE  store[n].inc = 1 /\ store[n].rv = 1 /\ store[n].fin = FALSE
  <2>1. store[n] \in FirstPods
    BY DEF Init
  <2> QED BY <2>1 DEF FirstPods
<1>4. CountOK
  <2>1. ASSUME NEW n \in Names PROVE incs[n] = 1
    BY <1>2
  <2>2. ASSUME NEW n \in Names
        PROVE  1 <= incs[n] /\ store[n].inc = incs[n] /\ 1 <= store[n].rv
    <3>1. incs[n] = 1 /\ store[n].inc = 1 /\ store[n].rv = 1
      BY <2>1, <1>3
    <3> QED BY <3>1
  <2> QED BY <2>2 DEF CountOK
<1>5. News = {} /\ \A k : k \notin 1..Len(calls)
  BY <1>2 DEF News
<1>6. QueuedOK
  <2>1. \A n \in Names : PodsIn(queue[n]) = {}
    BY <1>2, NowhereFacts DEF PodsIn, Empty
  <2> QED BY <2>1 DEF QueuedOK
<1>7. HeardOK
  BY <1>2, <1>5 DEF HeardOK
<1>8. HandOK /\ BoundsOK
  BY <1>2 DEF HandOK, BoundsOK, HasRead
<1>9. ASSUME NEW n \in Names
      PROVE  NewsAt(n) /\ KeptAt(n) /\ BindAt(n)
  <2>1. NewsAt(n) /\ KeptAt(n)
    BY <1>2, <1>5 DEF NewsAt, KeptAt
  <2>2. EvictAt(n)
    BY <1>2, <1>3 DEF EvictAt, Reading, HasRead
  <2>3. BoundAt(n)
    BY <1>2, <1>3 DEF BoundAt, Old, Forgetting
  <2>4. UnboundAt(n)
    BY <1>2 DEF UnboundAt, Forgetting
  <2> QED BY <2>1, <2>2, <2>3, <2>4 DEF BindAt
<1> QED BY <1>1, <1>4, <1>6, <1>7, <1>8, <1>9 DEF LInv, CopiesOK, FreshOK

LEMMA NextLife == ASSUME LInv, Next PROVE Lives
<1>1. CASE Informer
  BY <1>1, DeliverLife, ResyncLife, HandleListedLife, LoopLife, QueueCallLife, TimersLife
     DEF Informer
<1>2. CASE Worker
  BY <1>2, PopPartLife, WorkerPopsLife, WorkerReadsLife, WorkerFailsLife, WorkerAssumesLife,
     ReserveFailedLife, WorkerRejectsLife, WorkerPreemptsLife, WorkerNominatesLife,
     WorkerRereadsLife, RereadFailsLife, WorkerReturnsLife DEF Worker
<1>3. CASE FlushBackoff \/ FlushLeftover
  BY <1>3, TimersLife
<1>4. CASE \E b \in bindings : Binding(b)
  BY <1>4, BindingStartsLife, BindLife, BindFailsLife, AbortLife, BindingMovesLife,
     BindingRereadsLife, BindingReturnsLife DEF Binding
<1>5. CASE \E t \in preemptions : Preemption(t)
  BY <1>5, SetLastVictimLife, EvictLife, FinishPreemptionLife, ActivatePreemptorLife DEF Preemption
<1>6. CASE Users
  BY <1>6, CreatePodLife, RemoveGatesLife, RemovePodLife DEF Users
<1> QED BY <1>1, <1>2, <1>3, <1>4, <1>5, <1>6 DEF Next

(* What is known of the pods and their copies holds in every state of every  *)
(* behaviour: the argument behind the two theorems below.                    *)
THEOREM LifeInvariance == Spec => []LInv
<1>1. Init => LInv
  BY InitLife
<1>2. LInv /\ [Next]_vars => LInv'
  <2>1. ASSUME LInv, Next PROVE LInv'
    BY <2>1, NextInv, NextLife DEF LInv, Lives
  <2>2. ASSUME LInv, UNCHANGED vars PROVE LInv'
    BY <2>2, StutterInv, StutterLife DEF LInv, Lives
  <2> QED BY <2>1, <2>2
<1> QED BY <1>1, <1>2, PTL DEF Spec

(* The first pod of a name has one UID, and so have all its copies. *)
LEMMA CopiesAreOne ==
    ASSUME LInv, NEW n \in Names, Fresh(n), NEW pod \in Pods, Copy(pod), pod.name = n
    PROVE  Uid(pod) = Uid(store[n])
<1>1. pod.inc \in 1..MaxInc /\ pod.inc <= 1
  BY PodFacts DEF Copy, Fresh
<1>2. store[n].inc = 1 /\ store[n].name = n
  BY LifeFacts DEF Fresh, CountOK, StoreOK
<1> QED BY <1>1, <1>2 DEF Uid

LEMMA FreshFacts ==
    ASSUME LInv, NEW n \in Names, store[n] # NoPod, FirstUse(store[n])
    PROVE  Fresh(n)
BY LifeFacts DEF Fresh, FirstUse, CountOK

LEMMA KeptPods == ASSUME LInv PROVE NoPodLost
<1> SUFFICES ASSUME NEW n \in Names, Pending(store[n]), FirstUse(store[n]), seen[n] # NoPod,
                    calls = <<>>
             PROVE  Queued(store[n]) \/ InHand(store[n])
  BY DEF NoPodLost
<1>1. Fresh(n) /\ store[n].name = n
  BY FreshFacts, LifeFacts DEF Pending, StoreOK
<1>2. Held(n) /\ ~ToAdd(n)
  BY <1>1, LifeFacts DEF KeptAt, ToAdd
<1>3. CASE PodsIn(queue[n]) # {}
  <2>1. PICK p \in Places : queue[n][p] # NoInfo /\ queue[n][p].pod \in PodsIn(queue[n])
    BY <1>3, PodsInFacts
  <2>2. /\ queue[n][p].pod \in Pods /\ queue[n][p].pod.name = n /\ Copy(queue[n][p].pod)
    BY <2>1, LifeFacts, UnschedFacts, InfoFacts DEF QueueOK, GoodSlot, QueuedOK
  <2>3. Uid(queue[n][p].pod) = Uid(store[n])
    BY <1>1, <2>2, CopiesAreOne
  <2> QED BY <1>1, <2>1, <2>3 DEF Queued
<1>4. CASE WorkerHas(n)
  <2>1. worker.pc \in HandPcs /\ worker.info.pod.name = n
    BY <1>4 DEF WorkerHas
  <2>2. worker.info.pod \in Pods /\ Copy(worker.info.pod)
    BY <2>1, InHandFacts
  <2>3. Uid(worker.info.pod) = Uid(store[n])
    BY <1>1, <2>1, <2>2, CopiesAreOne
  <2> QED BY <2>1, <2>3 DEF InHand, HandPcs
<1>5. CASE TaskHas(n)
  <2>1. PICK b \in bindings : b.info.pod.name = n /\ b.pc # "moveself"
    BY <1>5 DEF TaskHas
  <2>2. b.info.pod \in Pods /\ Copy(b.info.pod)
    BY TaskParts, InfoFacts
  <2>3. Uid(b.info.pod) = Uid(store[n])
    BY <1>1, <2>1, <2>2, CopiesAreOne
  <2> QED BY <2>1, <2>3 DEF InHand
<1> QED BY <1>2, <1>3, <1>4, <1>5 DEF Held

(* No pending pod is lost: once the informer has handled the first pod of a  *)
(* name, it is in the scheduling queue, with the worker or with a binding    *)
(* task until it is bound or deleted, whatever watch breaks, failed reads,   *)
(* failed binds, preemptions and requeues happen on the way (scheduler.rs,   *)
(* scheduling_queue.rs).                                                     *)
THEOREM NoneLost == Spec => []NoPodLost
<1>1. LInv => NoPodLost
  BY KeptPods
<1> QED BY <1>1, LifeInvariance, PTL

(* Two tasks never bind the same pod: the write of a bind, the unconditional *)
(* retry after a conflict included, finds the first pod of its name unbound  *)
(* (bind in scheduler.rs).                                                   *)
THEOREM BoundOnceOnly == Spec => BoundOnce
<1> DEFINE Once == \A b \in bindings :
          LET n == b.pod.name
          IN  ( /\ b.pc \in {"bind", "rebind"} /\ b \notin bindings'
                /\ store'[n] # store[n] /\ FirstUse(store[n]) )
              => ~Assigned(store[n])
<1>1. LInv => Once
  <2> SUFFICES ASSUME LInv, NEW b \in bindings, b.pc \in {"bind", "rebind"},
                      FirstUse(store[b.pod.name]), Assigned(store[b.pod.name])
               PROVE  FALSE
    OBVIOUS
  <2> DEFINE n == b.pod.name
  <2>1. n \in Names /\ store[n] # NoPod /\ store[n].bound
    BY TaskParts DEF Assigned
  <2>2. Fresh(n)
    BY <2>1, FreshFacts
  <2>3. Binder(b, n)
    BY DEF Binder, Binds
  <2> HIDE DEF n
  <2> QED BY <2>1, <2>2, <2>3, LifeFacts DEF BindAt, BoundAt
<1>2. LInv => [Once]_vars
  BY <1>1
<1> QED BY <1>2, LifeInvariance, PTL DEF BoundOnce

=============================================================================
