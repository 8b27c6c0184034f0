-------------------------- MODULE ReplicaSetProofs --------------------------
(***************************************************************************)
(* Proofs about ReplicaSet, with the store, the pod informer and the       *)
(* expectations it is built on, for every number of pods and replicas.     *)
(***************************************************************************)
EXTENDS ReplicaSet, FiniteSetTheorems, WellFoundedInduction, TLAPS

-----------------------------------------------------------------------------
(* The inductive invariant. *)

Typed == StoreTypeOK /\ CacheTypeOK /\ ControllerTypeOK

(* What a sync has in hand: the ReplicaSet it read; while it adopts and      *)
(* releases, a copy of every pod it has still to write; and the copy it      *)
(* marks.                                                                    *)
SyncOK ==
    /\ worker.pc # "idle" => worker.rs # NoRS
    /\ worker.pc = "claim" => \A i \in worker.todo : worker.pods[i] # NoPod
    /\ worker.pc = "mark" => worker.size \in worker.todo /\ worker.pods[worker.size] # NoPod

(* Between the two locks of expect_deletions_of the pods are recorded and    *)
(* the count is not.                                                         *)
CountOK ==
    /\ DeletionsCountedOnce
    /\ worker.pc = "expect" => uids \subseteq worker.todo

(* While a sync claims pods, every running pod of its ReplicaSet is one it   *)
(* has listed: nobody but the worker makes a pod belong to it.               *)
ListOK ==
    /\ NoOvershoot
    /\ worker.pc = "claim" =>
          Active(store, worker.rs.inc) \subseteq Active(worker.pods, worker.rs.inc)

(* The events of a pod.  A write that has still to be emitted is the newest  *)
(* of its pod if no other such write has a higher revision.                  *)
Pending(i) == {w \in Writers : unsent[w] # NoEvent /\ unsent[w].id = i}
Shows(e) == IF e.del THEN NoPod ELSE e.pod
Newest(w) ==
    \A v \in Pending(unsent[w].id) \ {w} : unsent[v].pod.rv < unsent[w].pod.rv
EndOf(k) == \A j \in 1..Len(stream) : j > k => stream[j].id # stream[k].id

(* As long as nothing came out of order: the newest write shows the pod as   *)
(* it is stored; with none to emit, the last event of the pod in the stream  *)
(* does; with none in the stream, the cache of an informer that watches.     *)
UnsentOK ==
    /\ \A w \in Writers : unsent[w] # NoEvent /\ Newest(w)
          => Shows(unsent[w]) = store[unsent[w].id]
    /\ \A v, w \in Writers :
          v # w /\ unsent[v] # NoEvent /\ unsent[w] # NoEvent /\ unsent[v].id = unsent[w].id
          => unsent[v].pod.rv # unsent[w].pod.rv

StreamOK ==
    \A k \in 1..Len(stream) :
        Pending(stream[k].id) = {} /\ EndOf(k) => Shows(stream[k]) = store[stream[k].id]

KnownOK ==
    watch = "watching" =>
        \A i \in Ids : Pending(i) = {} /\ (\A k \in 1..Len(stream) : stream[k].id # i)
            => known[i] = store[i]

EventsOK ==
    /\ watch = "down" => stream = <<>>
    /\ ~gap => UnsentOK /\ StreamOK /\ KnownOK

IInv == Typed /\ SyncOK /\ CountOK /\ ListOK /\ EventsOK

-----------------------------------------------------------------------------
(* Pods and events. *)

(* The pods are a finite set. *)
LEMMA IdFacts ==
    /\ IsFiniteSet(Ids) /\ Cardinality(Ids) = MaxPods
    /\ \A S \in SUBSET Ids : /\ IsFiniteSet(S) /\ Cardinality(S) \in 0..MaxPods
<1>1. IsFiniteSet(Ids) /\ Cardinality(Ids) = MaxPods
  BY FS_Interval, StoreAssumption DEF Ids
<1>2. ASSUME NEW S \in SUBSET Ids
      PROVE  IsFiniteSet(S) /\ Cardinality(S) \in 0..MaxPods
  <2>1. IsFiniteSet(S) /\ Cardinality(S) <= Cardinality(Ids)
    BY <1>1, FS_Subset
  <2> QED BY <1>1, <2>1, FS_CardinalityType, StoreAssumption
<1> QED BY <1>1, <1>2

(* A set of numbers has a least element. *)
LEMMA LeastElement ==
    ASSUME NEW T \in SUBSET Nat, T # {}
    PROVE  \E x \in T : \A y \in T : x <= y
<1> DEFINE R == OpToRel(<, Nat)
<1>1. IsWellFoundedOn(R, Nat)
  BY NatLessThanWellFounded
<1>2. \A x, y \in Nat : x < y => <<x, y>> \in R
  BY DEF OpToRel
<1> HIDE DEF R
<1>3. PICK x \in T : \A y \in T : ~ (<<y, x>> \in R)
  BY <1>1, WFMin
<1>4. ASSUME NEW y \in T PROVE x <= y
  <2>1. x \in Nat /\ y \in Nat /\ ~(<<y, x>> \in R)
    BY <1>3
  <2>2. ~(y < x)
    BY <1>2, <2>1
  <2> QED BY <2>1, <2>2
<1> QED BY <1>4

(* A new pod takes a number that is out of use. *)
LEMMA FreshFacts ==
    ASSUME InUse # Ids
    PROVE  FreshId \in Ids \ InUse
<1> DEFINE free == Ids \ InUse
<1>1. free # {} /\ free \subseteq Nat
  BY StoreAssumption DEF InUse, Ids
<1> HIDE DEF free
<1>2. \E i \in free : \A j \in free : i <= j
  BY <1>1, LeastElement
<1> QED BY <1>2 DEF FreshId, free

(* A pod with a field changed is a pod. *)
LEMMA PodFacts ==
    ASSUME NEW p \in Pods
    PROVE  /\ p # NoPod /\ p.rv \in Nat
           /\ [p EXCEPT !.rv = @ + 1] \in Pods /\ [p EXCEPT !.rv = @ + 1].rv = p.rv + 1
           /\ [p EXCEPT !.term = TRUE] \in Pods /\ [p EXCEPT !.dead = TRUE] \in Pods
           /\ [p EXCEPT !.match = FALSE] \in Pods
           /\ \A n \in 0..MaxInc : [p EXCEPT !.owner = n] \in Pods
           /\ \A n \in Nat : /\ [p EXCEPT !.term = TRUE, !.rv = n] \in Pods
                             /\ [p EXCEPT !.term = TRUE, !.rv = n].rv = n
<1>1. p # NoPod
  BY NoValueAssumption
<1>2. /\ p.rv \in Nat
      /\ [p EXCEPT !.rv = @ + 1] \in Pods /\ [p EXCEPT !.rv = @ + 1].rv = p.rv + 1
  BY DEF Pods
<1>3. /\ [p EXCEPT !.term = TRUE] \in Pods /\ [p EXCEPT !.dead = TRUE] \in Pods
      /\ [p EXCEPT !.match = FALSE] \in Pods
  BY DEF Pods
<1>4. ASSUME NEW n \in 0..MaxInc PROVE [p EXCEPT !.owner = n] \in Pods
  BY DEF Pods
<1>5. ASSUME NEW n \in Nat
      PROVE  /\ [p EXCEPT !.term = TRUE, !.rv = n] \in Pods
             /\ [p EXCEPT !.term = TRUE, !.rv = n].rv = n
  BY DEF Pods
<1> QED BY <1>1, <1>2, <1>3, <1>4, <1>5

(* The events of the watch are events of pods. *)
LEMMA StreamFacts ==
    ASSUME StoreTypeOK, NEW k \in 1..Len(stream)
    PROVE  stream[k] \in PodEvents /\ stream[k].id \in Ids
<1>1. stream[k] \in PodEvents
  BY DEF StoreTypeOK
<1> QED BY <1>1 DEF PodEvents

(* A write is an event of the pod it writes. *)
LEMMA PutFacts ==
    ASSUME StoreTypeOK, NEW w \in Writers, NEW i \in Ids, NEW p \in Pods, Put(w, i, p),
           UNCHANGED watch
    PROVE  /\ StoreTypeOK'
           /\ store'[i] = [p EXCEPT !.rv = @ + 1]
           /\ \A j \in Ids \ {i} : store'[j] = store[j]
           /\ unsent[w] = NoEvent
           /\ unsent'[w] = [del |-> FALSE, id |-> i, pod |-> [p EXCEPT !.rv = @ + 1]]
           /\ unsent'[w] # NoEvent
           /\ \A v \in Writers \ {w} : unsent'[v] = unsent[v]
           /\ UNCHANGED <<stream, gap>>
<1> DEFINE q == [p EXCEPT !.rv = @ + 1]
           e == [del |-> FALSE, id |-> i, pod |-> q]
<1>1. q \in Pods
  BY PodFacts
<1>2. /\ store' = [store EXCEPT ![i] = q] /\ unsent' = [unsent EXCEPT ![w] = e]
      /\ unsent[w] = NoEvent /\ UNCHANGED <<stream, gap>>
  BY DEF Put
<1>3. e \in PodEvents /\ e # NoEvent
  <2> HIDE DEF q
  <2>1. e \in PodEvents
    BY <1>1 DEF PodEvents
  <2> QED BY <2>1, NoValueAssumption
<1> HIDE DEF q, e
<1>4. store' \in [Ids -> Pods \cup {NoPod}] /\ unsent' \in [Writers -> PodEvents \cup {NoEvent}]
  BY <1>1, <1>2, <1>3 DEF StoreTypeOK
<1>5. StoreTypeOK'
  BY <1>2, <1>4 DEF StoreTypeOK
<1>6. /\ store'[i] = q /\ unsent'[w] = e
      /\ \A j \in Ids \ {i} : store'[j] = store[j]
      /\ \A v \in Writers \ {w} : unsent'[v] = unsent[v]
  BY <1>2 DEF StoreTypeOK
<1> QED BY <1>2, <1>3, <1>5, <1>6 DEF e, q

(* So is a delete. *)
LEMMA EraseFacts ==
    ASSUME StoreTypeOK, NEW w \in Writers, NEW i \in Ids, store[i] # NoPod, Erase(w, i),
           UNCHANGED watch
    PROVE  /\ StoreTypeOK'
           /\ store'[i] = NoPod
           /\ \A j \in Ids \ {i} : store'[j] = store[j]
           /\ unsent[w] = NoEvent
           /\ unsent'[w] = [del |-> TRUE, id |-> i, pod |-> [store[i] EXCEPT !.rv = @ + 1]]
           /\ unsent'[w] # NoEvent
           /\ \A v \in Writers \ {w} : unsent'[v] = unsent[v]
           /\ UNCHANGED <<stream, gap>>
<1> DEFINE q == [store[i] EXCEPT !.rv = @ + 1]
           e == [del |-> TRUE, id |-> i, pod |-> q]
<1>1. q \in Pods
  <2>1. store[i] \in Pods
    BY DEF StoreTypeOK
  <2> QED BY <2>1, PodFacts
<1>2. /\ store' = [store EXCEPT ![i] = NoPod] /\ unsent' = [unsent EXCEPT ![w] = e]
      /\ unsent[w] = NoEvent /\ UNCHANGED <<stream, gap>>
  BY DEF Erase
<1>3. e \in PodEvents /\ e # NoEvent
  <2> HIDE DEF q
  <2>1. e \in PodEvents
    BY <1>1 DEF PodEvents
  <2> QED BY <2>1, NoValueAssumption
<1> HIDE DEF q, e
<1>4. store' \in [Ids -> Pods \cup {NoPod}] /\ unsent' \in [Writers -> PodEvents \cup {NoEvent}]
  BY <1>1, <1>2, <1>3 DEF StoreTypeOK
<1>5. StoreTypeOK'
  BY <1>2, <1>4 DEF StoreTypeOK
<1>6. /\ store'[i] = NoPod /\ unsent'[w] = e
      /\ \A j \in Ids \ {i} : store'[j] = store[j]
      /\ \A v \in Writers \ {w} : unsent'[v] = unsent[v]
  BY <1>2 DEF StoreTypeOK
<1> QED BY <1>2, <1>3, <1>5, <1>6 DEF e, q

-----------------------------------------------------------------------------
(* The events: one lemma per step of the store and of the informer. *)

(* Two writers: when one has nothing to emit, the other's write is the       *)
(* newest of its pod.                                                        *)
LEMMA OnlyWriter ==
    ASSUME NEW w \in Writers, unsent[w] = NoEvent, NEW v \in Writers, v # w
    PROVE  Newest(v)
<1>1. Pending(unsent[v].id) \ {v} = {}
  BY DEF Pending, Writers
<1> QED BY <1>1 DEF Newest

(* A write of pod e.id, newer than any write of it that is not emitted yet.  *)
LEMMA WriteEvents ==
    ASSUME StoreTypeOK, EventsOK, NEW w \in Writers, NEW e \in PodEvents,
           unsent[w] = NoEvent, unsent'[w] = e,
           \A v \in Writers \ {w} : unsent'[v] = unsent[v],
           store'[e.id] = Shows(e),
           \A j \in Ids \ {e.id} : store'[j] = store[j],
           Pending(e.id) = {} \/ (store[e.id] \in Pods /\ e.pod.rv = store[e.id].rv + 1),
           UNCHANGED <<stream, gap, watch, known>>
    PROVE  EventsOK'
<1> SUFFICES ASSUME ~gap PROVE UnsentOK' /\ StreamOK' /\ KnownOK'
  BY DEF EventsOK
<1>0. UnsentOK /\ StreamOK /\ KnownOK
  BY DEF EventsOK
<1>1. e # NoEvent /\ e.id \in Ids
  BY NoValueAssumption DEF PodEvents
<1>2. ASSUME NEW v \in Writers, v # w, unsent[v] # NoEvent
      PROVE  /\ Shows(unsent[v]) = store[unsent[v].id] /\ unsent[v].id \in Ids
             /\ unsent[v].id = e.id => unsent[v].pod.rv < e.pod.rv
  <2>1. Shows(unsent[v]) = store[unsent[v].id] /\ unsent[v] \in PodEvents
    BY <1>0, <1>2, OnlyWriter DEF UnsentOK, StoreTypeOK
  <2>2. unsent[v].id = e.id => unsent[v].pod.rv < e.pod.rv
    <3> SUFFICES ASSUME unsent[v].id = e.id PROVE unsent[v].pod.rv < e.pod.rv
      OBVIOUS
    <3>1. store[e.id] \in Pods /\ e.pod.rv = store[e.id].rv + 1
      BY <1>2 DEF Pending
    <3>2. unsent[v].pod = store[e.id]
      BY <2>1, <3>1, NoValueAssumption DEF Shows
    <3> QED BY <3>1, <3>2 DEF Pods
  <2> QED BY <2>1, <2>2 DEF PodEvents
<1>3. UnsentOK'
  <2>1. ASSUME NEW v \in Writers, unsent'[v] # NoEvent, Newest(v)'
        PROVE  Shows(unsent'[v]) = store'[unsent'[v].id]
    <3>1. CASE v = w
      BY <3>1
    <3>2. CASE v # w
      <4>1. unsent'[v] = unsent[v] /\ unsent[v].id \in Ids
        BY <1>2, <2>1, <3>2
      <4>2. unsent[v].id # e.id
        <5> SUFFICES ASSUME unsent[v].id = e.id PROVE FALSE
          OBVIOUS
        <5>1. unsent'[w] # NoEvent /\ unsent'[w].id = unsent'[v].id
          BY <1>1, <4>1
        <5>2. unsent'[w].pod.rv < unsent'[v].pod.rv
          BY <2>1, <3>2, <5>1 DEF Newest, Pending
        <5>3. unsent[v].pod.rv < e.pod.rv
          BY <1>2, <2>1, <3>2, <4>1
        <5>4. unsent[v].pod.rv \in Nat /\ e.pod.rv \in Nat
          BY <2>1, <4>1 DEF StoreTypeOK, PodEvents, Pods
        <5> QED BY <4>1, <5>2, <5>3, <5>4
      <4> QED BY <1>2, <2>1, <3>2, <4>1, <4>2 DEF Shows
    <3> QED BY <3>1, <3>2
  <2>2. ASSUME NEW u \in Writers, NEW v \in Writers, u # v,
               unsent'[u] # NoEvent, unsent'[v] # NoEvent, unsent'[u].id = unsent'[v].id
        PROVE  unsent'[u].pod.rv # unsent'[v].pod.rv
    <3>1. e.pod.rv \in Nat
      BY DEF PodEvents, Pods
    <3>2. CASE u = w
      <4>1. unsent[v].pod.rv < e.pod.rv
        BY <1>2, <2>2, <3>2
      <4> QED BY <2>2, <3>1, <3>2, <4>1
    <3>3. CASE v = w
      <4>1. unsent[u].pod.rv < e.pod.rv
        BY <1>2, <2>2, <3>3
      <4> QED BY <2>2, <3>1, <3>3, <4>1
    <3> QED BY <1>0, <2>2, <3>2, <3>3 DEF UnsentOK
  <2> QED BY <2>1, <2>2 DEF UnsentOK, Shows
<1>4. w \in Pending(e.id)'
  BY <1>1 DEF Pending
<1>5. ASSUME NEW i \in Ids, i # e.id
      PROVE  Pending(i)' = Pending(i) /\ store'[i] = store[i]
  BY <1>5 DEF Pending
<1>6. ASSUME NEW k \in 1..Len(stream) PROVE stream[k].id \in Ids
  BY StreamFacts
<1>7. StreamOK'
  <2> SUFFICES ASSUME NEW k \in 1..Len(stream), Pending(stream[k].id)' = {}, EndOf(k)
               PROVE  Shows(stream[k]) = store'[stream[k].id]
    BY DEF StreamOK, EndOf, Shows
  <2> QED BY <1>0, <1>4, <1>5, <1>6 DEF StreamOK
<1>8. KnownOK'
  BY <1>0, <1>4, <1>5 DEF KnownOK
<1> QED BY <1>3, <1>7, <1>8

(* create and update. *)
LEMMA PutEvents ==
    ASSUME StoreTypeOK, EventsOK, NEW w \in Writers, NEW i \in Ids, NEW p \in Pods,
           Put(w, i, p), UNCHANGED <<watch, known>>,
           Pending(i) = {} \/ (store[i] # NoPod /\ p.rv = store[i].rv)
    PROVE  EventsOK'
<1> DEFINE q == [p EXCEPT !.rv = @ + 1]
           e == [del |-> FALSE, id |-> i, pod |-> q]
<1>1. q \in Pods /\ q.rv = p.rv + 1
  BY PodFacts
<1>2. /\ store'[i] = q /\ \A j \in Ids \ {i} : store'[j] = store[j]
      /\ unsent[w] = NoEvent /\ unsent'[w] = e
      /\ \A v \in Writers \ {w} : unsent'[v] = unsent[v]
      /\ UNCHANGED <<stream, gap, watch, known>>
  BY PutFacts
<1> HIDE DEF q
<1>3. e \in PodEvents /\ e.id = i /\ e.pod = q /\ Shows(e) = q
  BY <1>1 DEF PodEvents, Shows
<1>4. Pending(i) = {} \/ (store[i] \in Pods /\ q.rv = store[i].rv + 1)
  BY <1>1 DEF StoreTypeOK
<1> HIDE DEF e
<1> QED BY <1>2, <1>3, <1>4, WriteEvents

(* delete. *)
LEMMA EraseEvents ==
    ASSUME StoreTypeOK, EventsOK, NEW w \in Writers, NEW i \in Ids, store[i] # NoPod,
           Erase(w, i), UNCHANGED <<watch, known>>
    PROVE  EventsOK'
<1> DEFINE q == [store[i] EXCEPT !.rv = @ + 1]
           e == [del |-> TRUE, id |-> i, pod |-> q]
<1>1. store[i] \in Pods
  BY DEF StoreTypeOK
<1>2. q \in Pods /\ q.rv = store[i].rv + 1
  BY <1>1, PodFacts
<1>3. /\ store'[i] = NoPod /\ \A j \in Ids \ {i} : store'[j] = store[j]
      /\ unsent[w] = NoEvent /\ unsent'[w] = e
      /\ \A v \in Writers \ {w} : unsent'[v] = unsent[v]
      /\ UNCHANGED <<stream, gap, watch, known>>
  BY EraseFacts
<1> HIDE DEF q
<1>4. e \in PodEvents /\ e.id = i /\ e.pod = q /\ Shows(e) = NoPod
  BY <1>2 DEF PodEvents, Shows
<1> HIDE DEF e
<1> QED BY <1>1, <1>2, <1>3, <1>4, WriteEvents

(* emit: out of order, and the gap is noted, or the event is the newest of   *)
(* its pod or a newer one follows.                                           *)
LEMMA EmitEvents ==
    ASSUME StoreTypeOK, EventsOK, NEW w \in Writers, Emit(w), UNCHANGED known
    PROVE  StoreTypeOK' /\ EventsOK'
<1> DEFINE e == unsent[w]
<1>1. e \in PodEvents /\ e.id \in Ids /\ e # NoEvent
  BY DEF StoreTypeOK, Emit, PodEvents
<1>2. /\ stream' = IF watch = "down" THEN stream ELSE Append(stream, e)
      /\ unsent' = [unsent EXCEPT ![w] = NoEvent] /\ UNCHANGED <<store, watch>>
      /\ gap' = (gap \/ \E v \in Writers \ {w} :
                           /\ unsent[v] # NoEvent /\ unsent[v].id = e.id
                           /\ unsent[v].pod.rv < e.pod.rv)
  BY DEF Emit
<1>3. StoreTypeOK'
  <2> HIDE DEF e
  <2>1. stream' \in Seq(PodEvents)
    BY <1>1, <1>2 DEF StoreTypeOK
  <2> QED BY <1>2, <2>1 DEF StoreTypeOK
<1>4. watch = "down" => stream' = <<>>
  BY <1>2 DEF EventsOK
<1> SUFFICES ASSUME ~gap' PROVE UnsentOK' /\ StreamOK' /\ KnownOK'
  BY <1>2, <1>3, <1>4 DEF EventsOK
<1>5. /\ ~gap /\ UnsentOK /\ StreamOK /\ KnownOK
      /\ \A v \in Writers \ {w} :
            unsent[v] # NoEvent /\ unsent[v].id = e.id => ~(unsent[v].pod.rv < e.pod.rv)
  BY <1>2 DEF EventsOK
<1>6. unsent'[w] = NoEvent /\ \A v \in Writers \ {w} : unsent'[v] = unsent[v]
  BY <1>2 DEF StoreTypeOK
<1>7. ASSUME NEW v \in Writers \ {w}, unsent[v] # NoEvent
      PROVE  Shows(unsent[v]) = store[unsent[v].id]
  <2>1. Pending(unsent[v].id) \ {v} \subseteq {w}
    BY DEF Pending, Writers
  <2>2. unsent[v].id = e.id => e.pod.rv < unsent[v].pod.rv
    <3>1. unsent[v].id = e.id => e.pod.rv # unsent[v].pod.rv
      BY <1>1, <1>5, <1>7 DEF UnsentOK
    <3>2. e.pod.rv \in Nat /\ unsent[v].pod.rv \in Nat
      BY <1>1, <1>7 DEF StoreTypeOK, PodEvents, Pods
    <3> QED BY <1>5, <1>7, <3>1, <3>2
  <2>3. Newest(v)
    BY <2>1, <2>2 DEF Newest, Pending
  <2> QED BY <1>5, <1>7, <2>3 DEF UnsentOK
<1>8. UnsentOK'
  <2>1. ASSUME NEW v \in Writers, unsent'[v] # NoEvent
        PROVE  Shows(unsent'[v]) = store'[unsent'[v].id]
    BY <1>2, <1>6, <1>7, <2>1
  <2>2. ASSUME NEW u \in Writers, NEW v \in Writers, u # v,
               unsent'[u] # NoEvent, unsent'[v] # NoEvent
        PROVE  FALSE
    BY <1>6, <2>2 DEF Writers
  <2> QED BY <2>1, <2>2 DEF UnsentOK, Shows
<1>9. ASSUME NEW i \in Ids, Pending(i)' = {}
      PROVE  /\ i # e.id => Pending(i) = {}
             /\ i = e.id => Shows(e) = store[i]
  <2>1. Pending(i) \subseteq {w}
    BY <1>6, <1>9 DEF Pending
  <2>2. i # e.id => w \notin Pending(i)
    BY DEF Pending
  <2>3. i = e.id => Newest(w)
    BY <2>1 DEF Newest
  <2> QED BY <1>1, <1>5, <2>1, <2>2, <2>3 DEF UnsentOK
<1> HIDE DEF e
<1>10. StreamOK'
  <2>1. CASE watch = "down"
    BY <1>4, <2>1 DEF StreamOK
  <2>2. CASE watch # "down"
    <3>1. /\ stream' = Append(stream, e) /\ stream \in Seq(PodEvents) /\ Len(stream) \in Nat
          /\ Len(stream') = Len(stream) + 1 /\ stream'[Len(stream) + 1] = e
          /\ \A k \in 1..Len(stream) : stream'[k] = stream[k]
      BY <1>1, <1>2, <2>2 DEF StoreTypeOK
    <3>2. ASSUME NEW k \in 1..Len(stream'), Pending(stream[k].id)' = {}, EndOf(k)',
                 k # Len(stream) + 1
          PROVE  Shows(stream[k]) = store[stream[k].id]
      <4>1. k \in 1..Len(stream) /\ stream'[k] = stream[k] /\ stream[k].id \in Ids
        BY <3>1, <3>2, StreamFacts
      <4>2. stream[k].id # e.id /\ EndOf(k)
        BY <3>1, <3>2, <4>1 DEF EndOf
      <4>3. Pending(stream[k].id) = {}
        BY <1>9, <3>2, <4>1, <4>2
      <4> QED BY <1>5, <4>1, <4>2, <4>3 DEF StreamOK
    <3>3. ASSUME NEW k \in 1..Len(stream'), Pending(stream[k].id)' = {},
                 k = Len(stream) + 1
          PROVE  Shows(stream[k])' = store[stream'[k].id]
      <4>1. stream'[k] = e
        BY <3>1, <3>3
      <4>2. Shows(e) = store[e.id]
        BY <1>1, <1>9, <3>3, <4>1
      <4> QED BY <4>1, <4>2 DEF Shows
    <3>4. ASSUME NEW k \in 1..Len(stream'), Pending(stream[k].id)' = {}, EndOf(k)'
          PROVE  Shows(stream[k])' = store[stream'[k].id]
      <4>1. CASE k = Len(stream) + 1
        BY <3>3, <3>4, <4>1
      <4>2. CASE k # Len(stream) + 1
        <5>1. stream'[k] = stream[k]
          BY <3>1, <3>4, <4>2
        <5> QED BY <3>2, <3>4, <4>2, <5>1 DEF Shows
      <4> QED BY <4>1, <4>2
    <3> QED BY <1>2, <3>4 DEF StreamOK
  <2> QED BY <2>1, <2>2
<1>11. KnownOK'
  <2> SUFFICES ASSUME watch = "watching", NEW i \in Ids, Pending(i)' = {},
                      \A k \in 1..Len(stream') : stream'[k].id # i
               PROVE  known[i] = store[i]
    BY <1>2 DEF KnownOK
  <2>1. /\ stream' = Append(stream, e) /\ stream \in Seq(PodEvents) /\ Len(stream) \in Nat
        /\ Len(stream') = Len(stream) + 1 /\ stream'[Len(stream) + 1] = e
        /\ \A k \in 1..Len(stream) : stream'[k] = stream[k]
    BY <1>1, <1>2 DEF StoreTypeOK
  <2>2. e.id # i /\ \A k \in 1..Len(stream) : stream[k].id # i
    BY <2>1
  <2> QED BY <1>5, <1>9, <2>2 DEF KnownOK
<1> QED BY <1>8, <1>10, <1>11

(* on_event: the cache takes what the event shows. *)
LEMMA DeliverEvents ==
    ASSUME StoreTypeOK, CacheTypeOK, EventsOK, Deliver
    PROVE  StoreTypeOK' /\ CacheTypeOK' /\ EventsOK'
<1> DEFINE e == Head(stream)
<1>1. /\ watch = "watching" /\ stream # <<>> /\ stream' = Tail(stream)
      /\ known' = [known EXCEPT ![e.id] = Shows(e)]
      /\ UNCHANGED <<store, unsent, gap, watch>>
  BY DEF Deliver, Shows
<1>2. /\ Len(stream) \in Nat \ {0} /\ e = stream[1] /\ e \in PodEvents
      /\ stream' \in Seq(PodEvents) /\ Len(stream') = Len(stream) - 1
      /\ \A k \in 1..(Len(stream) - 1) : stream'[k] = stream[k + 1]
  BY <1>1 DEF StoreTypeOK
<1> HIDE DEF e
<1>3. e.id \in Ids /\ Shows(e) \in Pods \cup {NoPod}
  BY <1>2 DEF PodEvents, Shows
<1>4. StoreTypeOK' /\ CacheTypeOK'
  BY <1>1, <1>2, <1>3 DEF StoreTypeOK, CacheTypeOK
<1> SUFFICES ASSUME ~gap PROVE UnsentOK' /\ StreamOK' /\ KnownOK'
  BY <1>1, <1>4 DEF EventsOK
<1>5. UnsentOK /\ StreamOK /\ KnownOK
  BY DEF EventsOK
<1>6. UnsentOK'
  BY <1>1, <1>5 DEF UnsentOK, Newest, Pending, Shows
<1>7. \A i : Pending(i)' = Pending(i)
  BY <1>1 DEF Pending
<1>8. StreamOK'
  <2> SUFFICES ASSUME NEW k \in 1..(Len(stream) - 1), Pending(stream'[k].id) = {}, EndOf(k)'
               PROVE  Shows(stream'[k]) = store[stream'[k].id]
    BY <1>1, <1>2, <1>7 DEF StreamOK, Shows
  <2>1. k + 1 \in 1..Len(stream) /\ stream'[k] = stream[k + 1]
    BY <1>2
  <2>2. EndOf(k + 1)
    <3> SUFFICES ASSUME NEW j \in 1..Len(stream), j > k + 1
                 PROVE  stream[j].id # stream[k + 1].id
      BY DEF EndOf
    <3>1. j - 1 \in 1..(Len(stream) - 1) /\ j - 1 > k /\ stream'[j - 1] = stream[(j - 1) + 1]
      BY <1>2
    <3>2. stream'[j - 1] = stream[j]
      BY <1>2, <3>1
    <3> QED BY <1>2, <2>1, <3>1, <3>2 DEF EndOf
  <2> QED BY <1>5, <2>1, <2>2 DEF StreamOK
<1>9. KnownOK'
  <2> SUFFICES ASSUME NEW i \in Ids, Pending(i) = {},
                      \A k \in 1..(Len(stream) - 1) : stream'[k].id # i
               PROVE  known'[i] = store[i]
    BY <1>1, <1>2, <1>7 DEF KnownOK
  <2>1. ASSUME NEW j \in 1..Len(stream), j > 1 PROVE stream[j].id # i
    <3>1. j - 1 \in 1..(Len(stream) - 1) /\ stream'[j - 1] = stream[(j - 1) + 1]
      BY <1>2, <2>1
    <3>2. stream'[j - 1] = stream[j]
      BY <1>2, <3>1
    <3> QED BY <3>1, <3>2
  <2>2. CASE i = e.id
    <3>1. EndOf(1) /\ 1 \in 1..Len(stream)
      BY <1>2, <2>1, <2>2 DEF EndOf
    <3>2. Shows(e) = store[i]
      BY <1>2, <1>5, <2>2, <3>1 DEF StreamOK
    <3> QED BY <1>1, <1>3, <2>2, <3>2 DEF CacheTypeOK
  <2>3. CASE i # e.id
    <3>1. \A j \in 1..Len(stream) : stream[j].id # i
      BY <1>2, <2>1, <2>3
    <3>2. known[i] = store[i]
      BY <1>1, <1>5, <3>1 DEF KnownOK
    <3> QED BY <1>1, <2>3, <3>2 DEF CacheTypeOK
  <2> QED BY <2>2, <2>3
<1> QED BY <1>6, <1>8, <1>9

(* The watch is opened, breaks, or is followed by a list that fails or not.  *)
LEMMA WatchEvents ==
    ASSUME StoreTypeOK, CacheTypeOK, EventsOK,
           OpenWatch \/ Relist \/ WatchBreaks \/ RelistFails
    PROVE  StoreTypeOK' /\ CacheTypeOK' /\ EventsOK'
<1>1. CASE OpenWatch
  BY <1>1 DEF OpenWatch, storeVars, StoreTypeOK, CacheTypeOK, EventsOK, UnsentOK, StreamOK,
              KnownOK, Newest, Pending, EndOf, Shows
<1>2. CASE Relist
  BY <1>2 DEF Relist, storeVars, StoreTypeOK, CacheTypeOK, EventsOK, UnsentOK, StreamOK,
              KnownOK, Newest, Pending, EndOf, Shows
<1>3. CASE WatchBreaks
  BY <1>3 DEF WatchBreaks, StoreTypeOK, CacheTypeOK, EventsOK, UnsentOK, StreamOK,
              KnownOK, Newest, Pending, EndOf, Shows
<1>4. CASE RelistFails
  BY <1>4 DEF RelistFails, StoreTypeOK, CacheTypeOK, EventsOK
<1> QED BY <1>1, <1>2, <1>3, <1>4

(* Nothing happens to the pods, their events and the cache. *)
LEMMA QuietEvents ==
    ASSUME StoreTypeOK, CacheTypeOK, EventsOK, UNCHANGED <<storeVars, watch, known>>
    PROVE  StoreTypeOK' /\ CacheTypeOK' /\ EventsOK'
BY DEF storeVars, StoreTypeOK, CacheTypeOK, EventsOK, UnsentOK, StreamOK, KnownOK, Newest,
       Pending, EndOf, Shows

-----------------------------------------------------------------------------
(* The expectations and the pods of a sync. *)

(* lower_expectations. *)
LEMMA LoweredFacts ==
    ASSUME entry \in Entries \cup {NoEntry}, NEW a \in Int, NEW d \in Int
    PROVE  /\ Lowered(a, d) \in Entries \cup {NoEntry}
           /\ Lowered(a, d) # NoEntry =>
                 /\ entry # NoEntry /\ entry.del \in Int
                 /\ Lowered(a, d).del = entry.del - d
                 /\ Lowered(a, d).deletes = entry.deletes
<1>1. CASE entry = NoEntry
  BY <1>1 DEF Lowered
<1>2. CASE entry # NoEntry
  <2>1. entry \in Entries
    BY <1>2
  <2>2. Lowered(a, d) = [entry EXCEPT !.add = @ - a, !.del = @ - d]
    BY <1>2 DEF Lowered
  <2>3. /\ entry.add \in Int /\ entry.del \in Int
        /\ entry.expired \in BOOLEAN /\ entry.deletes \in BOOLEAN
    BY <2>1 DEF Entries
  <2>4. Lowered(a, d) = [add |-> entry.add - a, del |-> entry.del - d,
                         expired |-> entry.expired, deletes |-> entry.deletes]
    BY <2>1, <2>2 DEF Entries
  <2>5. /\ entry.add - a \in Int /\ entry.del - d \in Int
        /\ Lowered(a, d).del = entry.del - d /\ Lowered(a, d).deletes = entry.deletes
    BY <2>3, <2>4
  <2>6. Lowered(a, d) \in Entries
    BY <2>3, <2>4, <2>5 DEF Entries
  <2> QED BY <1>2, <2>3, <2>5, <2>6
<1> QED BY <1>1, <1>2

(* An observed deletion takes a pod out of the expected ones and one off the *)
(* count, or neither.                                                        *)
LEMMA ObservedCount ==
    ASSUME ControllerTypeOK, CountOK, NEW S \in SUBSET Ids, DeletionsObserved(S),
           worker' = worker \/ (worker.pc # "expect" /\ worker'.pc # "expect")
    PROVE  CountOK' /\ entry' \in Entries \cup {NoEntry} /\ uids' \subseteq Ids
<1> DEFINE n == Cardinality(S \cap uids)
<1>1. /\ uids \subseteq Ids /\ uids' = uids \ S /\ entry' = Lowered(0, n)
      /\ entry \in Entries \cup {NoEntry}
  BY DEF DeletionsObserved, ControllerTypeOK
<1>2. n \in Nat /\ Cardinality(uids) \in Nat /\ IsFiniteSet(uids)
  <2>1. S \cap uids \subseteq Ids
    OBVIOUS
  <2> QED BY <1>1, <2>1, IdFacts, StoreAssumption
<1>3. Cardinality(uids') = Cardinality(uids) - n
  <2>1. Cardinality(uids \ S) = Cardinality(uids) - Cardinality(uids \cap S)
    BY <1>2, FS_Difference
  <2>2. uids \cap S = S \cap uids
    OBVIOUS
  <2> QED BY <1>1, <2>1, <2>2
<1> HIDE DEF n
<1>4. /\ entry' \in Entries \cup {NoEntry}
      /\ entry' # NoEntry => /\ entry # NoEntry /\ entry.del \in Int
                             /\ entry'.del = entry.del - n
                             /\ entry'.deletes = entry.deletes
  BY <1>1, <1>2, LoweredFacts
<1>5. DeletionsCountedOnce'
  <2> SUFFICES ASSUME entry' # NoEntry, entry'.deletes, worker'.pc # "expect"
               PROVE  entry'.del >= Cardinality(uids')
    BY DEF DeletionsCountedOnce
  <2>1. entry.del >= Cardinality(uids)
    BY <1>4 DEF CountOK, DeletionsCountedOnce
  <2> QED BY <1>2, <1>3, <1>4, <2>1
<1> QED BY <1>1, <1>4, <1>5 DEF CountOK

(* The creations that are observed. *)
LEMMA CreatedCount ==
    ASSUME ControllerTypeOK, CountOK, NEW n \in Nat, CreationsObserved(n),
           worker' = worker \/ (worker.pc # "expect" /\ worker'.pc # "expect")
    PROVE  CountOK' /\ entry' \in Entries \cup {NoEntry} /\ uids' \subseteq Ids
<1>1. /\ uids' = uids /\ uids \subseteq Ids /\ entry' = Lowered(n, 0)
      /\ entry \in Entries \cup {NoEntry}
  BY DEF CreationsObserved, ControllerTypeOK
<1>2. /\ entry' \in Entries \cup {NoEntry}
      /\ entry' # NoEntry => /\ entry # NoEntry /\ entry.del \in Int
                             /\ entry'.del = entry.del - 0
                             /\ entry'.deletes = entry.deletes
  BY <1>1, LoweredFacts
<1>3. DeletionsCountedOnce'
  <2> SUFFICES ASSUME entry' # NoEntry, entry'.deletes, worker'.pc # "expect"
               PROVE  entry'.del >= Cardinality(uids')
    BY DEF DeletionsCountedOnce
  <2>1. entry.del >= Cardinality(uids)
    BY <1>2 DEF CountOK, DeletionsCountedOnce
  <2> QED BY <1>1, <1>2, <2>1
<1> QED BY <1>1, <1>2, <1>3 DEF CountOK

(* The expectations are dropped. *)
LEMMA DroppedCount ==
    ASSUME DeleteExpectations, worker.pc # "expect" => worker'.pc # "expect"
    PROVE  CountOK' /\ entry' \in Entries \cup {NoEntry} /\ uids' \subseteq Ids
BY DEF DeleteExpectations, CountOK, DeletionsCountedOnce

(* The expectations stay as they are. *)
LEMMA QuietCount ==
    ASSUME ControllerTypeOK, CountOK, UNCHANGED expectVars,
           worker' = worker \/ (worker.pc # "expect" /\ worker'.pc # "expect")
    PROVE  CountOK' /\ entry' \in Entries \cup {NoEntry} /\ uids' \subseteq Ids
BY DEF expectVars, CountOK, DeletionsCountedOnce, ControllerTypeOK

(* The ReplicaSet of a sync. *)
LEMMA SyncFacts ==
    ASSUME ControllerTypeOK, SyncOK, worker.pc # "idle"
    PROVE  /\ worker.rs \in RSs /\ worker.rs.inc \in 1..MaxInc
           /\ worker.rs.replicas \in 0..MaxReplicas
<1>1. worker.rs \in RSs
  BY DEF ControllerTypeOK, WorkerStates, SyncOK
<1> QED BY <1>1 DEF RSs

(* The running pods of a ReplicaSet are finitely many. *)
LEMMA ActiveFacts ==
    ASSUME NEW P, NEW Q, NEW n, Active(P, n) \subseteq Active(Q, n)
    PROVE  /\ Cardinality(Active(P, n)) <= Cardinality(Active(Q, n))
           /\ Cardinality(Active(P, n)) \in 0..MaxPods
           /\ Cardinality(Active(Q, n)) \in 0..MaxPods
<1>1. Active(P, n) \in SUBSET Ids /\ Active(Q, n) \in SUBSET Ids
  BY DEF Active
<1>2. IsFiniteSet(Active(Q, n))
  BY <1>1, IdFacts
<1> QED BY <1>1, <1>2, IdFacts, FS_Subset

(* A step that makes no pod belong to a ReplicaSet leaves a sync as it was.  *)
LEMMA QuietSync ==
    ASSUME Typed, SyncOK, ListOK, UNCHANGED worker,
           \A n \in 1..MaxInc : Active(store', n) \subseteq Active(store, n)
    PROVE  SyncOK' /\ ListOK' /\ worker' \in WorkerStates
<1>1. SyncOK' /\ worker' \in WorkerStates
  BY DEF SyncOK, Typed, ControllerTypeOK
<1>2. NoOvershoot'
  <2> SUFFICES ASSUME worker.pc = "create"
               PROVE  Cardinality(Active(store', worker.rs.inc)) + worker.batch + worker.left
                        <= worker.rs.replicas
    BY DEF NoOvershoot
  <2>1. worker.rs.inc \in 1..MaxInc /\ worker.rs.replicas \in 0..MaxReplicas
    BY SyncFacts DEF Typed
  <2>2. /\ Cardinality(Active(store', worker.rs.inc)) \in 0..MaxPods
        /\ Cardinality(Active(store, worker.rs.inc)) \in 0..MaxPods
        /\ Cardinality(Active(store', worker.rs.inc)) <= Cardinality(Active(store, worker.rs.inc))
    BY <2>1, ActiveFacts
  <2>3. worker.batch \in Nat /\ worker.left \in Nat
    BY DEF Typed, ControllerTypeOK, WorkerStates
  <2>4. Cardinality(Active(store, worker.rs.inc)) + worker.batch + worker.left
            <= worker.rs.replicas
    BY DEF ListOK, NoOvershoot
  <2> QED BY <2>1, <2>2, <2>3, <2>4, ControllerAssumption, StoreAssumption
<1>3. worker.pc = "claim" =>
          Active(store', worker.rs.inc) \subseteq Active(worker.pods, worker.rs.inc)
  <2> SUFFICES ASSUME worker.pc = "claim"
               PROVE  Active(store', worker.rs.inc) \subseteq Active(worker.pods, worker.rs.inc)
    OBVIOUS
  <2>1. worker.rs.inc \in 1..MaxInc
    BY SyncFacts DEF Typed
  <2> QED BY <2>1 DEF ListOK
<1> QED BY <1>1, <1>2, <1>3 DEF ListOK


-----------------------------------------------------------------------------
(* The store, the informer and the users. *)

(* A new pod of nobody, or a change of a pod, makes no pod run for a         *)
(* ReplicaSet that did not.                                                  *)
LEMMA OthersWrite ==
    ASSUME StoreTypeOK, NEW i \in Ids,
           \A j \in Ids \ {i} : store'[j] = store[j],
           \/ store'[i] = NoPod
           \/ store'[i] \in Pods /\ store'[i].owner = 0
           \/ /\ store[i] # NoPod /\ store'[i].owner = store[i].owner
              /\ Running(store'[i]) /\ store'[i].match
                    => Running(store[i]) /\ store[i].match
    PROVE  \A n \in 1..MaxInc : Active(store', n) \subseteq Active(store, n)
<1> SUFFICES ASSUME NEW n \in 1..MaxInc, NEW j \in Ids, Running(store'[j]), store'[j].match,
                    store'[j].owner = n
             PROVE  Running(store[j]) /\ store[j].match /\ store[j].owner = n
  BY DEF Active
<1>1. n # 0 /\ store'[j] # NoPod
  BY StoreAssumption DEF Running
<1> QED BY <1>1

(* CreateOrphan. *)
LEMMA OrphanInv ==
    ASSUME IInv, CreateOrphan
    PROVE  IInv'
<1> DEFINE i == FreshId
           p == NewPod(0)
<1>1. /\ InUse # Ids /\ Put("others", i, p)
      /\ UNCHANGED <<watch, known, entry, uids, worker, queued, rs, incs>>
      /\ spent' = spent + 1 /\ spent < MaxEvents
  BY DEF CreateOrphan, Spend, unowned, informerVars, expectVars, rsVars
<1>2. i \in Ids /\ i \notin InUse
  BY <1>1, FreshFacts
<1>3. Pending(i) = {} /\ p \in Pods /\ p.owner = 0
  BY <1>2, StoreAssumption DEF InUse, Pending, NewPod, Pods
<1> HIDE DEF i, p
<1>4. StoreTypeOK' /\ EventsOK'
  BY <1>1, <1>2, <1>3, PutFacts, PutEvents DEF IInv, Typed, Writers
<1>5. /\ store'[i] = [p EXCEPT !.rv = @ + 1]
      /\ \A j \in Ids \ {i} : store'[j] = store[j]
  BY <1>1, <1>2, <1>3, PutFacts DEF IInv, Typed, Writers
<1>6. store'[i] \in Pods /\ store'[i].owner = 0
  <2>1. [p EXCEPT !.rv = @ + 1].owner = p.owner
    BY <1>3 DEF Pods
  <2> QED BY <1>3, <1>5, <2>1, PodFacts
<1>7. \A n \in 1..MaxInc : Active(store', n) \subseteq Active(store, n)
  BY <1>2, <1>5, <1>6, OthersWrite DEF IInv, Typed
<1>8. SyncOK' /\ ListOK' /\ CountOK'
  BY <1>1, <1>7, QuietSync, QuietCount DEF IInv, Typed, expectVars
<1>9. CacheTypeOK' /\ ControllerTypeOK'
  BY <1>1, ControllerAssumption DEF IInv, Typed, CacheTypeOK, ControllerTypeOK
<1> QED BY <1>4, <1>8, <1>9 DEF IInv, Typed

(* ChangePod. *)
LEMMA ChangePodInv ==
    ASSUME IInv, NEW i \in Ids, ChangePod(i)
    PROVE  IInv'
<1>1. /\ store[i] # NoPod /\ store[i] \in Pods
      /\ UNCHANGED <<watch, known, entry, uids, worker, queued, rs, incs>>
      /\ spent' = spent + 1 /\ spent < MaxEvents
  BY DEF ChangePod, Spend, unowned, informerVars, expectVars, rsVars, IInv, Typed, StoreTypeOK
<1>2. PICK p \in Pods : /\ Put("others", i, p) /\ p.rv = store[i].rv
                        /\ p.owner = store[i].owner
                        /\ Running(p) /\ p.match => Running(store[i]) /\ store[i].match
  <2>1. CASE Put("others", i, [store[i] EXCEPT !.term = TRUE])
    <3>1. /\ [store[i] EXCEPT !.term = TRUE] \in Pods
          /\ [store[i] EXCEPT !.term = TRUE].rv = store[i].rv
          /\ [store[i] EXCEPT !.term = TRUE].owner = store[i].owner
          /\ [store[i] EXCEPT !.term = TRUE].term
      BY <1>1 DEF Pods
    <3> QED BY <2>1, <3>1 DEF Running
  <2>2. CASE Put("others", i, [store[i] EXCEPT !.dead = TRUE])
    <3>1. /\ [store[i] EXCEPT !.dead = TRUE] \in Pods
          /\ [store[i] EXCEPT !.dead = TRUE].rv = store[i].rv
          /\ [store[i] EXCEPT !.dead = TRUE].owner = store[i].owner
          /\ [store[i] EXCEPT !.dead = TRUE].dead
      BY <1>1 DEF Pods
    <3> QED BY <2>2, <3>1 DEF Running
  <2>3. CASE Put("others", i, [store[i] EXCEPT !.match = FALSE])
    <3>1. /\ [store[i] EXCEPT !.match = FALSE] \in Pods
          /\ [store[i] EXCEPT !.match = FALSE].rv = store[i].rv
          /\ [store[i] EXCEPT !.match = FALSE].owner = store[i].owner
          /\ ~[store[i] EXCEPT !.match = FALSE].match
      BY <1>1 DEF Pods
    <3> QED BY <2>3, <3>1 DEF Running
  <2> QED BY <2>1, <2>2, <2>3 DEF ChangePod
<1>4. StoreTypeOK' /\ EventsOK'
  BY <1>1, <1>2, PutFacts, PutEvents DEF IInv, Typed, Writers
<1>5. /\ store'[i] = [p EXCEPT !.rv = @ + 1]
      /\ \A j \in Ids \ {i} : store'[j] = store[j]
  BY <1>1, <1>2, PutFacts DEF IInv, Typed, Writers
<1>6. /\ store'[i].owner = store[i].owner
      /\ Running(store'[i]) /\ store'[i].match => Running(store[i]) /\ store[i].match
  <2>1. /\ [p EXCEPT !.rv = @ + 1].owner = p.owner /\ [p EXCEPT !.rv = @ + 1].match = p.match
        /\ [p EXCEPT !.rv = @ + 1].dead = p.dead /\ [p EXCEPT !.rv = @ + 1].term = p.term
    BY DEF Pods
  <2> QED BY <1>2, <1>5, <2>1, PodFacts DEF Running
<1>7. \A n \in 1..MaxInc : Active(store', n) \subseteq Active(store, n)
  BY <1>1, <1>5, <1>6, OthersWrite DEF IInv, Typed
<1>8. SyncOK' /\ ListOK' /\ CountOK'
  BY <1>1, <1>7, QuietSync, QuietCount DEF IInv, Typed, expectVars
<1>9. CacheTypeOK' /\ ControllerTypeOK'
  BY <1>1, ControllerAssumption DEF IInv, Typed, CacheTypeOK, ControllerTypeOK
<1> QED BY <1>4, <1>8, <1>9 DEF IInv, Typed

(* RemovePod and Finalize. *)
LEMMA RemoveInv ==
    ASSUME IInv, NEW i \in Ids, RemovePod(i) \/ Finalize(i)
    PROVE  IInv'
<1>1. /\ store[i] # NoPod /\ Erase("others", i)
      /\ UNCHANGED <<watch, known, entry, uids, worker, queued, rs, incs>>
      /\ spent' = spent \/ (spent' = spent + 1 /\ spent < MaxEvents)
  BY DEF RemovePod, Finalize, Spend, unowned, informerVars, expectVars, rsVars
<1>4. StoreTypeOK' /\ EventsOK'
  BY <1>1, EraseFacts, EraseEvents DEF IInv, Typed, Writers
<1>5. /\ store'[i] = NoPod
      /\ \A j \in Ids \ {i} : store'[j] = store[j]
  BY <1>1, EraseFacts DEF IInv, Typed, Writers
<1>7. \A n \in 1..MaxInc : Active(store', n) \subseteq Active(store, n)
  BY <1>5, OthersWrite DEF IInv, Typed
<1>8. SyncOK' /\ ListOK' /\ CountOK'
  BY <1>1, <1>7, QuietSync, QuietCount DEF IInv, Typed, expectVars
<1>9. CacheTypeOK' /\ ControllerTypeOK'
  BY <1>1, ControllerAssumption DEF IInv, Typed, CacheTypeOK, ControllerTypeOK
<1> QED BY <1>4, <1>8, <1>9 DEF IInv, Typed


(* A ReplicaSet that is scaled, marked, or given a status. *)
LEMMA RSFacts ==
    ASSUME NEW r \in RSs
    PROVE  /\ \A n \in 0..MaxReplicas : [r EXCEPT !.replicas = n, !.gen = @ + 1] \in RSs
           /\ [r EXCEPT !.term = TRUE, !.gen = @ + 1] \in RSs
           /\ \A s \in [n : 0..MaxPods, failed : BOOLEAN] : [r EXCEPT !.status = s] \in RSs
<1> DEFINE St == [n : 0..MaxPods, failed : BOOLEAN]
<1>1. RSs = [inc : 1..MaxInc, replicas : 0..MaxReplicas, term : BOOLEAN, gen : Nat,
             status : St]
  BY DEF RSs
<1> HIDE DEF St
<1>2. r.gen + 1 \in Nat
  BY <1>1
<1>3. ASSUME NEW q \in RSs PROVE [q EXCEPT !.gen = r.gen + 1] \in RSs
  BY <1>1, <1>2
<1>4. ASSUME NEW n \in 0..MaxReplicas PROVE [r EXCEPT !.replicas = n, !.gen = @ + 1] \in RSs
  <2> DEFINE q == [r EXCEPT !.replicas = n]
  <2>1. q \in RSs
    BY <1>1
  <2>2. [r EXCEPT !.replicas = n, !.gen = @ + 1] = [q EXCEPT !.gen = r.gen + 1]
    OBVIOUS
  <2> HIDE DEF q
  <2> QED BY <1>3, <2>1, <2>2
<1>5. [r EXCEPT !.term = TRUE, !.gen = @ + 1] \in RSs
  <2> DEFINE q == [r EXCEPT !.term = TRUE]
  <2>1. q \in RSs
    BY <1>1
  <2>2. [r EXCEPT !.term = TRUE, !.gen = @ + 1] = [q EXCEPT !.gen = r.gen + 1]
    OBVIOUS
  <2> HIDE DEF q
  <2> QED BY <1>3, <2>1, <2>2
<1>6. ASSUME NEW s \in St PROVE [r EXCEPT !.status = s] \in RSs
  BY <1>1
<1> QED BY <1>4, <1>5, <1>6 DEF St

(* Creating, changing and removing the ReplicaSet itself. *)
LEMMA RSInv ==
    ASSUME IInv, CreateRS \/ ChangeRS \/ RemoveRS
    PROVE  IInv'
<1>1. /\ UNCHANGED <<storeVars, watch, known, entry, uids, worker>>
      /\ spent' = spent \/ (spent' = spent + 1 /\ spent < MaxEvents)
  BY DEF CreateRS, ChangeRS, RemoveRS, Spend, unowned, informerVars, expectVars
<1>2. StoreTypeOK' /\ CacheTypeOK' /\ EventsOK'
  BY <1>1, QuietEvents DEF IInv, Typed
<1>3. \A n \in 1..MaxInc : Active(store', n) \subseteq Active(store, n)
  BY <1>1 DEF storeVars, Active
<1>4. SyncOK' /\ ListOK' /\ CountOK'
  BY <1>1, <1>3, QuietSync, QuietCount DEF IInv, Typed, expectVars
<1>5. queued' \in BOOLEAN
  BY DEF CreateRS, ChangeRS, RemoveRS, RSEvent, IInv, Typed, ControllerTypeOK
<1>6. rs' \in RSs \cup {NoRS} /\ incs' \in 1..MaxInc
  <2>1. CASE CreateRS
    <3>1. PICK n \in 0..MaxReplicas : rs' = NewRS(n)
      BY <2>1 DEF CreateRS
    <3>2. incs' = incs + 1 /\ incs + 1 \in 1..MaxInc
      BY <2>1, StoreAssumption DEF CreateRS, IInv, Typed, ControllerTypeOK
    <3>3. 0 \in 0..MaxPods
      BY StoreAssumption
    <3> QED BY <3>1, <3>2, <3>3 DEF NewRS, RSs
  <2>2. CASE ChangeRS
    <3>1. rs \in RSs /\ incs' = incs /\ incs \in 1..MaxInc
      BY <2>2 DEF ChangeRS, IInv, Typed, ControllerTypeOK
    <3>2. CASE \E n \in 0..MaxReplicas \ {rs.replicas} :
                  rs' = [rs EXCEPT !.replicas = n, !.gen = @ + 1]
      <4>1. PICK n \in 0..MaxReplicas : rs' = [rs EXCEPT !.replicas = n, !.gen = @ + 1]
        BY <3>2
      <4> QED BY <3>1, <4>1, RSFacts
    <3>3. CASE rs' = [rs EXCEPT !.term = TRUE, !.gen = @ + 1]
      BY <3>1, <3>3, RSFacts
    <3> QED BY <2>2, <3>2, <3>3 DEF ChangeRS
  <2>3. CASE RemoveRS
    BY <2>3 DEF RemoveRS, IInv, Typed, ControllerTypeOK
  <2> QED BY <2>1, <2>2, <2>3
<1>7. ControllerTypeOK'
  BY <1>1, <1>5, <1>6, ControllerAssumption DEF IInv, Typed, ControllerTypeOK
<1> QED BY <1>2, <1>4, <1>7 DEF IInv, Typed

(* A step of the store or of the informer that leaves the pods alone. *)
LEMMA CacheInv ==
    ASSUME IInv, UNCHANGED <<store, entry, uids, rs, incs, queued, worker>>,
           spent' = spent \/ (spent' = spent + 1 /\ spent < MaxEvents),
           StoreTypeOK', CacheTypeOK', EventsOK'
    PROVE  IInv'
<1>1. \A n \in 1..MaxInc : Active(store', n) \subseteq Active(store, n)
  BY DEF Active
<1>2. SyncOK' /\ ListOK' /\ CountOK'
  BY <1>1, QuietSync, QuietCount DEF IInv, Typed, expectVars
<1>3. ControllerTypeOK'
  BY ControllerAssumption DEF IInv, Typed, ControllerTypeOK
<1> QED BY <1>2, <1>3 DEF IInv, Typed

(* The watch: opened, listed, delivering, broken, or followed without list.  *)
LEMMA InformerInv ==
    ASSUME IInv,
           \/ (OpenWatch \/ Relist \/ Deliver) /\ UNCHANGED others
           \/ PodWatchFails
    PROVE  IInv'
<1>1. OpenWatch \/ Relist \/ Deliver \/ WatchBreaks \/ RelistFails
  BY DEF PodWatchFails
<1>2. /\ UNCHANGED <<entry, uids, rs, incs, queued, worker>>
      /\ spent' = spent \/ (spent' = spent + 1 /\ spent < MaxEvents)
  BY DEF PodWatchFails, others, Spend, expectVars, rsVars
<1>3. UNCHANGED store
  BY <1>1 DEF OpenWatch, Relist, Deliver, WatchBreaks, RelistFails, storeVars
<1>4. StoreTypeOK' /\ CacheTypeOK' /\ EventsOK'
  BY <1>1, DeliverEvents, WatchEvents DEF IInv, Typed
<1> QED BY <1>2, <1>3, <1>4, CacheInv

(* emit. *)
LEMMA EmitInv ==
    ASSUME IInv, NEW w \in Writers, Emits(w)
    PROVE  IInv'
<1>1. UNCHANGED <<known, entry, uids, rs, incs, queued, worker, spent>> /\ Emit(w)
  BY DEF Emits, others, expectVars, rsVars
<1>2. UNCHANGED store
  BY <1>1 DEF Emit
<1>3. StoreTypeOK' /\ CacheTypeOK' /\ EventsOK'
  BY <1>1, EmitEvents DEF IInv, Typed, CacheTypeOK
<1> QED BY <1>1, <1>2, <1>3, CacheInv

(* apply_pod_observation. *)
LEMMA ApplyInv ==
    ASSUME IInv, ApplyEffect
    PROVE  IInv'
<1>1. UNCHANGED <<storeVars, watch, known, rs, incs, worker, spent>> /\ queued' \in BOOLEAN
  BY DEF ApplyEffect, rsVars
<1>2. StoreTypeOK' /\ CacheTypeOK' /\ EventsOK'
  BY <1>1, QuietEvents DEF IInv, Typed
<1>3. \A n \in 1..MaxInc : Active(store', n) \subseteq Active(store, n)
  BY <1>1 DEF storeVars, Active
<1>4. SyncOK' /\ ListOK'
  BY <1>1, <1>3, QuietSync DEF IInv, Typed
<1>5. CountOK' /\ entry' \in Entries \cup {NoEntry} /\ uids' \subseteq Ids
  <2>1. CASE CreationsObserved(1)
    BY <1>1, <2>1, CreatedCount DEF IInv, Typed
  <2>2. CASE DeletionsObserved({Head(effects).id})
    <3> DEFINE S == {Head(effects).id}
    <3>1. S \cap Ids \in SUBSET Ids /\ uids \subseteq Ids
      BY DEF IInv, Typed, ControllerTypeOK
    <3>2. uids \ S = uids \ (S \cap Ids) /\ S \cap uids = (S \cap Ids) \cap uids
      BY <3>1
    <3>3. DeletionsObserved(S \cap Ids)
      BY <2>2, <3>2 DEF DeletionsObserved
    <3> HIDE DEF S
    <3> QED BY <1>1, <3>1, <3>3, ObservedCount DEF IInv, Typed
  <2>3. CASE UNCHANGED expectVars
    BY <1>1, <2>3, QuietCount DEF IInv, Typed
  <2> QED BY <2>1, <2>2, <2>3 DEF ApplyEffect
<1>6. ControllerTypeOK'
  BY <1>1, <1>5 DEF IInv, Typed, ControllerTypeOK
<1> QED BY <1>2, <1>4, <1>5, <1>6 DEF IInv, Typed

(* enqueue_all, and a step of nobody. *)
LEMMA QuietInv ==
    ASSUME IInv, EnqueueAll \/ UNCHANGED vars
    PROVE  IInv'
<1>1. /\ UNCHANGED <<storeVars, watch, known, entry, uids, rs, incs, worker, spent>>
      /\ queued' \in BOOLEAN
  BY DEF EnqueueAll, vars, informerVars, expectVars, rsVars, IInv, Typed, ControllerTypeOK
<1>2. StoreTypeOK' /\ CacheTypeOK' /\ EventsOK'
  BY <1>1, QuietEvents DEF IInv, Typed
<1>3. \A n \in 1..MaxInc : Active(store', n) \subseteq Active(store, n)
  BY <1>1 DEF storeVars, Active
<1>4. SyncOK' /\ ListOK' /\ CountOK'
  BY <1>1, <1>3, QuietSync, QuietCount DEF IInv, Typed, expectVars
<1>5. ControllerTypeOK'
  BY <1>1 DEF IInv, Typed, ControllerTypeOK
<1> QED BY <1>2, <1>4, <1>5 DEF IInv, Typed

(* is_expired. *)
LEMMA ExpiresInv ==
    ASSUME IInv, Expires
    PROVE  IInv'
<1>1. /\ UNCHANGED <<storeVars, watch, known, rs, incs, worker, queued, spent, uids>>
      /\ entry # NoEntry /\ entry' = [entry EXCEPT !.expired = TRUE]
  BY DEF Expires, Expire, informerVars, rsVars
<1>2. StoreTypeOK' /\ CacheTypeOK' /\ EventsOK'
  BY <1>1, QuietEvents DEF IInv, Typed
<1>3. \A n \in 1..MaxInc : Active(store', n) \subseteq Active(store, n)
  BY <1>1 DEF storeVars, Active
<1>4. SyncOK' /\ ListOK'
  BY <1>1, <1>3, QuietSync DEF IInv, Typed
<1>5. entry \in Entries
  BY <1>1 DEF IInv, Typed, ControllerTypeOK
<1>6. entry' \in Entries /\ entry'.del = entry.del /\ entry'.deletes = entry.deletes
  BY <1>1, <1>5 DEF Entries
<1>7. CountOK'
  BY <1>1, <1>6 DEF IInv, CountOK, DeletionsCountedOnce
<1>8. ControllerTypeOK'
  BY <1>1, <1>6 DEF IInv, Typed, ControllerTypeOK
<1> QED BY <1>2, <1>4, <1>7, <1>8 DEF IInv, Typed


-----------------------------------------------------------------------------
(* The worker. *)

(* What a step of the worker that leaves the pods alone must show. *)
LEMMA WorkerInv ==
    ASSUME IInv, UNCHANGED <<storeVars, watch, known>>,
           rs' \in RSs \cup {NoRS}, UNCHANGED incs, queued' \in BOOLEAN,
           spent' = spent \/ (spent' = spent + 1 /\ spent < MaxEvents),
           worker' \in WorkerStates,
           CountOK', entry' \in Entries \cup {NoEntry}, uids' \subseteq Ids,
           SyncOK', ListOK'
    PROVE  IInv'
<1>1. StoreTypeOK' /\ CacheTypeOK' /\ EventsOK'
  BY QuietEvents DEF IInv, Typed
<1>2. ControllerTypeOK'
  BY ControllerAssumption DEF IInv, Typed, ControllerTypeOK
<1> QED BY <1>1, <1>2 DEF IInv, Typed

(* A worker that is idle. *)
LEMMA IdleFacts ==
    IdleWorker \in WorkerStates /\ IdleWorker.pc = "idle"
<1>1. NoPods \in [Ids -> Pods \cup {NoPod}]
  BY DEF NoPods
<1>2. 0 \in 0..MaxPods
  BY StoreAssumption
<1> HIDE DEF NoPods
<1> QED BY <1>1, <1>2 DEF IdleWorker, WorkerStates

(* The worker takes the key, reads the expectations, or gives the sync up.   *)
LEMMA WorkerReadsInv ==
    ASSUME IInv, WorkerReads
    PROVE  IInv'
<1>1. /\ UNCHANGED <<storeVars, watch, known, rs, incs>> /\ queued' = FALSE
      /\ spent' = spent \/ (spent' = spent + 1 /\ spent < MaxEvents)
      /\ worker.pc = "idle" /\ worker \in WorkerStates /\ rs \in RSs \cup {NoRS}
  BY DEF WorkerReads, Spend, informerVars, rsVars, IInv, Typed, ControllerTypeOK
<1>2. \/ worker' = worker
      \/ rs # NoRS /\ worker' = [worker EXCEPT !.pc = "satisfied", !.rs = rs]
  BY DEF WorkerReads
<1>3. /\ worker' \in WorkerStates
      /\ worker'.pc = "idle" \/ (worker'.pc = "satisfied" /\ worker'.rs # NoRS)
  BY <1>1, <1>2 DEF WorkerStates
<1>4. CountOK' /\ entry' \in Entries \cup {NoEntry} /\ uids' \subseteq Ids
  <2>1. CASE UNCHANGED expectVars
    BY <1>1, <1>3, <2>1, QuietCount DEF IInv, Typed
  <2>2. CASE DeleteExpectations
    BY <1>3, <2>2, DroppedCount
  <2> QED BY <2>1, <2>2 DEF WorkerReads
<1>5. SyncOK' /\ ListOK'
  BY <1>3 DEF SyncOK, ListOK, NoOvershoot
<1> QED BY <1>1, <1>3, <1>4, <1>5, WorkerInv

(* WorkerChecks. *)
LEMMA WorkerChecksInv ==
    ASSUME IInv, WorkerChecks
    PROVE  IInv'
<1>1. /\ UNCHANGED <<storeVars, watch, known, rs, incs, spent, queued, expectVars>>
      /\ worker.pc = "satisfied" /\ worker \in WorkerStates /\ rs \in RSs \cup {NoRS}
      /\ queued \in BOOLEAN /\ worker.rs # NoRS
      /\ worker' = [worker EXCEPT !.pc = "list", !.needs = Satisfied]
  BY DEF WorkerChecks, outside, informerVars, rsVars, IInv, Typed, ControllerTypeOK, SyncOK
<1>2. Satisfied \in BOOLEAN
  BY DEF Satisfied, Fulfilled, IInv, Typed, ControllerTypeOK, Entries
<1>3. worker' \in WorkerStates /\ worker'.pc = "list" /\ worker'.rs = worker.rs
  BY <1>1, <1>2 DEF WorkerStates
<1>4. CountOK' /\ entry' \in Entries \cup {NoEntry} /\ uids' \subseteq Ids
  BY <1>1, <1>3, QuietCount DEF IInv, Typed
<1>5. SyncOK' /\ ListOK'
  BY <1>1, <1>3 DEF SyncOK, ListOK, NoOvershoot
<1> QED BY <1>1, <1>3, <1>4, <1>5, WorkerInv

(* ListFails and WorkerWritesStatus end the sync. *)
LEMMA WorkerEndsInv ==
    ASSUME IInv, ListFails \/ WorkerWritesStatus
    PROVE  IInv'
<1>1. /\ UNCHANGED <<storeVars, watch, known, incs, expectVars>>
      /\ worker.pc # "expect" /\ worker' = IdleWorker
      /\ spent' = spent \/ (spent' = spent + 1 /\ spent < MaxEvents)
  BY DEF ListFails, WorkerWritesStatus, Spend, informerVars, rsVars
<1>2. queued' \in BOOLEAN
  BY DEF ListFails, WorkerWritesStatus
<1>3. rs' \in RSs \cup {NoRS}
  <2>1. CASE rs' = rs
    BY <2>1 DEF IInv, Typed, ControllerTypeOK
  <2>2. CASE rs # NoRS /\ rs' = [rs EXCEPT !.status = NewStatus]
    <3>1. NewStatus \in [n : 0..MaxPods, failed : BOOLEAN]
      BY DEF NewStatus, IInv, Typed, ControllerTypeOK, WorkerStates
    <3>2. rs \in RSs
      BY <2>2 DEF IInv, Typed, ControllerTypeOK
    <3> QED BY <2>2, <3>1, <3>2, RSFacts
  <2> QED BY <2>1, <2>2 DEF ListFails, WorkerWritesStatus, rsVars
<1>4. CountOK' /\ entry' \in Entries \cup {NoEntry} /\ uids' \subseteq Ids
  BY <1>1, IdleFacts, QuietCount DEF IInv, Typed
<1>5. SyncOK' /\ ListOK'
  BY <1>1, IdleFacts DEF SyncOK, ListOK, NoOvershoot
<1> QED BY <1>1, <1>2, <1>3, <1>4, <1>5, IdleFacts, WorkerInv

(* WorkerLists: the list is the store as it is. *)
LEMMA WorkerListsInv ==
    ASSUME IInv, WorkerLists
    PROVE  IInv'
<1>1. PICK claims \in SUBSET Ids :
        /\ worker' = [worker EXCEPT !.pc = "claim", !.pods = store, !.todo = claims]
        /\ \A i \in claims : store[i] # NoPod
  <2> DEFINE claims == {i \in Ids : Adopts(store[i], worker.rs) \/ Releases(store[i], worker.rs)}
  <2>1. worker' = [worker EXCEPT !.pc = "claim", !.pods = store, !.todo = claims]
    BY DEF WorkerLists, ListPods
  <2>2. claims \in SUBSET Ids /\ \A i \in claims : store[i] # NoPod
    BY DEF Adopts, Releases, Running
  <2> HIDE DEF claims
  <2> QED BY <2>1, <2>2
<1>2. /\ UNCHANGED <<storeVars, watch, known, rs, incs, spent, queued, expectVars>>
      /\ worker.pc = "list" /\ worker \in WorkerStates /\ rs \in RSs \cup {NoRS}
      /\ queued \in BOOLEAN /\ worker.rs # NoRS /\ store \in [Ids -> Pods \cup {NoPod}]
  BY DEF WorkerLists, outside, informerVars, rsVars, IInv, Typed, StoreTypeOK,
         ControllerTypeOK, SyncOK
<1>3. /\ worker' \in WorkerStates /\ worker'.pc = "claim" /\ worker'.rs = worker.rs
      /\ worker'.pods = store /\ worker'.todo = claims
  BY <1>1, <1>2 DEF WorkerStates
<1>4. CountOK' /\ entry' \in Entries \cup {NoEntry} /\ uids' \subseteq Ids
  BY <1>2, <1>3, QuietCount DEF IInv, Typed
<1>5. SyncOK'
  BY <1>1, <1>2, <1>3 DEF SyncOK
<1>6. ListOK'
  BY <1>2, <1>3 DEF ListOK, NoOvershoot, storeVars
<1> QED BY <1>2, <1>3, <1>4, <1>5, <1>6, WorkerInv


(* What a step of the worker that writes a pod must show. *)
LEMMA WorkerPutInv ==
    ASSUME IInv, NEW i \in Ids, NEW p \in Pods, Put("controller", i, p),
           Pending(i) = {} \/ (store[i] # NoPod /\ p.rv = store[i].rv),
           UNCHANGED <<watch, known, rs, incs, queued, expectVars, spent>>,
           worker' \in WorkerStates, worker.pc # "expect", worker'.pc # "expect",
           SyncOK', ListOK'
    PROVE  IInv'
<1>1. StoreTypeOK' /\ EventsOK'
  BY PutFacts, PutEvents DEF IInv, Typed, Writers
<1>2. CountOK' /\ entry' \in Entries \cup {NoEntry} /\ uids' \subseteq Ids
  BY QuietCount DEF IInv, Typed
<1>3. CacheTypeOK' /\ ControllerTypeOK'
  BY <1>2 DEF IInv, Typed, CacheTypeOK, ControllerTypeOK
<1> QED BY <1>1, <1>2, <1>3 DEF IInv, Typed

(* WorkerClaims: the pod that is written is the one the sync keeps. *)
LEMMA WorkerClaimsInv ==
    ASSUME IInv, WorkerClaims
    PROVE  IInv'
<1>0. /\ UNCHANGED <<watch, known, rs, incs, spent, queued, expectVars>>
      /\ worker.pc = "claim" /\ worker \in WorkerStates /\ rs \in RSs \cup {NoRS}
      /\ queued \in BOOLEAN /\ worker.rs # NoRS
  BY DEF WorkerClaims, informerVars, rsVars, IInv, Typed, ControllerTypeOK, SyncOK
<1>1. PICK i \in worker.todo :
        LET p == worker.pods[i]
            claimed == [p EXCEPT !.owner = IF p.match THEN worker.rs.inc ELSE 0]
        IN  IF Current(i, p)
            THEN /\ Put("controller", i, claimed)
                 /\ worker' = [worker EXCEPT !.todo = @ \ {i}, !.pods[i] = claimed]
            ELSE /\ worker' = [worker EXCEPT !.todo = @ \ {i}]
                 /\ UNCHANGED storeVars
  BY DEF WorkerClaims
<1> DEFINE p == worker.pods[i]
           claimed == [p EXCEPT !.owner = IF p.match THEN worker.rs.inc ELSE 0]
<1>2. i \in Ids /\ p \in Pods /\ worker.pods \in [Ids -> Pods \cup {NoPod}]
  BY <1>0 DEF IInv, SyncOK, WorkerStates
<1>3. worker.rs.inc \in 1..MaxInc
  BY <1>0, SyncFacts DEF IInv, Typed
<1>4. claimed \in Pods /\ claimed.rv = p.rv
  <2>1. (IF p.match THEN worker.rs.inc ELSE 0) \in 0..MaxInc
    BY <1>3, StoreAssumption
  <2> QED BY <1>2, <2>1 DEF Pods
<1>5. CASE Current(i, p)
  <2>1. /\ Put("controller", i, claimed)
        /\ worker' = [worker EXCEPT !.todo = @ \ {i}, !.pods[i] = claimed]
    BY <1>1, <1>5
  <2> HIDE DEF claimed
  <2>2. /\ worker'.pc = "claim" /\ worker'.rs = worker.rs
        /\ worker'.todo = worker.todo \ {i}
        /\ worker'.pods = [worker.pods EXCEPT ![i] = claimed]
    BY <1>0, <2>1 DEF WorkerStates
  <2>3. [worker.pods EXCEPT ![i] = claimed] \in [Ids -> Pods \cup {NoPod}]
    BY <1>2, <1>4
  <2>4. worker' \in WorkerStates
    BY <1>0, <2>1, <2>3 DEF WorkerStates
  <2>5. store[i] # NoPod /\ claimed.rv = store[i].rv
    BY <1>4, <1>5 DEF Current
  <2>6. SyncOK'
    <3>1. ASSUME NEW j \in worker.todo \ {i} PROVE worker'.pods[j] # NoPod
      <4>1. j \in Ids /\ worker.pods[j] # NoPod
        BY <1>0 DEF WorkerStates, IInv, SyncOK
      <4> QED BY <1>2, <2>2, <4>1
    <3> QED BY <1>0, <2>2, <3>1 DEF SyncOK
  <2>7. /\ store'[i] = [claimed EXCEPT !.rv = @ + 1]
        /\ \A j \in Ids \ {i} : store'[j] = store[j]
    BY <1>2, <1>4, <1>0, <2>1, PutFacts DEF IInv, Typed, Writers
  <2>8. ListOK'
    <3>1. ASSUME NEW j \in Active(store', worker.rs.inc)
          PROVE  j \in Active(worker'.pods, worker.rs.inc)
      <4>1. CASE j = i
        <5>1. /\ store'[i].owner = claimed.owner /\ store'[i].match = claimed.match
              /\ store'[i].dead = claimed.dead /\ store'[i].term = claimed.term
          BY <1>4, <2>7 DEF Pods
        <5>2. worker'.pods[i] = claimed /\ claimed # NoPod
          BY <1>2, <1>4, <2>2, NoValueAssumption
        <5> QED BY <1>2, <4>1, <5>1, <5>2 DEF Active, Running
      <4>2. CASE j # i
        <5>1. j \in Ids
          BY DEF Active
        <5>2. store'[j] = store[j] /\ worker'.pods[j] = worker.pods[j]
          BY <1>2, <2>2, <2>7, <4>2, <5>1
        <5>3. j \in Active(store, worker.rs.inc)
          BY <5>1, <5>2 DEF Active
        <5>4. j \in Active(worker.pods, worker.rs.inc)
          BY <1>0, <5>3 DEF IInv, ListOK
        <5> QED BY <5>1, <5>2, <5>4 DEF Active
      <4> QED BY <4>1, <4>2
    <3>2. Active(store', worker'.rs.inc) \subseteq Active(worker'.pods, worker'.rs.inc)
      BY <2>2, <3>1
    <3> QED BY <2>2, <3>2 DEF ListOK, NoOvershoot
  <2> HIDE DEF p
  <2> QED BY <1>0, <1>2, <1>4, <2>1, <2>2, <2>4, <2>5, <2>6, <2>8, WorkerPutInv
<1>6. CASE ~Current(i, p)
  <2>1. worker' = [worker EXCEPT !.todo = @ \ {i}] /\ UNCHANGED storeVars
    BY <1>1, <1>6
  <2>2. /\ worker' \in WorkerStates /\ worker'.pc = "claim" /\ worker'.rs = worker.rs
        /\ worker'.pods = worker.pods /\ worker'.todo = worker.todo \ {i}
    BY <1>0, <2>1 DEF WorkerStates
  <2>3. CountOK' /\ entry' \in Entries \cup {NoEntry} /\ uids' \subseteq Ids
    BY <1>0, <2>2, QuietCount DEF IInv, Typed
  <2>4. SyncOK'
    BY <1>0, <2>2 DEF IInv, SyncOK
  <2>5. ListOK'
    BY <1>0, <2>1, <2>2 DEF IInv, ListOK, NoOvershoot, storeVars
  <2> QED BY <1>0, <2>1, <2>2, <2>3, <2>4, <2>5, WorkerInv
<1> QED BY <1>5, <1>6


(* WorkerManages: what is missing is counted on the listed pods, of which    *)
(* the running ones of the store are some.                                   *)
LEMMA WorkerManagesInv ==
    ASSUME IInv, WorkerManages
    PROVE  IInv'
<1> DEFINE active == Active(worker.pods, worker.rs.inc)
           have == Cardinality(active)
           want == worker.rs.replicas
           w == [worker EXCEPT !.have = have, !.pods = NoPods, !.needs = FALSE]
<1>0. /\ UNCHANGED <<storeVars, watch, known, rs, incs, spent, queued>>
      /\ worker.pc = "claim" /\ worker.todo = {} /\ worker \in WorkerStates
      /\ rs \in RSs \cup {NoRS} /\ queued \in BOOLEAN /\ worker.rs # NoRS
  BY DEF WorkerManages, outside, informerVars, rsVars, IInv, Typed, ControllerTypeOK, SyncOK
<1>1. /\ worker.rs.inc \in 1..MaxInc /\ want \in 0..MaxReplicas
      /\ MaxReplicas \in Nat /\ Burst \in Nat \ {0}
  BY <1>0, SyncFacts, ControllerAssumption, StoreAssumption DEF IInv, Typed
<1>2. /\ have \in 0..MaxPods /\ Cardinality(Active(store, worker.rs.inc)) \in 0..MaxPods
      /\ Cardinality(Active(store, worker.rs.inc)) <= have
  <2>1. Active(store, worker.rs.inc) \subseteq active
    BY <1>0 DEF IInv, ListOK
  <2> QED BY <2>1, ActiveFacts
<1>3. active \subseteq Ids
  BY DEF Active
<1> HIDE DEF active, have
<1>4. NoPods \in [Ids -> Pods \cup {NoPod}]
  BY DEF NoPods
<1>5. w \in WorkerStates /\ w.rs = worker.rs /\ w.todo = {}
  <2> HIDE DEF NoPods
  <2> QED BY <1>0, <1>2, <1>4 DEF WorkerStates
<1>6. /\ w.rs # NoRS
      /\ \/ worker' = [w EXCEPT !.pc = "status"] /\ UNCHANGED expectVars
         \/ /\ have < want
            /\ LET diff == Least(want - have, Burst)
               IN  /\ ExpectCreations(diff)
                   /\ worker' = [w EXCEPT !.pc = "create", !.batch = 1, !.size = 1,
                                          !.left = diff - 1]
         \/ \E S \in SUBSET active :
                /\ ExpectDeletionsOf(S)
                /\ worker' = [w EXCEPT !.pc = "expect", !.todo = S]
  <2>1. w.rs # NoRS
    BY <1>0, <1>5
  <2> HIDE DEF NoPods
  <2>2. \/ worker' = [w EXCEPT !.pc = "status"] /\ UNCHANGED expectVars
        \/ /\ have < want
           /\ LET diff == Least(want - have, Burst)
              IN  /\ ExpectCreations(diff)
                  /\ worker' = [w EXCEPT !.pc = "create", !.batch = 1, !.size = 1,
                                         !.left = diff - 1]
        \/ \E S \in SUBSET active :
               /\ ExpectDeletionsOf(S)
               /\ worker' = [w EXCEPT !.pc = "expect", !.todo = S]
    BY Zenon DEF WorkerManages, have, active
  <2> QED BY <2>1, <2>2
<1> HIDE DEF w
<1>7. CASE worker' = [w EXCEPT !.pc = "status"] /\ UNCHANGED expectVars
  <2>1. /\ worker' \in WorkerStates /\ worker'.pc = "status" /\ worker'.rs = worker.rs
    BY <1>5, <1>7 DEF WorkerStates
  <2>2. CountOK' /\ entry' \in Entries \cup {NoEntry} /\ uids' \subseteq Ids
    BY <1>0, <1>7, <2>1, QuietCount DEF IInv, Typed
  <2>3. SyncOK' /\ ListOK'
    BY <1>0, <2>1 DEF SyncOK, ListOK, NoOvershoot
  <2> QED BY <1>0, <2>1, <2>2, <2>3, WorkerInv
<1>8. ASSUME have < want, NEW diff, diff = Least(want - have, Burst), ExpectCreations(diff),
             worker' = [w EXCEPT !.pc = "create", !.batch = 1, !.size = 1, !.left = diff - 1]
      PROVE  IInv'
  <2>1. diff \in Nat /\ diff - 1 \in Nat /\ diff <= want - have
    BY <1>1, <1>2, <1>8 DEF Least
  <2>2. /\ worker' \in WorkerStates /\ worker'.pc = "create" /\ worker'.rs = worker.rs
        /\ worker'.batch = 1 /\ worker'.left = diff - 1
    BY <1>5, <1>8, <2>1 DEF WorkerStates
  <2>3. CountOK' /\ entry' \in Entries \cup {NoEntry} /\ uids' \subseteq Ids
    BY <1>0, <1>8, <2>1, <2>2
       DEF ExpectCreations, Record, Entries, CountOK, DeletionsCountedOnce, IInv, Typed,
           ControllerTypeOK
  <2>4. SyncOK'
    BY <1>0, <2>2 DEF SyncOK
  <2>5. Cardinality(Active(store, worker.rs.inc)) + 1 + (diff - 1) <= worker.rs.replicas
    BY <1>1, <1>2, <2>1
  <2>6. ListOK'
    BY <1>0, <2>2, <2>5 DEF ListOK, NoOvershoot, storeVars
  <2> QED BY <1>0, <2>2, <2>3, <2>4, <2>6, WorkerInv
<1>9. ASSUME NEW S \in SUBSET active, ExpectDeletionsOf(S),
             worker' = [w EXCEPT !.pc = "expect", !.todo = S]
      PROVE  IInv'
  <2>1. S \subseteq Ids
    BY <1>3
  <2>2. /\ worker' \in WorkerStates /\ worker'.pc = "expect" /\ worker'.rs = worker.rs
        /\ worker'.todo = S
    BY <1>5, <1>9, <2>1 DEF WorkerStates
  <2>3. CountOK' /\ entry' \in Entries \cup {NoEntry} /\ uids' \subseteq Ids
    BY <1>9, <2>1, <2>2
       DEF ExpectDeletionsOf, CountOK, DeletionsCountedOnce, IInv, Typed, ControllerTypeOK
  <2>4. SyncOK' /\ ListOK'
    BY <1>0, <2>2 DEF SyncOK, ListOK, NoOvershoot
  <2> QED BY <1>0, <2>2, <2>3, <2>4, WorkerInv
<1> QED BY <1>6, <1>7, <1>8, <1>9

(* WorkerExpects: the count is that of the pods that were recorded first. *)
LEMMA WorkerExpectsInv ==
    ASSUME IInv, WorkerExpects
    PROVE  IInv'
<1>0. /\ UNCHANGED <<storeVars, watch, known, rs, incs, spent, queued, uids>>
      /\ worker.pc = "expect" /\ worker \in WorkerStates
      /\ rs \in RSs \cup {NoRS} /\ queued \in BOOLEAN /\ worker.rs # NoRS
      /\ worker' = [worker EXCEPT !.pc = "delete"]
      /\ entry' = Record(0, Cardinality(worker.todo), TRUE)
      /\ uids \subseteq worker.todo
  BY DEF WorkerExpects, Go, ExpectDeletions, outside, informerVars, rsVars, IInv, Typed,
         ControllerTypeOK, SyncOK, CountOK
<1>1. worker' \in WorkerStates /\ worker'.pc = "delete" /\ worker'.rs = worker.rs
  BY <1>0 DEF WorkerStates
<1>2. /\ worker.todo \subseteq Ids /\ Cardinality(worker.todo) \in Nat
      /\ IsFiniteSet(worker.todo)
  <2>1. worker.todo \in SUBSET Ids
    BY <1>0 DEF WorkerStates
  <2> QED BY <2>1, IdFacts, StoreAssumption
<1>3. Cardinality(uids) <= Cardinality(worker.todo)
  BY <1>0, <1>2, FS_Subset
<1>4. CountOK' /\ entry' \in Entries \cup {NoEntry} /\ uids' \subseteq Ids
  BY <1>0, <1>1, <1>2, <1>3, IdFacts DEF CountOK, DeletionsCountedOnce, Record, Entries
<1>5. SyncOK' /\ ListOK'
  BY <1>0, <1>1 DEF SyncOK, ListOK, NoOvershoot
<1> QED BY <1>0, <1>1, <1>4, <1>5, WorkerInv

(* WorkerFetches. *)
LEMMA WorkerFetchesInv ==
    ASSUME IInv, WorkerFetches
    PROVE  IInv'
<1>0. /\ UNCHANGED <<storeVars, watch, known, rs, incs, queued, expectVars>>
      /\ worker.pc = "delete" /\ worker \in WorkerStates
      /\ rs \in RSs \cup {NoRS} /\ queued \in BOOLEAN /\ worker.rs # NoRS
      /\ spent' = spent \/ (spent' = spent + 1 /\ spent < MaxEvents)
  BY DEF WorkerFetches, Spend, informerVars, rsVars, IInv, Typed, ControllerTypeOK, SyncOK
<1>1. PICK i \in worker.todo :
        \/ /\ store[i] # NoPod
           /\ worker' = [worker EXCEPT !.pc = "mark", !.pods[i] = store[i], !.size = i]
        \/ worker' = [worker EXCEPT !.todo = @ \ {i}]
        \/ worker' = [worker EXCEPT !.todo = @ \ {i}, !.lost = @ \cup {i}, !.failed = TRUE]
  BY DEF WorkerFetches, NeedsMark
<1>2. i \in Ids /\ i \in Nat /\ worker.pods \in [Ids -> Pods \cup {NoPod}]
  BY <1>0, StoreAssumption DEF WorkerStates, Ids
<1>3. /\ worker' \in WorkerStates /\ worker'.rs = worker.rs
      /\ \/ worker'.pc = "delete"
         \/ /\ worker'.pc = "mark" /\ worker'.size = i /\ i \in worker'.todo
            /\ worker'.pods[i] # NoPod
  <2>1. CASE /\ store[i] # NoPod
             /\ worker' = [worker EXCEPT !.pc = "mark", !.pods[i] = store[i], !.size = i]
    <3> DEFINE q == [worker.pods EXCEPT ![i] = store[i]]
    <3>1. q \in [Ids -> Pods \cup {NoPod}] /\ q[i] # NoPod
      BY <1>2, <2>1 DEF IInv, Typed, StoreTypeOK
    <3>2. worker' = [worker EXCEPT !.pc = "mark", !.pods = q, !.size = i]
      BY <2>1
    <3> HIDE DEF q
    <3> QED BY <1>0, <1>2, <3>1, <3>2 DEF WorkerStates
  <2>2. CASE worker' = [worker EXCEPT !.todo = @ \ {i}]
    BY <1>0, <2>2 DEF WorkerStates
  <2>3. CASE worker' = [worker EXCEPT !.todo = @ \ {i}, !.lost = @ \cup {i}, !.failed = TRUE]
    BY <1>0, <1>2, <2>3 DEF WorkerStates
  <2> QED BY <1>1, <2>1, <2>2, <2>3
<1>4. CountOK' /\ entry' \in Entries \cup {NoEntry} /\ uids' \subseteq Ids
  BY <1>0, <1>3, QuietCount DEF IInv, Typed
<1>5. SyncOK' /\ ListOK'
  BY <1>0, <1>3 DEF SyncOK, ListOK, NoOvershoot
<1> QED BY <1>0, <1>3, <1>4, <1>5, WorkerInv


(* WorkerCreates: a create adds one pod at most, and the batch has one less. *)
LEMMA WorkerCreatesInv ==
    ASSUME IInv, WorkerCreates
    PROVE  IInv'
<1> DEFINE inc == worker.rs.inc
<1>0. /\ UNCHANGED <<watch, known, rs, incs, queued, expectVars>>
      /\ worker.pc = "create" /\ worker \in WorkerStates /\ worker.batch > 0
      /\ rs \in RSs \cup {NoRS} /\ queued \in BOOLEAN /\ worker.rs # NoRS
  BY DEF WorkerCreates, informerVars, rsVars, IInv, Typed, ControllerTypeOK, SyncOK
<1>1. /\ inc \in 1..MaxInc /\ worker.rs.replicas \in 0..MaxReplicas
      /\ worker.batch \in Nat \ {0} /\ worker.batch - 1 \in Nat /\ worker.left \in Nat
      /\ Cardinality(Active(store, inc)) + worker.batch + worker.left <= worker.rs.replicas
  <2>1. worker.batch \in Nat /\ worker.left \in Nat
    BY <1>0 DEF WorkerStates
  <2> QED BY <1>0, <2>1, SyncFacts DEF IInv, Typed, ListOK, NoOvershoot
<1>2. Cardinality(Active(store, inc)) \in 0..MaxPods
  BY ActiveFacts
<1> HIDE DEF inc
<1>3. CASE /\ InUse # Ids /\ Put("controller", FreshId, NewPod(inc))
           /\ worker' = [worker EXCEPT !.batch = @ - 1] /\ UNCHANGED spent
  <2> DEFINE i == FreshId
             p == NewPod(inc)
  <2>1. i \in Ids /\ i \notin InUse
    BY <1>3, FreshFacts
  <2>2. Pending(i) = {} /\ p \in Pods
    BY <1>1, <2>1, StoreAssumption DEF InUse, Pending, NewPod, Pods
  <2> HIDE DEF i, p
  <2>3. Put("controller", i, p)
    BY <1>3 DEF i, p
  <2>4. \A j \in Ids \ {i} : store'[j] = store[j]
    BY <2>1, <2>2, <2>3, <1>0, PutFacts DEF IInv, Typed, Writers
  <2>5. /\ worker' \in WorkerStates /\ worker'.pc = "create" /\ worker'.rs = worker.rs
        /\ worker'.batch = worker.batch - 1 /\ worker'.left = worker.left
    BY <1>0, <1>1, <1>3 DEF WorkerStates
  <2>6. /\ Cardinality(Active(store', inc)) <= Cardinality(Active(store, inc)) + 1
        /\ Cardinality(Active(store', inc)) \in Nat
    <3> DEFINE A == Active(store, inc)
               B == Active(store', inc)
    <3>1. A \in SUBSET Ids /\ B \in SUBSET Ids /\ B \subseteq A \cup {i}
      BY <2>1, <2>4 DEF Active
    <3> HIDE DEF A, B
    <3>2. IsFiniteSet(A) /\ Cardinality(A) \in Nat /\ Cardinality(B) \in Nat
      BY <3>1, IdFacts, StoreAssumption
    <3>3. /\ IsFiniteSet(A \cup {i})
          /\ Cardinality(A \cup {i}) = IF i \in A THEN Cardinality(A) ELSE Cardinality(A) + 1
      BY <3>2, FS_AddElement
    <3>4. Cardinality(B) <= Cardinality(A \cup {i})
      BY <3>1, <3>3, FS_Subset
    <3>5. Cardinality(B) <= Cardinality(A) + 1
      BY <3>2, <3>3, <3>4
    <3> QED BY <3>2, <3>5 DEF A, B
  <2>7. SyncOK'
    BY <1>0, <2>5 DEF SyncOK
  <2>8. Cardinality(Active(store', inc)) + (worker.batch - 1) + worker.left
            <= worker.rs.replicas
    BY <1>1, <1>2, <2>6
  <2>9. ListOK'
    BY <2>5, <2>8 DEF ListOK, NoOvershoot, inc
  <2> QED BY <1>0, <1>3, <2>1, <2>2, <2>3, <2>5, <2>7, <2>9, WorkerPutInv
<1>4. CASE /\ UNCHANGED storeVars /\ spent' = spent + 1 /\ spent < MaxEvents
           /\ \/ worker' = [worker EXCEPT !.batch = @ - 1, !.missing = @ + 1, !.failed = TRUE]
              \/ worker' = [worker EXCEPT !.batch = @ - 1]
  <2>1. /\ worker' \in WorkerStates /\ worker'.pc = "create" /\ worker'.rs = worker.rs
        /\ worker'.batch = worker.batch - 1 /\ worker'.left = worker.left
    <3>1. CASE worker' = [worker EXCEPT !.batch = @ - 1, !.missing = @ + 1, !.failed = TRUE]
      <4> DEFINE b == worker.batch - 1
                 m == worker.missing + 1
      <4>1. b \in Nat /\ m \in Nat
        BY <1>0, <1>1 DEF WorkerStates
      <4>2. worker' = [worker EXCEPT !.batch = b, !.missing = m, !.failed = TRUE]
        BY <3>1
      <4> HIDE DEF b, m
      <4>3. /\ worker' \in WorkerStates /\ worker'.pc = "create" /\ worker'.rs = worker.rs
            /\ worker'.batch = b /\ worker'.left = worker.left
        BY <1>0, <4>1, <4>2 DEF WorkerStates
      <4> QED BY <4>3 DEF b
    <3>2. CASE worker' = [worker EXCEPT !.batch = @ - 1]
      BY <1>0, <1>1, <3>2 DEF WorkerStates
    <3> QED BY <1>4, <3>1, <3>2
  <2>2. CountOK' /\ entry' \in Entries \cup {NoEntry} /\ uids' \subseteq Ids
    BY <1>0, <2>1, QuietCount DEF IInv, Typed
  <2>3. SyncOK'
    BY <1>0, <2>1 DEF SyncOK
  <2>4. Cardinality(Active(store, inc)) + (worker.batch - 1) + worker.left
            <= worker.rs.replicas
    BY <1>1, <1>2
  <2>5. ListOK'
    BY <1>4, <2>1, <2>4 DEF ListOK, NoOvershoot, inc, storeVars
  <2> QED BY <1>0, <1>4, <2>1, <2>2, <2>3, <2>5, WorkerInv
<1> QED BY <1>3, <1>4 DEF WorkerCreates, Spend, inc

(* WorkerEndsBatch: the next batch is taken out of what is left. *)
LEMMA WorkerEndsBatchInv ==
    ASSUME IInv, WorkerEndsBatch
    PROVE  IInv'
<1>0. /\ UNCHANGED <<storeVars, watch, known, rs, incs, queued, spent>>
      /\ worker.pc = "create" /\ worker \in WorkerStates /\ worker.batch = 0
      /\ rs \in RSs \cup {NoRS} /\ queued \in BOOLEAN /\ worker.rs # NoRS
  BY DEF WorkerEndsBatch, outside, informerVars, rsVars, IInv, Typed, ControllerTypeOK, SyncOK
<1>1. worker.left \in Nat /\ worker.missing \in Nat /\ worker.size \in Nat
  BY <1>0 DEF WorkerStates
<1>2. CASE worker' = NextBatch(worker) /\ UNCHANGED expectVars
  <2> DEFINE n == Least(2 * worker.size, worker.left)
  <2>1. n \in Nat /\ worker.left - n \in Nat
    BY <1>1 DEF Least
  <2>2. worker' = [worker EXCEPT !.batch = n, !.size = n, !.left = @ - n]
    BY <1>2 DEF NextBatch
  <2> HIDE DEF n
  <2>3. /\ worker' \in WorkerStates /\ worker'.pc = "create" /\ worker'.rs = worker.rs
        /\ worker'.batch = n /\ worker'.left = worker.left - n
    BY <1>0, <2>1, <2>2 DEF WorkerStates
  <2>4. CountOK' /\ entry' \in Entries \cup {NoEntry} /\ uids' \subseteq Ids
    BY <1>0, <1>2, <2>3, QuietCount DEF IInv, Typed
  <2>5. SyncOK'
    BY <1>0, <2>3 DEF SyncOK
  <2>6. Cardinality(Active(store, worker.rs.inc)) + n + (worker.left - n)
            <= worker.rs.replicas
    <3>1. Cardinality(Active(store, worker.rs.inc)) \in 0..MaxPods
      BY ActiveFacts
    <3>2. Cardinality(Active(store, worker.rs.inc)) + 0 + worker.left <= worker.rs.replicas
      BY <1>0 DEF IInv, ListOK, NoOvershoot
    <3> QED BY <1>1, <2>1, <3>1, <3>2
  <2>7. ListOK'
    BY <1>0, <2>3, <2>6 DEF ListOK, NoOvershoot, storeVars
  <2> QED BY <1>0, <2>3, <2>4, <2>5, <2>7, WorkerInv
<1>3. CASE /\ CreationsObserved(worker.missing + worker.left)
           /\ worker' = [worker EXCEPT !.pc = "status", !.size = 0, !.left = 0,
                                       !.missing = 0]
  <2>1. /\ worker' \in WorkerStates /\ worker'.pc = "status" /\ worker'.rs = worker.rs
    BY <1>0, <1>3 DEF WorkerStates
  <2>2. worker.missing + worker.left \in Nat
    BY <1>1
  <2>3. CountOK' /\ entry' \in Entries \cup {NoEntry} /\ uids' \subseteq Ids
    BY <1>0, <1>3, <2>1, <2>2, CreatedCount DEF IInv, Typed
  <2>4. SyncOK' /\ ListOK'
    BY <1>0, <2>1 DEF SyncOK, ListOK, NoOvershoot
  <2> QED BY <1>0, <2>1, <2>3, <2>4, WorkerInv
<1> QED BY <1>2, <1>3 DEF WorkerEndsBatch

(* WorkerMarks: update_raw of the copy that was read, at the revision the    *)
(* pod has now.                                                              *)
LEMMA WorkerMarksInv ==
    ASSUME IInv, WorkerMarks
    PROVE  IInv'
<1> DEFINE i == worker.size
           p == worker.pods[i]
           gone == store[i] = NoPod
<1>0. /\ UNCHANGED <<watch, known, rs, incs, queued, spent, expectVars>>
      /\ worker.pc = "mark" /\ worker \in WorkerStates
      /\ rs \in RSs \cup {NoRS} /\ queued \in BOOLEAN /\ worker.rs # NoRS
  BY DEF WorkerMarks, informerVars, rsVars, IInv, Typed, ControllerTypeOK, SyncOK
<1>1. i \in Ids /\ p \in Pods
  BY <1>0 DEF IInv, SyncOK, WorkerStates
<1>2. /\ IF gone THEN UNCHANGED storeVars ELSE Put("controller", i, Marked(i, p))
      /\ worker' = [worker EXCEPT !.pc = "delete", !.todo = @ \ {i}, !.size = 0,
                                  !.pods = NoPods,
                                  !.lost = IF gone THEN @ \cup {i} ELSE @]
  BY DEF WorkerMarks
<1>3. /\ worker' \in WorkerStates /\ worker'.pc = "delete" /\ worker'.rs = worker.rs
  <2> DEFINE lost == IF gone THEN worker.lost \cup {i} ELSE worker.lost
             todo == worker.todo \ {i}
  <2>1. lost \in SUBSET Ids /\ todo \in SUBSET Ids
    BY <1>0, <1>1 DEF WorkerStates
  <2>2. NoPods \in [Ids -> Pods \cup {NoPod}]
    BY DEF NoPods
  <2>3. worker' = [worker EXCEPT !.pc = "delete", !.todo = todo, !.size = 0,
                                 !.pods = NoPods, !.lost = lost]
    BY <1>2
  <2> HIDE DEF lost, todo, NoPods
  <2> QED BY <1>0, <2>1, <2>2, <2>3 DEF WorkerStates
<1>4. SyncOK' /\ ListOK'
  BY <1>0, <1>3 DEF SyncOK, ListOK, NoOvershoot
<1>5. CASE gone
  <2>1. CountOK' /\ entry' \in Entries \cup {NoEntry} /\ uids' \subseteq Ids
    BY <1>0, <1>3, QuietCount DEF IInv, Typed
  <2> QED BY <1>0, <1>2, <1>3, <1>4, <1>5, <2>1, WorkerInv
<1>6. CASE ~gone
  <2>1. store[i] \in Pods /\ store[i].rv \in Nat
    BY <1>1, <1>6, PodFacts DEF IInv, Typed, StoreTypeOK
  <2> DEFINE q == Marked(i, p)
  <2>2. q \in Pods /\ q.rv = store[i].rv
    BY <1>1, <2>1, PodFacts DEF Marked
  <2>3. Put("controller", i, q)
    BY <1>2, <1>6
  <2> HIDE DEF q, i
  <2> QED BY <1>0, <1>1, <1>3, <1>4, <1>6, <2>2, <2>3, WorkerPutInv
<1> QED BY <1>5, <1>6

(* WorkerDeleted. *)
LEMMA WorkerDeletedInv ==
    ASSUME IInv, WorkerDeleted
    PROVE  IInv'
<1>0. /\ UNCHANGED <<storeVars, watch, known, rs, incs, queued, spent>>
      /\ worker.pc = "delete" /\ worker \in WorkerStates
      /\ rs \in RSs \cup {NoRS} /\ queued \in BOOLEAN /\ worker.rs # NoRS
      /\ DeletionsObserved(worker.lost)
      /\ worker' = [worker EXCEPT !.pc = "status", !.lost = {}]
  BY DEF WorkerDeleted, outside, informerVars, rsVars, IInv, Typed, ControllerTypeOK, SyncOK
<1>1. /\ worker' \in WorkerStates /\ worker'.pc = "status" /\ worker'.rs = worker.rs
      /\ worker.lost \in SUBSET Ids
  BY <1>0 DEF WorkerStates
<1>2. CountOK' /\ entry' \in Entries \cup {NoEntry} /\ uids' \subseteq Ids
  BY <1>0, <1>1, ObservedCount DEF IInv, Typed
<1>3. SyncOK' /\ ListOK'
  BY <1>0, <1>1 DEF SyncOK, ListOK, NoOvershoot
<1> QED BY <1>0, <1>1, <1>2, <1>3, WorkerInv


-----------------------------------------------------------------------------
(* The theorems. *)

LEMMA InitInv ==
    ASSUME Init
    PROVE  IInv
<1>1. PICK s \in Starts :
        /\ store = [i \in Ids |-> IF i <= s.have THEN NewPod(s.owner) ELSE NoPod]
        /\ rs = [inc |-> 1, replicas |-> s.want, term |-> FALSE, gen |-> 0,
                 status |-> [n |-> s.have * s.owner, failed |-> FALSE]]
  BY DEF Init
<1>2. /\ s.owner \in {0, 1} /\ s.want \in 0..MaxReplicas /\ s.have * s.owner \in 0..MaxPods
      /\ s.owner \in 0..MaxInc /\ 1 \in 1..MaxInc
  <2>1. MaxReplicas \in Nat \ {0} /\ MaxReplicas <= MaxPods /\ MaxPods \in Nat /\ MaxInc \in Nat \ {0}
    BY ControllerAssumption, StoreAssumption
  <2>2. CASE s = [have |-> 0, want |-> MaxReplicas, owner |-> 1]
    BY <2>1, <2>2
  <2>3. CASE s = [have |-> MaxReplicas, want |-> MaxReplicas - 1, owner |-> 1]
    <3>1. s.have * s.owner = MaxReplicas
      BY <2>1, <2>3
    <3> QED BY <2>1, <2>3, <3>1
  <2>4. CASE s = [have |-> 1, want |-> 1, owner |-> 0]
    BY <2>1, <2>4
  <2> QED BY <2>2, <2>3, <2>4 DEF Starts
<1>3. NewPod(s.owner) \in Pods
  BY <1>2 DEF NewPod, Pods
<1>4. store \in [Ids -> Pods \cup {NoPod}]
  BY <1>1, <1>3
<1>5. rs \in RSs
  BY <1>1, <1>2 DEF RSs
<1>6. /\ unsent = [w \in Writers |-> NoEvent] /\ stream = <<>> /\ watch = "watching"
      /\ gap = FALSE /\ known = store /\ entry = NoEntry /\ uids = {} /\ incs = 1
      /\ queued = FALSE /\ worker = IdleWorker /\ spent = 0
  BY DEF Init
<1>7. Typed
  <2>1. unsent \in [Writers -> PodEvents \cup {NoEvent}] /\ stream \in Seq(PodEvents)
    BY <1>6
  <2>2. StoreTypeOK /\ CacheTypeOK
    BY <1>4, <1>6, <2>1 DEF StoreTypeOK, CacheTypeOK
  <2>3. spent \in 0..MaxEvents
    BY <1>6, ControllerAssumption
  <2>4. ControllerTypeOK
    BY <1>2, <1>5, <1>6, <2>3, IdleFacts DEF ControllerTypeOK
  <2> QED BY <2>2, <2>4 DEF Typed
<1>8. SyncOK /\ CountOK /\ ListOK
  BY <1>6, IdleFacts DEF SyncOK, CountOK, DeletionsCountedOnce, ListOK, NoOvershoot
<1>9. EventsOK
  BY <1>6 DEF EventsOK, UnsentOK, StreamOK, KnownOK
<1> QED BY <1>7, <1>8, <1>9 DEF IInv

LEMMA NextInv ==
    ASSUME IInv, [Next]_vars
    PROVE  IInv'
<1>1. CASE InformerStep
  BY <1>1, InformerInv, ApplyInv DEF InformerStep
<1>2. CASE \E w \in Writers : Emits(w)
  BY <1>2, EmitInv
<1>3. CASE EnqueueAll \/ UNCHANGED vars
  BY <1>3, QuietInv
<1>4. CASE Expires
  BY <1>4, ExpiresInv
<1>5. CASE WorkerStep
  BY <1>5, WorkerReadsInv, WorkerChecksInv, WorkerListsInv, WorkerEndsInv, WorkerClaimsInv,
     WorkerManagesInv, WorkerCreatesInv, WorkerEndsBatchInv, WorkerExpectsInv,
     WorkerFetchesInv, WorkerMarksInv, WorkerDeletedInv DEF WorkerStep
<1>6. CASE PodWatchFails
  BY <1>6, InformerInv
<1>7. CASE Environment
  BY <1>7, RSInv, OrphanInv, ChangePodInv, RemoveInv DEF Environment
<1> QED BY <1>1, <1>2, <1>3, <1>4, <1>5, <1>6, <1>7 DEF Next

(* The parts of the invariant hold in every state of the controller, its     *)
(* informer and the store.                                                   *)
THEOREM Invariance == Spec => []IInv
<1>1. Init => IInv
  BY InitInv
<1>2. IInv /\ [Next]_vars => IInv'
  BY NextInv
<1> QED BY <1>1, <1>2, PTL DEF Spec

-----------------------------------------------------------------------------
(* The observations that wait to be applied. *)

(* Induction, over the elements of a set of numbers. *)
LEMMA SetInduction ==
    ASSUME NEW S, 0 \in S, \A n \in Nat : n \in S => n + 1 \in S
    PROVE  \A n \in Nat : n \in S
<1> SUFFICES ASSUME NEW m \in Nat, m \notin S PROVE FALSE
  OBVIOUS
<1> DEFINE T == {n \in Nat : n \notin S}
<1>1. PICK x \in T : \A y \in T : x <= y
  BY LeastElement
<1>2. x # 0 /\ x \in Nat /\ x \notin S
  OBVIOUS
<1>3. x - 1 \in Nat /\ ~(x <= x - 1) /\ x = (x - 1) + 1
  BY <1>2
<1>4. x - 1 \in S
  BY <1>1, <1>3
<1> QED BY <1>2, <1>3, <1>4

(* A concatenation of sequences is a sequence: flatten is defined by the      *)
(* recursion, and each of its values is a sequence.                          *)
LEMMA FlattenType ==
    ASSUME NEW E, NEW n \in Nat, NEW ss \in [1..n -> Seq(E)]
    PROVE  FlattenSeq(ss) \in Seq(E)
<1>0. Len(ss) = n /\ ss \in Seq(Seq(E))
  OBVIOUS
<1>1. CASE n = 0
  <2>1. ss = <<>>
    BY <1>1
  <2> QED BY <2>1, <1>0, <1>1 DEF FlattenSeq
<1>2. CASE n # 0
  <2> DEFINE Rec(g, m) == [i \in 1..m |-> IF i = 1 THEN ss[i] ELSE g[i-1] \o ss[i]]
             S == {m \in Nat : m <= n => \E g \in [1..m -> Seq(E)] : g = Rec(g, m)}
  <2>1. 0 \in S
    <3> DEFINE g == [i \in 1..0 |-> <<>>]
    <3>1. g \in [1..0 -> Seq(E)] /\ g = Rec(g, 0)
      OBVIOUS
    <3> QED BY <3>1
  <2>2. ASSUME NEW m \in Nat, m \in S PROVE m + 1 \in S
    <3> SUFFICES ASSUME m + 1 <= n
                 PROVE  \E h \in [1..(m+1) -> Seq(E)] : h = Rec(h, m + 1)
      <4> HIDE DEF Rec
      <4> QED OBVIOUS
    <3>1. PICK g \in [1..m -> Seq(E)] : g = Rec(g, m)
      <4> HIDE DEF Rec
      <4> QED BY <2>2
    <3> DEFINE last == IF m = 0 THEN ss[1] ELSE g[m] \o ss[m+1]
               h == [i \in 1..(m+1) |-> IF i <= m THEN g[i] ELSE last]
    <3>2. last \in Seq(E)
      <4>1. ss[m+1] \in Seq(E) /\ ss[1] \in Seq(E)
        BY <1>2
      <4>2. m # 0 => g[m] \in Seq(E)
        OBVIOUS
      <4> QED BY <4>1, <4>2
    <3>3. h \in [1..(m+1) -> Seq(E)]
      <4> HIDE DEF last
      <4> QED BY <3>2
    <3>4. ASSUME NEW i \in 1..(m+1)
          PROVE  h[i] = IF i = 1 THEN ss[i] ELSE h[i-1] \o ss[i]
      <4>1. CASE i <= m
        <5>1. h[i] = g[i] /\ i \in 1..m /\ (i # 1 => i - 1 \in 1..m /\ h[i-1] = g[i-1])
          BY <4>1
        <5>2. g[i] = IF i = 1 THEN ss[i] ELSE g[i-1] \o ss[i]
          BY <3>1, <5>1
        <5> HIDE DEF h
        <5> QED BY <5>1, <5>2
      <4>2. CASE i = m + 1
        <5>1. h[i] = last /\ (m # 0 => h[m] = g[m])
          BY <4>2
        <5> HIDE DEF h
        <5> QED BY <5>1, <4>2
      <4> QED BY <4>1, <4>2
    <3>5. h = Rec(h, m + 1)
      <4> HIDE DEF h
      <4> QED BY <3>3, <3>4
    <3> HIDE DEF h
    <3> QED BY <3>3, <3>5
  <2> HIDE DEF S
  <2>3. n \in S
    BY <2>1, <2>2, SetInduction
  <2>4. PICK g \in [1..n -> Seq(E)] : g = Rec(g, n)
    <3> HIDE DEF Rec
    <3>1. n <= n
      OBVIOUS
    <3> QED BY <2>3, <3>1 DEF S
  <2> DEFINE f == CHOOSE h : h = Rec(h, n)
  <2>5. f = Rec(f, n)
    BY <2>4
  <2>6. FlattenSeq(ss) = f[n]
    BY <1>0, <1>2 DEF FlattenSeq
  <2> HIDE DEF f
  <2> DEFINE F == {m \in Nat : m \in 1..n => f[m] \in Seq(E)}
  <2>7. 0 \in F
    OBVIOUS
  <2>8. ASSUME NEW m \in Nat, m \in F PROVE m + 1 \in F
    <3> SUFFICES ASSUME m + 1 \in 1..n PROVE f[m+1] \in Seq(E)
      OBVIOUS
    <3>1. f[m+1] = IF m + 1 = 1 THEN ss[m+1] ELSE f[m+1-1] \o ss[m+1]
      <4>1. \A i \in 1..n : Rec(f, n)[i] = IF i = 1 THEN ss[i] ELSE f[i-1] \o ss[i]
        OBVIOUS
      <4> HIDE DEF Rec
      <4> QED BY <2>5, <4>1
    <3>2. ss[m+1] \in Seq(E)
      OBVIOUS
    <3>3. m # 0 => f[m] \in Seq(E)
      BY <2>8
    <3> QED BY <3>1, <3>2, <3>3
  <2> HIDE DEF F
  <2>9. n \in F
    BY <2>7, <2>8, SetInduction
  <2> QED BY <2>6, <2>9, <1>2 DEF F
<1> QED BY <1>1, <1>2

EffectKinds == {"created", "deleted", "enqueue", "match"}
Effects == [kind : EffectKinds, id : Ids, owner : 0..MaxInc]

(* addPod, updatePod and deletePod make sequences of observations. *)
LEMMA OwnedType ==
    ASSUME NEW i \in Ids, NEW pod \in Pods
    PROVE  /\ \A kind \in EffectKinds : Owned(kind, i, pod) \in Seq(Effects)
           /\ Matching(i, pod) \in Seq(Effects)
<1>1. pod.owner \in 0..MaxInc
  BY DEF Pods
<1>2. \A kind \in EffectKinds : Effect(kind, i, pod) \in Effects
  BY <1>1 DEF Effect, Effects
<1>3. "match" \in EffectKinds
  BY DEF EffectKinds
<1> QED BY <1>2, <1>3 DEF Owned, Matching

LEMMA HandleType ==
    ASSUME CacheTypeOK, NEW i \in Ids, NEW pod \in Pods
    PROVE  HandlePresent(i, pod) \in Seq(Effects)
<1>1. /\ {"created", "deleted", "enqueue", "match"} = EffectKinds
      /\ <<>> \in Seq(Effects)
  BY DEF EffectKinds
<1>2. AddPod(i, pod) \in Seq(Effects)
  BY <1>1, OwnedType DEF AddPod
<1>3. ASSUME NEW old \in Pods PROVE UpdatePod(i, old, pod) \in Seq(Effects)
  <2>1. /\ Owned("deleted", i, pod) \in Seq(Effects) /\ Owned("deleted", i, old) \in Seq(Effects)
        /\ Owned("enqueue", i, pod) \in Seq(Effects) /\ Owned("enqueue", i, old) \in Seq(Effects)
        /\ Matching(i, pod) \in Seq(Effects)
    BY <1>1, OwnedType
  <2>2. \A s, t \in Seq(Effects) : s \o t \in Seq(Effects)
    OBVIOUS
  <2> QED BY <1>1, <2>1, <2>2 DEF UpdatePod
<1>4. known[i] \in Pods \cup {NoPod}
  BY DEF CacheTypeOK
<1> QED BY <1>2, <1>3, <1>4 DEF HandlePresent

LEMMA RelistType ==
    ASSUME StoreTypeOK, CacheTypeOK
    PROVE  RelistEffects \in Seq(Effects)
<1> DEFINE listed == [i \in Ids |-> IF store[i] # NoPod THEN HandlePresent(i, store[i])
                                    ELSE <<>>]
           vanished == [i \in Ids |-> IF store[i] = NoPod /\ known[i] # NoPod
                                      THEN Owned("deleted", i, known[i]) ELSE <<>>]
<1>1. \A i \in Ids : store[i] \in Pods \cup {NoPod} /\ known[i] \in Pods \cup {NoPod}
  BY DEF StoreTypeOK, CacheTypeOK
<1>2. <<>> \in Seq(Effects) /\ "deleted" \in EffectKinds
  BY DEF EffectKinds
<1>3. listed \in [Ids -> Seq(Effects)]
  BY <1>1, <1>2, HandleType
<1>4. vanished \in [Ids -> Seq(Effects)]
  BY <1>1, <1>2, OwnedType
<1> HIDE DEF listed, vanished
<1>5. FlattenSeq(listed) \in Seq(Effects) /\ FlattenSeq(vanished) \in Seq(Effects)
  BY <1>3, <1>4, FlattenType, StoreAssumption DEF Ids
<1>6. \A s, t \in Seq(Effects) : s \o t \in Seq(Effects)
  OBVIOUS
<1> QED BY <1>5, <1>6 DEF RelistEffects, listed, vanished

LEMMA EffectsStep ==
    ASSUME IInv, effects \in Seq(Effects), [Next]_vars
    PROVE  effects' \in Seq(Effects)
<1>0. StoreTypeOK /\ CacheTypeOK
  BY DEF IInv, Typed
<1>1. CASE UNCHANGED effects
  BY <1>1
<1>2. CASE Relist
  BY <1>0, <1>2, RelistType DEF Relist
<1>3. CASE Deliver
  <2> DEFINE e == Head(stream)
  <2>1. e \in PodEvents
    BY <1>0, <1>3 DEF Deliver, StoreTypeOK
  <2>2. e.id \in Ids /\ e.pod \in Pods /\ "deleted" \in EffectKinds
    BY <2>1 DEF PodEvents, EffectKinds
  <2>3. effects' = IF e.del THEN Owned("deleted", e.id, e.pod) ELSE HandlePresent(e.id, e.pod)
    BY <1>3 DEF Deliver
  <2> HIDE DEF e
  <2> QED BY <1>0, <2>2, <2>3, OwnedType, HandleType
<1>4. CASE ApplyEffect
  BY <1>4 DEF ApplyEffect
<1>5. Next => UNCHANGED effects \/ Relist \/ Deliver \/ ApplyEffect
  <2>1. InformerStep => UNCHANGED effects \/ Relist \/ Deliver \/ ApplyEffect
    BY DEF InformerStep, OpenWatch
  <2>2. (\E w \in Writers : Emits(w)) \/ EnqueueAll \/ Expires \/ PodWatchFails => UNCHANGED effects
    BY DEF Emits, EnqueueAll, Expires, PodWatchFails, WatchBreaks, RelistFails, informerVars
  <2>3. WorkerStep => UNCHANGED effects
    BY DEF WorkerStep, WorkerReads, WorkerChecks, WorkerLists, ListFails, WorkerClaims,
           WorkerManages, WorkerCreates, WorkerEndsBatch, WorkerExpects, WorkerFetches,
           WorkerMarks, WorkerDeleted, WorkerWritesStatus, outside, informerVars
  <2>4. Environment => UNCHANGED effects
    BY DEF Environment, CreateRS, ChangeRS, RemoveRS, CreateOrphan, ChangePod, RemovePod,
           Finalize, unowned, informerVars
  <2> QED BY <2>1, <2>2, <2>3, <2>4 DEF Next
<1>6. UNCHANGED vars => UNCHANGED effects
  BY DEF vars, informerVars
<1> QED BY <1>1, <1>2, <1>3, <1>4, <1>5, <1>6

(* The store, the informer's cache, the observations it has still to apply   *)
(* (a relist concatenates those of all pods) and the controller keep their   *)
(* types.                                                                    *)
THEOREM TypeCorrect == Spec => []TypeOK
<1> DEFINE Inv == effects \in Seq(Effects)
<1>1. Init => Inv
  BY DEF Init
<1>2. Inv /\ IInv /\ [Next]_vars => Inv'
  BY EffectsStep
<1>3. Inv /\ IInv => TypeOK
  BY DEF IInv, Typed, TypeOK, InformerTypeOK, Effects, EffectKinds
<1> HIDE DEF Inv
<1> QED BY <1>1, <1>2, <1>3, Invariance, PTL DEF Spec

(* ControllerExpectations counts a pod's deletion once, however often and in *)
(* whatever order deletion_observed_of is called for it.                     *)
THEOREM CountedOnce == Spec => []DeletionsCountedOnce
<1>1. IInv => DeletionsCountedOnce
  BY DEF IInv, CountOK
<1> QED BY <1>1, Invariance, PTL

(* manage_replicas and slow_start_batches never create more pods than the    *)
(* ReplicaSet that was read asks for.                                        *)
THEOREM Bounded == Spec => []NoOvershoot
<1>1. IInv => NoOvershoot
  BY DEF IInv, ListOK
<1> QED BY <1>1, Invariance, PTL

(* PodInformerCache is the store once everything is delivered, unless emit   *)
(* came out of order or a list failed.                                       *)
THEOREM CacheIsStore == Spec => []InformerTracks
<1>1. IInv => InformerTracks
  <2> SUFFICES ASSUME IInv, watch = "watching", stream = <<>>,
                      \A w \in Writers : unsent[w] = NoEvent /\ ~gap
               PROVE  known = store
    BY DEF InformerTracks
  <2>1. known \in [Ids -> Pods \cup {NoPod}] /\ store \in [Ids -> Pods \cup {NoPod}]
    BY DEF IInv, Typed, CacheTypeOK, StoreTypeOK
  <2>2. ~gap /\ KnownOK
    BY DEF IInv, EventsOK, Writers
  <2>3. ASSUME NEW i \in Ids PROVE known[i] = store[i]
    <3>1. Pending(i) = {} /\ \A k \in 1..Len(stream) : stream[k].id # i
      BY DEF Pending
    <3> QED BY <2>2, <3>1 DEF KnownOK
  <2> QED BY <2>1, <2>3
<1> QED BY <1>1, Invariance, PTL


=============================================================================
