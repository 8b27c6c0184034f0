-------------------------- MODULE SchedulerProofs --------------------------
(***************************************************************************)
(* Proofs about Scheduler and its SchedulingQueue, for every set of pod    *)
(* names and filter plugins and all bounds.                                *)
(***************************************************************************)
EXTENDS Scheduler, FiniteSetTheorems, TLAPS

-----------------------------------------------------------------------------
(* The inductive invariant. *)

(* The places of one name: at most one is taken, by a pod of that name. *)
Slots == [Places -> Infos \cup {NoInfo}]
GoodSlot(s, n) ==
    /\ s \in Slots
    /\ \A p \in Places : s[p] # NoInfo => s[p].pod.name = n
    /\ \A p, q \in Places : s[p] # NoInfo /\ s[q] # NoInfo => p = q

QueueOK ==
    /\ queue \in [Names -> Slots]
    /\ \A n \in Names : GoodSlot(queue[n], n)

-----------------------------------------------------------------------------
(* Pods and queued pod infos. *)

LEMMA InfoFacts ==
    ASSUME NEW info \in Infos
    PROVE  /\ info # NoInfo /\ info.pod \in Pods /\ info.pod.name \in Names
           /\ Uid(info.pod) \in Uids
           /\ info.plugins \subseteq AllPlugins
<1>1. info.pod \in Pods /\ info.plugins \subseteq AllPlugins
  BY DEF Infos
<1>2. info.pod.name \in Names /\ info.pod.inc \in 1..MaxInc
  BY <1>1 DEF Pods
<1>3. info # NoInfo
  BY NullAssumption
<1> QED BY <1>1, <1>2, <1>3 DEF Uid, Uids

LEMMA PreEnqueueFacts ==
    ASSUME NEW info \in Infos
    PROVE  /\ RunPreEnqueuePlugins(info) \in Infos
           /\ RunPreEnqueuePlugins(info).pod = info.pod
<1> DEFINE no == Refusals(info.pod)
           first == IF info.gating \in no THEN info.gating
                    ELSE IF GatesPlugin \in no THEN GatesPlugin ELSE PreemptPlugin
<1>1. first \in {GatesPlugin, PreemptPlugin} /\ first \in AllPlugins
  BY DEF Refusals, AllPlugins
<1>2. NoGating \in {NoGating, GatesPlugin, PreemptPlugin}
  OBVIOUS
<1>3. RunPreEnqueuePlugins(info) =
        IF no = {} THEN [info EXCEPT !.gating = NoGating]
        ELSE [info EXCEPT !.gating = first, !.plugins = @ \cup {first}]
  BY DEF RunPreEnqueuePlugins
<1> HIDE DEF no, first
<1>5. info.plugins \cup {first} \in SUBSET AllPlugins
  BY <1>1, InfoFacts
<1>6. first \in {NoGating, GatesPlugin, PreemptPlugin}
  BY <1>1
<1>7. CASE no = {}
  <2>1. RunPreEnqueuePlugins(info) = [info EXCEPT !.gating = NoGating]
    BY <1>3, <1>7, Zenon
  <2>2. /\ [info EXCEPT !.gating = NoGating] \in Infos
        /\ [info EXCEPT !.gating = NoGating].pod = info.pod
    BY <1>2 DEF Infos
  <2> QED BY <2>1, <2>2, Zenon
<1>8. CASE no # {}
  <2>1. RunPreEnqueuePlugins(info) =
          [info EXCEPT !.gating = first, !.plugins = info.plugins \cup {first}]
    BY <1>3, <1>8 DEF Infos
  <2>2. /\ [info EXCEPT !.gating = first, !.plugins = info.plugins \cup {first}] \in Infos
        /\ [info EXCEPT !.gating = first, !.plugins = info.plugins \cup {first}].pod = info.pod
    BY <1>5, <1>6 DEF Infos
  <2> QED BY <2>1, <2>2, Zenon
<1> QED BY <1>7, <1>8

LEMMA ClearedFacts ==
    ASSUME NEW info \in Infos
    PROVE  Cleared(info) \in Infos /\ Cleared(info).pod = info.pod
BY DEF Cleared, Infos

LEMMA NewInfoFacts ==
    ASSUME NEW pod \in Pods
    PROVE  NewInfo(pod) \in Infos /\ NewInfo(pod).pod = pod
BY DEF NewInfo, Infos

-----------------------------------------------------------------------------
(* Moves within a slot. *)

(* A slot with one pod, and a pod alone in its slot. *)
Empty(s) == \A p \in Places : s[p] = NoInfo
Only(s, p) == \A q \in Places \ {p} : s[q] = NoInfo

LEMMA OnlyFacts ==
    ASSUME NEW n \in Names, NEW s \in Slots, NEW p \in Places, Only(s, p),
           s[p] # NoInfo => s[p].pod.name = n
    PROVE  GoodSlot(s, n)
BY DEF GoodSlot, Only

LEMMA EmptyFacts ==
    ASSUME NEW n \in Names, NEW s \in Slots, Empty(s)
    PROVE  GoodSlot(s, n) /\ s = Nowhere
<1>1. s = [p \in Places |-> s[p]]
  BY DEF Slots
<1> QED BY <1>1 DEF GoodSlot, Empty, Nowhere

LEMMA NowhereFacts == Nowhere \in Slots /\ Empty(Nowhere)
BY DEF Nowhere, Slots, Empty

LEMMA PlaceFacts ==
    /\ "active" \in Places /\ "backoff" \in Places /\ "error" \in Places
    /\ "unsched" \in Places
BY DEF Places

(* What is left when a pod is taken out of the place it is in. *)
LEMMA TakenOut ==
    ASSUME NEW n \in Names, NEW s, GoodSlot(s, n), NEW p \in Places
    PROVE  /\ GoodSlot([s EXCEPT ![p] = NoInfo], n)
           /\ s[p] # NoInfo => Empty([s EXCEPT ![p] = NoInfo])
BY DEF GoodSlot, Slots, Empty

LEMMA BackoffDeleteFacts ==
    ASSUME NEW n \in Names, NEW s, GoodSlot(s, n)
    PROVE  /\ GoodSlot(BackoffDelete(s), n)
           /\ BackoffDelete(s)["backoff"] = NoInfo /\ BackoffDelete(s)["error"] = NoInfo
           /\ \A p \in {"active", "unsched"} : BackoffDelete(s)[p] = s[p]
BY PlaceFacts DEF BackoffDelete, GoodSlot, Slots, Places

LEMMA BackoffAddFacts ==
    ASSUME NEW n \in Names, NEW s \in Slots, Empty(s), NEW info \in Infos,
           info.pod.name = n
    PROVE  GoodSlot(BackoffAdd(s, info), n)
BY PlaceFacts DEF BackoffAdd, GoodSlot, Slots, Empty, Places

LEMMA MoveToActiveQFacts ==
    ASSUME NEW n \in Names, NEW s, GoodSlot(s, n), NEW info \in Infos,
           info.pod.name = n, NEW fromBackoff \in BOOLEAN
    PROVE  GoodSlot(MoveToActiveQ(s, info, fromBackoff), n)
<1> DEFINE i == IF fromBackoff THEN info ELSE RunPreEnqueuePlugins(info)
<1>1. i \in Infos /\ i.pod.name = n
  BY PreEnqueueFacts
<1>2. Cleared(i) \in Infos /\ Cleared(i).pod.name = n
  BY <1>1, ClearedFacts
<1>3. MoveToActiveQ(s, info, fromBackoff) =
        IF Gated(i) THEN (IF s # Nowhere THEN s ELSE [s EXCEPT !.unsched = i])
        ELSE [BackoffDelete(s) EXCEPT !.unsched = NoInfo, !.active = Cleared(i)]
  BY DEF MoveToActiveQ
<1> HIDE DEF i
<1>4. CASE Gated(i) /\ s = Nowhere
  <2>1. [s EXCEPT !.unsched = i] \in Slots
    BY <1>1, <1>4, NowhereFacts, PlaceFacts DEF Slots
  <2>2. Only([s EXCEPT !.unsched = i], "unsched") /\ [s EXCEPT !.unsched = i]["unsched"] = i
    BY <1>4, PlaceFacts DEF Only, Nowhere
  <2> QED BY <2>1, <2>2, <1>1, <1>3, <1>4, PlaceFacts, OnlyFacts
<1>5. CASE Gated(i) /\ s # Nowhere
  BY <1>3, <1>5
<1>6. CASE ~Gated(i)
  <2> DEFINE t == [BackoffDelete(s) EXCEPT !.unsched = NoInfo, !.active = Cleared(i)]
  <2>1. BackoffDelete(s) \in Slots
    BY BackoffDeleteFacts DEF GoodSlot
  <2>2. t \in Slots /\ Only(t, "active") /\ t["active"] = Cleared(i)
    BY <1>2, <2>1, BackoffDeleteFacts, PlaceFacts DEF Slots, Only, Places
  <2> QED BY <2>2, <1>2, <1>3, <1>6, PlaceFacts, OnlyFacts
<1> QED BY <1>4, <1>5, <1>6

LEMMA MoveToBackoffQFacts ==
    ASSUME NEW n \in Names, NEW s \in Slots, Empty(s), NEW info \in Infos,
           info.pod.name = n
    PROVE  GoodSlot(MoveToBackoffQ(s, info), n)
<1> DEFINE i == RunPreEnqueuePlugins(info)
<1>1. i \in Infos /\ i.pod.name = n
  BY PreEnqueueFacts
<1>2. MoveToBackoffQ(s, info) =
        IF Gated(i)
        THEN (IF s.unsched # NoInfo THEN s ELSE [s EXCEPT !.unsched = i])
        ELSE BackoffAdd([s EXCEPT !.unsched = NoInfo], i)
  BY DEF MoveToBackoffQ
<1> HIDE DEF i
<1>3. s.unsched = NoInfo
  BY PlaceFacts DEF Empty
<1>4. [s EXCEPT !.unsched = NoInfo] = s
  BY <1>3, PlaceFacts DEF Slots
<1>5. GoodSlot(BackoffAdd(s, i), n)
  BY <1>1, BackoffAddFacts
<1>6. [s EXCEPT !.unsched = i] \in Slots
  BY <1>1, PlaceFacts DEF Slots
<1>7. Only([s EXCEPT !.unsched = i], "unsched") /\ [s EXCEPT !.unsched = i]["unsched"] = i
  BY PlaceFacts DEF Only, Empty, Slots
<1>8. GoodSlot([s EXCEPT !.unsched = i], n)
  BY <1>1, <1>6, <1>7, PlaceFacts, OnlyFacts
<1> QED BY <1>2, <1>3, <1>4, <1>5, <1>8

(* requeuePodWithQueueingStrategy is always called on a free slot. *)
LEMMA RequeueFacts ==
    ASSUME NEW n \in Names, NEW s \in Slots, Empty(s), NEW info \in Infos,
           info.pod.name = n, NEW worth \in BOOLEAN, NEW backing \in BOOLEAN
    PROVE  GoodSlot(Requeue(s, info, worth, backing), n)
<1>1. GoodSlot(MoveToBackoffQ(s, info), n)
  BY MoveToBackoffQFacts
<1>2. GoodSlot(s, n)
  BY EmptyFacts
<1>3. GoodSlot(MoveToActiveQ(s, info, FALSE), n)
  BY <1>2, MoveToActiveQFacts
<1>4. [s EXCEPT !.unsched = info] \in Slots
  BY PlaceFacts DEF Slots
<1>5. /\ Only([s EXCEPT !.unsched = info], "unsched")
      /\ [s EXCEPT !.unsched = info]["unsched"] = info
  BY PlaceFacts DEF Only, Empty, Slots
<1>6. GoodSlot([s EXCEPT !.unsched = info], n)
  BY <1>4, <1>5, PlaceFacts, OnlyFacts
<1> QED BY <1>1, <1>3, <1>6 DEF Requeue

-----------------------------------------------------------------------------
(* The list of pods in flight and of the events since.  The lemmas are about *)
(* any list, so that they apply to the list after a step as well.            *)

(* f says where in the list L, after position p, the events s are. *)
Follows(L, p, s, f) ==
    /\ f \in [1..Len(s) -> 1..Len(L)]
    /\ \A k \in 1..Len(s) : f[k] > p /\ IsEvent(L[f[k]]) /\ L[f[k]] = s[k]
    /\ \A j, k \in 1..Len(s) : j < k => f[j] < f[k]
    /\ \A i \in 1..Len(L) : i > p /\ IsEvent(L[i]) => \E k \in 1..Len(s) : f[k] = i

(* Each pod in flight has one entry, the first entry is a pod's, and after   *)
(* the entry of a pod come the events since its pop.                         *)
ListInv(F, L, S) ==
    /\ F \subseteq Uids /\ L \in Seq(Entries) /\ S \in [Uids -> Seq(Entries)]
    /\ \A i \in 1..Len(L) : ~IsEvent(L[i]) => \E u \in F : L[i] = PodEntry(u)
    /\ \A u \in F : \E i \in 1..Len(L) : L[i] = PodEntry(u)
    /\ \A i, j \in 1..Len(L) : ~IsEvent(L[i]) /\ L[i] = L[j] => i = j
    /\ L # <<>> => ~IsEvent(L[1])
    /\ \A u \in F, p \in 1..Len(L) : L[p] = PodEntry(u) => \E f : Follows(L, p, S[u], f)

ListOK == ListInv(inFlightPods, inFlightEvents, since)

LEMMA EntryFacts ==
    /\ \A u \in Uids : PodEntry(u) \in Entries /\ ~IsEvent(PodEntry(u))
    /\ \A e \in Events : EventEntry(e) \in Entries /\ IsEvent(EventEntry(e))
    /\ \A u, v : PodEntry(u) = PodEntry(v) => u = v
BY DEF PodEntry, EventEntry, Entries, IsEvent

LEMMA AppendFacts ==
    ASSUME NEW T, NEW s \in Seq(T), NEW x \in T
    PROVE  /\ Append(s, x) \in Seq(T) /\ Len(Append(s, x)) = Len(s) + 1
           /\ \A i \in 1..Len(s) : Append(s, x)[i] = s[i]
           /\ Append(s, x)[Len(s) + 1] = x
           /\ Append(s, x) # <<>> /\ Len(s) \in Nat
OBVIOUS

(* Recording an event for the pods in flight. *)
LEMMA RecordFollows ==
    ASSUME NEW L \in Seq(Entries), NEW s \in Seq(Entries), NEW p \in 1..Len(L),
           NEW x \in Entries, IsEvent(x), NEW f, Follows(L, p, s, f)
    PROVE  \E g : Follows(Append(L, x), p, Append(s, x), g)
<1> DEFINE M == Append(L, x)
           t == Append(s, x)
           g == [k \in 1..(Len(s) + 1) |-> IF k = Len(s) + 1 THEN Len(L) + 1 ELSE f[k]]
<1>1. /\ Len(M) = Len(L) + 1 /\ M[Len(L) + 1] = x /\ Len(L) \in Nat
      /\ \A i \in 1..Len(L) : M[i] = L[i]
  BY AppendFacts
<1>2. /\ Len(t) = Len(s) + 1 /\ t[Len(s) + 1] = x /\ Len(s) \in Nat
      /\ \A i \in 1..Len(s) : t[i] = s[i]
  BY AppendFacts
<1>3. /\ \A k \in 1..Len(s) : f[k] \in 1..Len(L) /\ f[k] > p /\ IsEvent(L[f[k]]) /\ L[f[k]] = s[k]
      /\ \A j, k \in 1..Len(s) : j < k => f[j] < f[k]
      /\ \A i \in 1..Len(L) : i > p /\ IsEvent(L[i]) => \E k \in 1..Len(s) : f[k] = i
  BY DEF Follows
<1>4. /\ \A k \in 1..Len(s) : g[k] = f[k]
      /\ g[Len(s) + 1] = Len(L) + 1
  BY <1>2
<1>5. g \in [1..Len(t) -> 1..Len(M)]
  BY <1>1, <1>2, <1>3
<1> HIDE DEF M, t, g
<1>6. ASSUME NEW k \in 1..Len(t)
      PROVE  g[k] > p /\ IsEvent(M[g[k]]) /\ M[g[k]] = t[k]
  <2>1. CASE k \in 1..Len(s)
    BY <2>1, <1>1, <1>2, <1>3, <1>4
  <2>2. CASE k = Len(s) + 1
    BY <2>2, <1>1, <1>2, <1>4
  <2> QED BY <2>1, <2>2, <1>2
<1>7. ASSUME NEW j \in 1..Len(t), NEW k \in 1..Len(t), j < k
      PROVE  g[j] < g[k]
  <2>1. j \in 1..Len(s)
    BY <1>2, <1>7
  <2>2. CASE k \in 1..Len(s)
    BY <2>1, <2>2, <1>3, <1>4, <1>7
  <2>3. CASE k = Len(s) + 1
    BY <2>1, <2>3, <1>1, <1>3, <1>4
  <2> QED BY <2>2, <2>3, <1>2
<1>8. ASSUME NEW i \in 1..Len(M), i > p, IsEvent(M[i])
      PROVE  \E k \in 1..Len(t) : g[k] = i
  <2>1. CASE i \in 1..Len(L)
    <3>1. PICK k \in 1..Len(s) : f[k] = i
      BY <2>1, <1>1, <1>3, <1>8
    <3> QED BY <3>1, <1>2, <1>4
  <2>2. CASE i = Len(L) + 1
    BY <2>2, <1>2, <1>4
  <2>3. i \in 1..Len(L) \/ i = Len(L) + 1
    BY <1>1
  <2> QED BY <2>1, <2>2, <2>3
<1>9. Follows(M, p, t, g)
  BY <1>5, <1>6, <1>7, <1>8 DEF Follows
<1> QED BY <1>9 DEF M, t

LEMMA ListRecord ==
    ASSUME NEW F, NEW L, NEW S, ListInv(F, L, S), F # {}, NEW e \in Events
    PROVE  ListInv(F, Append(L, EventEntry(e)),
                   [u \in Uids |-> IF u \in F THEN Append(S[u], EventEntry(e)) ELSE S[u]])
<1> DEFINE x == EventEntry(e)
           M == Append(L, x)
           T == [u \in Uids |-> IF u \in F THEN Append(S[u], x) ELSE S[u]]
<1>1. x \in Entries /\ IsEvent(x)
  BY EntryFacts
<1>2. /\ F \subseteq Uids /\ L \in Seq(Entries) /\ S \in [Uids -> Seq(Entries)]
      /\ \A i \in 1..Len(L) : ~IsEvent(L[i]) => \E u \in F : L[i] = PodEntry(u)
      /\ \A u \in F : \E i \in 1..Len(L) : L[i] = PodEntry(u)
      /\ \A i, j \in 1..Len(L) : ~IsEvent(L[i]) /\ L[i] = L[j] => i = j
      /\ L # <<>> => ~IsEvent(L[1])
      /\ \A u \in F, p \in 1..Len(L) : L[p] = PodEntry(u) => \E f : Follows(L, p, S[u], f)
  BY DEF ListInv
<1> HIDE DEF x
<1>3. /\ M \in Seq(Entries) /\ Len(M) = Len(L) + 1 /\ M[Len(L) + 1] = x /\ Len(L) \in Nat
      /\ \A i \in 1..Len(L) : M[i] = L[i]
  BY <1>1, <1>2, AppendFacts
<1>4. T \in [Uids -> Seq(Entries)]
  BY <1>1, <1>2
<1>5. \A u \in F : T[u] = Append(S[u], x)
  BY <1>2
<1> HIDE DEF M, T
<1>6. \A i \in 1..Len(M) : ~IsEvent(M[i]) => i \in 1..Len(L)
  BY <1>1, <1>3
<1>7. \A u \in F, p \in 1..Len(M) : M[p] = PodEntry(u) => p \in 1..Len(L) /\ L[p] = PodEntry(u)
  BY <1>2, <1>3, <1>6, EntryFacts
<1>8. \A i \in 1..Len(M) : ~IsEvent(M[i]) => \E u \in F : M[i] = PodEntry(u)
  BY <1>2, <1>3, <1>6
<1>9. \A u \in F : \E i \in 1..Len(M) : M[i] = PodEntry(u)
  BY <1>2, <1>3
<1>10. \A i, j \in 1..Len(M) : ~IsEvent(M[i]) /\ M[i] = M[j] => i = j
  BY <1>2, <1>3, <1>6
<1>11. ~IsEvent(M[1])
  <2>1. PICK u \in F : TRUE
    OBVIOUS
  <2>2. PICK i \in 1..Len(L) : L[i] = PodEntry(u)
    BY <1>2
  <2>3. 1 \in 1..Len(L) /\ L # <<>>
    BY <1>3, <2>2
  <2> QED BY <2>3, <1>2, <1>3
<1>12. ASSUME NEW u \in F, NEW p \in 1..Len(M), M[p] = PodEntry(u)
       PROVE  \E f : Follows(M, p, T[u], f)
  <2>1. p \in 1..Len(L) /\ L[p] = PodEntry(u)
    BY <1>7, <1>12
  <2>2. PICK f : Follows(L, p, S[u], f)
    BY <2>1, <1>2
  <2>3. S[u] \in Seq(Entries)
    BY <1>2
  <2>4. \E g : Follows(Append(L, x), p, Append(S[u], x), g)
    BY <2>1, <2>2, <2>3, <1>1, <1>2, RecordFollows
  <2> QED BY <2>4, <1>5 DEF M
<1>13. ListInv(F, M, T)
  BY <1>2, <1>3, <1>4, <1>8, <1>9, <1>10, <1>11, <1>12 DEF ListInv
<1> QED BY <1>13 DEF M, T, x

(* Popping a pod that is not in flight. *)
LEMMA PopFollows ==
    ASSUME NEW L \in Seq(Entries), NEW s \in Seq(Entries), NEW p \in 1..Len(L),
           NEW x \in Entries, ~IsEvent(x), NEW f, Follows(L, p, s, f)
    PROVE  Follows(Append(L, x), p, s, f)
<1> DEFINE M == Append(L, x)
<1>1. /\ Len(M) = Len(L) + 1 /\ M[Len(L) + 1] = x /\ Len(L) \in Nat
      /\ \A i \in 1..Len(L) : M[i] = L[i]
  BY AppendFacts
<1> HIDE DEF M
<1>2. f \in [1..Len(s) -> 1..Len(M)]
  BY <1>1 DEF Follows
<1>3. \A k \in 1..Len(s) : f[k] > p /\ IsEvent(M[f[k]]) /\ M[f[k]] = s[k]
  BY <1>1 DEF Follows
<1>4. \A j, k \in 1..Len(s) : j < k => f[j] < f[k]
  BY DEF Follows
<1>5. ASSUME NEW i \in 1..Len(M), i > p, IsEvent(M[i])
      PROVE  \E k \in 1..Len(s) : f[k] = i
  <2>1. i \in 1..Len(L) \/ i = Len(L) + 1
    BY <1>1
  <2>2. i # Len(L) + 1
    BY <1>1, <1>5
  <2>3. i \in 1..Len(L) /\ IsEvent(L[i])
    BY <2>1, <2>2, <1>1, <1>5
  <2> QED BY <2>3, <1>5 DEF Follows
<1>6. Follows(M, p, s, f)
  BY <1>2, <1>3, <1>4, <1>5 DEF Follows
<1> QED BY <1>6 DEF M

LEMMA ListPop ==
    ASSUME NEW F, NEW L, NEW S, ListInv(F, L, S), NEW u \in Uids, u \notin F
    PROVE  ListInv(F \cup {u}, Append(L, PodEntry(u)), [S EXCEPT ![u] = <<>>])
<1> DEFINE x == PodEntry(u)
           M == Append(L, x)
           T == [S EXCEPT ![u] = <<>>]
<1>1. x \in Entries /\ ~IsEvent(x)
  BY EntryFacts
<1>2. /\ F \subseteq Uids /\ L \in Seq(Entries) /\ S \in [Uids -> Seq(Entries)]
      /\ \A i \in 1..Len(L) : ~IsEvent(L[i]) => \E v \in F : L[i] = PodEntry(v)
      /\ \A v \in F : \E i \in 1..Len(L) : L[i] = PodEntry(v)
      /\ \A i, j \in 1..Len(L) : ~IsEvent(L[i]) /\ L[i] = L[j] => i = j
      /\ L # <<>> => ~IsEvent(L[1])
      /\ \A v \in F, p \in 1..Len(L) : L[p] = PodEntry(v) => \E f : Follows(L, p, S[v], f)
  BY DEF ListInv
<1>3. /\ M \in Seq(Entries) /\ Len(M) = Len(L) + 1 /\ M[Len(L) + 1] = x /\ Len(L) \in Nat
      /\ \A i \in 1..Len(L) : M[i] = L[i]
  BY <1>1, <1>2, AppendFacts
<1>4. T \in [Uids -> Seq(Entries)] /\ T[u] = <<>> /\ \A v \in F : T[v] = S[v]
  BY <1>2
<1>5. \A i \in 1..Len(L) : L[i] # x
  <2> SUFFICES ASSUME NEW i \in 1..Len(L), L[i] = x PROVE FALSE
    OBVIOUS
  <2>1. PICK v \in F : L[i] = PodEntry(v)
    BY <1>1, <1>2
  <2> QED BY <2>1, EntryFacts
<1>6. \A v \in F : PodEntry(v) # x
  BY EntryFacts
<1> HIDE DEF x, M, T
<1>7. \A i \in 1..Len(M) : i \in 1..Len(L) \/ i = Len(L) + 1
  BY <1>3
<1>8. \A i \in 1..Len(M) : ~IsEvent(M[i]) => \E v \in F \cup {u} : M[i] = PodEntry(v)
  BY <1>2, <1>3, <1>7 DEF x
<1>9. \A v \in F \cup {u} : \E i \in 1..Len(M) : M[i] = PodEntry(v)
  <2>1. \A v \in F : \E i \in 1..Len(M) : M[i] = PodEntry(v)
    BY <1>2, <1>3
  <2>2. Len(L) + 1 \in 1..Len(M) /\ M[Len(L) + 1] = PodEntry(u)
    BY <1>3 DEF x
  <2> QED BY <2>1, <2>2
<1>10. ASSUME NEW i \in 1..Len(M), NEW j \in 1..Len(M), ~IsEvent(M[i]), M[i] = M[j]
       PROVE  i = j
  <2>1. CASE i \in 1..Len(L) /\ j \in 1..Len(L)
    BY <2>1, <1>2, <1>3, <1>10
  <2>2. CASE i \in 1..Len(L) /\ j = Len(L) + 1
    BY <2>2, <1>3, <1>5, <1>10
  <2>3. CASE i = Len(L) + 1 /\ j \in 1..Len(L)
    BY <2>3, <1>3, <1>5, <1>10
  <2> QED BY <2>1, <2>2, <2>3, <1>7
<1>11. ~IsEvent(M[1])
  <2>1. CASE L = <<>>
    BY <2>1, <1>1, <1>3
  <2>2. CASE L # <<>>
    <3>1. 1 \in 1..Len(L)
      BY <2>2, <1>2
    <3> QED BY <3>1, <2>2, <1>2, <1>3
  <2> QED BY <2>1, <2>2
<1>12. ASSUME NEW v \in F \cup {u}, NEW p \in 1..Len(M), M[p] = PodEntry(v)
       PROVE  \E f : Follows(M, p, T[v], f)
  <2>1. CASE v \in F
    <3>1. p \in 1..Len(L) /\ L[p] = PodEntry(v)
      BY <2>1, <1>3, <1>6, <1>7, <1>12
    <3>2. PICK f : Follows(L, p, S[v], f)
      BY <2>1, <3>1, <1>2
    <3>3. S[v] \in Seq(Entries)
      BY <2>1, <1>2
    <3>4. Follows(Append(L, x), p, S[v], f)
      BY <3>1, <3>2, <3>3, <1>1, <1>2, PopFollows
    <3> QED BY <3>4, <2>1, <1>4 DEF M
  <2>2. CASE v = u
    <3>1. p = Len(L) + 1
      BY <2>2, <1>3, <1>5, <1>7, <1>12 DEF x
    <3>2. Len(T[v]) = 0 /\ Len(M) = p
      BY <2>2, <3>1, <1>3, <1>4
    <3>3. Follows(M, p, T[v], [k \in 1..0 |-> 0])
      BY <3>2, <1>3 DEF Follows
    <3> QED BY <3>3
  <2> QED BY <2>1, <2>2
<1>13. F \cup {u} \subseteq Uids
  BY <1>2
<1>14. ListInv(F \cup {u}, M, T)
  BY <1>3, <1>4, <1>8, <1>9, <1>10, <1>11, <1>12, <1>13 DEF ListInv
<1> QED BY <1>14 DEF M, T, x

(* unlockedDone.  The list M is L without the entry of u and without some    *)
(* events at its front; g says where its entries were.                       *)
Shrinks(L, p, M, g) ==
    /\ M \in Seq(Entries)
    /\ g \in [1..Len(M) -> 1..Len(L)]
    /\ \A i \in 1..Len(M) : g[i] # p /\ M[i] = L[g[i]]
    /\ \A i, j \in 1..Len(M) : i < j => g[i] < g[j]
    /\ \A j \in 1..Len(L) :
          \/ j = p
          \/ \E i \in 1..Len(M) : g[i] = j
          \/ IsEvent(L[j]) /\ \A i \in 1..Len(M) : j < g[i]
    /\ M # <<>> => ~IsEvent(M[1])

LEMMA ShrinkFollows ==
    ASSUME NEW L \in Seq(Entries), NEW p \in 1..Len(L), ~IsEvent(L[p]),
           NEW M, NEW g, Shrinks(L, p, M, g)
    PROVE  \A s \in Seq(Entries), q \in 1..Len(M) :
              (\E f : Follows(L, g[q], s, f)) => \E h : Follows(M, q, s, h)
<1> SUFFICES ASSUME NEW s \in Seq(Entries), NEW q \in 1..Len(M),
                    NEW f, Follows(L, g[q], s, f)
             PROVE  \E h : Follows(M, q, s, h)
  OBVIOUS
<1> DEFINE h == [k \in 1..Len(s) |-> CHOOSE i \in 1..Len(M) : g[i] = f[k]]
<1>1. /\ g \in [1..Len(M) -> 1..Len(L)] /\ M \in Seq(Entries)
      /\ \A i \in 1..Len(M) : g[i] \in 1..Len(L) /\ M[i] = L[g[i]]
      /\ \A i, j \in 1..Len(M) : i < j => g[i] < g[j]
  BY DEF Shrinks
<1>2. /\ \A k \in 1..Len(s) : f[k] \in 1..Len(L)
      /\ \A k \in 1..Len(s) : f[k] > g[q] /\ IsEvent(L[f[k]]) /\ L[f[k]] = s[k]
      /\ \A j, k \in 1..Len(s) : j < k => f[j] < f[k]
      /\ \A i \in 1..Len(L) : i > g[q] /\ IsEvent(L[i]) => \E k \in 1..Len(s) : f[k] = i
  BY DEF Follows
<1>3. ASSUME NEW k \in 1..Len(s)
      PROVE  \E i \in 1..Len(M) : g[i] = f[k]
  <2>1. f[k] \in 1..Len(L) /\ f[k] # p /\ f[k] > g[q] /\ g[q] \in 1..Len(L)
    BY <1>1, <1>2
  <2>2. ~(\A i \in 1..Len(M) : f[k] < g[i])
    BY <2>1
  <2> QED BY <2>1, <2>2 DEF Shrinks
<1>4. \A k \in 1..Len(s) : h[k] \in 1..Len(M) /\ g[h[k]] = f[k]
  BY <1>3
<1>5. h \in [1..Len(s) -> 1..Len(M)]
  BY <1>3
<1> HIDE DEF h
<1>6. \A i, j \in 1..Len(M) : g[i] < g[j] => i < j
  <2> SUFFICES ASSUME NEW i \in 1..Len(M), NEW j \in 1..Len(M), g[i] < g[j], ~(i < j)
               PROVE  FALSE
    OBVIOUS
  <2>1. Len(M) \in Nat /\ g[i] \in Int /\ g[j] \in Int
    BY <1>1
  <2>2. j < i \/ i = j
    BY <2>1
  <2>3. CASE j < i
    BY <2>1, <2>3, <1>1
  <2>4. CASE i = j
    BY <2>1, <2>4
  <2> QED BY <2>2, <2>3, <2>4
<1>7. \A k \in 1..Len(s) : h[k] > q
  BY <1>2, <1>4, <1>6
<1>8. ASSUME NEW k \in 1..Len(s)
      PROVE  IsEvent(M[h[k]]) /\ M[h[k]] = s[k]
  <2>1. h[k] \in 1..Len(M) /\ g[h[k]] = f[k]
    BY <1>4
  <2>2. M[h[k]] = L[f[k]]
    BY <2>1, <1>1
  <2> QED BY <2>2, <1>2
<1>9. \A j, k \in 1..Len(s) : j < k => h[j] < h[k]
  BY <1>2, <1>4, <1>6
<1>10. ASSUME NEW i \in 1..Len(M), i > q, IsEvent(M[i])
       PROVE  \E k \in 1..Len(s) : h[k] = i
  <2>1. g[i] > g[q] /\ IsEvent(L[g[i]]) /\ g[i] \in 1..Len(L)
    BY <1>1, <1>10
  <2>2. PICK k \in 1..Len(s) : f[k] = g[i]
    BY <2>1, <1>2
  <2>3. h[k] \in 1..Len(M) /\ g[h[k]] = g[i]
    BY <2>2, <1>4
  <2>4. Len(M) \in Nat /\ g[i] \in Int
    BY <1>1, <2>1
  <2>5. ~(h[k] < i) /\ ~(i < h[k])
    <3>1. ASSUME NEW a \in 1..Len(M), NEW b \in 1..Len(M), a < b, g[a] = g[b]
          PROVE  FALSE
      BY <3>1, <1>1
    <3> QED BY <3>1, <2>3
  <2>6. h[k] = i
    BY <2>3, <2>4, <2>5
  <2> QED BY <2>6
<1>11. Follows(M, q, s, h)
  BY <1>5, <1>7, <1>8, <1>9, <1>10 DEF Follows
<1> QED BY <1>11

LEMMA ListDone ==
    ASSUME NEW F, NEW L, NEW S, ListInv(F, L, S), NEW u \in F,
           NEW p \in 1..Len(L), L[p] = PodEntry(u), NEW M, NEW g, Shrinks(L, p, M, g)
    PROVE  ListInv(F \ {u}, M, [S EXCEPT ![u] = <<>>])
<1> DEFINE T == [S EXCEPT ![u] = <<>>]
<1>1. /\ F \subseteq Uids /\ L \in Seq(Entries) /\ S \in [Uids -> Seq(Entries)]
      /\ \A i \in 1..Len(L) : ~IsEvent(L[i]) => \E v \in F : L[i] = PodEntry(v)
      /\ \A v \in F : \E i \in 1..Len(L) : L[i] = PodEntry(v)
      /\ \A i, j \in 1..Len(L) : ~IsEvent(L[i]) /\ L[i] = L[j] => i = j
      /\ \A v \in F, q \in 1..Len(L) : L[q] = PodEntry(v) => \E f : Follows(L, q, S[v], f)
  BY DEF ListInv
<1>2. /\ M \in Seq(Entries) /\ g \in [1..Len(M) -> 1..Len(L)]
      /\ \A i \in 1..Len(M) : g[i] \in 1..Len(L) /\ g[i] # p /\ M[i] = L[g[i]]
      /\ \A i, j \in 1..Len(M) : i < j => g[i] < g[j]
      /\ M # <<>> => ~IsEvent(M[1])
  BY DEF Shrinks
<1>3. T \in [Uids -> Seq(Entries)] /\ \A v \in F \ {u} : T[v] = S[v]
  BY <1>1
<1> HIDE DEF T
<1>4. ~IsEvent(L[p])
  BY <1>1, EntryFacts
<1>5. \A i \in 1..Len(M) : ~IsEvent(M[i]) => M[i] # PodEntry(u)
  <2> SUFFICES ASSUME NEW i \in 1..Len(M), M[i] = PodEntry(u) PROVE FALSE
    OBVIOUS
  <2>1. g[i] \in 1..Len(L) /\ g[i] # p /\ L[g[i]] = L[p]
    BY <1>2
  <2> QED BY <2>1, <1>1, <1>4
<1>6. \A i \in 1..Len(M) : ~IsEvent(M[i]) => \E v \in F \ {u} : M[i] = PodEntry(v)
  <2> SUFFICES ASSUME NEW i \in 1..Len(M), ~IsEvent(M[i])
               PROVE  \E v \in F \ {u} : M[i] = PodEntry(v)
    OBVIOUS
  <2>1. PICK v \in F : L[g[i]] = PodEntry(v)
    BY <1>1, <1>2
  <2> QED BY <2>1, <1>2, <1>5
<1>7. ASSUME NEW v \in F \ {u}
      PROVE  \E i \in 1..Len(M) : M[i] = PodEntry(v)
  <2>1. PICK j \in 1..Len(L) : L[j] = PodEntry(v)
    BY <1>1
  <2>2. ~IsEvent(L[j]) /\ j # p
    BY <2>1, <1>1, EntryFacts
  <2>3. PICK i \in 1..Len(M) : g[i] = j
    BY <2>2 DEF Shrinks
  <2> QED BY <2>1, <2>3, <1>2
<1>8. ASSUME NEW i \in 1..Len(M), NEW j \in 1..Len(M), ~IsEvent(M[i]), M[i] = M[j]
      PROVE  i = j
  <2>1. g[i] = g[j]
    <3>1. g[i] \in 1..Len(L) /\ g[j] \in 1..Len(L) /\ L[g[i]] = L[g[j]] /\ ~IsEvent(L[g[i]])
      BY <1>2, <1>8
    <3> QED BY <3>1, <1>1
  <2>2. Len(M) \in Nat /\ g[i] \in Int
    BY <1>2
  <2>3. ~(i < j) /\ ~(j < i)
    BY <2>1, <2>2, <1>2
  <2> QED BY <2>2, <2>3
<1>9. ASSUME NEW v \in F \ {u}, NEW q \in 1..Len(M), M[q] = PodEntry(v)
      PROVE  \E f : Follows(M, q, T[v], f)
  <2>1. g[q] \in 1..Len(L) /\ L[g[q]] = PodEntry(v)
    BY <1>2, <1>9
  <2>2. PICK f : Follows(L, g[q], S[v], f)
    BY <2>1, <1>1
  <2>3. S[v] \in Seq(Entries)
    BY <1>1
  <2>4. \E h : Follows(M, q, S[v], h)
    <3>1. L \in Seq(Entries)
      BY <1>1
    <3>2. \A s \in Seq(Entries), r \in 1..Len(M) :
              (\E f1 : Follows(L, g[r], s, f1)) => \E h : Follows(M, r, s, h)
      <4>1. p \in 1..Len(L)
        OBVIOUS
      <4> QED BY <4>1, <3>1, <1>4, ShrinkFollows, ZenonT(120)
    <3> QED BY <3>2, <2>2, <2>3
  <2> QED BY <2>4, <1>3
<1>10. F \ {u} \subseteq Uids
  BY <1>1
<1>11. ListInv(F \ {u}, M, T)
  BY <1>2, <1>3, <1>6, <1>7, <1>8, <1>9, <1>10 DEF ListInv
<1> QED BY <1>11 DEF T

(* IndexOf finds the entry of a pod in flight. *)
LEMMA IndexFacts ==
    ASSUME ListOK, NEW u \in inFlightPods
    PROVE  IndexOf(u) \in 1..Len(inFlightEvents) /\ inFlightEvents[IndexOf(u)] = PodEntry(u)
<1>1. \E i \in 1..Len(inFlightEvents) : inFlightEvents[i] = PodEntry(u)
  BY DEF ListOK, ListInv
<1> QED BY <1>1 DEF IndexOf

LEMMA WithoutFacts ==
    ASSUME ListOK, NEW u \in inFlightPods
    PROVE  /\ Without(u) \in Seq(Entries) /\ Len(Without(u)) = Len(inFlightEvents) - 1
           /\ \A i \in 1..(Len(inFlightEvents) - 1) :
                 Without(u)[i] = IF i < IndexOf(u) THEN inFlightEvents[i]
                                 ELSE inFlightEvents[i + 1]
<1> DEFINE L == inFlightEvents
           p == IndexOf(u)
           A == SubSeq(L, 1, p - 1)
           B == SubSeq(L, p + 1, Len(L))
<1>1. L \in Seq(Entries) /\ p \in 1..Len(L) /\ Len(L) \in Nat
  BY IndexFacts DEF ListOK, ListInv
<1>2. Without(u) = A \o B
  BY DEF Without
<1> HIDE DEF L, p
<1>3. A \in Seq(Entries) /\ Len(A) = p - 1 /\ \A i \in 1..(p - 1) : A[i] = L[i]
  BY <1>1
<1>4. B \in Seq(Entries) /\ Len(B) = Len(L) - p /\ \A i \in 1..(Len(L) - p) : B[i] = L[p + i]
  BY <1>1
<1> HIDE DEF A, B
<1>5. A \o B \in Seq(Entries) /\ Len(A \o B) = Len(L) - 1
  <2>1. A \o B \in Seq(Entries) /\ Len(A \o B) = Len(A) + Len(B)
    BY <1>3, <1>4
  <2>2. (p - 1) + (Len(L) - p) = Len(L) - 1
    BY <1>1
  <2> QED BY <2>1, <2>2, <1>3, <1>4
<1>6. ASSUME NEW i \in 1..(Len(L) - 1)
      PROVE  (A \o B)[i] = IF i < p THEN L[i] ELSE L[i + 1]
  <2>1. CASE i < p
    <3>1. i \in 1..(p - 1) /\ i \in 1..Len(A)
      BY <1>1, <1>3, <2>1
    <3>2. (A \o B)[i] = A[i]
      BY <3>1, <1>3, <1>4
    <3> QED BY <3>1, <3>2, <2>1, <1>3
  <2>2. CASE ~(i < p)
    <3>1. i - (p - 1) \in 1..(Len(L) - p) /\ p + (i - (p - 1)) = i + 1
      BY <1>1, <2>2
    <3>2. (A \o B)[i] = B[i - (p - 1)]
      BY <3>1, <1>1, <1>3, <1>4, <2>2
    <3> QED BY <3>1, <3>2, <2>2, <1>4
  <2> QED BY <2>1, <2>2
<1> QED BY <1>2, <1>5, <1>6 DEF L, p

LEMMA DoneWithList ==
    ASSUME ListOK, NEW u, DoneWith(u)
    PROVE  /\ ListOK'
           /\ inFlightPods' = inFlightPods \ {u}
<1>1. CASE u \notin inFlightPods
  BY <1>1 DEF DoneWith, ListOK
<1>2. CASE u \in inFlightPods
  <2> DEFINE L == inFlightEvents
             p == IndexOf(u)
             W == Without(u)
  <2>1. PICK front \in 1..(Len(W) + 1) :
          /\ \A i \in 1..(front - 1) : IsEvent(W[i])
          /\ front <= Len(W) => ~IsEvent(W[front])
          /\ inFlightEvents' = SubSeq(W, front, Len(W))
    BY <1>2 DEF DoneWith
  <2>2. L \in Seq(Entries) /\ p \in 1..Len(L) /\ L[p] = PodEntry(u) /\ Len(L) \in Nat
    BY <1>2, IndexFacts DEF ListOK, ListInv
  <2>3. /\ W \in Seq(Entries) /\ Len(W) = Len(L) - 1
        /\ \A i \in 1..(Len(L) - 1) : W[i] = IF i < p THEN L[i] ELSE L[i + 1]
    BY <1>2, WithoutFacts
  <2> DEFINE M == SubSeq(W, front, Len(W))
             g == [i \in 1..(Len(L) - front) |->
                      IF i + front - 1 < p THEN i + front - 1 ELSE i + front]
  <2> HIDE DEF L, p, W
  <2>4. front \in Nat /\ front >= 1 /\ front <= Len(L)
    BY <2>2, <2>3
  <2>5. /\ M \in Seq(Entries) /\ Len(M) = Len(L) - front
        /\ \A i \in 1..(Len(L) - front) : M[i] = W[i + front - 1]
    BY <2>2, <2>3, <2>4
  <2> HIDE DEF M
  <2>6. g \in [1..Len(M) -> 1..Len(L)]
    BY <2>2, <2>4, <2>5
  <2>7. \A i \in 1..Len(M) : g[i] = IF i + front - 1 < p THEN i + front - 1 ELSE i + front
    BY <2>5
  <2> HIDE DEF g
  <2>8. ASSUME NEW i \in 1..Len(M)
        PROVE  g[i] # p /\ M[i] = L[g[i]]
    <3>1. i + front - 1 \in 1..(Len(L) - 1)
      BY <2>2, <2>4, <2>5
    <3>2. M[i] = W[i + front - 1]
      BY <2>5
    <3>3. CASE i + front - 1 < p
      BY <3>1, <3>2, <3>3, <2>2, <2>3, <2>7
    <3>4. CASE ~(i + front - 1 < p)
      <4>1. g[i] = i + front /\ (i + front - 1) + 1 = i + front
        BY <3>1, <3>4, <2>4, <2>5, <2>7
      <4>2. W[i + front - 1] = L[(i + front - 1) + 1]
        BY <3>1, <3>4, <2>3
      <4>3. g[i] # p
        BY <4>1, <3>1, <3>4, <2>2, <2>4
      <4> QED BY <4>1, <4>2, <4>3, <3>2
    <3> QED BY <3>3, <3>4
  <2>9. \A i, j \in 1..Len(M) : i < j => g[i] < g[j]
    BY <2>2, <2>4, <2>5, <2>7
  <2>10. ASSUME NEW j \in 1..Len(L), j # p
         PROVE  \/ \E i \in 1..Len(M) : g[i] = j
                \/ IsEvent(L[j]) /\ \A i \in 1..Len(M) : j < g[i]
    <3> DEFINE k == IF j < p THEN j ELSE j - 1
    <3>1. k \in 1..(Len(L) - 1) /\ W[k] = L[j]
      <4>1. CASE j < p
        BY <4>1, <2>2, <2>3
      <4>2. CASE ~(j < p)
        <5>1. k = j - 1 /\ k \in 1..(Len(L) - 1) /\ ~(k < p) /\ k + 1 = j
          BY <4>2, <2>2, <2>10
        <5> QED BY <5>1, <2>3
      <4> QED BY <4>1, <4>2
    <3>2. CASE k < front
      <4>1. IsEvent(L[j])
        <5>1. k \in 1..(front - 1)
          BY <3>1, <3>2, <2>2, <2>4
        <5> QED BY <5>1, <3>1, <2>1
      <4>2. \A i \in 1..Len(M) : j < g[i]
        BY <3>2, <2>2, <2>4, <2>5, <2>7, <2>10
      <4> QED BY <4>1, <4>2
    <3>3. CASE ~(k < front)
      <4>1. k - front + 1 \in 1..Len(M)
        BY <3>1, <3>3, <2>2, <2>4, <2>5
      <4>2. g[k - front + 1] = j
        <5>1. (k - front + 1) + front - 1 = k /\ (k - front + 1) + front = k + 1
          BY <3>1, <2>2, <2>4
        <5>2. g[k - front + 1] = IF k < p THEN k ELSE k + 1
          BY <4>1, <5>1, <2>7
        <5>3. (IF k < p THEN k ELSE k + 1) = j
          BY <2>2, <2>10
        <5> QED BY <5>2, <5>3
      <4> QED BY <4>1, <4>2
    <3> QED BY <3>2, <3>3
  <2>11. M # <<>> => ~IsEvent(M[1])
    <3> SUFFICES ASSUME M # <<>> PROVE ~IsEvent(M[1])
      OBVIOUS
    <3>1. Len(M) # 0 /\ 1 \in 1..(Len(L) - front)
      BY <2>2, <2>4, <2>5
    <3>2. 1 + front - 1 = front /\ front <= Len(L) - 1
      BY <3>1, <2>2, <2>4
    <3>3. M[1] = W[1 + front - 1]
      BY <3>1, <2>5
    <3> QED BY <3>2, <3>3, <2>1, <2>3
  <2>12. Shrinks(L, p, M, g)
    BY <2>5, <2>6, <2>8, <2>9, <2>10, <2>11 DEF Shrinks
  <2>13. ListInv(inFlightPods, L, since)
    BY DEF ListOK, L
  <2>14. ListInv(inFlightPods \ {u}, M, [since EXCEPT ![u] = <<>>])
    BY <1>2, <2>2, <2>12, <2>13, ListDone
  <2>15. /\ inFlightPods' = inFlightPods \ {u} /\ since' = [since EXCEPT ![u] = <<>>]
         /\ inFlightEvents' = M
    BY <1>2, <2>1 DEF DoneWith, M
  <2> QED BY <2>14, <2>15 DEF ListOK
<1> QED BY <1>1, <1>2

LEMMA RecordList ==
    ASSUME ListOK, NEW e \in Events, Record(e)
    PROVE  ListOK' /\ inFlightPods' = inFlightPods
<1>1. CASE inFlightPods = {}
  <2>1. since' = since
    BY <1>1 DEF Record, ListOK, ListInv
  <2> QED BY <1>1, <2>1 DEF Record, ListOK
<1>2. CASE inFlightPods # {}
  <2>1. ListInv(inFlightPods, Append(inFlightEvents, EventEntry(e)),
                [u \in Uids |-> IF u \in inFlightPods THEN Append(since[u], EventEntry(e))
                                ELSE since[u]])
    BY <1>2, ListRecord DEF ListOK
  <2> QED BY <1>2, <2>1 DEF Record, ListOK
<1> QED BY <1>1, <1>2

(* The first k values of an increasing sequence of positions are k. *)
LEMMA RankFacts ==
    ASSUME NEW n \in Nat, NEW m \in Nat, NEW f \in [1..n -> 1..m],
           \A j, k \in 1..n : j < k => f[j] < f[k], NEW r \in 0..n
    PROVE  Cardinality({f[j] : j \in 1..r}) = r
<1> DEFINE T == {f[j] : j \in 1..r}
           h == [j \in 1..r |-> f[j]]
<1>1. h \in [1..r -> T] /\ \A j \in 1..r : h[j] = f[j]
  OBVIOUS
<1>2. \A t \in T : \E j \in 1..r : h[j] = t
  BY <1>1
<1>3. ASSUME NEW j \in 1..r, NEW k \in 1..r, h[j] = h[k]
      PROVE  j = k
  <2>1. j \in 1..n /\ k \in 1..n /\ f[j] = f[k] /\ f[j] \in 1..m
    BY <1>1, <1>3
  <2>2. ~(j < k) /\ ~(k < j)
    BY <2>1
  <2> QED BY <2>2
<1> HIDE DEF h, T
<1>4. h \in Bijection(1..r, T)
  BY <1>1, <1>2, <1>3 DEF Bijection, Injection, Surjection, IsInjective
<1>5. ExistsBijection(1..r, T)
  BY <1>4 DEF ExistsBijection
<1>6. IsFiniteSet(1..r) /\ Cardinality(1..r) = r
  BY FS_Interval
<1>7. Cardinality(T) = Cardinality(1..r)
  BY <1>5, <1>6, FS_Bijection
<1> QED BY <1>6, <1>7 DEF T

LEMMA ListKeepsEvents == ASSUME ListOK PROVE EventsKept
<1>1. ASSUME inFlightPods = {}, inFlightEvents # <<>> PROVE FALSE
  <2>1. inFlightEvents \in Seq(Entries) /\ 1 \in 1..Len(inFlightEvents)
    BY <1>1 DEF ListOK, ListInv
  <2> QED BY <1>1, <2>1 DEF ListOK, ListInv
<1>2. ASSUME NEW u \in inFlightPods
      PROVE  LET events == ClusterEventsForPod(u)
             IN  /\ Cardinality(events) = Len(since[u])
                 /\ \A i \in events :
                       inFlightEvents[i] = since[u][Cardinality({j \in events : j <= i})]
  <2> DEFINE L == inFlightEvents
             p == IndexOf(u)
             s == since[u]
             E == ClusterEventsForPod(u)
  <2>1. L \in Seq(Entries) /\ p \in 1..Len(L) /\ L[p] = PodEntry(u) /\ Len(L) \in Nat
    BY IndexFacts DEF ListOK, ListInv
  <2>2. s \in Seq(Entries) /\ Len(s) \in Nat
    BY DEF ListOK, ListInv
  <2>3. PICK f : Follows(L, p, s, f)
    BY <2>1 DEF ListOK, ListInv
  <2>4. E = {i \in 1..Len(L) : i > p /\ IsEvent(L[i])}
    BY DEF ClusterEventsForPod
  <2> HIDE DEF L, p, s, E
  <2>5. /\ f \in [1..Len(s) -> 1..Len(L)]
        /\ \A k \in 1..Len(s) : f[k] \in E /\ L[f[k]] = s[k]
        /\ \A j, k \in 1..Len(s) : j < k => f[j] < f[k]
        /\ \A i \in E : \E k \in 1..Len(s) : f[k] = i
    BY <2>3, <2>4 DEF Follows
  <2>6. E = {f[k] : k \in 1..Len(s)}
    BY <2>5
  <2>7. ASSUME NEW r \in 0..Len(s)
        PROVE  Cardinality({f[k] : k \in 1..r}) = r
    BY <2>1, <2>2, <2>5, RankFacts
  <2>8. Cardinality(E) = Len(s)
    BY <2>2, <2>6, <2>7
  <2>9. ASSUME NEW i \in E
        PROVE  L[i] = s[Cardinality({j \in E : j <= i})]
    <3>1. PICK k \in 1..Len(s) : f[k] = i
      BY <2>5
    <3>2. ASSUME NEW j \in 1..Len(s)
          PROVE  f[j] <= i <=> j \in 1..k
      <4>1. j < k \/ j = k \/ k < j
        BY <2>2
      <4>2. f[j] \in Int /\ f[k] \in Int
        BY <2>1, <2>5
      <4>3. j < k => f[j] < f[k]
        BY <2>5
      <4>4. k < j => f[k] < f[j]
        BY <2>5
      <4> QED BY <4>1, <4>2, <4>3, <4>4, <3>1, <2>2
    <3>3. {j \in E : j <= i} = {f[j] : j \in 1..k}
      <4>1. ASSUME NEW x \in E, x <= i PROVE x \in {f[j] : j \in 1..k}
        <5>1. PICK j \in 1..Len(s) : f[j] = x
          BY <2>5
        <5> QED BY <5>1, <4>1, <3>2
      <4>2. ASSUME NEW j \in 1..k PROVE f[j] \in E /\ f[j] <= i
        <5>1. j \in 1..Len(s)
          BY <2>2
        <5> QED BY <5>1, <2>5, <3>2
      <4> QED BY <4>1, <4>2
    <3>4. Cardinality({j \in E : j <= i}) = k
      BY <3>3, <2>2, <2>7
    <3> QED BY <3>1, <3>4, <2>5
  <2> QED BY <2>8, <2>9 DEF E, L, s
<1> QED BY <1>1, <1>2 DEF EventsKept

-----------------------------------------------------------------------------
(* The methods of the queue. *)

DueOK == due \in [Uids -> SUBSET AllPlugins]
NotifyOK == notified \in {"off", "armed", "fired"}
QOK == QueueOK /\ ListOK /\ DueOK /\ NotifyOK

(* What a method does to the worker's waiter: it may fire it, and leaves it  *)
(* armed only if it has made no pod poppable.                                *)
Alert ==
    /\ notified' = notified \/ (notified = "armed" /\ notified' = "fired")
    /\ notified' = "armed" => Poppable(queue') \subseteq Poppable(queue)

LEMMA SlotStep ==
    ASSUME QueueOK, NEW n \in Names, NEW s, GoodSlot(s, n),
           queue' = [queue EXCEPT ![n] = s]
    PROVE  QueueOK' /\ queue'[n] = s /\ \A m \in Names \ {n} : queue'[m] = queue[m]
BY DEF QueueOK, GoodSlot

LEMMA NotifyFacts ==
    ASSUME NotifyOK, NEW S, Notify(S),
           \A n \in Names \ S : queue'[n] = queue[n]
    PROVE  Alert /\ NotifyOK'
<1>1. notified' = notified \/ (notified = "armed" /\ notified' = "fired")
  BY DEF Notify
<1>2. ASSUME notified' = "armed", NEW n \in Poppable(queue')
      PROVE  n \in Poppable(queue)
  <2>1. notified = "armed" /\ ~(\E m \in S : queue'[m].active # NoInfo \/ InBackoff(queue'[m]))
    BY <1>2 DEF Notify
  <2>2. n \in Names /\ (queue'[n].active # NoInfo \/ queue'[n].backoff # NoInfo)
    BY <1>2 DEF Poppable
  <2>3. n \notin S
    BY <2>1, <2>2 DEF InBackoff
  <2>4. queue'[n] = queue[n]
    BY <2>2, <2>3
  <2> QED BY <2>2, <2>4 DEF Poppable
<1> QED BY <1>1, <1>2 DEF Alert, NotifyOK

LEMMA NoNotify ==
    ASSUME NotifyOK, UNCHANGED notified, Poppable(queue') \subseteq Poppable(queue)
    PROVE  Alert /\ NotifyOK'
BY DEF Alert, NotifyOK

LEMMA KeptFacts ==
    ASSUME NEW said \in [Uids -> SUBSET AllPlugins], Kept(said)
    PROVE  DueOK'
BY DEF Kept, DueOK

LEMMA SpeaksFacts ==
    ASSUME DueOK, NEW e \in Events, NEW skip, NEW freed
    PROVE  Speaks(e, skip, freed) \in [Uids -> SUBSET AllPlugins]
<1>1. e.helps \subseteq AllPlugins
  BY DEF Events
<1>2. PreemptPlugin \in AllPlugins
  BY DEF AllPlugins
<1>3. \A u \in Uids : due[u] \subseteq AllPlugins
  BY DEF DueOK
<1>4. ASSUME NEW u \in Uids
      PROVE  due[u] \cup e.helps \cup
                (IF u \in freed /\ Plugins \subseteq e.helps THEN {PreemptPlugin} ELSE {})
             \in SUBSET AllPlugins
  BY <1>1, <1>2, <1>3
<1> QED BY <1>3, <1>4 DEF Speaks

LEMMA EventFacts ==
    /\ \A kind \in Kinds, helps \in SUBSET Plugins, only \in Uids \cup {NoUid} :
          Event(kind, helps, only) \in Events
    /\ UnschedulableTimeout \in Events
    /\ \A u \in Uids : ForceActivate(u) \in Events
    /\ \A old, new \in Pods : ChangeOf(old, new) \in Events
<1>1. ASSUME NEW kind \in Kinds, NEW helps \in SUBSET AllPlugins, NEW only \in Uids \cup {NoUid}
      PROVE  Event(kind, helps, only) \in Events
  BY DEF Event, Events
<1>2. Plugins \in SUBSET AllPlugins /\ GatesPlugin \in AllPlugins
  BY DEF AllPlugins
<1>3. /\ "WildCard" \in Kinds /\ "GatesEliminated" \in Kinds /\ "PodUpdate" \in Kinds
  BY DEF Kinds
<1>4. ASSUME NEW pod \in Pods PROVE Uid(pod) \in Uids
  BY DEF Uid, Uids, Pods
<1>5. \A old, new \in Pods : ChangeOf(old, new) \in Events
  <2> SUFFICES ASSUME NEW old \in Pods, NEW new \in Pods PROVE ChangeOf(old, new) \in Events
    OBVIOUS
  <2>1. Uid(new) \in Uids
    BY <1>4
  <2>2. Event("GatesEliminated", {GatesPlugin}, Uid(new)) \in Events
    BY <2>1, <1>1, <1>2, <1>3
  <2>3. Event("PodUpdate", {}, Uid(new)) \in Events
    BY <2>1, <1>1, <1>3
  <2> QED BY <2>2, <2>3 DEF ChangeOf
<1>6. UnschedulableTimeout \in Events
  BY <1>1, <1>2, <1>3 DEF UnschedulableTimeout
<1>7. \A u \in Uids : ForceActivate(u) \in Events
  BY <1>1, <1>2, <1>3 DEF ForceActivate
<1> QED BY <1>1, <1>2, <1>5, <1>6, <1>7

LEMMA PodFacts ==
    ASSUME NEW pod \in Pods
    PROVE  /\ pod # NoPod /\ pod.name \in Names /\ Uid(pod) \in Uids
           /\ pod.inc \in 1..MaxInc /\ pod.rv \in Nat
BY NullAssumption DEF Uid, Uids, Pods

LEMMA ListSame ==
    ASSUME ListOK, UNCHANGED <<inFlightPods, inFlightEvents, since>>
    PROVE  ListOK' /\ inFlightPods' = inFlightPods
BY DEF ListOK

LEMMA AddStep ==
    ASSUME QOK, NEW pod \in Pods, Add(pod)
    PROVE  QOK' /\ Alert /\ inFlightPods' = inFlightPods
<1> DEFINE n == pod.name
           s == MoveToActiveQ(queue[n], NewInfo(pod), FALSE)
<1>1. n \in Names /\ GoodSlot(queue[n], n) /\ NewInfo(pod) \in Infos /\ NewInfo(pod).pod.name = n
  BY PodFacts, NewInfoFacts DEF QOK, QueueOK
<1>2. GoodSlot(s, n)
  BY <1>1, MoveToActiveQFacts
<1>3. queue' = [queue EXCEPT ![n] = s]
  BY DEF Add
<1> HIDE DEF s, n
<1>4. QueueOK' /\ \A m \in Names \ {n} : queue'[m] = queue[m]
  BY <1>1, <1>2, <1>3, SlotStep DEF QOK
<1>5. Alert /\ NotifyOK'
  BY <1>4, NotifyFacts DEF Add, QOK, n
<1>6. ListOK' /\ inFlightPods' = inFlightPods
  BY ListSame DEF Add, QOK
<1>7. DueOK'
  BY KeptFacts DEF Add, QOK, DueOK
<1> QED BY <1>4, <1>5, <1>6, <1>7 DEF QOK

(* A queued copy is replaced where it is. *)
LEMMA ReplaceStep ==
    ASSUME QueueOK, NEW n \in Names, NEW p \in Places, queue[n][p] # NoInfo,
           NEW new \in Pods, new.name = n,
           queue' = [queue EXCEPT ![n][p].pod = new]
    PROVE  QueueOK' /\ Poppable(queue') \subseteq Poppable(queue)
<1> DEFINE s == queue[n]
           i == [s[p] EXCEPT !.pod = new]
           t == [s EXCEPT ![p] = i]
<1>1. GoodSlot(s, n) /\ s \in Slots /\ s[p] \in Infos
  BY DEF QueueOK, GoodSlot, Slots
<1>2. i \in Infos /\ i.pod = new
  BY <1>1 DEF Infos
<1>3. queue' = [queue EXCEPT ![n] = t]
  BY DEF QueueOK, Slots
<1>4. \A q \in Places : s[q] # NoInfo => q = p
  BY <1>1 DEF GoodSlot
<1> HIDE DEF s, i
<1>5. t \in Slots /\ Only(t, p) /\ t[p] = i
  BY <1>1, <1>2, <1>4 DEF Slots, Only
<1> HIDE DEF t
<1>6. GoodSlot(t, n)
  BY <1>2, <1>5, OnlyFacts
<1>7. QueueOK' /\ queue'[n] = t /\ \A m \in Names \ {n} : queue'[m] = queue[m]
  BY <1>3, <1>6, SlotStep
<1>8. \A q \in Places : t[q] # NoInfo => s[q] # NoInfo
  BY <1>5 DEF Only, s
<1>9. Poppable(queue') \subseteq Poppable(queue)
  BY <1>7, <1>8, PlaceFacts DEF Poppable, s
<1> QED BY <1>7, <1>9

LEMMA UpdateStep ==
    ASSUME QOK, NEW old \in Pods, NEW new \in Pods, Update(old, new)
    PROVE  QOK' /\ Alert /\ inFlightPods' = inFlightPods
<1> DEFINE n == new.name
           s == queue[n]
           e == ChangeOf(old, new)
           inFlight == Uid(new) \in inFlightPods
           info == [s.unsched EXCEPT !.pod = new]
           rest == [s EXCEPT !.unsched = NoInfo]
           place == IF s.active # NoInfo THEN "active"
                    ELSE IF s.backoff # NoInfo THEN "backoff" ELSE "error"
<1>1. n \in Names /\ GoodSlot(s, n) /\ s \in Slots /\ e \in Events
  BY PodFacts, EventFacts DEF QOK, QueueOK, GoodSlot
<1>2. due \in [Uids -> SUBSET AllPlugins] /\ Speaks(e, {}, {}) \in [Uids -> SUBSET AllPlugins]
  BY <1>1, SpeaksFacts DEF QOK, DueOK
<1>3. CASE /\ inFlight
           /\ Record(e) /\ UNCHANGED <<queue, notified>>
           /\ Kept(Speaks(e, {}, {}))
  <2>1. ListOK' /\ inFlightPods' = inFlightPods
    BY <1>1, <1>3, RecordList DEF QOK
  <2>2. DueOK'
    BY <1>2, <1>3, KeptFacts
  <2>3. QueueOK' /\ Poppable(queue') \subseteq Poppable(queue)
    BY <1>3 DEF QOK, QueueOK, Poppable
  <2>4. Alert /\ NotifyOK'
    BY <1>3, <2>3, NoNotify DEF QOK
  <2> QED BY <2>1, <2>2, <2>3, <2>4 DEF QOK
<1>4. CASE /\ ~inFlight /\ (s.active # NoInfo \/ InBackoff(s))
           /\ queue' = [queue EXCEPT ![n][place].pod = new]
           /\ UNCHANGED <<inFlightPods, inFlightEvents, since, notified>>
           /\ Kept(due)
  <2>1. place \in Places /\ s[place] # NoInfo
    BY <1>4, PlaceFacts DEF InBackoff
  <2>2. QueueOK' /\ Poppable(queue') \subseteq Poppable(queue)
    BY <1>1, <1>4, <2>1, ReplaceStep DEF QOK
  <2>3. Alert /\ NotifyOK'
    BY <1>4, <2>2, NoNotify DEF QOK
  <2>4. ListOK' /\ inFlightPods' = inFlightPods
    BY <1>4, ListSame DEF QOK
  <2>5. DueOK'
    BY <1>2, <1>4, KeptFacts
  <2> QED BY <2>2, <2>3, <2>4, <2>5 DEF QOK
<1>5. CASE /\ ~inFlight /\ s.active = NoInfo /\ ~InBackoff(s) /\ s.unsched # NoInfo
           /\ \E backing \in SUBSET MayBackOff({n}) :
                 queue' = [queue EXCEPT
                     ![n] = Requeue(rest, info, WorthRequeuing(info, e), n \in backing)]
           /\ Notify({n})
           /\ UNCHANGED <<inFlightPods, inFlightEvents, since>>
           /\ Kept(Speaks(e, {}, {}))
  <2>1. PICK backing \in SUBSET MayBackOff({n}) :
          queue' = [queue EXCEPT
                     ![n] = Requeue(rest, info, WorthRequeuing(info, e), n \in backing)]
    BY <1>5
  <2>2. s.unsched \in Infos
    BY <1>1, <1>5, PlaceFacts DEF Slots
  <2>3. info \in Infos /\ info.pod.name = n
    BY <2>2 DEF Infos
  <2>4. rest \in Slots /\ Empty(rest)
    BY <1>1, <1>5, PlaceFacts, TakenOut DEF GoodSlot
  <2> DEFINE worth == WorthRequeuing(info, e)
             b == n \in backing
             t == Requeue(rest, info, worth, b)
  <2>5. worth \in BOOLEAN /\ b \in BOOLEAN
    BY DEF WorthRequeuing
  <2>6. queue' = [queue EXCEPT ![n] = t]
    BY <2>1
  <2> HIDE DEF n, s, e, info, rest, worth, b, t
  <2>7. GoodSlot(t, n)
    BY <1>1, <2>3, <2>4, <2>5, RequeueFacts DEF t
  <2>8. QueueOK' /\ \A m \in Names \ {n} : queue'[m] = queue[m]
    BY <1>1, <2>6, <2>7, SlotStep DEF QOK
  <2>9. Alert /\ NotifyOK'
    BY <1>5, <2>8, NotifyFacts DEF QOK
  <2>10. ListOK' /\ inFlightPods' = inFlightPods
    BY <1>5, ListSame DEF QOK
  <2>11. DueOK'
    BY <1>2, <1>5, KeptFacts
  <2> QED BY <2>8, <2>9, <2>10, <2>11 DEF QOK
<1>6. CASE /\ ~inFlight /\ s = Nowhere
           /\ queue' = [queue EXCEPT ![n] = MoveToActiveQ(@, NewInfo(new), FALSE)]
           /\ Notify({n})
           /\ UNCHANGED <<inFlightPods, inFlightEvents, since>>
           /\ Kept(due)
  <2>1. Add(new)
    BY <1>6 DEF Add
  <2> QED BY <2>1, AddStep
<1> QED BY <1>3, <1>4, <1>5, <1>6 DEF Update

LEMMA DeleteStep ==
    ASSUME QOK, NEW pod \in Pods, Delete(pod)
    PROVE  QOK' /\ Alert /\ inFlightPods' = inFlightPods
<1> DEFINE n == pod.name
           s == queue[n]
           t == IF s.active # NoInfo THEN [s EXCEPT !.active = NoInfo]
                ELSE IF InBackoff(s) THEN BackoffDelete(s)
                ELSE [s EXCEPT !.unsched = NoInfo]
<1>1. n \in Names /\ GoodSlot(s, n) /\ s \in Slots
  BY PodFacts DEF QOK, QueueOK, GoodSlot
<1>2. GoodSlot(t, n)
  BY <1>1, PlaceFacts, TakenOut, BackoffDeleteFacts
<1>3. t["active"] # NoInfo => s["active"] # NoInfo
  BY <1>1, PlaceFacts, BackoffDeleteFacts DEF Slots
<1>4. t["backoff"] # NoInfo => s["backoff"] # NoInfo
  BY <1>1, PlaceFacts, BackoffDeleteFacts DEF Slots
<1>5. queue' = [queue EXCEPT ![n] = t]
  BY DEF Delete
<1> HIDE DEF t
<1>6. QueueOK' /\ queue'[n] = t /\ \A m \in Names \ {n} : queue'[m] = queue[m]
  BY <1>1, <1>2, <1>5, SlotStep DEF QOK
<1>7. Poppable(queue') \subseteq Poppable(queue)
  BY <1>3, <1>4, <1>6 DEF Poppable
<1>8. Alert /\ NotifyOK'
  BY <1>7, NoNotify DEF Delete, QOK
<1>9. ListOK' /\ inFlightPods' = inFlightPods
  BY ListSame DEF Delete, QOK
<1>10. DueOK'
  BY KeptFacts DEF Delete, QOK, DueOK
<1> QED BY <1>6, <1>8, <1>9, <1>10 DEF QOK

LEMMA MovePodsStep ==
    ASSUME QOK, NEW S, NEW e \in Events, NEW skip, NEW freed, MovePods(S, e, skip, freed)
    PROVE  QOK' /\ Alert /\ inFlightPods' = inFlightPods
<1> DEFINE moved == {n \in S \cap In("unsched") : Moves(queue[n].unsched, e)}
<1>1. PICK backing \in SUBSET MayBackOff(moved) :
        queue' = [n \in Names |->
                    IF n \notin moved THEN queue[n]
                    ELSE Requeue([queue[n] EXCEPT !.unsched = NoInfo],
                                 queue[n].unsched, TRUE, n \in backing)]
  BY DEF MovePods
<1>2. Record(e) /\ Notify(moved) /\ Kept(Speaks(e, skip, freed))
  BY DEF MovePods
<1>3. \A n \in moved : n \in Names /\ queue[n]["unsched"] # NoInfo
  BY DEF In
<1> HIDE DEF moved
<1>4. ASSUME NEW n \in moved, NEW b \in BOOLEAN
      PROVE  GoodSlot(Requeue([queue[n] EXCEPT !.unsched = NoInfo],
                              queue[n].unsched, TRUE, b), n)
  <2> DEFINE s == queue[n]
             t == [s EXCEPT !.unsched = NoInfo]
  <2>1. n \in Names /\ GoodSlot(s, n) /\ s \in Slots /\ s["unsched"] # NoInfo
    BY <1>3 DEF QOK, QueueOK, GoodSlot
  <2>2. s.unsched \in Infos /\ s.unsched.pod.name = n
    BY <2>1, PlaceFacts DEF Slots, GoodSlot
  <2>3. t \in Slots /\ Empty(t)
    BY <2>1, PlaceFacts, TakenOut DEF GoodSlot
  <2> HIDE DEF s, t
  <2>4. GoodSlot(Requeue(t, s.unsched, TRUE, b), n)
    BY <2>1, <2>2, <2>3, RequeueFacts
  <2> QED BY <2>4 DEF s, t
<1>5. ASSUME NEW n \in Names
      PROVE  GoodSlot(queue'[n], n) /\ (n \notin moved => queue'[n] = queue[n])
  <2>1. CASE n \in moved
    <3> DEFINE b == n \in backing
    <3>1. b \in BOOLEAN
      OBVIOUS
    <3>2. queue'[n] = Requeue([queue[n] EXCEPT !.unsched = NoInfo], queue[n].unsched, TRUE, b)
      BY <1>1, <2>1
    <3> HIDE DEF b
    <3> QED BY <3>1, <3>2, <2>1, <1>4
  <2>2. CASE n \notin moved
    BY <1>1, <2>2 DEF QOK, QueueOK
  <2> QED BY <2>1, <2>2
<1>6. DOMAIN queue' = Names /\ queue' = [n \in Names |-> queue'[n]]
  BY <1>1
<1>7. QueueOK'
  <2>1. \A n \in Names : GoodSlot(queue'[n], n) /\ queue'[n] \in Slots
    BY <1>5 DEF GoodSlot
  <2>2. queue' \in [Names -> Slots]
    BY <2>1, <1>6
  <2> QED BY <2>1, <2>2 DEF QueueOK, GoodSlot
<1>8. Alert /\ NotifyOK'
  BY <1>2, <1>5, NotifyFacts DEF QOK
<1>9. ListOK' /\ inFlightPods' = inFlightPods
  BY <1>2, RecordList DEF QOK
<1>10. DueOK'
  BY <1>2, SpeaksFacts, KeptFacts DEF QOK
<1> QED BY <1>7, <1>8, <1>9, <1>10 DEF QOK

LEMMA MoveAllStep ==
    ASSUME QOK, NEW e \in Events, NEW skip, NEW freed, MoveAll(e, skip, freed)
    PROVE  QOK' /\ Alert /\ inFlightPods' = inFlightPods
BY MovePodsStep DEF MoveAll

LEMMA FlushLeftoverStep ==
    ASSUME QOK, NEW S, FlushUnschedulablePodsLeftover(S)
    PROVE  QOK' /\ Alert /\ inFlightPods' = inFlightPods
<1>1. UnschedulableTimeout \in Events
  BY EventFacts
<1>2. MovePods(S, UnschedulableTimeout, {u \in Uids : u[1] \notin S}, {})
  BY DEF FlushUnschedulablePodsLeftover
<1> QED BY <1>1, <1>2, MovePodsStep

LEMMA FlushBackoffStep ==
    ASSUME QOK, NEW S, FlushBackoffQCompleted(S)
    PROVE  QOK' /\ Alert /\ inFlightPods' = inFlightPods
<1> DEFINE info(n) == IF queue[n].backoff # NoInfo THEN queue[n].backoff ELSE queue[n].error
<1>1. queue' = [n \in Names |->
                  IF n \notin S THEN queue[n]
                  ELSE MoveToActiveQ(BackoffDelete(queue[n]), info(n), TRUE)]
  BY DEF FlushBackoffQCompleted
<1>2. \A n \in S : n \in Names /\ (queue[n]["backoff"] # NoInfo \/ queue[n]["error"] # NoInfo)
  BY DEF FlushBackoffQCompleted, In
<1>3. ASSUME NEW n \in S
      PROVE  GoodSlot(MoveToActiveQ(BackoffDelete(queue[n]), info(n), TRUE), n)
  <2> DEFINE s == queue[n]
             i == info(n)
  <2>1. n \in Names /\ GoodSlot(s, n) /\ s \in Slots
    BY <1>2 DEF QOK, QueueOK, GoodSlot
  <2>2. i \in Infos /\ i.pod.name = n
    BY <1>2, <2>1, PlaceFacts DEF Slots, GoodSlot
  <2> HIDE DEF s, i, info
  <2>3. GoodSlot(BackoffDelete(s), n)
    BY <2>1, BackoffDeleteFacts
  <2>4. GoodSlot(MoveToActiveQ(BackoffDelete(s), i, TRUE), n)
    BY <2>1, <2>2, <2>3, MoveToActiveQFacts
  <2> QED BY <2>4 DEF s, i
<1>4. ASSUME NEW n \in Names
      PROVE  GoodSlot(queue'[n], n) /\ (n \notin S => queue'[n] = queue[n])
  <2>1. CASE n \in S
    BY <1>1, <1>3, <2>1
  <2>2. CASE n \notin S
    BY <1>1, <2>2 DEF QOK, QueueOK
  <2> QED BY <2>1, <2>2
<1>5. DOMAIN queue' = Names /\ queue' = [n \in Names |-> queue'[n]]
  BY <1>1
<1>6. QueueOK'
  <2>1. \A n \in Names : GoodSlot(queue'[n], n) /\ queue'[n] \in Slots
    BY <1>4 DEF GoodSlot
  <2>2. queue' \in [Names -> Slots]
    BY <2>1, <1>5
  <2> QED BY <2>1, <2>2 DEF QueueOK, GoodSlot
<1>7. Alert /\ NotifyOK'
  <2>1. Notify(S)
    BY DEF FlushBackoffQCompleted
  <2> QED BY <2>1, <1>4, NotifyFacts DEF QOK
<1>8. ListOK' /\ inFlightPods' = inFlightPods
  BY ListSame DEF FlushBackoffQCompleted, QOK
<1>9. DueOK'
  BY KeptFacts DEF FlushBackoffQCompleted, QOK, DueOK
<1> QED BY <1>6, <1>7, <1>8, <1>9 DEF QOK

LEMMA DoneStep ==
    ASSUME QOK, NEW u, Done(u)
    PROVE  QOK' /\ Alert /\ inFlightPods' = inFlightPods \ {u}
<1>1. ListOK' /\ inFlightPods' = inFlightPods \ {u}
  BY DoneWithList DEF Done, QOK
<1>2. QueueOK' /\ Poppable(queue') \subseteq Poppable(queue)
  BY DEF Done, QOK, QueueOK, Poppable
<1>3. Alert /\ NotifyOK'
  BY <1>2, NoNotify DEF Done, QOK
<1>4. DueOK'
  BY KeptFacts DEF Done, QOK, DueOK
<1> QED BY <1>1, <1>2, <1>3, <1>4 DEF QOK

LEMMA AddUnschedulableStep ==
    ASSUME QOK, NEW info \in Infos, AddUnschedulableIfNotPresent(info)
    PROVE  QOK' /\ Alert /\ inFlightPods' = inFlightPods \ {Uid(info.pod)}
<1> DEFINE n == info.pod.name
           u == Uid(info.pod)
           worth == \/ info.plugins = {} \/ u \notin inFlightPods
                    \/ \E i \in ClusterEventsForPod(u) :
                          WorthRequeuing(info, inFlightEvents[i][2])
           i2 == [info EXCEPT !.tried = TRUE]
           t == Requeue(queue[n], i2, worth, TRUE)
<1>1. n \in Names /\ GoodSlot(queue[n], n) /\ i2 \in Infos /\ i2.pod = info.pod
  BY InfoFacts DEF QOK, QueueOK, Infos
<1>2. /\ queue' = IF queue[n] # Nowhere THEN queue ELSE [queue EXCEPT ![n] = t]
      /\ DoneWith(u)
      /\ Notify(IF queue[n] # Nowhere THEN {} ELSE {n})
      /\ Kept(due)
  BY DEF AddUnschedulableIfNotPresent
<1>3. ListOK' /\ inFlightPods' = inFlightPods \ {u}
  BY <1>2, DoneWithList DEF QOK
<1>4. DueOK'
  BY <1>2, KeptFacts DEF QOK, DueOK
<1>5. worth \in BOOLEAN
  OBVIOUS
<1> HIDE DEF worth, i2, t
<1>6. CASE queue[n] # Nowhere
  <2>1. queue' = queue /\ Notify({})
    BY <1>2, <1>6
  <2>2. QueueOK' /\ \A m \in Names \ {} : queue'[m] = queue[m]
    BY <2>1 DEF QOK, QueueOK
  <2>3. Alert /\ NotifyOK'
    BY <2>1, <2>2, NotifyFacts DEF QOK
  <2> QED BY <1>3, <1>4, <2>2, <2>3 DEF QOK
<1>7. CASE queue[n] = Nowhere
  <2>1. queue[n] \in Slots /\ Empty(queue[n])
    BY <1>7, NowhereFacts
  <2>2. GoodSlot(t, n)
    BY <1>1, <1>5, <2>1, RequeueFacts DEF t
  <2>3. queue' = [queue EXCEPT ![n] = t] /\ Notify({n})
    BY <1>2, <1>7
  <2>4. QueueOK' /\ \A m \in Names \ {n} : queue'[m] = queue[m]
    BY <1>1, <2>2, <2>3, SlotStep DEF QOK
  <2>5. Alert /\ NotifyOK'
    BY <2>3, <2>4, NotifyFacts DEF QOK
  <2> QED BY <1>3, <1>4, <2>4, <2>5 DEF QOK
<1> QED BY <1>6, <1>7

(* moveToActiveQ puts no pod into a backoff queue. *)
LEMMA NotToBackoff ==
    ASSUME NEW n \in Names, NEW s, GoodSlot(s, n), NEW info, NEW fromBackoff
    PROVE  MoveToActiveQ(s, info, fromBackoff)["backoff"] # NoInfo => s["backoff"] # NoInfo
<1> DEFINE i == IF fromBackoff THEN info ELSE RunPreEnqueuePlugins(info)
<1>1. MoveToActiveQ(s, info, fromBackoff) =
        IF Gated(i) THEN (IF s # Nowhere THEN s ELSE [s EXCEPT !.unsched = i])
        ELSE [BackoffDelete(s) EXCEPT !.unsched = NoInfo, !.active = Cleared(i)]
  BY DEF MoveToActiveQ
<1> HIDE DEF i
<1>2. [s EXCEPT !.unsched = i]["backoff"] = s["backoff"]
  BY PlaceFacts DEF GoodSlot, Slots
<1>3. BackoffDelete(s) \in Slots /\ BackoffDelete(s)["backoff"] = NoInfo
  BY BackoffDeleteFacts DEF GoodSlot
<1>4. [BackoffDelete(s) EXCEPT !.unsched = NoInfo, !.active = Cleared(i)]["backoff"] = NoInfo
  BY <1>3, PlaceFacts DEF Slots
<1> QED BY <1>1, <1>2, <1>4

LEMMA ActivateStep ==
    ASSUME QOK, NEW pod \in Pods, Activate(pod)
    PROVE  QOK' /\ Alert /\ inFlightPods' = inFlightPods
<1> DEFINE n == pod.name
           s == queue[n]
           slot == IF s.unsched # NoInfo THEN MoveToActiveQ(s, s.unsched, FALSE)
                   ELSE IF s.backoff # NoInfo
                   THEN MoveToActiveQ([s EXCEPT !.backoff = NoInfo], s.backoff, TRUE)
                   ELSE IF s.error # NoInfo
                   THEN MoveToActiveQ([s EXCEPT !.error = NoInfo], s.error, TRUE)
                   ELSE s
           activated == s.active = NoInfo /\ slot.active # NoInfo
           e == ForceActivate(Uid(pod))
           missed == \/ activated
                     \/ Refusals(IF s.unsched # NoInfo THEN s.unsched.pod ELSE pod) # {}
<1>1. n \in Names /\ GoodSlot(s, n) /\ s \in Slots /\ e \in Events
  BY PodFacts, EventFacts DEF QOK, QueueOK, GoodSlot
<1>2. /\ queue' = [queue EXCEPT ![n] = slot]
      /\ IF ~activated /\ Uid(pod) \in inFlightPods THEN Record(e)
         ELSE UNCHANGED <<inFlightPods, inFlightEvents, since>>
      /\ Notify(IF activated THEN {n} ELSE {})
      /\ Kept(Speaks(e, IF missed THEN {Uid(pod)} ELSE {}, {Uid(pod)} \ preempting))
  BY DEF Activate
<1> HIDE DEF missed
<1>3. ASSUME NEW p \in Places, s[p] # NoInfo
      PROVE  /\ s[p] \in Infos /\ s[p].pod.name = n
             /\ GoodSlot([s EXCEPT ![p] = NoInfo], n)
             /\ [s EXCEPT ![p] = NoInfo]["backoff"] # NoInfo => s["backoff"] # NoInfo
  BY <1>1, <1>3, TakenOut, PlaceFacts DEF GoodSlot, Slots
<1>4. GoodSlot(slot, n) /\ (slot["backoff"] # NoInfo => s["backoff"] # NoInfo)
  <2>1. CASE s["unsched"] # NoInfo
    <3>1. slot = MoveToActiveQ(s, s["unsched"], FALSE)
      BY <2>1
    <3> QED BY <3>1, <2>1, <1>1, <1>3, PlaceFacts, MoveToActiveQFacts, NotToBackoff
  <2>2. CASE s["unsched"] = NoInfo /\ s["backoff"] # NoInfo
    <3> DEFINE t == [s EXCEPT !["backoff"] = NoInfo]
    <3>1. slot = MoveToActiveQ(t, s["backoff"], TRUE)
      BY <2>2
    <3>2. GoodSlot(t, n) /\ s["backoff"] \in Infos /\ s["backoff"].pod.name = n
      BY <2>2, <1>3, PlaceFacts
    <3> HIDE DEF t
    <3> QED BY <3>1, <3>2, <2>2, <1>1, MoveToActiveQFacts
  <2>3. CASE s["unsched"] = NoInfo /\ s["backoff"] = NoInfo /\ s["error"] # NoInfo
    <3> DEFINE t == [s EXCEPT !["error"] = NoInfo]
    <3>1. slot = MoveToActiveQ(t, s["error"], TRUE)
      BY <2>3
    <3>2. GoodSlot(t, n) /\ s["error"] \in Infos /\ s["error"].pod.name = n
          /\ (t["backoff"] # NoInfo => s["backoff"] # NoInfo)
      BY <2>3, <1>3, PlaceFacts
    <3> HIDE DEF t
    <3>3. GoodSlot(MoveToActiveQ(t, s["error"], TRUE), n)
      BY <3>2, <1>1, MoveToActiveQFacts
    <3>4. MoveToActiveQ(t, s["error"], TRUE)["backoff"] # NoInfo => t["backoff"] # NoInfo
      BY <3>2, <1>1, NotToBackoff
    <3> QED BY <3>1, <3>2, <3>3, <3>4
  <2>4. CASE s["unsched"] = NoInfo /\ s["backoff"] = NoInfo /\ s["error"] = NoInfo
    BY <2>4, <1>1
  <2> QED BY <2>1, <2>2, <2>3, <2>4
<1> HIDE DEF slot
<1>5. QueueOK' /\ queue'[n] = slot /\ \A m \in Names \ {n} : queue'[m] = queue[m]
  BY <1>1, <1>2, <1>4, SlotStep DEF QOK
<1>6. Alert /\ NotifyOK'
  <2>1. CASE activated
    <3>1. Notify({n})
      BY <1>2, <2>1
    <3> QED BY <3>1, <1>5, NotifyFacts DEF QOK
  <2>2. CASE ~activated
    <3>1. UNCHANGED notified
      BY <1>2, <2>2 DEF Notify
    <3>2. slot["active"] # NoInfo => s["active"] # NoInfo
      BY <2>2
    <3>3. Poppable(queue') \subseteq Poppable(queue)
      BY <3>2, <1>4, <1>5 DEF Poppable
    <3> QED BY <3>1, <3>3, NoNotify DEF QOK
  <2> QED BY <2>1, <2>2
<1>7. ListOK' /\ inFlightPods' = inFlightPods
  BY <1>1, <1>2, RecordList, ListSame DEF QOK
<1>8. DueOK'
  BY <1>1, <1>2, SpeaksFacts, KeptFacts DEF QOK
<1> QED BY <1>5, <1>6, <1>7, <1>8 DEF QOK

(* pop hands out a pod that is not in flight, and counts it in. *)
LEMMA PopStep ==
    ASSUME QOK, NEW n \in Names, NEW place \in {"active", "backoff"}, Pop(n, place)
    PROVE  /\ QueueOK' /\ ListOK' /\ DueOK'
           /\ Popped(n, place) \in Infos
           /\ inFlightPods' = inFlightPods \cup {Uid(Popped(n, place).pod)}
<1> DEFINE i == queue[n][place]
           u == Uid(i.pod)
<1>1. place \in Places /\ i # NoInfo /\ u \notin inFlightPods
  BY PlaceFacts DEF Pop, In, Duplicates
<1>2. queue \in [Names -> Slots] /\ \A m \in Names : GoodSlot(queue[m], m)
  BY DEF QOK, QueueOK
<1>3. i \in Infos
  BY <1>1, <1>2 DEF Slots
<1>4. u \in Uids /\ Cleared(i) \in Infos /\ Cleared(i).pod = i.pod
  BY <1>3, InfoFacts, ClearedFacts
<1>5. PICK dropped \in SUBSET Duplicates(place) :
        queue' = [m \in Names |->
                    [p \in Places |->
                        IF \/ p = place /\ m \in dropped \cup {n}
                           \/ place = "backoff" /\ p = "active"
                        THEN NoInfo ELSE queue[m][p]]]
  BY DEF Pop
<1>6. /\ inFlightPods' = inFlightPods \cup {u}
      /\ inFlightEvents' = Append(inFlightEvents, PodEntry(u))
      /\ since' = [since EXCEPT ![u] = <<>>]
      /\ Kept([due EXCEPT ![u] = {}])
  BY DEF Pop
<1> HIDE DEF i, u
<1>7. QueueOK'
  <2>1. ASSUME NEW m \in Names, NEW p \in Places
        PROVE  queue'[m][p] \in {NoInfo, queue[m][p]}
    BY <1>5
  <2>2. ASSUME NEW m \in Names
        PROVE  queue'[m] \in Slots
    <3>1. \A p \in Places : queue[m][p] \in Infos \cup {NoInfo}
      BY <1>2 DEF Slots
    <3>2. queue'[m] = [p \in Places |-> queue'[m][p]]
      BY <1>5
    <3> QED BY <3>1, <3>2, <2>1 DEF Slots
  <2>3. ASSUME NEW m \in Names
        PROVE  GoodSlot(queue'[m], m)
    BY <2>1, <2>2, <1>2 DEF GoodSlot
  <2>4. queue' \in [Names -> Slots]
    <3>1. queue' = [m \in Names |-> queue'[m]]
      BY <1>5
    <3> QED BY <3>1, <2>2
  <2> QED BY <2>3, <2>4 DEF QueueOK, GoodSlot
<1>8. ListOK'
  <2>1. ListInv(inFlightPods \cup {u}, Append(inFlightEvents, PodEntry(u)),
                [since EXCEPT ![u] = <<>>])
    BY <1>1, <1>4, ListPop DEF QOK, ListOK
  <2> QED BY <2>1, <1>6 DEF ListOK
<1>9. DueOK'
  <2>1. [due EXCEPT ![u] = {}] \in [Uids -> SUBSET AllPlugins]
    BY DEF QOK, DueOK
  <2> QED BY <2>1, <1>6, KeptFacts
<1>10. Popped(n, place) = Cleared(i)
  BY DEF Popped, i
<1> QED BY <1>4, <1>6, <1>7, <1>8, <1>9, <1>10 DEF u

-----------------------------------------------------------------------------
(* The invariant of the whole scheduler. *)

PreemptOK ==
    /\ preempting \subseteq Uids
    /\ pendingVictim \in [Uids -> [name : Names \cup {"none"}, gone : BOOLEAN]]

(* A stored pod is under its own name and was counted. *)
StoreOK ==
    /\ store \in [Names -> Pods \cup {NoPod}] /\ incs \in [Names -> 0..MaxInc]
    /\ \A n \in Names : store[n] # NoPod => store[n].name = n /\ store[n].inc <= incs[n]

Watched == [del : BOOLEAN, pod : Pods]
InformerOK ==
    /\ stream \in Seq(Watched) /\ listing \subseteq Watched
    /\ watch \in {"list", "listed", "watching"}
    /\ seen \in [Names -> Pods \cup {NoPod}] /\ calls \in Seq(Calls)

EnvOK == PreemptOK /\ StoreOK /\ InformerOK /\ spent \in 0..MaxEvents

(* Only pods that exist, or existed, are assumed. *)
CacheOK ==
    /\ cache \in [Uids -> {"absent", "assumed", "added"}]
    /\ \A u \in Uids : cache[u] = "assumed" => u[2] <= incs[u[1]]

(* The worker has a pod in hand exactly outside pop, has read it where it    *)
(* uses the copy, and is registered for notifications while it looks and     *)
(* sleeps.                                                                   *)
InPop == {"enable", "check", "wait"}
HasRead == {"decide", "forget", "nominate", "clear"}
WorkerOK ==
    /\ worker \in [pc : Pcs, info : Infos \cup {NoInfo}, pod : Pods \cup {NoPod}]
    /\ worker.pc \in InPop <=> worker.info = NoInfo
    /\ worker.pc \in HasRead => worker.pod # NoPod
    /\ worker.pod # NoPod => worker.pod.inc <= incs[worker.pod.name]
    /\ worker.pc \in {"check", "wait"} => notified # "off"

BindingTasks == [pc : BindingPcs, info : Infos, pod : Pods, rejected : BOOLEAN,
                 forgotten : BOOLEAN]
PreemptionTasks == [pc : {"register", "evict", "finish", "activate", "drop"}, pod : Pods,
                    victim : Names, failed : BOOLEAN]
TasksOK == bindings \subseteq BindingTasks /\ preemptions \subseteq PreemptionTasks

IInv == /\ QOK /\ EnvOK /\ CacheOK /\ WorkerOK /\ TasksOK
        /\ WakeupNotLost /\ InFlightHeld /\ AssumedIsBeingBound

LEMMA TypesHold == ASSUME IInv PROVE TypeOK
<1>1. QTypeOK
  BY DEF IInv, QOK, QueueOK, GoodSlot, Slots, ListOK, ListInv, DueOK, NotifyOK, EnvOK,
         PreemptOK, QTypeOK
<1> QED BY <1>1 DEF IInv, EnvOK, StoreOK, InformerOK, Watched, CacheOK, WorkerOK, TasksOK,
               BindingTasks, PreemptionTasks, TypeOK

(* Steps that leave a part alone. *)
LEMMA QueueSame ==
    ASSUME QOK, UNCHANGED <<queueVars, notified>>
    PROVE  QOK' /\ Alert /\ inFlightPods' = inFlightPods
BY DEF queueVars, QOK, QueueOK, ListOK, DueOK, NotifyOK, Alert

LEMMA EnvSame ==
    ASSUME EnvOK, UNCHANGED <<preemptVars, storeVars, informerVars, spent>>
    PROVE  EnvOK'
BY DEF preemptVars, storeVars, informerVars, EnvOK, PreemptOK, StoreOK, InformerOK

LEMMA CacheSame ==
    ASSUME CacheOK, UNCHANGED <<cache, incs>>
    PROVE  CacheOK'
BY DEF CacheOK

(* The worker stays where it is while others work. *)
LEMMA WorkerSame ==
    ASSUME WorkerOK, WakeupNotLost, Alert, QOK, UNCHANGED <<worker, incs>>
    PROVE  WorkerOK' /\ WakeupNotLost'
<1>1. worker.pc \in {"check", "wait"} => notified' # "off"
  BY DEF WorkerOK, Alert
<1>2. WorkerOK'
  BY <1>1 DEF WorkerOK
<1>3. ASSUME worker.pc = "wait", notified' # "fired" PROVE Poppable(queue') = {}
  <2>1. notified' = "armed" /\ notified = "armed"
    BY <1>1, <1>3 DEF Alert, QOK, NotifyOK
  <2>2. Poppable(queue) = {}
    BY <1>3, <2>1 DEF WakeupNotLost
  <2> QED BY <2>1, <2>2 DEF Alert
<1> QED BY <1>2, <1>3 DEF WakeupNotLost, Poppable

(* The worker works: it is outside the part of pop that sleeps. *)
LEMMA AwakeFacts ==
    ASSUME worker'.pc # "wait"
    PROVE  WakeupNotLost'
BY DEF WakeupNotLost

LEMMA HeldSame ==
    ASSUME InFlightHeld, inFlightPods' \subseteq inFlightPods, UNCHANGED <<worker, bindings>>
    PROVE  InFlightHeld'
BY DEF InFlightHeld

LEMMA TasksSame ==
    ASSUME TasksOK, UNCHANGED <<bindings, preemptions>>
    PROVE  TasksOK'
BY DEF TasksOK

(* No pod is newly assumed and no task gives one up. *)
LEMMA AssumedSame ==
    ASSUME AssumedIsBeingBound, UNCHANGED <<worker, bindings>>,
           \A n \in Names : Pending(store'[n]) /\ cache'[Uid(store'[n])] = "assumed" =>
               /\ Pending(store[n]) /\ Uid(store'[n]) = Uid(store[n])
               /\ cache[Uid(store[n])] = "assumed"
    PROVE  AssumedIsBeingBound'
<1> SUFFICES ASSUME NEW n \in Names, Pending(store'[n]), cache'[Uid(store'[n])] = "assumed"
             PROVE  \/ worker.pc = "forget" /\ Uid(worker.pod) = Uid(store'[n])
                    \/ \E b \in bindings :
                          /\ Uid(b.pod) = Uid(store'[n])
                          /\ b.pc \in {"start", "bind", "rebind", "abort"}
  BY DEF AssumedIsBeingBound, Pending, Uid
<1>1. Pending(store[n]) /\ Uid(store'[n]) = Uid(store[n]) /\ cache[Uid(store[n])] = "assumed"
  OBVIOUS
<1> QED BY <1>1 DEF AssumedIsBeingBound

-----------------------------------------------------------------------------
(* The event handlers of the informer. *)

Caches == [Uids -> {"absent", "assumed", "added"}]
FewerAssumed(c) == \A u \in Uids : c[u] = "assumed" => cache[u] = "assumed"
GoodHandler(h) ==
    /\ h.seen \in [Names -> Pods \cup {NoPod}]
    /\ h.cache \in Caches /\ FewerAssumed(h.cache)
    /\ h.victims \in [Uids -> [name : Names \cup {"none"}, gone : BOOLEAN]]
    /\ h.calls \in Seq(Calls)

LEMMA CallFacts ==
    ASSUME NEW pod \in Pods, NEW old \in Pods, NEW kind \in Kinds, NEW checked \in BOOLEAN
    PROVE  /\ AddCall(pod) \in Calls /\ UpdateCall(old, pod) \in Calls
           /\ DeleteCall(pod) \in Calls /\ MoveCall(kind, pod, checked) \in Calls
           /\ PreemptOK => Freeing(MoveCall(kind, pod, checked), pod) \in Calls
<1>1. AddCall(pod) \in Calls
  BY DEF AddCall, Calls
<1>2. UpdateCall(old, pod) \in Calls
  BY DEF UpdateCall, Calls
<1>3. DeleteCall(pod) \in Calls
  BY DEF DeleteCall, Calls
<1>4. MoveCall(kind, pod, checked) \in Calls
  BY DEF MoveCall, Calls
<1>5. ASSUME PreemptOK PROVE Freeing(MoveCall(kind, pod, checked), pod) \in Calls
  <2> DEFINE F == {u \in preempting : pendingVictim[u].name = pod.name}
  <2>1. F \in SUBSET Uids
    BY <1>5 DEF PreemptOK
  <2> DEFINE M == [op : {"move"}, kind : Kinds, pod : Pods, checked : BOOLEAN,
                   freed : SUBSET Uids]
             c == MoveCall(kind, pod, checked)
  <2>2. Freeing(c, pod) = [c EXCEPT !.freed = F]
    BY DEF Freeing
  <2>3. c \in M
    BY DEF MoveCall
  <2> HIDE DEF F, c
  <2>4. [c EXCEPT !.freed = F] \in M
    BY <2>1, <2>3
  <2> QED BY <2>2, <2>4 DEF Calls, c
<1> QED BY <1>1, <1>2, <1>3, <1>4, <1>5

LEMMA CallSeqs ==
    ASSUME NEW T, NEW x \in T, NEW y \in T
    PROVE  /\ <<>> \in Seq(T) /\ <<x>> \in Seq(T) /\ <<x, y>> \in Seq(T)
           /\ <<x>> \o <<>> \in Seq(T) /\ <<x>> \o <<y>> \in Seq(T)
<1>1. <<>> \in Seq(T) /\ <<x>> \in Seq(T) /\ <<x, y>> \in Seq(T) /\ <<y>> \in Seq(T)
  OBVIOUS
<1>2. \A s, t \in Seq(T) : s \o t \in Seq(T)
  OBVIOUS
<1> QED BY <1>1, <1>2

LEMMA CacheFacts ==
    ASSUME cache \in Caches, NEW pod \in Pods, NEW old \in Pods
    PROVE  /\ cache \in Caches /\ FewerAssumed(cache)
           /\ CacheAdd(cache, pod) \in Caches /\ FewerAssumed(CacheAdd(cache, pod))
           /\ CacheRemove(cache, pod) \in Caches /\ FewerAssumed(CacheRemove(cache, pod))
           /\ CacheUpdate(cache, old, pod) \in Caches
           /\ FewerAssumed(CacheUpdate(cache, old, pod))
<1>1. Uid(pod) \in Uids /\ Uid(old) \in Uids
  BY PodFacts
<1>2. CacheAdd(cache, pod) \in Caches /\ FewerAssumed(CacheAdd(cache, pod))
  BY <1>1 DEF CacheAdd, Caches, FewerAssumed
<1>3. CacheRemove(cache, pod) \in Caches /\ FewerAssumed(CacheRemove(cache, pod))
  BY <1>1 DEF CacheRemove, Caches, FewerAssumed
<1>4. CacheUpdate(cache, old, pod) \in Caches /\ FewerAssumed(CacheUpdate(cache, old, pod))
  BY <1>1 DEF CacheAdd, CacheUpdate, Caches, FewerAssumed
<1> QED BY <1>2, <1>3, <1>4 DEF FewerAssumed

LEMMA ObserveFacts ==
    ASSUME PreemptOK, NEW pod
    PROVE  Observe(pod) \in [Uids -> [name : Names \cup {"none"}, gone : BOOLEAN]]
<1> DEFINE V == [name : Names \cup {"none"}, gone : BOOLEAN]
<1>1. ASSUME NEW u \in Uids
      PROVE  pendingVictim[u] \in V /\ [pendingVictim[u] EXCEPT !.gone = TRUE] \in V
  BY DEF PreemptOK
<1> HIDE DEF V
<1>2. Observe(pod) \in [Uids -> V]
  BY <1>1 DEF Observe
<1> QED BY <1>2 DEF V

LEMMA HandlerParts ==
    ASSUME NEW s \in [Names -> Pods \cup {NoPod}], NEW c \in Caches, FewerAssumed(c),
           NEW v \in [Uids -> [name : Names \cup {"none"}, gone : BOOLEAN]],
           NEW q \in Seq(Calls)
    PROVE  GoodHandler(H(s, c, v, q))
BY DEF H, GoodHandler

LEMMA DeletedFacts ==
    ASSUME EnvOK, CacheOK, NEW pod \in Pods
    PROVE  GoodHandler(OnPodDeleted(pod))
<1> DEFINE n == pod.name
           gone == [seen EXCEPT ![n] = NoPod]
           move == MoveCall("AssignedPodDelete", pod, FALSE)
           first == IF seen[n] = NoPod THEN <<>> ELSE <<Freeing(move, pod)>>
           nominated == IF pod.nom
                        THEN <<MoveCall("AssignedPodDelete", pod, TRUE)>> ELSE <<>>
           second == <<DeleteCall(pod)>> \o nominated
<1>1. gone \in [Names -> Pods \cup {NoPod}]
  BY DEF EnvOK, InformerOK
<1>2. "AssignedPodDelete" \in Kinds
  BY DEF Kinds
<1>3. first \in Seq(Calls)
  BY <1>2, CallFacts, CallSeqs DEF EnvOK
<1>4. second \in Seq(Calls)
  BY <1>2, CallFacts, CallSeqs
<1>5. cache \in Caches
  BY DEF CacheOK, Caches
<1>6. OnPodDeleted(pod) =
        IF seen[n] = NoPod \/ pod.bound
        THEN H(gone, CacheRemove(cache, pod), Observe(pod), first)
        ELSE H(gone, cache, Observe(pod), second)
  BY DEF OnPodDeleted
<1> HIDE DEF gone, first, second
<1>7. GoodHandler(H(gone, CacheRemove(cache, pod), Observe(pod), first))
  BY <1>1, <1>3, <1>5, CacheFacts, ObserveFacts, HandlerParts DEF EnvOK
<1>8. GoodHandler(H(gone, cache, Observe(pod), second))
  BY <1>1, <1>4, <1>5, CacheFacts, ObserveFacts, HandlerParts DEF EnvOK
<1> QED BY <1>6, <1>7, <1>8

LEMMA UpdatedFacts ==
    ASSUME EnvOK, CacheOK, NEW pod \in Pods, NEW old \in Pods
    PROVE  GoodHandler(UpdatePod(old, pod))
<1> DEFINE s == [seen EXCEPT ![pod.name] = pod]
           moved == IF old.nom # pod.nom
                    THEN <<MoveCall("AssignedPodDelete", old, TRUE)>> ELSE <<>>
           q1 == <<MoveCall("AssignedPodUpdate", pod, FALSE)>>
           q2 == <<MoveCall("AssignedPodAdd", pod, FALSE), DeleteCall(old)>>
           q3 == <<UpdateCall(old, pod)>> \o moved
<1>1. s \in [Names -> Pods \cup {NoPod}]
  BY DEF EnvOK, InformerOK
<1>2. /\ "AssignedPodDelete" \in Kinds /\ "AssignedPodUpdate" \in Kinds
      /\ "AssignedPodAdd" \in Kinds
  BY DEF Kinds
<1>3. q1 \in Seq(Calls) /\ q2 \in Seq(Calls) /\ q3 \in Seq(Calls) /\ <<>> \in Seq(Calls)
  BY <1>2, CallFacts, CallSeqs
<1>4. cache \in Caches
  BY DEF CacheOK, Caches
<1>5. pendingVictim \in [Uids -> [name : Names \cup {"none"}, gone : BOOLEAN]]
  BY DEF EnvOK, PreemptOK
<1>6. UpdatePod(old, pod) =
        IF old.bound THEN H(s, CacheUpdate(cache, old, pod), pendingVictim, q1)
        ELSE IF pod.bound THEN H(s, CacheAdd(cache, pod), pendingVictim, q2)
        ELSE IF cache[Uid(pod)] = "assumed" THEN H(s, cache, pendingVictim, <<>>)
        ELSE H(s, cache, pendingVictim, q3)
  BY DEF UpdatePod
<1> HIDE DEF s, q1, q2, q3
<1>7. ASSUME NEW q \in Seq(Calls)
      PROVE  /\ GoodHandler(H(s, CacheUpdate(cache, old, pod), pendingVictim, q))
             /\ GoodHandler(H(s, CacheAdd(cache, pod), pendingVictim, q))
             /\ GoodHandler(H(s, cache, pendingVictim, q))
  BY <1>1, <1>4, <1>5, CacheFacts, HandlerParts
<1> QED BY <1>3, <1>6, <1>7

LEMMA EventHandlerFacts ==
    ASSUME EnvOK, CacheOK, NEW pod \in Pods
    PROVE  GoodHandler(OnPodEvent(pod))
<1> DEFINE s == [seen EXCEPT ![pod.name] = pod]
           q1 == <<MoveCall("AssignedPodAdd", pod, FALSE)>>
           q2 == <<AddCall(pod)>>
<1>1. s \in [Names -> Pods \cup {NoPod}]
  BY DEF EnvOK, InformerOK
<1>2. "AssignedPodAdd" \in Kinds
  BY DEF Kinds
<1>3. q1 \in Seq(Calls) /\ q2 \in Seq(Calls) /\ <<>> \in Seq(Calls)
  BY <1>2, CallFacts, CallSeqs
<1>4. cache \in Caches
  BY DEF CacheOK, Caches
<1>5. pendingVictim \in [Uids -> [name : Names \cup {"none"}, gone : BOOLEAN]]
  BY DEF EnvOK, PreemptOK
<1>6. seen[pod.name] \in Pods \cup {NoPod}
  BY PodFacts DEF EnvOK, InformerOK
<1>7. seen[pod.name] # NoPod => GoodHandler(UpdatePod(seen[pod.name], pod))
  BY <1>6, UpdatedFacts
<1>8. GoodHandler(OnPodDeleted(pod))
  BY DeletedFacts
<1>9. OnPodEvent(pod) =
        IF pod.fin THEN OnPodDeleted(pod)
        ELSE IF seen[pod.name] = NoPod
        THEN (IF pod.bound THEN H(s, CacheAdd(cache, pod), pendingVictim, q1)
              ELSE H(s, cache, pendingVictim, q2))
        ELSE IF seen[pod.name] = pod THEN H(s, cache, pendingVictim, <<>>)
        ELSE UpdatePod(seen[pod.name], pod)
  BY DEF OnPodEvent
<1> HIDE DEF s, q1, q2
<1>10. ASSUME NEW q \in Seq(Calls)
       PROVE  /\ GoodHandler(H(s, CacheAdd(cache, pod), pendingVictim, q))
              /\ GoodHandler(H(s, cache, pendingVictim, q))
  BY <1>1, <1>4, <1>5, CacheFacts, HandlerParts
<1> QED BY <1>3, <1>7, <1>8, <1>9, <1>10

-----------------------------------------------------------------------------
(* The informer loop and the timers. *)

(* A step of the informer, or of a timer, touches no task. *)
LEMMA InformerStep ==
    ASSUME IInv, QOK', Alert, inFlightPods' = inFlightPods, EnvOK',
           cache' \in Caches, FewerAssumed(cache'),
           UNCHANGED <<store, incs, worker, bindings, preemptions>>
    PROVE  IInv'
<1>1. CacheOK'
  BY DEF IInv, CacheOK, Caches, FewerAssumed
<1>2. WorkerOK' /\ WakeupNotLost'
  BY WorkerSame DEF IInv
<1>3. TasksOK' /\ InFlightHeld'
  BY TasksSame, HeldSame DEF IInv
<1>4. AssumedIsBeingBound'
  <2>1. ASSUME NEW n \in Names, Pending(store[n])
        PROVE  cache'[Uid(store[n])] = "assumed" => cache[Uid(store[n])] = "assumed"
    <3>1. store[n] \in Pods
      BY <2>1 DEF IInv, EnvOK, StoreOK, Pending
    <3> QED BY <3>1, PodFacts DEF FewerAssumed
  <2> QED BY <2>1, AssumedSame DEF IInv
<1> QED BY <1>1, <1>2, <1>3, <1>4 DEF IInv

LEMMA SameCache == ASSUME IInv, UNCHANGED cache PROVE cache' \in Caches /\ FewerAssumed(cache')
BY DEF IInv, CacheOK, Caches, FewerAssumed

LEMMA HandleStep ==
    ASSUME IInv, NEW h, GoodHandler(h), Handle(h), stream' \in Seq(Watched),
           listing' \subseteq Watched
    PROVE  IInv'
<1>1. QOK' /\ Alert /\ inFlightPods' = inFlightPods
  BY QueueSame DEF IInv, Handle
<1>2. EnvOK'
  BY DEF IInv, EnvOK, PreemptOK, StoreOK, InformerOK, GoodHandler, Handle
<1>3. cache' \in Caches /\ FewerAssumed(cache')
  BY DEF Handle, GoodHandler, FewerAssumed
<1> QED BY <1>1, <1>2, <1>3, InformerStep DEF Handle

LEMMA WatchedFacts ==
    ASSUME IInv, NEW x \in Watched
    PROVE  GoodHandler(IF x.del THEN OnPodDeleted(x.pod) ELSE OnPodEvent(x.pod))
<1>1. x.pod \in Pods
  BY DEF Watched
<1> QED BY <1>1, DeletedFacts, EventHandlerFacts DEF IInv

LEMMA HeadTail ==
    ASSUME NEW T, NEW s \in Seq(T), s # <<>>
    PROVE  Head(s) \in T /\ Tail(s) \in Seq(T)
OBVIOUS

LEMMA DeliverInv == ASSUME IInv, Deliver PROVE IInv'
<1> DEFINE x == Head(stream)
           h == IF x.del THEN OnPodDeleted(x.pod) ELSE OnPodEvent(x.pod)
<1>1. Handle(h) /\ stream' = Tail(stream) /\ listing' = listing
  BY DEF Deliver
<1>2. x \in Watched /\ stream' \in Seq(Watched) /\ listing' \subseteq Watched
  BY <1>1, HeadTail DEF Deliver, IInv, EnvOK, InformerOK
<1> HIDE DEF x
<1>3. GoodHandler(h)
  BY <1>2, WatchedFacts
<1> HIDE DEF h
<1> QED BY <1>1, <1>2, <1>3, HandleStep

LEMMA HandleListedInv == ASSUME IInv, HandleListed PROVE IInv'
<1>1. PICK x \in listing :
        /\ Handle(IF x.del THEN OnPodDeleted(x.pod) ELSE OnPodEvent(x.pod))
        /\ listing' = listing \ {x}
  BY DEF HandleListed
<1> DEFINE h == IF x.del THEN OnPodDeleted(x.pod) ELSE OnPodEvent(x.pod)
<1>2. x \in Watched /\ stream' \in Seq(Watched) /\ listing' \subseteq Watched
  BY <1>1 DEF HandleListed, IInv, EnvOK, InformerOK
<1>3. Handle(h)
  BY <1>1
<1>4. GoodHandler(h)
  BY <1>2, WatchedFacts
<1> HIDE DEF h
<1> QED BY <1>2, <1>3, <1>4, HandleStep

(* Paying keeps to the budget. *)
LEMMA PayFacts ==
    ASSUME spent \in 0..MaxEvents, NEW cost \in Nat, Pay(cost)
    PROVE  spent' \in 0..MaxEvents
BY SchedulerAssumption DEF Pay

LEMMA SpendFacts ==
    ASSUME EnvOK, Spend
    PROVE  spent' \in 0..MaxEvents
BY PayFacts DEF Spend, EnvOK

LEMMA ResyncInv == ASSUME IInv, Resync PROVE IInv'
<1>1. QOK' /\ Alert /\ inFlightPods' = inFlightPods
  BY QueueSame DEF IInv, Resync
<1>2. listing' \subseteq Watched
  <2>1. \A n \in Names : store[n] # NoPod => store[n] \in Pods
    BY DEF IInv, EnvOK, StoreOK
  <2>2. \A n \in Names : seen[n] # NoPod => seen[n] \in Pods
    BY DEF IInv, EnvOK, InformerOK
  <2>3. \A del \in BOOLEAN, pod \in Pods : [del |-> del, pod |-> pod] \in Watched
    BY DEF Watched
  <2> QED BY <2>1, <2>2, <2>3 DEF Resync
<1>3. spent' \in 0..MaxEvents
  BY SpendFacts DEF Resync, IInv, EnvOK
<1>4. watch' \in {"list", "listed", "watching"}
  BY DEF Resync
<1>5. EnvOK'
  BY <1>2, <1>3, <1>4 DEF Resync, storeVars, preemptVars, IInv, EnvOK, PreemptOK, StoreOK, InformerOK
<1>6. cache' \in Caches /\ FewerAssumed(cache')
  BY SameCache DEF Resync
<1> QED BY <1>1, <1>5, <1>6, InformerStep DEF Resync, storeVars

LEMMA ListFailsInv == ASSUME IInv, ListFails PROVE IInv'
<1>1. QOK' /\ Alert /\ inFlightPods' = inFlightPods
  BY QueueSame DEF IInv, ListFails
<1>2. spent' \in 0..MaxEvents
  BY SpendFacts DEF ListFails, IInv
<1>3. EnvOK'
  BY <1>2 DEF ListFails, storeVars, preemptVars, IInv, EnvOK, PreemptOK, StoreOK, InformerOK
<1>4. cache' \in Caches /\ FewerAssumed(cache')
  BY SameCache DEF ListFails
<1> QED BY <1>1, <1>3, <1>4, InformerStep DEF ListFails, storeVars

LEMMA OpenWatchInv == ASSUME IInv, OpenWatch PROVE IInv'
<1>1. QOK' /\ Alert /\ inFlightPods' = inFlightPods
  BY QueueSame DEF IInv, OpenWatch
<1>2. EnvOK'
  BY DEF OpenWatch, storeVars, preemptVars, IInv, EnvOK, PreemptOK, StoreOK, InformerOK
<1>3. cache' \in Caches /\ FewerAssumed(cache')
  BY SameCache DEF OpenWatch
<1> QED BY <1>1, <1>2, <1>3, InformerStep DEF OpenWatch, storeVars

LEMMA WatchBreaksInv == ASSUME IInv, WatchBreaks PROVE IInv'
<1>1. QOK' /\ Alert /\ inFlightPods' = inFlightPods
  BY QueueSame DEF IInv, WatchBreaks
<1>2. spent' \in 0..MaxEvents
  BY SpendFacts DEF WatchBreaks, IInv
<1>3. EnvOK'
  <2>1. stream' \in Seq(Watched)
    BY DEF WatchBreaks
  <2> QED BY <1>2, <2>1 DEF WatchBreaks, preemptVars, IInv, EnvOK, PreemptOK, StoreOK, InformerOK
<1>4. cache' \in Caches /\ FewerAssumed(cache')
  BY SameCache DEF WatchBreaks
<1> QED BY <1>1, <1>3, <1>4, InformerStep DEF WatchBreaks

LEMMA QueueCallInv == ASSUME IInv, QueueCall PROVE IInv'
<1> DEFINE c == Head(calls)
<1>1. c \in Calls /\ calls' \in Seq(Calls)
  BY HeadTail DEF QueueCall, IInv, EnvOK, InformerOK
<1>2. QOK' /\ Alert /\ inFlightPods' = inFlightPods
  <2>1. CASE c.op = "add" /\ Add(c.pod)
    <3>1. c.pod \in Pods
      BY <1>1, <2>1 DEF Calls
    <3> QED BY <3>1, <2>1, AddStep DEF IInv
  <2>2. CASE c.op = "update" /\ Update(c.old, c.pod)
    <3>1. c.pod \in Pods /\ c.old \in Pods
      BY <1>1, <2>2 DEF Calls
    <3> QED BY <3>1, <2>2, UpdateStep DEF IInv
  <2>3. CASE c.op = "delete" /\ Delete(c.pod)
    <3>1. c.pod \in Pods
      BY <1>1, <2>3 DEF Calls
    <3> QED BY <3>1, <2>3, DeleteStep DEF IInv
  <2>4. CASE /\ c.op = "move"
             /\ \E helps \in SUBSET Plugins,
                   skip \in SUBSET {u \in Uids : c.checked /\ u # Uid(c.pod) /\ Waiting(u)} :
                   MoveAll(Event(c.kind, helps, NoUid), skip, Released(c))
    <3>1. PICK helps \in SUBSET Plugins,
               skip \in SUBSET {u \in Uids : c.checked /\ u # Uid(c.pod) /\ Waiting(u)} :
               MoveAll(Event(c.kind, helps, NoUid), skip, Released(c))
      BY <2>4
    <3>2. c.kind \in Kinds
      BY <1>1, <2>4 DEF Calls
    <3>3. Event(c.kind, helps, NoUid) \in Events
      BY <3>2, EventFacts
    <3> QED BY <3>1, <3>3, MoveAllStep DEF IInv
  <2> QED BY <2>1, <2>2, <2>3, <2>4 DEF QueueCall
<1>3. EnvOK'
  BY <1>1 DEF QueueCall, storeVars, preemptVars, IInv, EnvOK, PreemptOK, StoreOK, InformerOK
<1>4. cache' \in Caches /\ FewerAssumed(cache')
  BY SameCache DEF QueueCall
<1> QED BY <1>2, <1>3, <1>4, InformerStep DEF QueueCall, storeVars

LEMMA OutsideStep ==
    ASSUME IInv, QOK', Alert, inFlightPods' = inFlightPods, UNCHANGED outside
    PROVE  IInv'
<1>1. EnvOK'
  BY EnvSame DEF outside, IInv
<1>2. cache' \in Caches /\ FewerAssumed(cache')
  BY SameCache DEF outside
<1> QED BY <1>1, <1>2, InformerStep DEF outside, storeVars

LEMMA TimersInv == ASSUME IInv, NodeEvent \/ FlushBackoff \/ FlushLeftover PROVE IInv'
<1>1. CASE NodeEvent
  <2>1. PICK helps \in SUBSET Plugins \ {{}} : MoveAll(Event("Node", helps, NoUid), {}, {})
    BY <1>1 DEF NodeEvent
  <2>2. Event("Node", helps, NoUid) \in Events
    BY EventFacts DEF Kinds
  <2>3. QOK' /\ Alert /\ inFlightPods' = inFlightPods
    BY <2>1, <2>2, MoveAllStep DEF IInv
  <2> QED BY <1>1, <2>3, OutsideStep DEF NodeEvent
<1>2. CASE FlushBackoff
  <2>1. QOK' /\ Alert /\ inFlightPods' = inFlightPods
    BY <1>2, FlushBackoffStep DEF FlushBackoff, IInv
  <2> QED BY <1>2, <2>1, OutsideStep DEF FlushBackoff
<1>3. CASE FlushLeftover
  <2>1. QOK' /\ Alert /\ inFlightPods' = inFlightPods
    BY <1>3, FlushLeftoverStep DEF FlushLeftover, IInv
  <2> QED BY <1>3, <2>1, OutsideStep DEF FlushLeftover
<1> QED BY <1>1, <1>2, <1>3

-----------------------------------------------------------------------------
(* The store and its users. *)

LEMMA WriteFacts ==
    ASSUME EnvOK, NEW pod \in Pods, Write(pod), pod.inc <= incs'[pod.name],
           incs' \in [Names -> 0..MaxInc],
           \A n \in Names : incs[n] <= incs'[n]
    PROVE  /\ StoreOK' /\ stream' \in Seq(Watched)
           /\ store'[pod.name] = [pod EXCEPT !.rv = @ + 1]
           /\ [pod EXCEPT !.rv = @ + 1] \in Pods
           /\ Uid(store'[pod.name]) = Uid(pod)
           /\ \A n \in Names \ {pod.name} : store'[n] = store[n]
<1> DEFINE p == [pod EXCEPT !.rv = @ + 1]
           x == [del |-> FALSE, pod |-> p]
<1>1. p \in Pods /\ p.name = pod.name /\ p.inc = pod.inc /\ pod.name \in Names
  BY DEF Pods
<1>2. store' = [store EXCEPT ![p.name] = p] /\ Emit(FALSE, p)
  BY DEF Write
<1> HIDE DEF p
<1>3. x \in Watched
  BY <1>1 DEF Watched
<1> HIDE DEF x
<1>4. stream' = stream \/ stream' = Append(stream, x)
  BY <1>2 DEF Emit, x
<1>5. stream' \in Seq(Watched)
  <2>1. stream \in Seq(Watched)
    BY DEF EnvOK, InformerOK
  <2> QED BY <2>1, <1>3, <1>4, AppendFacts
<1>6. store \in [Names -> Pods \cup {NoPod}] /\ store' \in [Names -> Pods \cup {NoPod}]
  BY <1>1, <1>2 DEF EnvOK, StoreOK
<1>7. store'[pod.name] = p /\ \A n \in Names \ {pod.name} : store'[n] = store[n]
  BY <1>1, <1>2, <1>6
<1>8. ASSUME NEW n \in Names, store'[n] # NoPod
      PROVE  store'[n].name = n /\ store'[n].inc <= incs'[n]
  <2>1. CASE n = pod.name
    BY <2>1, <1>1, <1>7
  <2>2. CASE n # pod.name
    <3>1. store[n] # NoPod /\ store'[n] = store[n] /\ store[n] \in Pods
      BY <2>2, <1>6, <1>7, <1>8
    <3>2. store[n].name = n /\ store[n].inc <= incs[n] /\ incs[n] <= incs'[n]
      BY <3>1 DEF EnvOK, StoreOK
    <3>3. store[n].inc \in Int /\ incs[n] \in Int /\ incs'[n] \in Int
      BY <3>1, PodFacts DEF EnvOK, StoreOK
    <3> QED BY <3>1, <3>2, <3>3
  <2> QED BY <2>1, <2>2
<1>9. StoreOK'
  BY <1>6, <1>8 DEF StoreOK
<1>10. Uid(p) = Uid(pod)
  BY <1>1 DEF Uid
<1> QED BY <1>1, <1>5, <1>7, <1>9, <1>10 DEF p

(* Users and the kubelet change the store only. *)
LEMMA UserStep ==
    ASSUME IInv, StoreOK', stream' \in Seq(Watched), spent' \in 0..MaxEvents,
           \A n \in Names : incs[n] <= incs'[n],
           \A n \in Names : Pending(store'[n]) /\ cache[Uid(store'[n])] = "assumed" =>
               Pending(store[n]) /\ Uid(store'[n]) = Uid(store[n]),
           UNCHANGED <<queueVars, preemptVars, notified, informerVars, cache, worker,
                       bindings, preemptions>>
    PROVE  IInv'
<1>1. QOK' /\ Alert /\ inFlightPods' = inFlightPods
  BY QueueSame DEF IInv
<1>2. EnvOK'
  BY DEF preemptVars, informerVars, IInv, EnvOK, PreemptOK, InformerOK
<1>3. incs \in [Names -> 0..MaxInc] /\ incs' \in [Names -> 0..MaxInc]
  BY DEF IInv, EnvOK, StoreOK
<1>4. CacheOK'
  <2> SUFFICES ASSUME NEW u \in Uids, cache[u] = "assumed"
               PROVE  u[2] <= incs'[u[1]]
    BY DEF IInv, CacheOK
  <2>1. u[1] \in Names /\ u[2] \in Int
    BY DEF Uids
  <2>2. u[2] <= incs[u[1]]
    BY DEF IInv, CacheOK
  <2>3. incs[u[1]] \in Int /\ incs'[u[1]] \in Int /\ incs[u[1]] <= incs'[u[1]]
    BY <2>1, <1>3
  <2> QED BY <2>1, <2>2, <2>3
<1>5. WorkerOK' /\ WakeupNotLost'
  <2>1. worker.pod # NoPod => worker.pod.inc <= incs'[worker.pod.name]
    <3> SUFFICES ASSUME worker.pod # NoPod PROVE worker.pod.inc <= incs'[worker.pod.name]
      OBVIOUS
    <3>1. worker.pod \in Pods /\ worker.pod.inc <= incs[worker.pod.name]
      BY DEF IInv, WorkerOK
    <3>2. worker.pod.name \in Names /\ worker.pod.inc \in Int
      BY <3>1, PodFacts
    <3>3. /\ incs[worker.pod.name] \in Int /\ incs'[worker.pod.name] \in Int
          /\ incs[worker.pod.name] <= incs'[worker.pod.name]
      BY <3>2, <1>3
    <3> QED BY <3>1, <3>2, <3>3
  <2>2. WorkerOK'
    BY <2>1 DEF IInv, WorkerOK
  <2>3. WakeupNotLost'
    BY DEF IInv, WakeupNotLost, Poppable, queueVars
  <2> QED BY <2>2, <2>3
<1>6. TasksOK' /\ InFlightHeld'
  BY <1>1, TasksSame, HeldSame DEF IInv
<1>7. AssumedIsBeingBound'
  BY AssumedSame DEF IInv
<1> QED BY <1>1, <1>2, <1>4, <1>5, <1>6, <1>7 DEF IInv

LEMMA CreatePodInv == ASSUME IInv, NEW n \in Names, CreatePod(n) PROVE IInv'
<1>1. PICK gate \in BOOLEAN : Write(NewPod(n, gate))
  BY DEF CreatePod
<1> DEFINE pod == NewPod(n, gate)
<1>2. /\ incs \in [Names -> 0..MaxInc] /\ incs[n] < MaxInc /\ MaxInc \in Nat
      /\ incs' = [incs EXCEPT ![n] = @ + 1] /\ store[n] = NoPod
  BY QueueAssumption DEF CreatePod, IInv, EnvOK, StoreOK
<1>3. incs[n] \in 0..MaxInc
  BY <1>2
<1>4. incs[n] + 1 \in 1..MaxInc /\ incs[n] <= incs[n] + 1
  BY <1>2, <1>3
<1>5. pod \in Pods /\ pod.name = n /\ pod.inc = incs[n] + 1
  BY <1>4 DEF NewPod, Pods
<1>6. incs' \in [Names -> 0..MaxInc] /\ incs'[n] = incs[n] + 1
  BY <1>2, <1>4
<1>7. \A m \in Names : incs[m] <= incs'[m]
  <2> SUFFICES ASSUME NEW m \in Names PROVE incs[m] <= incs'[m]
    OBVIOUS
  <2>1. CASE m = n
    BY <2>1, <1>4, <1>6
  <2>2. CASE m # n
    <3>1. incs'[m] = incs[m] /\ incs[m] \in 0..MaxInc
      BY <2>2, <1>2
    <3> QED BY <3>1
  <2> QED BY <2>1, <2>2
<1> HIDE DEF pod
<1>8. Write(pod) /\ pod.inc <= incs'[pod.name]
  BY <1>1, <1>4, <1>5, <1>6 DEF pod
<1>9. /\ StoreOK' /\ stream' \in Seq(Watched) /\ Uid(store'[n]) = Uid(pod)
      /\ \A m \in Names \ {n} : store'[m] = store[m]
  BY <1>5, <1>6, <1>7, <1>8, WriteFacts DEF IInv
<1>10. ASSUME NEW m \in Names, Pending(store'[m]), cache[Uid(store'[m])] = "assumed"
       PROVE  Pending(store[m]) /\ Uid(store'[m]) = Uid(store[m])
  <2>1. CASE m = n
    <3>1. Uid(pod) = <<n, incs[n] + 1>> /\ Uid(pod) \in Uids
      BY <1>5, PodFacts DEF Uid
    <3>2. incs[n] + 1 <= incs[n]
      BY <2>1, <3>1, <1>9, <1>10 DEF IInv, CacheOK
    <3> QED BY <3>2, <1>3
  <2>2. CASE m # n
    BY <2>2, <1>9, <1>10
  <2> QED BY <2>1, <2>2
<1>11. spent' \in 0..MaxEvents
  BY SpendFacts DEF CreatePod, IInv
<1> QED BY <1>7, <1>9, <1>10, <1>11, UserStep DEF CreatePod

LEMMA StoredFacts ==
    ASSUME EnvOK, NEW n \in Names, store[n] # NoPod
    PROVE  store[n] \in Pods /\ store[n].name = n /\ store[n].inc <= incs[n]
BY DEF EnvOK, StoreOK

(* A write that leaves name and incarnation alone. *)
LEMMA RewriteFacts ==
    ASSUME EnvOK, NEW n \in Names, store[n] # NoPod, NEW p \in Pods, p.name = n,
           Uid(p) = Uid(store[n]), Write(p), UNCHANGED incs
    PROVE  /\ StoreOK' /\ stream' \in Seq(Watched)
           /\ store'[n] = [p EXCEPT !.rv = @ + 1] /\ store'[n] \in Pods
           /\ Uid(store'[n]) = Uid(store[n])
           /\ \A m \in Names \ {n} : store'[m] = store[m]
<1>1. p.inc <= incs'[p.name]
  BY StoredFacts DEF Uid
<1>2. incs' \in [Names -> 0..MaxInc] /\ \A m \in Names : incs[m] \in Int
  BY DEF EnvOK, StoreOK
<1>3. \A m \in Names : incs[m] <= incs'[m]
  BY <1>2
<1> QED BY <1>1, <1>2, <1>3, WriteFacts

LEMMA RemoveGatesInv == ASSUME IInv, NEW n \in Names, RemoveGates(n) PROVE IInv'
<1> DEFINE p == [store[n] EXCEPT !.gate = FALSE]
<1>1. Pending(store[n]) /\ Write(p) /\ incs' = incs
  BY DEF RemoveGates
<1>2. store[n] # NoPod /\ store[n] \in Pods /\ store[n].name = n
  BY <1>1, StoredFacts DEF Pending, IInv
<1>3. p \in Pods /\ p.name = n /\ Uid(p) = Uid(store[n])
  BY <1>2 DEF Pods, Uid
<1> HIDE DEF p
<1>4. /\ StoreOK' /\ stream' \in Seq(Watched) /\ Uid(store'[n]) = Uid(store[n])
      /\ \A m \in Names \ {n} : store'[m] = store[m]
  BY <1>1, <1>2, <1>3, RewriteFacts DEF IInv
<1>5. \A m \in Names : Pending(store'[m]) =>
          Pending(store[m]) /\ Uid(store'[m]) = Uid(store[m])
  BY <1>1, <1>4
<1>6. spent' \in 0..MaxEvents
  BY SpendFacts DEF RemoveGates, IInv
<1>7. \A m \in Names : incs[m] <= incs'[m]
  BY <1>1 DEF IInv, EnvOK, StoreOK
<1> QED BY <1>4, <1>5, <1>6, <1>7, UserStep DEF RemoveGates

LEMMA RemovePodInv == ASSUME IInv, NEW n \in Names, RemovePod(n) PROVE IInv'
<1>1. /\ store[n] # NoPod /\ store' = [store EXCEPT ![n] = NoPod] /\ Emit(TRUE, store[n])
      /\ incs' = incs
  BY DEF RemovePod
<1>2. store[n] \in Pods /\ store \in [Names -> Pods \cup {NoPod}]
  BY <1>1, StoredFacts DEF IInv, EnvOK, StoreOK
<1>3. stream' \in Seq(Watched)
  <2> DEFINE x == [del |-> TRUE, pod |-> store[n]]
  <2>1. x \in Watched
    BY <1>2 DEF Watched
  <2> HIDE DEF x
  <2>2. stream' = stream \/ stream' = Append(stream, x)
    BY <1>1 DEF Emit, x
  <2>3. stream \in Seq(Watched)
    BY DEF IInv, EnvOK, InformerOK
  <2> QED BY <2>1, <2>2, <2>3, AppendFacts
<1>4. store'[n] = NoPod /\ \A m \in Names \ {n} : store'[m] = store[m]
  BY <1>1, <1>2
<1>5. StoreOK'
  BY <1>1, <1>2, <1>4 DEF IInv, EnvOK, StoreOK
<1>6. \A m \in Names : Pending(store'[m]) =>
          Pending(store[m]) /\ Uid(store'[m]) = Uid(store[m])
  BY <1>4 DEF Pending
<1>7. spent' \in 0..MaxEvents
  BY PayFacts DEF RemovePod, IInv, EnvOK
<1>8. \A m \in Names : incs[m] <= incs'[m]
  BY <1>1 DEF IInv, EnvOK, StoreOK
<1> QED BY <1>3, <1>5, <1>6, <1>7, <1>8, UserStep DEF RemovePod

-----------------------------------------------------------------------------
(* The worker. *)

Workers == [pc : Pcs, info : Infos \cup {NoInfo}, pod : Pods \cup {NoPod}]
InHandPcs == Pcs \ InPop

LEMMA WorkerFacts ==
    ASSUME WorkerOK
    PROVE  /\ worker \in Workers /\ worker.pc \in Pcs
           /\ worker.info \in Infos \cup {NoInfo} /\ worker.pod \in Pods \cup {NoPod}
           /\ worker.pc \in InHandPcs => worker.info \in Infos
           /\ worker.pc \in HasRead => worker.pod \in Pods
           /\ worker.pc \in InPop => worker.info = NoInfo
BY DEF WorkerOK, Workers, InHandPcs

(* The forms of a worker's move. *)
LEMMA GoFacts ==
    ASSUME WorkerOK, NEW pc \in Pcs
    PROVE  LET w == [worker EXCEPT !.pc = pc]
           IN  w \in Workers /\ w.pc = pc /\ w.info = worker.info /\ w.pod = worker.pod
BY DEF WorkerOK, Workers

LEMMA PluginsFacts ==
    ASSUME WorkerOK, worker.info \in Infos, NEW pc \in Pcs, NEW P \in SUBSET AllPlugins
    PROVE  /\ LET w == [worker EXCEPT !.pc = pc, !.info.plugins = P]
              IN  /\ w \in Workers /\ w.pc = pc /\ w.pod = worker.pod
                  /\ w.info \in Infos /\ w.info.pod = worker.info.pod
           /\ LET w == [worker EXCEPT !.pc = pc, !.info.plugins = P, !.pod = NoPod]
              IN  /\ w \in Workers /\ w.pc = pc /\ w.pod = NoPod
                  /\ w.info \in Infos /\ w.info.pod = worker.info.pod
<1> DEFINE i == [worker.info EXCEPT !.plugins = P]
           v == [worker EXCEPT !.pc = pc, !.info.plugins = P]
           w == [worker EXCEPT !.pc = pc, !.info.plugins = P, !.pod = NoPod]
<1>1. i \in Infos /\ i.pod = worker.info.pod
  BY DEF Infos
<1>2. v = [worker EXCEPT !.pc = pc, !.info = i]
  BY DEF WorkerOK, Workers
<1>3. w = [worker EXCEPT !.pc = pc, !.info = i, !.pod = NoPod]
  BY DEF WorkerOK, Workers
<1> HIDE DEF i, v, w
<1>4. v \in Workers /\ v.pc = pc /\ v.pod = worker.pod /\ v.info = i
  BY <1>1, <1>2 DEF WorkerOK, Workers
<1>5. w \in Workers /\ w.pc = pc /\ w.pod = NoPod /\ w.info = i
  BY <1>1, <1>3 DEF WorkerOK, Workers
<1> QED BY <1>1, <1>4, <1>5 DEF v, w

(* Who holds the pods in flight when the worker moves on with its pod. *)
LEMMA HeldOn ==
    ASSUME InFlightHeld, inFlightPods' \subseteq inFlightPods, UNCHANGED bindings,
           worker.info # NoInfo =>
               worker'.info # NoInfo /\ Uid(worker'.info.pod) = Uid(worker.info.pod)
    PROVE  InFlightHeld'
BY DEF InFlightHeld

(* The worker does not give up an assumed pod. *)
LEMMA AssumedOn ==
    ASSUME AssumedIsBeingBound, UNCHANGED bindings, worker.pc # "forget",
           \A n \in Names : Pending(store'[n]) /\ cache'[Uid(store'[n])] = "assumed" =>
               /\ Pending(store[n]) /\ Uid(store'[n]) = Uid(store[n])
               /\ cache[Uid(store[n])] = "assumed"
    PROVE  AssumedIsBeingBound'
<1> SUFFICES ASSUME NEW n \in Names, Pending(store'[n]), cache'[Uid(store'[n])] = "assumed"
             PROVE  \E b \in bindings :
                          /\ Uid(b.pod) = Uid(store'[n])
                          /\ b.pc \in {"start", "bind", "rebind", "abort"}
  BY DEF AssumedIsBeingBound, Pending, Uid
<1>1. Pending(store[n]) /\ Uid(store'[n]) = Uid(store[n]) /\ cache[Uid(store[n])] = "assumed"
  OBVIOUS
<1> QED BY <1>1 DEF AssumedIsBeingBound

(* A step of the worker with its pod: nothing else changes but the budget. *)
LEMMA WorkerStep ==
    ASSUME IInv, worker.pc # "forget", worker' \in Workers, worker'.pc # "wait",
           worker'.pc \in InHandPcs, worker'.info \in Infos,
           worker.pc \in InHandPcs, Uid(worker'.info.pod) = Uid(worker.info.pod),
           worker'.pc \in HasRead => worker'.pod # NoPod,
           worker'.pod # NoPod => worker'.pod.inc <= incs[worker'.pod.name],
           UNCHANGED <<queueVars, notified, preemptVars, cache, preemptions, storeVars,
                       informerVars, bindings>>,
           spent' \in 0..MaxEvents
    PROVE  IInv'
<1>1. QOK' /\ Alert /\ inFlightPods' = inFlightPods
  BY QueueSame DEF IInv
<1>2. EnvOK'
  BY DEF preemptVars, storeVars, informerVars, IInv, EnvOK, PreemptOK, StoreOK, InformerOK
<1>3. CacheOK'
  BY CacheSame DEF IInv, storeVars
<1>4. worker'.info # NoInfo
  BY InfoFacts
<1>5. WorkerOK'
  BY <1>4 DEF WorkerOK, Workers, InHandPcs, InPop, storeVars
<1>6. WakeupNotLost'
  BY AwakeFacts
<1>7. TasksOK'
  BY TasksSame DEF IInv
<1>8. InFlightHeld'
  BY <1>1, <1>4, HeldOn DEF IInv
<1>9. AssumedIsBeingBound'
  BY AssumedOn DEF IInv, storeVars
<1> QED BY <1>1, <1>2, <1>3, <1>5, <1>6, <1>7, <1>8, <1>9 DEF IInv

LEMMA OthersFacts ==
    ASSUME EnvOK, UNCHANGED others
    PROVE  UNCHANGED <<storeVars, informerVars, bindings>> /\ spent' \in 0..MaxEvents
BY DEF others, EnvOK

(* pop. *)
LEMMA PopPartInv == ASSUME IInv, WorkerEnables \/ WorkerSleeps \/ WorkerWakes PROVE IInv'
<1>1. /\ UNCHANGED <<queueVars, preemptVars, cache, preemptions, others>>
      /\ worker.pc \in InPop
      /\ \E pc \in InPop : worker' = [worker EXCEPT !.pc = pc]
  BY DEF WorkerEnables, WorkerSleeps, WorkerWakes, Go, InPop
<1>2. worker.info = NoInfo
  BY <1>1 DEF IInv, WorkerOK
<1>3. worker' \in Workers /\ worker'.pc \in InPop /\ worker'.info = NoInfo
      /\ worker'.pod = worker.pod
  BY <1>1, <1>2, GoFacts DEF IInv, InPop, Pcs
<1>4. NotifyOK'
  BY DEF WorkerEnables, WorkerSleeps, WorkerWakes, IInv, QOK, NotifyOK
<1>5. QOK' /\ inFlightPods' = inFlightPods
  BY <1>1, <1>4 DEF queueVars, IInv, QOK, QueueOK, ListOK, DueOK
<1>6. EnvOK' /\ CacheOK' /\ TasksOK' /\ UNCHANGED <<storeVars, bindings>>
  BY <1>1, EnvSame, CacheSame, TasksSame DEF IInv, others, storeVars
<1>7. worker'.pc \in {"check", "wait"} => notified' # "off"
  BY <1>3, GoFacts DEF WorkerEnables, WorkerSleeps, WorkerWakes, Go, IInv, WorkerOK, Pcs
<1>8. WorkerOK'
  BY <1>3, <1>6, <1>7 DEF IInv, WorkerOK, Workers, InPop, HasRead, storeVars
<1>9. WakeupNotLost'
  <2>1. CASE WorkerEnables \/ WorkerWakes
    BY <2>1, AwakeFacts DEF WorkerEnables, WorkerWakes, Go, IInv, WorkerOK, Workers
  <2>2. CASE WorkerSleeps
    <3>1. Poppable(queue') = {}
      BY <2>2 DEF WorkerSleeps, queueVars
    <3> QED BY <3>1 DEF WakeupNotLost, Poppable
  <2> QED BY <2>1, <2>2
<1>10. InFlightHeld'
  BY <1>2, <1>5, <1>6, HeldOn DEF IInv
<1>11. AssumedIsBeingBound'
  BY <1>1, <1>6, AssumedOn DEF IInv, InPop, storeVars
<1> QED BY <1>5, <1>6, <1>8, <1>9, <1>10, <1>11 DEF IInv

LEMMA WorkerPopsInv == ASSUME IInv, WorkerPops PROVE IInv'
<1>1. PICK n \in Names, place \in {"active", "backoff"} :
        /\ Pop(n, place)
        /\ worker' = [pc |-> "read", info |-> Popped(n, place), pod |-> NoPod]
  BY DEF WorkerPops
<1>2. /\ QueueOK' /\ ListOK' /\ DueOK' /\ Popped(n, place) \in Infos
      /\ inFlightPods' = inFlightPods \cup {Uid(Popped(n, place).pod)}
  BY <1>1, PopStep DEF IInv
<1>3. QOK'
  BY <1>2 DEF WorkerPops, QOK, NotifyOK
<1>4. EnvOK' /\ CacheOK' /\ TasksOK' /\ UNCHANGED <<storeVars, bindings, cache>>
  BY EnvSame, CacheSame, TasksSame DEF WorkerPops, IInv, others, storeVars
<1>5. /\ worker' \in Workers /\ worker'.pc = "read" /\ worker'.info = Popped(n, place)
      /\ worker'.pod = NoPod
  BY <1>1, <1>2 DEF Workers, Pcs
<1>6. worker'.info # NoInfo
  BY <1>2, <1>5, InfoFacts
<1>7. WorkerOK' /\ WakeupNotLost'
  BY <1>5, <1>6, AwakeFacts DEF WorkerOK, Workers, InPop, HasRead
<1>8. InFlightHeld'
  <2>1. worker.info = NoInfo
    BY DEF WorkerPops, IInv, WorkerOK, InPop
  <2>2. ASSUME NEW u \in inFlightPods'
        PROVE  \/ worker'.info # NoInfo /\ Uid(worker'.info.pod) = u
               \/ \E b \in bindings' : b.pc = "start" /\ Uid(b.info.pod) = u
    <3>1. CASE u \in inFlightPods
      BY <3>1, <2>1, <1>4 DEF IInv, InFlightHeld
    <3>2. CASE u = Uid(Popped(n, place).pod)
      BY <3>2, <1>5, <1>6
    <3> QED BY <2>2, <3>1, <3>2, <1>2
  <2> QED BY <2>2 DEF InFlightHeld
<1>9. AssumedIsBeingBound'
  BY <1>4, AssumedOn DEF IInv, WorkerPops, storeVars
<1> QED BY <1>3, <1>4, <1>7, <1>8, <1>9 DEF IInv

(* The worker reads the pod, gives it up, or reads it again. *)
LEMMA WorkerReadsInv == ASSUME IInv, WorkerReads PROVE IInv'
<1> DEFINE n == worker.info.pod.name
           p == store[n]
<1>1. worker.pc = "read" /\ UNCHANGED <<queueVars, preemptVars, notified, cache, preemptions, others>>
  BY DEF WorkerReads
<1>2. worker.pc \in InHandPcs /\ worker.pc # "forget" /\ worker.info \in Infos
  BY <1>1, WorkerFacts DEF IInv, InHandPcs, Pcs, InPop
<1>3. n \in Names
  BY <1>2, PodFacts DEF Infos
<1>4. UNCHANGED <<storeVars, informerVars, bindings>> /\ spent' \in 0..MaxEvents
  BY <1>1, OthersFacts DEF IInv
<1>5. CASE Pending(p)
  <2>1. p \in Pods /\ p # NoPod /\ p.name = n /\ p.inc <= incs[n]
    BY <1>3, <1>5, StoredFacts DEF Pending, IInv
  <2>2. worker' = [worker EXCEPT !.pc = "decide", !.pod = p]
    BY <1>5 DEF WorkerReads
  <2> HIDE DEF n, p
  <2>3. /\ worker' \in Workers /\ worker'.pc = "decide" /\ worker'.info = worker.info
        /\ worker'.pod = p
    BY <2>1, <2>2, WorkerFacts DEF IInv, Workers, Pcs
  <2>4. worker'.pc \in InHandPcs
    BY <2>3 DEF InHandPcs, Pcs, InPop
  <2> QED BY <1>1, <1>2, <1>4, <2>1, <2>3, <2>4, WorkerStep
<1>6. CASE ~Pending(p)
  <2>1. worker' = [worker EXCEPT !.pc = "done"]
    BY <1>6 DEF WorkerReads
  <2> HIDE DEF n, p
  <2>2. /\ worker' \in Workers /\ worker'.pc = "done" /\ worker'.info = worker.info
        /\ worker'.pod = worker.pod
    BY <2>1, GoFacts DEF IInv, Pcs
  <2>3. worker'.pc \in InHandPcs /\ worker'.pc \notin HasRead
    BY <2>2 DEF InHandPcs, Pcs, InPop, HasRead
  <2>4. worker'.pod # NoPod => worker'.pod.inc <= incs[worker'.pod.name]
    BY <2>2 DEF IInv, WorkerOK
  <2> QED BY <1>1, <1>2, <1>4, <2>2, <2>3, <2>4, WorkerStep
<1> QED BY <1>5, <1>6

(* An attempt fails. *)
LEMMA FailedStep ==
    ASSUME IInv, worker.pc \in InHandPcs \ {"forget"}, NEW P \in SUBSET AllPlugins, Failed(P),
           UNCHANGED <<queueVars, notified, preemptVars, cache, preemptions, storeVars,
                       informerVars, bindings>>,
           spent' \in 0..MaxEvents
    PROVE  IInv'
<1>1. worker.info \in Infos /\ "reread" \in Pcs
  BY WorkerFacts DEF IInv, Pcs
<1>2. /\ worker' \in Workers /\ worker'.pc = "reread" /\ worker'.pod = NoPod
      /\ worker'.info \in Infos /\ worker'.info.pod = worker.info.pod
  <2> DEFINE w == [worker EXCEPT !.pc = "reread", !.info.plugins = P, !.pod = NoPod]
  <2>1. /\ w \in Workers /\ w.pc = "reread" /\ w.pod = NoPod
        /\ w.info \in Infos /\ w.info.pod = worker.info.pod
    BY <1>1, PluginsFacts, Zenon DEF IInv
  <2>2. worker' = w
    BY DEF Failed
  <2> HIDE DEF w
  <2> QED BY <2>1, <2>2
<1>3. worker'.pc \in InHandPcs /\ worker'.pc \notin HasRead
  BY <1>2 DEF InHandPcs, Pcs, InPop, HasRead
<1> QED BY <1>2, <1>3, WorkerStep

LEMMA WorkerErrsInv == ASSUME IInv, WorkerErrs PROVE IInv'
<1>1. worker.pc \in InHandPcs \ {"forget"}
  BY DEF WorkerErrs, InHandPcs, Pcs, InPop
<1>2. Failed({}) /\ spent' \in 0..MaxEvents
  BY SpendFacts DEF WorkerErrs, IInv
<1> QED BY <1>1, <1>2, FailedStep DEF WorkerErrs

LEMMA AssumeRefusedInv == ASSUME IInv, AssumeRefused PROVE IInv'
<1>1. worker.pc \in InHandPcs \ {"forget"}
  BY DEF AssumeRefused, InHandPcs, Pcs, InPop
<1>2. UNCHANGED <<storeVars, informerVars, bindings>> /\ spent' \in 0..MaxEvents
  BY OthersFacts DEF AssumeRefused, IInv
<1> QED BY <1>1, <1>2, FailedStep DEF AssumeRefused

(* The worker keeps the copy it read and notes who rejected the pod. *)
LEMMA RejectedStep ==
    ASSUME IInv, worker.pc = "decide", NEW P \in SUBSET AllPlugins,
           worker' = [worker EXCEPT !.pc = "clear", !.info.plugins = P],
           UNCHANGED <<queueVars, notified, preemptVars, cache, preemptions, storeVars,
                       informerVars, bindings>>,
           spent' \in 0..MaxEvents
    PROVE  IInv'
<1>1. worker.pc \in InHandPcs /\ worker.pc # "forget" /\ worker.info \in Infos /\ worker.pod \in Pods
  BY WorkerFacts DEF IInv, InHandPcs, Pcs, InPop, HasRead
<1>2. /\ worker' \in Workers /\ worker'.pc = "clear" /\ worker'.pod = worker.pod
      /\ worker'.info \in Infos /\ worker'.info.pod = worker.info.pod
  <2> DEFINE w == [worker EXCEPT !.pc = "clear", !.info.plugins = P]
  <2>1. "clear" \in Pcs
    BY DEF Pcs
  <2>2. /\ w \in Workers /\ w.pc = "clear" /\ w.pod = worker.pod
        /\ w.info \in Infos /\ w.info.pod = worker.info.pod
    BY <1>1, <2>1, PluginsFacts, Zenon DEF IInv
  <2>3. worker' = w
    OBVIOUS
  <2> HIDE DEF w
  <2> QED BY <2>2, <2>3
<1>3. worker'.pc \in InHandPcs /\ worker'.pod # NoPod
  BY <1>1, <1>2, PodFacts DEF InHandPcs, Pcs, InPop
<1>4. worker'.pod.inc <= incs[worker'.pod.name]
  BY <1>2, <1>3 DEF IInv, WorkerOK
<1> QED BY <1>1, <1>2, <1>3, <1>4, WorkerStep

LEMMA WorkerRejectsInv == ASSUME IInv, WorkerRejects PROVE IInv'
<1>1. worker.pc \in InHandPcs \ {"forget"}
  BY DEF WorkerRejects, InHandPcs, Pcs, InPop
<1>2. UNCHANGED <<storeVars, informerVars, bindings>> /\ spent' \in 0..MaxEvents
  BY OthersFacts DEF WorkerRejects, IInv
<1>3. PICK P \in SUBSET Plugins :
        \/ Failed(P)
        \/ worker' = [worker EXCEPT !.pc = "clear", !.info.plugins = P]
  BY Zenon DEF WorkerRejects
<1>4. P \in SUBSET AllPlugins
  BY DEF AllPlugins
<1>5. CASE Failed(P)
  BY <1>1, <1>2, <1>4, <1>5, FailedStep DEF WorkerRejects
<1>6. CASE worker' = [worker EXCEPT !.pc = "clear", !.info.plugins = P]
  <2>1. worker.pc = "decide"
    BY DEF WorkerRejects
  <2>2. UNCHANGED <<queueVars, notified, preemptVars, cache, preemptions>>
    BY DEF WorkerRejects
  <2>3. UNCHANGED <<queueVars, notified, preemptVars, cache, preemptions, storeVars,
                    informerVars, bindings>>
    BY <1>2, <2>2
  <2> QED BY <1>2, <1>4, <1>6, <2>1, <2>3, RejectedStep, Zenon
<1> QED BY <1>3, <1>5, <1>6

LEMMA RereadFailsInv == ASSUME IInv, RereadFails PROVE IInv'
<1>1. /\ worker.pc = "reread" /\ Spend
      /\ worker' = [worker EXCEPT !.pc = "requeue", !.info.plugins = {}]
  BY DEF RereadFails
<1>2. worker.pc \in InHandPcs /\ worker.pc # "forget" /\ worker.info \in Infos
  BY <1>1, WorkerFacts DEF IInv, InHandPcs, Pcs, InPop
<1>3. /\ worker' \in Workers /\ worker'.pc = "requeue" /\ worker'.pod = worker.pod
      /\ worker'.info \in Infos /\ worker'.info.pod = worker.info.pod
  <2> DEFINE w == [worker EXCEPT !.pc = "requeue", !.info.plugins = {}]
  <2>1. "requeue" \in Pcs /\ {} \in SUBSET AllPlugins
    BY DEF Pcs
  <2>2. /\ w \in Workers /\ w.pc = "requeue" /\ w.pod = worker.pod
        /\ w.info \in Infos /\ w.info.pod = worker.info.pod
    BY <1>2, <2>1, PluginsFacts, Zenon DEF IInv
  <2>3. worker' = w
    BY <1>1
  <2> HIDE DEF w
  <2> QED BY <2>2, <2>3
<1>4. worker'.pc \in InHandPcs /\ worker'.pc \notin HasRead
  BY <1>3 DEF InHandPcs, Pcs, InPop, HasRead
<1>5. worker'.pod # NoPod => worker'.pod.inc <= incs[worker'.pod.name]
  BY <1>3 DEF IInv, WorkerOK
<1>6. spent' \in 0..MaxEvents
  BY <1>1, SpendFacts DEF IInv
<1> QED BY <1>2, <1>3, <1>4, <1>5, <1>6, WorkerStep DEF RereadFails

(* What a re-read hands back is the pod that was popped. *)
LEMMA BackFacts ==
    ASSUME EnvOK, NEW info \in Infos
    PROVE  /\ Back(info).pc \in {"done", "requeue"} /\ Back(info).info \in Infos
           /\ Uid(Back(info).info.pod) = Uid(info.pod)
<1> DEFINE n == info.pod.name
           p == store[n]
           j == [info EXCEPT !.pod = p]
<1>1. n \in Names
  BY PodFacts DEF Infos
<1>2. CASE p = NoPod \/ Assigned(p) \/ Uid(p) # Uid(info.pod)
  BY <1>2 DEF Back
<1>3. CASE ~(p = NoPod \/ Assigned(p) \/ Uid(p) # Uid(info.pod))
  <2>1. p \in Pods /\ Uid(p) = Uid(info.pod)
    BY <1>1, <1>3, StoredFacts
  <2>2. Back(info) = [pc |-> "requeue", info |-> j]
    BY <1>3 DEF Back
  <2> HIDE DEF p
  <2>3. j \in Infos /\ j.pod = p
    BY <2>1 DEF Infos
  <2> HIDE DEF j
  <2> QED BY <2>1, <2>2, <2>3
<1> QED BY <1>2, <1>3

LEMMA WorkerRereadsInv == ASSUME IInv, WorkerRereads PROVE IInv'
<1> DEFINE b == Back(worker.info)
<1>1. worker.pc = "reread" /\ worker' = [worker EXCEPT !.pc = b.pc, !.info = b.info]
  BY DEF WorkerRereads
<1>2. worker.pc \in InHandPcs /\ worker.pc # "forget" /\ worker.info \in Infos
  BY <1>1, WorkerFacts DEF IInv, InHandPcs, Pcs, InPop
<1>3. b.pc \in {"done", "requeue"} /\ b.info \in Infos /\ Uid(b.info.pod) = Uid(worker.info.pod)
  BY <1>2, BackFacts DEF IInv
<1> HIDE DEF b
<1>4. /\ worker' \in Workers /\ worker'.pc = b.pc /\ worker'.pod = worker.pod
      /\ worker'.info = b.info
  BY <1>1, <1>3, WorkerFacts DEF IInv, Workers, Pcs
<1>5. worker'.pc \in InHandPcs /\ worker'.pc \notin HasRead /\ worker'.pc # "wait"
  BY <1>3, <1>4 DEF InHandPcs, Pcs, InPop, HasRead
<1>6. worker'.pod # NoPod => worker'.pod.inc <= incs[worker'.pod.name]
  BY <1>4 DEF IInv, WorkerOK
<1>7. UNCHANGED <<storeVars, informerVars, bindings>> /\ spent' \in 0..MaxEvents
  BY OthersFacts DEF WorkerRereads, IInv
<1> QED BY <1>2, <1>3, <1>4, <1>5, <1>6, <1>7, WorkerStep DEF WorkerRereads

(* The worker rests. *)
LEMMA RestFacts ==
    ASSUME Rest
    PROVE  /\ worker' \in Workers /\ worker'.pc = "enable" /\ worker'.info = NoInfo
           /\ worker'.pod = NoPod
BY DEF Rest, Workers, Pcs

LEMMA RestOK ==
    ASSUME Rest
    PROVE  WorkerOK' /\ WakeupNotLost'
BY RestFacts DEF WorkerOK, WakeupNotLost, Workers, InPop, HasRead

(* The cache after the worker assumed its pod. *)
LEMMA AssumeFacts ==
    ASSUME CacheOK, WorkerOK, worker.pod \in Pods, UNCHANGED incs,
           cache' = [cache EXCEPT ![Uid(worker.pod)] = "assumed"]
    PROVE  CacheOK' /\ \A u \in Uids : cache'[u] = "assumed" =>
                            cache[u] = "assumed" \/ u = Uid(worker.pod)
<1>1. Uid(worker.pod) \in Uids /\ worker.pod # NoPod
  BY PodFacts
<1>2. worker.pod.inc <= incs[worker.pod.name]
  BY <1>1 DEF WorkerOK
<1>3. cache' \in [Uids -> {"absent", "assumed", "added"}]
  BY <1>1 DEF CacheOK
<1>4. \A u \in Uids : cache'[u] = "assumed" => cache[u] = "assumed" \/ u = Uid(worker.pod)
  BY <1>1 DEF CacheOK
<1>5. ASSUME NEW u \in Uids, cache'[u] = "assumed" PROVE u[2] <= incs[u[1]]
  <2>1. CASE cache[u] = "assumed"
    BY <2>1 DEF CacheOK
  <2>2. CASE u = Uid(worker.pod)
    BY <2>2, <1>2 DEF Uid
  <2> QED BY <1>4, <1>5, <2>1, <2>2
<1>6. CacheOK'
  BY <1>3, <1>5 DEF CacheOK
<1> QED BY <1>4, <1>6

LEMMA WorkerAssumesInv == ASSUME IInv, WorkerAssumes PROVE IInv'
<1> DEFINE b == [pc |-> "start", info |-> worker.info, pod |-> worker.pod,
                 rejected |-> FALSE, forgotten |-> FALSE]
<1>1. /\ worker.pc = "decide" /\ cache' = [cache EXCEPT ![Uid(worker.pod)] = "assumed"]
      /\ UNCHANGED <<queueVars, preemptVars, notified, preemptions, storeVars, informerVars>>
  BY DEF WorkerAssumes
<1>2. worker.info \in Infos /\ worker.info # NoInfo /\ worker.pod \in Pods
  BY <1>1, WorkerFacts, InfoFacts DEF IInv, InHandPcs, Pcs, InPop, HasRead
<1>3. QOK' /\ inFlightPods' = inFlightPods
  BY <1>1, QueueSame DEF IInv
<1>4. /\ CacheOK'
      /\ \A u \in Uids : cache'[u] = "assumed" => cache[u] = "assumed" \/ u = Uid(worker.pod)
  BY <1>1, <1>2, AssumeFacts DEF IInv, storeVars
<1>5. store' = store /\ \A n \in Names : Pending(store[n]) => Uid(store[n]) \in Uids
  BY <1>1, StoredFacts, PodFacts DEF IInv, storeVars, Pending
<1>6. CASE /\ bindings' = bindings \cup {b}
           /\ Rest /\ UNCHANGED spent
  <2>1. EnvOK'
    BY <1>1, <1>6, EnvSame DEF IInv
  <2>2. WorkerOK' /\ WakeupNotLost'
    BY <1>6, RestOK
  <2>3. b \in BindingTasks /\ b.pc = "start" /\ b.pod = worker.pod /\ b.info = worker.info
    BY <1>2 DEF BindingTasks, BindingPcs
  <2> HIDE DEF b
  <2>4. TasksOK'
    BY <1>1, <1>6, <2>3 DEF IInv, TasksOK
  <2>5. InFlightHeld'
    BY <1>3, <1>6, <2>3 DEF IInv, InFlightHeld
  <2>6. ASSUME NEW n \in Names, Pending(store[n]), cache'[Uid(store[n])] = "assumed"
        PROVE  \E c \in bindings' : /\ Uid(c.pod) = Uid(store[n])
                                    /\ c.pc \in {"start", "bind", "rebind", "abort"}
    <3>1. CASE cache[Uid(store[n])] = "assumed"
      BY <3>1, <2>6, <1>1, <1>6 DEF IInv, AssumedIsBeingBound
    <3>2. CASE Uid(store[n]) = Uid(worker.pod)
      BY <3>2, <2>3, <1>6
    <3> QED BY <3>1, <3>2, <2>6, <1>4, <1>5
  <2>7. AssumedIsBeingBound'
    BY <2>6, <1>5 DEF AssumedIsBeingBound
  <2> QED BY <1>3, <1>4, <2>1, <2>2, <2>4, <2>5, <2>7 DEF IInv
<1>7. CASE Go("forget") /\ Spend /\ UNCHANGED bindings
  <2>1. EnvOK'
    <3>1. spent' \in 0..MaxEvents
      BY <1>7, SpendFacts DEF IInv
    <3> QED BY <3>1, <1>1 DEF IInv, EnvOK, PreemptOK, StoreOK, InformerOK, preemptVars, storeVars,
               informerVars
  <2>2. /\ worker' \in Workers /\ worker'.pc = "forget" /\ worker'.info = worker.info
        /\ worker'.pod = worker.pod
    BY <1>7, GoFacts DEF IInv, Go, Pcs
  <2>3. WorkerOK' /\ WakeupNotLost'
    BY <2>2, <1>1, <1>2, PodFacts DEF WorkerOK, WakeupNotLost, IInv, Workers, InPop, HasRead, storeVars
  <2>4. TasksOK' /\ InFlightHeld'
    BY <1>1, <1>3, <1>7, <2>2, TasksSame, HeldOn DEF IInv
  <2>5. ASSUME NEW n \in Names, Pending(store[n]), cache'[Uid(store[n])] = "assumed"
        PROVE  \/ Uid(worker.pod) = Uid(store[n])
               \/ \E c \in bindings : /\ Uid(c.pod) = Uid(store[n])
                                      /\ c.pc \in {"start", "bind", "rebind", "abort"}
    BY <2>5, <1>1, <1>4, <1>5 DEF IInv, AssumedIsBeingBound
  <2>6. AssumedIsBeingBound'
    BY <2>2, <2>5, <1>5, <1>7 DEF AssumedIsBeingBound
  <2> QED BY <1>3, <1>4, <2>1, <2>3, <2>4, <2>6 DEF IInv
<1> QED BY <1>6, <1>7 DEF WorkerAssumes

(* Forgetting a pod: it is not assumed afterwards. *)
LEMMA ForgetFacts ==
    ASSUME CacheOK, NEW u \in Uids, ForgetPod(u), UNCHANGED incs
    PROVE  /\ CacheOK' /\ cache'[u] # "assumed"
           /\ \A v \in Uids : cache'[v] = "assumed" => cache[v] = "assumed"
BY DEF ForgetPod, CacheOK

LEMMA ReserveFailedInv == ASSUME IInv, ReserveFailed PROVE IInv'
<1>1. worker.pc = "forget" /\ ForgetPod(Uid(worker.pod)) /\ Failed({})
  BY DEF ReserveFailed
<1>2. worker.info \in Infos /\ worker.info # NoInfo /\ worker.pod \in Pods /\ Uid(worker.pod) \in Uids
  BY <1>1, WorkerFacts, InfoFacts, PodFacts DEF IInv, InHandPcs, Pcs, InPop, HasRead
<1>3. QOK' /\ inFlightPods' = inFlightPods
  BY QueueSame DEF IInv, ReserveFailed
<1>4. EnvOK' /\ UNCHANGED <<storeVars, bindings, preemptions>>
  BY EnvSame DEF IInv, ReserveFailed, others
<1>5. /\ CacheOK' /\ cache'[Uid(worker.pod)] # "assumed"
      /\ \A v \in Uids : cache'[v] = "assumed" => cache[v] = "assumed"
  BY <1>1, <1>2, <1>4, ForgetFacts DEF IInv, storeVars
<1>6. /\ worker' \in Workers /\ worker'.pc = "reread" /\ worker'.pod = NoPod
      /\ worker'.info \in Infos /\ worker'.info.pod = worker.info.pod
  <2> DEFINE w == [worker EXCEPT !.pc = "reread", !.info.plugins = {}, !.pod = NoPod]
  <2>1. "reread" \in Pcs /\ {} \in SUBSET AllPlugins
    BY DEF Pcs
  <2>2. /\ w \in Workers /\ w.pc = "reread" /\ w.pod = NoPod
        /\ w.info \in Infos /\ w.info.pod = worker.info.pod
    BY <1>2, <2>1, PluginsFacts, Zenon DEF IInv
  <2>3. worker' = w
    BY <1>1 DEF Failed
  <2> HIDE DEF w
  <2> QED BY <2>2, <2>3
<1>7. worker'.info # NoInfo
  BY <1>6, InfoFacts
<1>8. WorkerOK' /\ WakeupNotLost'
  BY <1>6, <1>7 DEF WorkerOK, WakeupNotLost, Workers, InPop, HasRead
<1>9. TasksOK' /\ InFlightHeld'
  BY <1>3, <1>4, <1>6, <1>7, TasksSame, HeldOn DEF IInv
<1>10. ASSUME NEW n \in Names, Pending(store[n]), cache'[Uid(store[n])] = "assumed"
       PROVE  \E c \in bindings : /\ Uid(c.pod) = Uid(store[n])
                                  /\ c.pc \in {"start", "bind", "rebind", "abort"}
  <2>1. Uid(store[n]) \in Uids
    BY <1>10, StoredFacts, PodFacts DEF IInv, Pending
  <2> QED BY <2>1, <1>5, <1>10 DEF IInv, AssumedIsBeingBound
<1>11. AssumedIsBeingBound'
  BY <1>4, <1>10 DEF AssumedIsBeingBound, storeVars
<1> QED BY <1>3, <1>4, <1>5, <1>8, <1>9, <1>11 DEF IInv

LEMMA WorkerPreemptsInv == ASSUME IInv, WorkerPreempts PROVE IInv'
<1>1. PICK v \in Names, P \in SUBSET Plugins \ {{}} :
        /\ preemptions' = preemptions \cup
              {[pc |-> "register", pod |-> worker.pod, victim |-> v, failed |-> FALSE]}
        /\ worker' = [worker EXCEPT !.pc = "nominate", !.info.plugins = P]
  BY Zenon DEF WorkerPreempts
<1>2. /\ worker.pc = "decide" /\ Pay(4) /\ preempting' = preempting \cup {Uid(worker.pod)}
      /\ due' = [due EXCEPT ![Uid(worker.pod)] = @ \ {PreemptPlugin}]
      /\ UNCHANGED <<queue, inFlightPods, inFlightEvents, since, pendingVictim, notified,
                     cache, storeVars, informerVars, bindings>>
  BY DEF WorkerPreempts
<1>3. /\ worker.info \in Infos /\ worker.info # NoInfo /\ worker.pod \in Pods
      /\ worker.pod # NoPod /\ Uid(worker.pod) \in Uids
  BY <1>2, WorkerFacts, InfoFacts, PodFacts DEF IInv, InHandPcs, Pcs, InPop, HasRead
<1>4. DueOK'
  BY <1>2, <1>3 DEF IInv, QOK, DueOK
<1>5. QOK' /\ inFlightPods' = inFlightPods
  BY <1>2, <1>4 DEF IInv, QOK, QueueOK, ListOK, NotifyOK
<1>6. spent' \in 0..MaxEvents
  BY <1>2, PayFacts DEF IInv, EnvOK
<1>7. EnvOK'
  BY <1>2, <1>3, <1>6 DEF IInv, EnvOK, PreemptOK, StoreOK, InformerOK, storeVars, informerVars
<1>8. CacheOK'
  BY <1>2, CacheSame DEF IInv, storeVars
<1>9. /\ worker' \in Workers /\ worker'.pc = "nominate" /\ worker'.pod = worker.pod
      /\ worker'.info \in Infos /\ worker'.info.pod = worker.info.pod
  <2> DEFINE w == [worker EXCEPT !.pc = "nominate", !.info.plugins = P]
  <2>1. "nominate" \in Pcs /\ P \in SUBSET AllPlugins
    BY DEF Pcs, AllPlugins
  <2>2. /\ w \in Workers /\ w.pc = "nominate" /\ w.pod = worker.pod
        /\ w.info \in Infos /\ w.info.pod = worker.info.pod
    BY <1>3, <2>1, PluginsFacts, Zenon DEF IInv
  <2>3. worker' = w
    BY <1>1
  <2> HIDE DEF w
  <2> QED BY <2>2, <2>3
<1>10. worker'.info # NoInfo
  BY <1>9, InfoFacts
<1>11. WorkerOK' /\ WakeupNotLost'
  BY <1>2, <1>3, <1>9, <1>10 DEF IInv, WorkerOK, WakeupNotLost, Workers, InPop, HasRead, storeVars
<1>12. TasksOK'
  <2> DEFINE t == [pc |-> "register", pod |-> worker.pod, victim |-> v, failed |-> FALSE]
  <2>1. t \in PreemptionTasks
    BY <1>3 DEF PreemptionTasks
  <2> QED BY <2>1, <1>1, <1>2 DEF IInv, TasksOK
<1>13. InFlightHeld'
  BY <1>2, <1>5, <1>9, <1>10, HeldOn DEF IInv
<1>14. AssumedIsBeingBound'
  BY <1>2, AssumedOn DEF IInv, storeVars
<1> QED BY <1>5, <1>7, <1>8, <1>11, <1>12, <1>13, <1>14 DEF IInv

(* The store is written, if at all, without changing who a pod is or binding *)
(* it.                                                                        *)
SameAssumable ==
    \A n \in Names : Pending(store'[n]) => Pending(store[n]) /\ Uid(store'[n]) = Uid(store[n])

LEMMA WorkerNominatesInv == ASSUME IInv, WorkerNominates PROVE IInv'
<1> DEFINE n == worker.pod.name
           p == store[n]
           q == [p EXCEPT !.nom = (worker.pc = "nominate")]
<1>1. /\ worker.pc \in {"nominate", "clear"} /\ Failed(worker.info.plugins)
      /\ IF p = NoPod THEN UNCHANGED <<store, stream>> ELSE Write(q)
      /\ UNCHANGED <<queueVars, preemptVars, notified, cache, preemptions, incs,
                     informerVars, bindings, spent>>
  BY DEF WorkerNominates
<1>2. worker.info \in Infos /\ worker.pod \in Pods /\ n \in Names
  BY <1>1, WorkerFacts, PodFacts DEF IInv, InHandPcs, Pcs, InPop, HasRead
<1>3. StoreOK' /\ stream' \in Seq(Watched) /\ SameAssumable
  <2>1. CASE p = NoPod
    BY <2>1, <1>1 DEF IInv, EnvOK, StoreOK, InformerOK, SameAssumable
  <2>2. CASE p # NoPod
    <3>1. p \in Pods /\ p.name = n /\ Write(q)
      BY <1>1, <1>2, <2>2, StoredFacts DEF IInv
    <3>2. (worker.pc = "nominate") \in BOOLEAN
      OBVIOUS
    <3>3. q \in Pods /\ q.name = n /\ Uid(q) = Uid(p) /\ q.bound = p.bound /\ q.fin = p.fin
      BY <3>1, <3>2 DEF Pods, Uid
    <3> HIDE DEF q
    <3>4. /\ StoreOK' /\ stream' \in Seq(Watched) /\ store'[n] = [q EXCEPT !.rv = @ + 1]
          /\ Uid(store'[n]) = Uid(store[n])
          /\ \A m \in Names \ {n} : store'[m] = store[m]
      BY <1>1, <1>2, <2>2, <3>1, <3>3, RewriteFacts DEF IInv
    <3>5. store'[n].bound = p.bound /\ store'[n].fin = p.fin
      BY <3>3, <3>4 DEF Pods
    <3>6. SameAssumable
      BY <2>2, <3>4, <3>5 DEF SameAssumable, Pending
    <3> QED BY <3>4, <3>6
  <2> QED BY <2>1, <2>2
<1> HIDE DEF n, p, q
<1>4. QOK' /\ inFlightPods' = inFlightPods
  BY <1>1, QueueSame DEF IInv
<1>5. EnvOK'
  BY <1>1, <1>3 DEF IInv, EnvOK, PreemptOK, InformerOK, preemptVars, informerVars
<1>6. CacheOK' /\ TasksOK'
  BY <1>1, CacheSame, TasksSame DEF IInv
<1>7. /\ worker' \in Workers /\ worker'.pc = "reread" /\ worker'.pod = NoPod
      /\ worker'.info \in Infos /\ worker'.info.pod = worker.info.pod
  <2> DEFINE P == worker.info.plugins
             w == [worker EXCEPT !.pc = "reread", !.info.plugins = P, !.pod = NoPod]
  <2>1. "reread" \in Pcs /\ P \in SUBSET AllPlugins
    BY <1>2 DEF Pcs, Infos
  <2>2. worker' = w
    BY <1>1 DEF Failed
  <2> HIDE DEF P
  <2>3. /\ w \in Workers /\ w.pc = "reread" /\ w.pod = NoPod
        /\ w.info \in Infos /\ w.info.pod = worker.info.pod
    BY <1>2, <2>1, PluginsFacts, Zenon DEF IInv
  <2> HIDE DEF w
  <2> QED BY <2>2, <2>3
<1>8. worker'.info # NoInfo
  BY <1>7, InfoFacts
<1>9. WorkerOK' /\ WakeupNotLost'
  BY <1>7, <1>8 DEF WorkerOK, WakeupNotLost, Workers, InPop, HasRead
<1>10. InFlightHeld'
  BY <1>1, <1>4, <1>7, <1>8, HeldOn DEF IInv
<1>11. AssumedIsBeingBound'
  BY <1>1, <1>3, AssumedOn DEF IInv, SameAssumable
<1> QED BY <1>4, <1>5, <1>6, <1>9, <1>10, <1>11 DEF IInv

(* The worker hands its pod back, or is done with it, and rests. *)
LEMMA HandBackStep ==
    ASSUME IInv, worker.pc \in InHandPcs \ {"forget"}, Rest, QOK',
           inFlightPods' = inFlightPods \ {Uid(worker.info.pod)},
           UNCHANGED <<preemptVars, cache, preemptions, others>>
    PROVE  IInv'
<1>1. EnvOK' /\ CacheOK' /\ TasksOK' /\ UNCHANGED <<storeVars, bindings>>
  BY EnvSame, CacheSame, TasksSame DEF IInv, others, storeVars
<1>2. WorkerOK' /\ WakeupNotLost'
  BY RestOK
<1>3. InFlightHeld'
  BY <1>1 DEF IInv, InFlightHeld
<1>4. AssumedIsBeingBound'
  BY <1>1, AssumedOn DEF IInv, storeVars
<1> QED BY <1>1, <1>2, <1>3, <1>4 DEF IInv

LEMMA WorkerReturnsInv == ASSUME IInv, WorkerRequeues \/ WorkerDone PROVE IInv'
<1>1. worker.pc \in InHandPcs \ {"forget"} /\ Rest
      /\ UNCHANGED <<preemptVars, cache, preemptions, others>>
  BY DEF WorkerRequeues, WorkerDone, InHandPcs, Pcs, InPop
<1>2. worker.info \in Infos
  BY <1>1, WorkerFacts DEF IInv
<1>3. QOK' /\ inFlightPods' = inFlightPods \ {Uid(worker.info.pod)}
  BY <1>2, AddUnschedulableStep, DoneStep DEF WorkerRequeues, WorkerDone, IInv
<1> QED BY <1>1, <1>3, HandBackStep

-----------------------------------------------------------------------------
(* Binding tasks. *)

Binds == {"start", "bind", "rebind", "abort"}

(* Task b moves on, and with it the pods in flight that it holds. *)
LEMMA HeldByTasks ==
    ASSUME InFlightHeld, NEW b, b.pc = "start" => Uid(b.info.pod) \notin inFlightPods',
           inFlightPods' \subseteq inFlightPods, UNCHANGED worker,
           bindings \ {b} \subseteq bindings'
    PROVE  InFlightHeld'
BY DEF InFlightHeld

(* Task b keeps to the pod it assumed, or that pod needs it no more. *)
LEMMA AssumedByTasks ==
    ASSUME AssumedIsBeingBound, NEW b, UNCHANGED worker, bindings \ {b} \subseteq bindings',
           \A n \in Names : Pending(store'[n]) /\ cache'[Uid(store'[n])] = "assumed" =>
               /\ Pending(store[n]) /\ Uid(store'[n]) = Uid(store[n])
               /\ cache[Uid(store[n])] = "assumed"
               /\ b.pc \in Binds /\ Uid(b.pod) = Uid(store[n]) =>
                     \E c \in bindings' : Uid(c.pod) = Uid(store[n]) /\ c.pc \in Binds
    PROVE  AssumedIsBeingBound'
<1> SUFFICES ASSUME NEW n \in Names, Pending(store'[n]), cache'[Uid(store'[n])] = "assumed"
             PROVE  \/ worker'.pc = "forget" /\ Uid(worker'.pod) = Uid(store'[n])
                    \/ \E c \in bindings' : Uid(c.pod) = Uid(store'[n]) /\ c.pc \in Binds
  BY DEF AssumedIsBeingBound, Binds
<1>1. /\ Pending(store[n]) /\ Uid(store'[n]) = Uid(store[n]) /\ cache[Uid(store[n])] = "assumed"
      /\ b.pc \in Binds /\ Uid(b.pod) = Uid(store[n]) =>
            \E c \in bindings' : Uid(c.pod) = Uid(store[n]) /\ c.pc \in Binds
  OBVIOUS
<1>2. CASE worker.pc = "forget" /\ Uid(worker.pod) = Uid(store[n])
  BY <1>1, <1>2
<1>3. CASE \E c \in bindings : Uid(c.pod) = Uid(store[n]) /\ c.pc \in Binds
  <2>1. PICK c \in bindings : Uid(c.pod) = Uid(store[n]) /\ c.pc \in Binds
    BY <1>3
  <2>2. CASE c = b
    BY <2>1, <2>2, <1>1
  <2>3. CASE c # b
    BY <2>1, <2>3, <1>1
  <2> QED BY <2>2, <2>3
<1> QED BY <1>1, <1>2, <1>3 DEF AssumedIsBeingBound, Binds

(* What a step of a task has to show. *)
LEMMA TaskStep ==
    ASSUME IInv, NEW b \in bindings, QOK', Alert, EnvOK', CacheOK',
           inFlightPods' \subseteq inFlightPods,
           b.pc = "start" => Uid(b.info.pod) \notin inFlightPods',
           bindings \ {b} \subseteq bindings', bindings' \subseteq BindingTasks,
           \A n \in Names : Pending(store'[n]) /\ cache'[Uid(store'[n])] = "assumed" =>
               /\ Pending(store[n]) /\ Uid(store'[n]) = Uid(store[n])
               /\ cache[Uid(store[n])] = "assumed"
               /\ b.pc \in Binds /\ Uid(b.pod) = Uid(store[n]) =>
                     \E c \in bindings' : Uid(c.pod) = Uid(store[n]) /\ c.pc \in Binds,
           UNCHANGED <<worker, preemptions, incs>>
    PROVE  IInv'
<1>1. WorkerOK' /\ WakeupNotLost'
  BY WorkerSame DEF IInv
<1>2. TasksOK'
  BY DEF IInv, TasksOK
<1>3. InFlightHeld'
  BY HeldByTasks DEF IInv
<1>4. AssumedIsBeingBound'
  BY AssumedByTasks DEF IInv
<1> QED BY <1>1, <1>2, <1>3, <1>4 DEF IInv

(* The moves of a task. *)
LEMMA TaskFacts ==
    ASSUME TasksOK, NEW b \in bindings
    PROVE  /\ b \in BindingTasks /\ b.pc \in BindingPcs /\ b.info \in Infos /\ b.pod \in Pods
           /\ b.rejected \in BOOLEAN /\ b.forgotten \in BOOLEAN
           /\ bindings \subseteq BindingTasks
           /\ \A pc \in BindingPcs :
                 /\ [b EXCEPT !.pc = pc] \in BindingTasks
                 /\ [b EXCEPT !.pc = pc].pod = b.pod /\ [b EXCEPT !.pc = pc].pc = pc
BY DEF TasksOK, BindingTasks

LEMMA StepFacts ==
    ASSUME TasksOK, NEW b \in bindings, NEW c \in BindingTasks, Step(b, c)
    PROVE  c \in bindings' /\ bindings \ {b} \subseteq bindings' /\ bindings' \subseteq BindingTasks
BY DEF TasksOK, Step

LEMMA EndFacts ==
    ASSUME TasksOK, NEW b \in bindings, End(b)
    PROVE  bindings \ {b} \subseteq bindings' /\ bindings' \subseteq BindingTasks
BY DEF TasksOK, End

LEMMA BindingStartsInv == ASSUME IInv, NEW b \in bindings, BindingStarts(b) PROVE IInv'
<1> DEFINE c == [b EXCEPT !.pc = "bind"]
<1>1. /\ b.pc = "start" /\ Done(Uid(b.info.pod)) /\ Step(b, c)
      /\ UNCHANGED <<aside, storeVars, cache, spent>>
  BY DEF BindingStarts
<1>2. c \in BindingTasks /\ c.pod = b.pod /\ c.pc = "bind"
  BY DEF IInv, TasksOK, BindingTasks, BindingPcs
<1> HIDE DEF c
<1>3. c \in bindings' /\ bindings \ {b} \subseteq bindings' /\ bindings' \subseteq BindingTasks
  BY <1>1, <1>2, StepFacts DEF IInv
<1>4. QOK' /\ Alert /\ inFlightPods' = inFlightPods \ {Uid(b.info.pod)}
  BY <1>1, DoneStep DEF IInv
<1>5. EnvOK' /\ CacheOK' /\ UNCHANGED <<worker, preemptions, incs, store, cache>>
  BY <1>1, EnvSame, CacheSame DEF IInv, aside, storeVars
<1>6. c.pc \in Binds
  BY <1>2 DEF Binds
<1> QED BY <1>2, <1>3, <1>4, <1>5, <1>6, TaskStep

(* What a task that is past its bind does: it changes neither store nor cache. *)
LEMMA LateStep ==
    ASSUME IInv, NEW b \in bindings, b.pc \notin Binds, QOK', Alert,
           inFlightPods' \subseteq inFlightPods,
           bindings \ {b} \subseteq bindings', bindings' \subseteq BindingTasks,
           UNCHANGED <<aside, storeVars, cache>>, spent' \in 0..MaxEvents
    PROVE  IInv'
<1>1. EnvOK'
  BY DEF IInv, EnvOK, PreemptOK, StoreOK, InformerOK, aside, storeVars, informerVars, preemptVars
<1>2. CacheOK' /\ UNCHANGED <<worker, preemptions, incs, store, cache>>
  BY CacheSame DEF IInv, aside, storeVars
<1>3. b.pc # "start"
  BY DEF Binds
<1> QED BY <1>1, <1>2, <1>3, TaskStep

LEMMA BindingMovesInv == ASSUME IInv, NEW b \in bindings, BindingMoves(b) PROVE IInv'
<1>1. b.pc \in {"move", "moveself"} /\ UNCHANGED <<aside, storeVars, cache, spent>>
  BY DEF BindingMoves
<1>2. PICK helps \in SUBSET Plugins :
        MoveAll(Event("AssignedPodDelete", helps, NoUid),
                IF b.pc = "move" THEN {} ELSE {Uid(b.pod)}, {})
  BY DEF BindingMoves
<1>3. Event("AssignedPodDelete", helps, NoUid) \in Events
  BY EventFacts DEF Kinds
<1>4. QOK' /\ Alert /\ inFlightPods' = inFlightPods
  BY <1>2, <1>3, MoveAllStep DEF IInv
<1>5. bindings \ {b} \subseteq bindings' /\ bindings' \subseteq BindingTasks
  <2> DEFINE c == [b EXCEPT !.pc = "reread"]
  <2>1. c \in BindingTasks
    BY TaskFacts DEF IInv, BindingPcs
  <2>2. Step(b, c) \/ End(b)
    BY DEF BindingMoves
  <2> HIDE DEF c
  <2> QED BY <2>1, <2>2, StepFacts, EndFacts DEF IInv
<1>6. b.pc \notin Binds /\ spent' \in 0..MaxEvents
  BY <1>1 DEF Binds, IInv, EnvOK
<1> QED BY <1>1, <1>4, <1>5, <1>6, LateStep

LEMMA BindingRereadsInv == ASSUME IInv, NEW b \in bindings, BindingRereads(b) PROVE IInv'
<1> DEFINE c == [b EXCEPT !.pc = Back(b.info).pc, !.info = Back(b.info).info]
           d == [b EXCEPT !.pc = "requeue"]
<1>1. /\ b.pc = "reread" /\ UNCHANGED <<aside, queueVars, notified, storeVars, cache>>
      /\ (Step(b, c) /\ UNCHANGED spent) \/ (Step(b, d) /\ Spend)
  BY DEF BindingRereads
<1>2. QOK' /\ Alert /\ inFlightPods' = inFlightPods
  BY <1>1, QueueSame DEF IInv
<1>3. spent' \in 0..MaxEvents
  BY <1>1, SpendFacts DEF IInv, EnvOK
<1>4. c \in BindingTasks /\ d \in BindingTasks
  <2>1. b \in BindingTasks /\ b.info \in Infos /\ d \in BindingTasks
    BY TaskFacts DEF IInv, BindingPcs
  <2>2. Back(b.info).pc \in BindingPcs /\ Back(b.info).info \in Infos
    BY <2>1, BackFacts DEF IInv, BindingPcs
  <2> QED BY <2>1, <2>2 DEF BindingTasks
<1> HIDE DEF c, d
<1>5. bindings \ {b} \subseteq bindings' /\ bindings' \subseteq BindingTasks
  BY <1>1, <1>4, StepFacts DEF IInv
<1>6. b.pc \notin Binds
  BY <1>1 DEF Binds
<1> QED BY <1>1, <1>2, <1>3, <1>5, <1>6, LateStep

LEMMA BindingReturnsInv == ASSUME IInv, NEW b \in bindings, BindingReturns(b) PROVE IInv'
<1> DEFINE c == [b EXCEPT !.pc = "moveself"]
<1>1. /\ b.pc \in {"requeue", "done"} /\ UNCHANGED <<aside, storeVars, cache, spent>>
      /\ AddUnschedulableIfNotPresent(b.info) \/ Done(Uid(b.info.pod))
      /\ Step(b, c) \/ End(b)
  BY DEF BindingReturns
<1>2. c \in BindingTasks /\ b.info \in Infos
  BY TaskFacts DEF IInv, BindingPcs
<1> HIDE DEF c
<1>3. QOK' /\ Alert /\ inFlightPods' \subseteq inFlightPods
  BY <1>1, <1>2, AddUnschedulableStep, DoneStep DEF IInv
<1>4. bindings \ {b} \subseteq bindings' /\ bindings' \subseteq BindingTasks
  BY <1>1, <1>2, StepFacts, EndFacts DEF IInv
<1>5. b.pc \notin Binds /\ spent' \in 0..MaxEvents
  BY <1>1 DEF Binds, IInv, EnvOK
<1> QED BY <1>1, <1>3, <1>4, <1>5, LateStep

(* PreBind or Bind failed. *)
LEMMA BindFailsInv == ASSUME IInv, NEW b \in bindings, BindFails(b) PROVE IInv'
<1>1. PICK r \in BOOLEAN : Step(b, [b EXCEPT !.pc = "abort", !.rejected = r])
  BY Zenon DEF BindFails
<1> DEFINE c == [b EXCEPT !.pc = "abort", !.rejected = r]
<1>2. /\ b.pc # "start" /\ Spend /\ UNCHANGED <<aside, queueVars, notified, storeVars, cache>>
  BY DEF BindFails
<1>3. c \in BindingTasks /\ c.pod = b.pod /\ c.pc = "abort"
  BY DEF IInv, TasksOK, BindingTasks, BindingPcs
<1>4. Step(b, c)
  BY <1>1
<1> HIDE DEF c
<1>5. c \in bindings' /\ bindings \ {b} \subseteq bindings' /\ bindings' \subseteq BindingTasks
  BY <1>3, <1>4, StepFacts DEF IInv
<1>6. QOK' /\ Alert /\ inFlightPods' = inFlightPods
  BY <1>2, QueueSame DEF IInv
<1>7. spent' \in 0..MaxEvents
  BY <1>2, SpendFacts DEF IInv
<1>8. EnvOK'
  BY <1>2, <1>7 DEF IInv, EnvOK, PreemptOK, StoreOK, InformerOK, aside, storeVars, informerVars,
                    preemptVars
<1>9. CacheOK' /\ UNCHANGED <<worker, preemptions, incs, store, cache>>
  BY <1>2, CacheSame DEF IInv, aside, storeVars
<1>10. c.pc \in Binds
  BY <1>3 DEF Binds
<1> QED BY <1>2, <1>3, <1>5, <1>6, <1>8, <1>9, <1>10, TaskStep

(* The assumed pod is forgotten before its task moves on. *)
LEMMA AbortInv == ASSUME IInv, NEW b \in bindings, Abort(b) PROVE IInv'
<1> DEFINE f == Forgettable(Uid(b.pod))
           pc == IF f /\ ~b.rejected THEN "move" ELSE "reread"
           c == [b EXCEPT !.forgotten = f, !.info.plugins = {}, !.pc = pc]
           i == [b.info EXCEPT !.plugins = {}]
<1>1. /\ b.pc = "abort" /\ ForgetPod(Uid(b.pod)) /\ Step(b, c)
      /\ UNCHANGED <<aside, queueVars, notified, storeVars, spent>>
  BY DEF Abort
<1>2. b \in BindingTasks /\ b.pod \in Pods /\ Uid(b.pod) \in Uids
  BY TaskFacts, PodFacts DEF IInv
<1>3. c \in BindingTasks
  <2>1. f \in BOOLEAN /\ pc \in BindingPcs
    BY DEF Forgettable, BindingPcs
  <2>2. i \in Infos
    BY <1>2 DEF BindingTasks, Infos
  <2>3. c = [b EXCEPT !.forgotten = f, !.info = i, !.pc = pc]
    BY <1>2 DEF BindingTasks
  <2> HIDE DEF f, pc, i, c
  <2> QED BY <1>2, <2>1, <2>2, <2>3 DEF BindingTasks
<1> HIDE DEF f, pc, i, c
<1>4. bindings \ {b} \subseteq bindings' /\ bindings' \subseteq BindingTasks
  BY <1>1, <1>3, StepFacts DEF IInv
<1>5. QOK' /\ Alert /\ inFlightPods' = inFlightPods
  BY <1>1, QueueSame DEF IInv
<1>6. EnvOK' /\ UNCHANGED <<worker, preemptions, incs, store>>
  BY <1>1, EnvSame DEF IInv, aside, storeVars
<1>7. /\ CacheOK' /\ cache'[Uid(b.pod)] # "assumed"
      /\ \A v \in Uids : cache'[v] = "assumed" => cache[v] = "assumed"
  BY <1>1, <1>2, <1>6, ForgetFacts DEF IInv
<1>8. ASSUME NEW n \in Names, Pending(store[n]), cache'[Uid(store[n])] = "assumed"
      PROVE  cache[Uid(store[n])] = "assumed" /\ Uid(b.pod) # Uid(store[n])
  <2>1. Uid(store[n]) \in Uids
    BY <1>8, StoredFacts, PodFacts DEF IInv, Pending
  <2> QED BY <2>1, <1>7, <1>8
<1> QED BY <1>1, <1>4, <1>5, <1>6, <1>7, <1>8, TaskStep

(* A bind that takes effect leaves the pod bound, one that does not leaves   *)
(* the task in charge of the assumed pod.                                     *)
LEMMA BindInv == ASSUME IInv, NEW b \in bindings, Bind(b) PROVE IInv'
<1> DEFINE n == b.pod.name
           p == store[n]
           q == [p EXCEPT !.bound = TRUE, !.nom = FALSE]
           c == [b EXCEPT !.pc = "rebind"]
           d == [b EXCEPT !.pc = "abort"]
<1>1. /\ b.pc # "start" /\ UNCHANGED <<aside, queueVars, notified, incs, cache, spent>>
      /\ \/ p # NoPod /\ Write(q) /\ End(b)
         \/ Step(b, c) /\ UNCHANGED <<store, stream>>
         \/ Step(b, d) /\ UNCHANGED <<store, stream>>
  BY DEF Bind
<1>2. b \in BindingTasks /\ b.pod \in Pods /\ n \in Names
  BY TaskFacts, PodFacts DEF IInv
<1>3. QOK' /\ Alert /\ inFlightPods' = inFlightPods
  BY <1>1, QueueSame DEF IInv
<1>4. CacheOK' /\ UNCHANGED <<worker, preemptions, incs, cache>>
  BY <1>1, CacheSame DEF IInv, aside
<1>5. CASE p # NoPod /\ Write(q) /\ End(b)
  <2>1. p \in Pods /\ p.name = n
    BY <1>2, <1>5, StoredFacts DEF IInv
  <2>2. q \in Pods /\ q.name = n /\ Uid(q) = Uid(p) /\ q.bound
    BY <2>1 DEF Pods, Uid
  <2> HIDE DEF q
  <2>3. /\ StoreOK' /\ stream' \in Seq(Watched) /\ store'[n] = [q EXCEPT !.rv = @ + 1]
        /\ \A m \in Names \ {n} : store'[m] = store[m]
    BY <1>2, <1>4, <1>5, <2>2, RewriteFacts DEF IInv
  <2>4. ~Pending(store'[n])
    BY <2>2, <2>3 DEF Pending, Pods
  <2>5. EnvOK'
    BY <1>1, <2>3 DEF IInv, EnvOK, PreemptOK, InformerOK, aside, informerVars, preemptVars
  <2>6. bindings \ {b} \subseteq bindings' /\ bindings' \subseteq BindingTasks
    BY <1>5, EndFacts DEF IInv
  <2>7. ASSUME NEW m \in Names, Pending(store'[m])
        PROVE  Pending(store[m]) /\ Uid(store'[m]) = Uid(store[m]) /\ Uid(b.pod) # Uid(store[m])
    <3>1. m # n /\ store'[m] = store[m]
      BY <2>3, <2>4, <2>7
    <3>2. store[m].name = m
      BY <3>1, <2>7, StoredFacts DEF IInv, Pending
    <3> QED BY <3>1, <3>2, <2>7 DEF Uid
  <2> QED BY <1>1, <1>3, <1>4, <2>5, <2>6, <2>7, TaskStep
<1>6. CASE (Step(b, c) \/ Step(b, d)) /\ UNCHANGED <<store, stream>>
  <2>1. PICK e \in {c, d} : Step(b, e)
    BY <1>6
  <2>2. e \in BindingTasks /\ e.pod = b.pod /\ e.pc \in Binds
    BY <1>2 DEF BindingTasks, BindingPcs, Binds
  <2> HIDE DEF c, d
  <2>3. e \in bindings' /\ bindings \ {b} \subseteq bindings' /\ bindings' \subseteq BindingTasks
    BY <2>1, <2>2, StepFacts DEF IInv
  <2>4. EnvOK' /\ UNCHANGED store
    BY <1>1, <1>6, EnvSame DEF IInv, aside, storeVars
  <2> QED BY <1>1, <1>3, <1>4, <2>2, <2>3, <2>4, TaskStep
<1> QED BY <1>1, <1>5, <1>6

-----------------------------------------------------------------------------
(* Preemption tasks. *)

(* A step of a preemption task leaves worker, bindings and cache alone. *)
LEMMA PreemptionStep ==
    ASSUME IInv, QOK', Alert, inFlightPods' = inFlightPods, EnvOK', SameAssumable,
           preemptions' \subseteq PreemptionTasks,
           UNCHANGED <<worker, bindings, cache, incs>>
    PROVE  IInv'
<1>1. CacheOK'
  BY CacheSame DEF IInv
<1>2. WorkerOK' /\ WakeupNotLost'
  BY WorkerSame DEF IInv
<1>3. TasksOK'
  BY DEF IInv, TasksOK
<1>4. InFlightHeld'
  BY HeldSame DEF IInv
<1>5. AssumedIsBeingBound'
  BY AssumedSame DEF IInv, SameAssumable
<1> QED BY <1>1, <1>2, <1>3, <1>4, <1>5 DEF IInv

LEMMA PreemptionFacts ==
    ASSUME TasksOK, NEW t \in preemptions
    PROVE  t \in PreemptionTasks /\ t.pod \in Pods /\ Uid(t.pod) \in Uids /\ t.victim \in Names
BY PodFacts DEF TasksOK, PreemptionTasks

LEMMA PStepFacts ==
    ASSUME TasksOK, NEW t \in preemptions, NEW c \in PreemptionTasks, PStep(t, c)
    PROVE  preemptions' \subseteq PreemptionTasks
BY DEF TasksOK, PStep

LEMMA SetLastVictimInv == ASSUME IInv, NEW t \in preemptions, SetLastVictim(t) PROVE IInv'
<1> DEFINE c == [t EXCEPT !.pc = "evict"]
           v == [name |-> t.victim, gone |-> FALSE]
<1>1. /\ pendingVictim' = [pendingVictim EXCEPT ![Uid(t.pod)] = v] /\ PStep(t, c)
      /\ due' = [due EXCEPT ![Uid(t.pod)] = @ \ {PreemptPlugin}]
      /\ UNCHANGED <<queue, inFlightPods, inFlightEvents, since, preempting, notified,
                     informerVars, cache, worker, bindings, storeVars, spent>>
  BY DEF SetLastVictim
<1>2. t \in PreemptionTasks /\ Uid(t.pod) \in Uids /\ t.victim \in Names
  BY PreemptionFacts DEF IInv
<1>3. c \in PreemptionTasks /\ v \in [name : Names \cup {"none"}, gone : BOOLEAN]
  BY <1>2 DEF PreemptionTasks
<1> HIDE DEF c, v
<1>4. preemptions' \subseteq PreemptionTasks
  BY <1>1, <1>3, PStepFacts DEF IInv
<1>5. QOK' /\ Alert /\ inFlightPods' = inFlightPods
  <2>1. DueOK'
    BY <1>1, <1>2 DEF IInv, QOK, DueOK
  <2>2. Alert
    BY <1>1, NoNotify DEF IInv, QOK
  <2> QED BY <1>1, <2>1, <2>2 DEF IInv, QOK, QueueOK, ListOK, NotifyOK
<1>6. PreemptOK'
  BY <1>1, <1>2, <1>3 DEF IInv, EnvOK, PreemptOK
<1>7. EnvOK'
  BY <1>1, <1>6 DEF IInv, EnvOK, StoreOK, InformerOK, storeVars, informerVars
<1>8. UNCHANGED <<worker, bindings, cache, incs>> /\ SameAssumable
  BY <1>1 DEF storeVars, SameAssumable
<1> QED BY <1>4, <1>5, <1>7, <1>8, PreemptionStep

LEMMA EvictInv == ASSUME IInv, NEW t \in preemptions, Evict(t) PROVE IInv'
<1> DEFINE n == t.victim
           p == store[n]
           q == [p EXCEPT !.fin = TRUE]
           c == [t EXCEPT !.pc = "finish"]
           d == [t EXCEPT !.pc = "finish", !.failed = TRUE]
<1>1. /\ UNCHANGED <<away, preemptVars, spent>>
      /\ PStep(t, c) \/ PStep(t, d)
      /\ UNCHANGED <<store, stream>> \/ (p # NoPod /\ Write(q))
  BY DEF Evict
<1>2. t \in PreemptionTasks /\ n \in Names
  BY PreemptionFacts DEF IInv
<1>3. c \in PreemptionTasks /\ d \in PreemptionTasks
  BY <1>2 DEF PreemptionTasks
<1> HIDE DEF c, d
<1>4. preemptions' \subseteq PreemptionTasks
  BY <1>1, <1>3, PStepFacts DEF IInv
<1>5. QOK' /\ Alert /\ inFlightPods' = inFlightPods
  BY <1>1, QueueSame DEF IInv, away
<1>6. UNCHANGED <<worker, bindings, cache, incs>>
  BY <1>1 DEF away
<1>7. StoreOK' /\ stream' \in Seq(Watched) /\ SameAssumable
  <2>1. CASE UNCHANGED <<store, stream>>
    BY <2>1, <1>6 DEF IInv, EnvOK, StoreOK, InformerOK, SameAssumable
  <2>2. CASE p # NoPod /\ Write(q)
    <3>1. p \in Pods /\ p.name = n
      BY <1>2, <2>2, StoredFacts DEF IInv
    <3>2. q \in Pods /\ q.name = n /\ Uid(q) = Uid(p) /\ q.fin
      BY <3>1 DEF Pods, Uid
    <3> HIDE DEF q
    <3>3. /\ StoreOK' /\ stream' \in Seq(Watched) /\ store'[n] = [q EXCEPT !.rv = @ + 1]
          /\ \A m \in Names \ {n} : store'[m] = store[m]
      BY <1>2, <1>6, <2>2, <3>2, RewriteFacts DEF IInv
    <3>4. ~Pending(store'[n])
      BY <3>2, <3>3 DEF Pending, Pods
    <3>5. SameAssumable
      BY <3>3, <3>4 DEF SameAssumable
    <3> QED BY <3>3, <3>5
  <2> QED BY <1>1, <2>1, <2>2
<1>8. EnvOK'
  BY <1>1, <1>7 DEF IInv, EnvOK, PreemptOK, InformerOK, away, informerVars, preemptVars
<1> QED BY <1>4, <1>5, <1>6, <1>7, <1>8, PreemptionStep

LEMMA FinishPreemptionInv == ASSUME IInv, NEW t \in preemptions, FinishPreemption(t) PROVE IInv'
<1> DEFINE pc == IF t.failed THEN "activate" ELSE "drop"
           c == [t EXCEPT !.pc = pc]
<1>1. /\ preempting' = preempting \ {Uid(t.pod)}
      /\ pendingVictim' = [pendingVictim EXCEPT ![Uid(t.pod)] = NoVictim]
      /\ preemptions' = preemptions \ {t} \/ PStep(t, c)
      /\ UNCHANGED <<away, store, stream, spent>>
  BY DEF FinishPreemption
<1>2. t \in PreemptionTasks /\ Uid(t.pod) \in Uids
  BY PreemptionFacts DEF IInv
<1>3. c \in PreemptionTasks
  BY <1>2 DEF PreemptionTasks
<1> HIDE DEF c
<1>4. preemptions' \subseteq PreemptionTasks
  BY <1>1, <1>3, PStepFacts DEF IInv, TasksOK
<1>5. QOK' /\ Alert /\ inFlightPods' = inFlightPods
  BY <1>1, QueueSame DEF IInv, away
<1>6. PreemptOK'
  BY <1>1, <1>2 DEF IInv, EnvOK, PreemptOK, NoVictim
<1>7. EnvOK'
  BY <1>1, <1>6 DEF IInv, EnvOK, StoreOK, InformerOK, away, informerVars
<1>8. UNCHANGED <<worker, bindings, cache, incs>> /\ SameAssumable
  BY <1>1 DEF away, SameAssumable
<1> QED BY <1>4, <1>5, <1>7, <1>8, PreemptionStep

LEMMA ActivatePreemptorInv == ASSUME IInv, NEW t \in preemptions, ActivatePreemptor(t) PROVE IInv'
<1> DEFINE c == [t EXCEPT !.pc = "drop"]
<1>1. /\ Activate(t.pod) /\ PStep(t, c)
      /\ UNCHANGED <<preemptVars, storeVars, informerVars, cache, worker, bindings, spent>>
  BY DEF ActivatePreemptor
<1>2. t \in PreemptionTasks /\ t.pod \in Pods
  BY PreemptionFacts DEF IInv
<1>3. c \in PreemptionTasks
  BY <1>2 DEF PreemptionTasks
<1> HIDE DEF c
<1>4. preemptions' \subseteq PreemptionTasks
  BY <1>1, <1>3, PStepFacts DEF IInv
<1>5. QOK' /\ Alert /\ inFlightPods' = inFlightPods
  BY <1>1, <1>2, ActivateStep DEF IInv
<1>6. EnvOK' /\ UNCHANGED <<worker, bindings, cache, incs>> /\ SameAssumable
  BY <1>1, EnvSame DEF IInv, storeVars, SameAssumable
<1> QED BY <1>4, <1>5, <1>6, PreemptionStep

-----------------------------------------------------------------------------
(* The induction. *)

LEMMA InitInv == ASSUME Init PROVE IInv
<1>1. QueueOK
  <2>1. \A n \in Names : queue[n] = Nowhere /\ Nowhere \in Slots /\ Empty(Nowhere)
    BY NowhereFacts DEF Init, QInit
  <2>2. queue \in [Names -> Slots]
    BY NowhereFacts DEF Init, QInit
  <2> QED BY <2>1, <2>2, EmptyFacts DEF QueueOK
<1>2. ListOK
  <2>1. /\ inFlightPods = {} /\ inFlightEvents = <<>> /\ since = [u \in Uids |-> <<>>]
    BY DEF Init, QInit
  <2>2. Len(inFlightEvents) = 0 /\ 1..0 = {}
    BY <2>1
  <2>3. inFlightEvents \in Seq(Entries) /\ since \in [Uids -> Seq(Entries)]
    BY <2>1
  <2> QED BY <2>1, <2>2, <2>3 DEF ListOK, ListInv
<1>3. QOK
  BY <1>1, <1>2 DEF Init, QInit, QOK, DueOK, NotifyOK
<1>4. PreemptOK
  BY DEF Init, QInit, PreemptOK, NoVictim
<1>5. StoreOK
  <2>1. 1 \in 1..MaxInc /\ 1 \in 0..MaxInc /\ 1 \in Nat /\ 1 <= 1
    BY QueueAssumption
  <2>2. FirstPods \subseteq Pods /\ \A p \in FirstPods : p.inc = 1
    <3> SUFFICES ASSUME NEW p \in FirstPods PROVE p \in Pods /\ p.inc = 1
      OBVIOUS
    <3>1. PICK n \in Names, x \in {"pending", "gated", "bound"} :
            p = [name |-> n, inc |-> 1, gate |-> x = "gated", nom |-> FALSE,
                 bound |-> x = "bound", fin |-> FALSE, rv |-> 1]
      BY DEF FirstPods
    <3>2. (x = "gated") \in BOOLEAN /\ (x = "bound") \in BOOLEAN
      OBVIOUS
    <3> QED BY <2>1, <3>1, <3>2 DEF Pods
  <2>3. /\ store \in [Names -> FirstPods] /\ incs = [n \in Names |-> 1]
        /\ \A n \in Names : store[n].name = n
    BY DEF Init
  <2>4. store \in [Names -> Pods \cup {NoPod}] /\ incs \in [Names -> 0..MaxInc]
    BY <2>1, <2>2, <2>3
  <2>5. \A n \in Names : store[n].name = n /\ store[n].inc = 1 /\ incs[n] = 1
    BY <2>2, <2>3
  <2> QED BY <2>1, <2>4, <2>5 DEF StoreOK
<1>6. InformerOK /\ spent \in 0..MaxEvents
  BY SchedulerAssumption DEF Init, InformerOK
<1>7. CacheOK
  BY DEF Init, CacheOK
<1>8. WorkerOK
  BY DEF Init, WorkerOK, Pcs, InPop, HasRead
<1>9. TasksOK /\ WakeupNotLost /\ InFlightHeld /\ AssumedIsBeingBound
  <2>1. bindings = {} /\ preemptions = {} /\ worker.pc = "enable" /\ inFlightPods = {}
    BY DEF Init, QInit
  <2>2. \A n \in Names : Pending(store[n]) => cache[Uid(store[n])] # "assumed"
    <3> SUFFICES ASSUME NEW n \in Names, Pending(store[n]) PROVE cache[Uid(store[n])] # "assumed"
      OBVIOUS
    <3>1. Uid(store[n]) \in Uids
      BY <1>5, PodFacts DEF StoreOK, Pending
    <3> QED BY <3>1 DEF Init
  <2> QED BY <2>1, <2>2 DEF TasksOK, WakeupNotLost, InFlightHeld, AssumedIsBeingBound
<1> QED BY <1>3, <1>4, <1>5, <1>6, <1>7, <1>8, <1>9 DEF IInv, EnvOK

LEMMA StutterInv == ASSUME IInv, UNCHANGED vars PROVE IInv'
<1>1. QOK' /\ Alert /\ inFlightPods' = inFlightPods
  BY QueueSame DEF IInv, vars
<1>2. EnvOK'
  BY EnvSame DEF IInv, vars
<1>3. cache' \in Caches /\ FewerAssumed(cache')
  BY SameCache DEF vars
<1> QED BY <1>1, <1>2, <1>3, InformerStep DEF vars, storeVars

LEMMA NextInv == ASSUME IInv, Next PROVE IInv'
<1>1. CASE Informer
  BY <1>1, DeliverInv, ResyncInv, HandleListedInv, ListFailsInv, OpenWatchInv, WatchBreaksInv,
     QueueCallInv, TimersInv DEF Informer
<1>2. CASE Worker
  BY <1>2, PopPartInv, WorkerPopsInv, WorkerReadsInv, WorkerErrsInv, WorkerAssumesInv,
     AssumeRefusedInv, ReserveFailedInv, WorkerRejectsInv, WorkerPreemptsInv,
     WorkerNominatesInv, WorkerRereadsInv, RereadFailsInv, WorkerReturnsInv DEF Worker
<1>3. CASE FlushBackoff \/ FlushLeftover
  BY <1>3, TimersInv
<1>4. CASE \E b \in bindings : Binding(b)
  BY <1>4, BindingStartsInv, BindInv, BindFailsInv, AbortInv, BindingMovesInv,
     BindingRereadsInv, BindingReturnsInv DEF Binding
<1>5. CASE \E t \in preemptions : Preemption(t)
  BY <1>5, SetLastVictimInv, EvictInv, FinishPreemptionInv, ActivatePreemptorInv DEF Preemption
<1>6. CASE Users
  BY <1>6, CreatePodInv, RemoveGatesInv, RemovePodInv DEF Users
<1> QED BY <1>1, <1>2, <1>3, <1>4, <1>5, <1>6 DEF Next

(* The invariant holds in every state of every behaviour, for all sets of    *)
(* names and plugins and all bounds: the one argument behind the theorems    *)
(* below.                                                                     *)
THEOREM Invariance == Spec => []IInv
<1>1. Init => IInv
  BY InitInv
<1>2. IInv /\ [Next]_vars => IInv'
  BY NextInv, StutterInv
<1> QED BY <1>1, <1>2, PTL DEF Spec

(* The type invariant of the scheduler, its queue and the store. *)
THEOREM TypeCorrect == Spec => []TypeOK
BY Invariance, TypesHold, PTL

(* A name is in at most one of activeQ, the two backoff queues and           *)
(* unschedulablePods (scheduling_queue.rs), however the informer, the        *)
(* worker, the timers and the tasks interleave their calls.                  *)
THEOREM SinglePlace == Spec => []OnePlace
<1>1. IInv => OnePlace
  BY DEF IInv, QOK, QueueOK, GoodSlot, OnePlace
<1> QED BY <1>1, Invariance, PTL

(* unlockedDone prunes the list that all pods in flight share, and still     *)
(* each of them finds every event since its own pop, in order; with nothing  *)
(* in flight the list is empty.                                              *)
THEOREM EventsAreKept == Spec => []EventsKept
<1>1. IInv => EventsKept
  BY ListKeepsEvents DEF IInv, QOK
<1> QED BY <1>1, Invariance, PTL

(* No entry of in_flight_pods is leaked: the worker or a binding task that   *)
(* has just started will be done with it.                                    *)
THEOREM NoneLeaked == Spec => []InFlightHeld
<1>1. IInv => InFlightHeld
  BY DEF IInv
<1> QED BY <1>1, Invariance, PTL

(* pop registers for notifications before it looks at the queue, so the      *)
(* worker never sleeps through a pod that came in between.                   *)
THEOREM NoSleepThrough == Spec => []WakeupNotLost
<1>1. IInv => WakeupNotLost
  BY DEF IInv
<1> QED BY <1>1, Invariance, PTL

(* A pending pod the cache has assumed is with the worker, which forgets it, *)
(* or with a binding task that will bind or forget it (abort_assumed).       *)
THEOREM AssumedBound == Spec => []AssumedIsBeingBound
<1>1. IInv => AssumedIsBeingBound
  BY DEF IInv
<1> QED BY <1>1, Invariance, PTL

=============================================================================
